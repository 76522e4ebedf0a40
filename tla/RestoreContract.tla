--------------------------- MODULE RestoreContract ---------------------------
(***************************************************************************)
(* What the restorer promises, whatever locks, counters and traps it uses. *)
(* The harts prepare themselves from the checkpoint one by one; none       *)
(* resumes the checkpointed program before all are ready, and the shared   *)
(* timer is set once, from the moment all are ready.  Without a valid      *)
(* checkpoint nobody resumes: the harts boot the payload.  A hart may be   *)
(* lost (it traps, or it was built to stop): then nobody resumes.          *)
(***************************************************************************)
CONSTANT Harts

VARIABLES
  valid,                \* memory holds a checkpoint
  phase,                \* phase[h]: how far hart h is
  timerSet              \* the machine timer has the checkpoint's time

vars == <<valid, phase, timerSet>>

Init ==
  /\ valid \in BOOLEAN
  /\ phase = [h \in Harts |-> "booting"]
  /\ timerSet = FALSE

AllReady == \A h \in Harts : phase[h] \in {"ready", "resumed"}

Become(h, from, to) == phase[h] = from /\ phase' = [phase EXCEPT ![h] = to]

(* Hart h has the checkpoint's state in its registers. *)
Prepare(h) == valid /\ Become(h, "booting", "ready") /\ UNCHANGED <<valid, timerSet>>

(* Hart h never gets there. *)
Lose(h) == Become(h, "booting", "lost") /\ UNCHANGED <<valid, timerSet>>

SetTimer ==
  /\ AllReady /\ ~timerSet
  /\ timerSet' = TRUE
  /\ UNCHANGED <<valid, phase>>

Resume(h) == AllReady /\ Become(h, "ready", "resumed") /\ UNCHANGED <<valid, timerSet>>

Boot(h) == ~valid /\ Become(h, "booting", "payload") /\ UNCHANGED <<valid, timerSet>>

(* The machine is stopped by a hart that cannot go on: nobody still on the *)
(* way gets there.                                                         *)
Halt ==
  /\ \E h \in Harts : phase[h] = "booting"
  /\ phase' = [h \in Harts |-> IF phase[h] = "booting" THEN "lost" ELSE phase[h]]
  /\ UNCHANGED <<valid, timerSet>>

GetReady(h) == Prepare(h) \/ Lose(h) \/ Boot(h)

Next == SetTimer \/ Halt \/ \E h \in Harts : GetReady(h) \/ Resume(h)

(* Every hart gets somewhere, and once all are ready all resume and the    *)
(* timer is set.                                                           *)
Fairness ==
  /\ WF_vars(SetTimer)
  /\ \A h \in Harts : WF_vars(GetReady(h)) /\ WF_vars(Resume(h))

Spec == Init /\ [][Next]_vars /\ Fairness
=============================================================================
