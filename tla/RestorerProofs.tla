--------------------------- MODULE RestorerProofs ---------------------------
(***************************************************************************)
(* What TLAPS proves of Restorer: the types of its variables and six of    *)
(* the safety properties that the runs check on a few harts, for any       *)
(* finite set of harts, any set of checkpoints and any contents of .bss at *)
(* boot.                                                                   *)
(*                                                                         *)
(* The inductive invariant IInv has three layers. Rendezvous says that     *)
(* .bss is cleared before anybody uses it. On it rests that the two locks  *)
(* are exact, which makes the counter exact; and on the counter rests that *)
(* one hart at most finds itself the last one, and only when all have      *)
(* arrived (BarrierInv, TimerInv).                                         *)
(*                                                                         *)
(* The proofs go by what a step does to Loc, the step of a hart outside of *)
(* mt_printf: most steps leave all that the invariant mentions alone,      *)
(* which is shown once (QuietRest, SameBarrier).                           *)
(***************************************************************************)
EXTENDS Restorer, FiniteSetTheorems, TLAPS

(* The checkpoint in memory is one of the records Checkpoint describes.    *)
LEMMA CheckpointTypes ==
  ASSUME cpt \in Checkpoints
  PROVE  /\ cpt \in Checkpoint
         /\ cpt.valid \in BOOLEAN
         /\ \A h \in Harts : /\ cpt.allCpuNum[h] \in Nat
                             /\ cpt.mie[h] \in BOOLEAN
                             /\ cpt.badImm[h] \in BOOLEAN
BY CheckpointsAssumption DEF Checkpoint

(* Whatever .bss holds when the machine leaves reset, the variables have   *)
(* their types.                                                            *)
LEMMA InitType == Init => TypeOK
<1> SUFFICES ASSUME Init PROVE TypeOK
  OBVIOUS
<1>1. bss \in [BssWords -> Int]
  <2>1. bss \in [BssWords -> BootBss \cup {0}]
    BY DEF Init
  <2>2. BootBss \cup {0} \subseteq Int
    BY BootBssAssumption
  <2>3. QED
    BY <2>1, <2>2
<1>2. pc \in [Harts -> Pcs] /\ ret \in [Harts -> Pcs \ PrintfPcs]
  BY DEF Init, Entry, Pcs, PrintfPcs, FinalPcs
<1>3. QED
  BY <1>1, <1>2 DEF Init, TypeOK

(* Every step of the code keeps the types: only hart 0 clears words, the   *)
(* handler's line count stays between 0 and 5 and no call returns into     *)
(* mt_printf.                                                              *)
LEMMA NextType == TypeOK /\ [Next]_vars => TypeOK'
<1> SUFFICES ASSUME TypeOK, [Next]_vars PROVE TypeOK'
  OBVIOUS
<1> USE CheckpointTypes DEF TypeOK, Goto, CallPrintf, Store, shared, trap, Pcs, PrintfPcs, FinalPcs, BssWords
<1>1. ASSUME NEW h \in Harts, Printf(h) PROVE TypeOK'
  <2>1. CASE PrintfSpinEnds(h)
    BY <2>1 DEF PrintfSpinEnds
  <2>2. CASE PrintfTrylock(h)
    BY <2>2 DEF PrintfTrylock
  <2>3. CASE PrintfUnlock(h)
    BY <2>3 DEF PrintfUnlock
  <2>4. QED
    BY <1>1, <2>1, <2>2, <2>3 DEF Printf
<1>2. ASSUME NEW h \in Harts, Start(h) PROVE TypeOK'
  <2>1. CASE ClearBss(h)
    BY <2>1 DEF ClearBss
  <2>2. CASE OpenBssLock(h)
    BY <2>2 DEF OpenBssLock
  <2>3. CASE WaitBss(h)
    BY <2>3 DEF WaitBss
  <2>4. CASE EnableTrap(h)
    BY <2>4 DEF EnableTrap
  <2>5. CASE SelectRestore(h)
    BY <2>5 DEF SelectRestore
  <2>6. CASE SelectPayload(h)
    BY <2>6 DEF SelectPayload
  <2>7. CASE BadStartAddress(h)
    BY <2>7 DEF BadStartAddress, TakeTrap
  <2>8. CASE JumpPayload(h)
    BY <2>8 DEF JumpPayload
  <2>9. CASE Restart(h)
    BY <2>9 DEF Restart, Entry
  <2>10. CASE NoPayload(h)
    BY <2>10 DEF NoPayload
  <2>11. CASE Return(h)
    BY <2>11 DEF Return
  <2>12. QED
    BY <1>2, <2>1, <2>2, <2>3, <2>4, <2>5, <2>6, <2>7, <2>8, <2>9, <2>10, <2>11 DEF Start
<1>3. ASSUME NEW h \in Harts, RestoreHart(h) PROVE TypeOK'
  <2>1. CASE RestoreUpToMtvec(h)
    BY <2>1 DEF RestoreUpToMtvec
  <2>2. CASE RestoreRest(h)
    BY <2>2 DEF RestoreRest
  <2>3. CASE Fault(h)
    BY <2>3 DEF Fault, TakeTrap
  <2>4. CASE RejectTarget(h)
    BY <2>4 DEF RejectTarget
  <2>5. CASE SignalBadImm(h)
    BY <2>5 DEF SignalBadImm
  <2>6. CASE HandlerPrint(h)
    BY <2>6 DEF HandlerPrint
  <2>7. CASE HandlerSignal(h)
    BY <2>7 DEF HandlerSignal
  <2>8. QED
    BY <1>3, <2>1, <2>2, <2>3, <2>4, <2>5, <2>6, <2>7 DEF RestoreHart
<1>4. ASSUME NEW h \in Harts, Barrier(h) PROVE TypeOK'
  <2>1. CASE SpinEnds(h)
    BY <2>1 DEF SpinEnds
  <2>2. CASE Trylock(h)
    BY <2>2 DEF Trylock
  <2>3. CASE Count(h)
    BY <2>3 DEF Count
  <2>4. CASE Test(h)
    BY <2>4 DEF Test
  <2>5. CASE Unlock(h)
    BY <2>5 DEF Unlock
  <2>6. CASE AwaitRelease(h)
    BY <2>6 DEF AwaitRelease
  <2>7. CASE SetRelease(h)
    BY <2>7 DEF SetRelease
  <2>8. CASE RestoreMtime(h)
    BY <2>8 DEF RestoreMtime
  <2>9. CASE Leave(h)
    BY <2>9 DEF Leave
  <2>10. QED
    BY <1>4, <2>1, <2>2, <2>3, <2>4, <2>5, <2>6, <2>7, <2>8, <2>9 DEF Barrier
<1>5. ASSUME NEW h \in Harts, Interrupt(h) PROVE TypeOK'
  BY <1>5 DEF Interrupt, TakeTrap
<1>6. CASE UNCHANGED vars
  BY <1>6 DEF vars
<1>7. QED
  BY <1>1, <1>2, <1>3, <1>4, <1>5, <1>6 DEF Next, Step, Finished

-----------------------------------------------------------------------------
(* The inductive invariant.                                                *)

(* The steps of multicore_decode_restore and what follows it.              *)
RestorePcs ==
  {"restore", "restore_rest", "signal_bad_imm", "g_spin", "g_swap", "g_add",
   "test", "unlock_wait", "await_release", "unlock_release", "set_release",
   "restore_mtime", "leave", "running", "stopped"}

(* With a checkpoint nobody boots the payload, without one nobody          *)
(* restores.                                                               *)
Paths ==
  /\ cpt.valid => \A h \in Harts : Loc(h) # "jump_payload"
  /\ ~cpt.valid => /\ \A h \in Harts : Loc(h) \notin RestorePcs
                   /\ mtimeRestores = 0

(* Until hart 0 sets bss_lock it is in clear_bss, the others wait for it,  *)
(* and the words it has passed are 0. From then on nobody clears .bss.     *)
Rendezvous ==
  RunsOnce =>
    /\ reentered = {}
    /\ bss["bss_lock"] \in {0, 1}
    /\ \A h \in Harts : Loc(h) # "return" /\ (Loc(h) = "clear_bss" => h = 0)
    /\ Loc(0) = "clear_bss" <=> bss["bss_lock"] = 0
    /\ bss["bss_lock"] = 0 =>
         /\ pc[0] = "clear_bss"
         /\ \A h \in Harts \ {0} : pc[h] = "wait_bss"
         /\ \A w \in cleared : bss[w] = 0
         /\ mtimeRestores = 0

(* All harts of the machine have arrived at the barrier.                   *)
AllCounted == \A h \in Harts : Counted(h)

(* release_restore is 1, and a hart is past the test of the counter, only  *)
(* when all have arrived.                                                  *)
BarrierInv ==
  Opened /\ CoversMachine =>
    /\ \A h \in Harts : Loc(h) = "unlock_release" \/ Released(h) => AllCounted
    /\ bss["release_restore"] = 1 => AllCounted

(* h found itself the last one and has yet to write mtime.                 *)
Passing(h) == Loc(h) \in {"unlock_release", "set_release", "restore_mtime"}

(* The counter's value when the last hart that anybody waits for arrives.  *)
LastCount == IF CoversMachine THEN Cardinality(Harts) ELSE cpt.allCpuNum[0]

(* A hart has found itself the last one.                                   *)
Passed == mtimeRestores # 0 \/ \E h \in Harts : Passing(h)

(* Only one hart finds itself the last one: from then on the counter is at *)
(* least LastCount, and a hart that arrives later makes it larger before   *)
(* it tests it.                                                            *)
TimerInv ==
  Opened /\ Agreeing =>
    /\ mtimeRestores <= 1
    /\ \A g, h \in Harts : Passing(g) /\ Passing(h) => g = h
    /\ mtimeRestores # 0 => \A h \in Harts : ~Passing(h)
    /\ Passed => /\ bss["global_atomic_restore_counter"] >= LastCount
                 /\ \A h \in Harts : Loc(h) = "test" =>
                      bss["global_atomic_restore_counter"] > LastCount

IInv == TypeOK /\ Paths /\ Rendezvous /\ LocksExact /\ CounterExact /\ BarrierInv /\ TimerInv

-----------------------------------------------------------------------------
(* Where a step leaves the harts, not counting calls of mt_printf.         *)

(* A step of mt_printf leaves the caller where it is.                      *)
LEMMA PrintfLoc ==
  ASSUME TypeOK, NEW h \in Harts, Printf(h)
  PROVE  \A g \in Harts : Loc(g)' = Loc(g)
BY DEF TypeOK, Printf, PrintfSpinEnds, PrintfTrylock, PrintfUnlock, Goto, Loc, PrintfPcs, Pcs, FinalPcs

(* A step outside of mt_printf moves one hart, from one Loc to the other,  *)
(* and takes or gives back no mt_printf_lock.                              *)
LEMMA GotoLoc ==
  ASSUME TypeOK, NEW h \in Harts, NEW from, NEW to,
         from \notin PrintfPcs, to \notin PrintfPcs, Goto(h, from, to)
  PROVE  /\ Loc(h) = from /\ Loc(h)' = to /\ ~HoldsPrintfLock(h) /\ ~HoldsPrintfLock(h)'
         /\ \A g \in Harts \ {h} : pc'[g] = pc[g] /\ ret'[g] = ret[g]
         /\ \A g \in Harts \ {h} : Loc(g)' = Loc(g) /\ HoldsPrintfLock(g)' = HoldsPrintfLock(g)
BY DEF TypeOK, Goto, Loc, HoldsPrintfLock, PrintfPcs

(* So does a call of mt_printf, which starts without the lock.             *)
LEMMA CallLoc ==
  ASSUME TypeOK, NEW h \in Harts, NEW from, NEW back,
         from \notin PrintfPcs, CallPrintf(h, from, back)
  PROVE  /\ Loc(h) = from /\ Loc(h)' = back /\ ~HoldsPrintfLock(h) /\ ~HoldsPrintfLock(h)'
         /\ \A g \in Harts \ {h} : pc'[g] = pc[g] /\ ret'[g] = ret[g]
         /\ \A g \in Harts \ {h} : Loc(g)' = Loc(g) /\ HoldsPrintfLock(g)' = HoldsPrintfLock(g)
BY DEF TypeOK, CallPrintf, Loc, HoldsPrintfLock, PrintfPcs

(* A trap leaves the hart's step as it is, when it strays, or takes it     *)
(* from one of three steps into gcpt_trap_handler.                         *)
LEMMA TrapLoc ==
  ASSUME TypeOK, NEW h \in Harts, TakeTrap(h),
         pc[h] \in {"select", "restore", "restore_rest"} \/ mtvec[h] = "checkpoint"
  PROVE  \/ pc' = pc /\ ret' = ret /\ \A g \in Harts : Loc(g)' = Loc(g)
         \/ /\ Loc(h) \in {"select", "restore", "restore_rest"} /\ Loc(h)' = "handler"
            /\ ~HoldsPrintfLock(h) /\ ~HoldsPrintfLock(h)'
            /\ \A g \in Harts \ {h} : pc'[g] = pc[g] /\ ret'[g] = ret[g] /\ Loc(g)' = Loc(g)
BY DEF TypeOK, TakeTrap, Loc, HoldsPrintfLock, PrintfPcs

-----------------------------------------------------------------------------
(* The steps of a hart that is neither in the rendezvous nor in the        *)
(* barrier: they touch no shared word.                                     *)

Early == {"enable_trap", "select", "restore", "restore_rest", "signal_bad_imm",
          "handler", "g_spin", "g_swap", "jump_payload", "payload", "stopped"}

(* A step that writes no shared word and leaves each hart where it is or   *)
(* within Early.                                                           *)
Quiet ==
  /\ UNCHANGED <<cpt, bss, cleared, mtimeRestores, reentered>>
  /\ \A g \in Harts :
       \/ pc'[g] = pc[g] /\ ret'[g] = ret[g]
       \/ /\ Loc(g) \in Early /\ Loc(g)' \in Early
          /\ ~HoldsPrintfLock(g) /\ ~HoldsPrintfLock(g)'

(* The steps of gcpt_c_start after the rendezvous.                         *)
QuietStart(h) ==
  EnableTrap(h) \/ SelectRestore(h) \/ SelectPayload(h) \/ BadStartAddress(h) \/ JumpPayload(h)

(* Enabling the trap handler, choosing, restoring csrs, failing, and       *)
(* seeing the restore lock free are such steps.                            *)
LEMMA QuietSteps ==
  ASSUME TypeOK, NEW h \in Harts,
         QuietStart(h) \/ RestoreHart(h) \/ SpinEnds(h) \/ Interrupt(h)
  PROVE  Quiet
<1> USE DEF Quiet, Early, PrintfPcs, shared
<1>1. CASE EnableTrap(h)
  BY <1>1, GotoLoc DEF EnableTrap
<1>2. CASE SelectRestore(h)
  BY <1>2, GotoLoc DEF SelectRestore
<1>3. CASE SelectPayload(h)
  BY <1>3, CallLoc DEF SelectPayload
<1>4. CASE BadStartAddress(h)
  BY <1>4, TrapLoc DEF BadStartAddress, TakeTrap
<1>5. CASE JumpPayload(h)
  BY <1>5, GotoLoc DEF JumpPayload
<1>6. CASE RestoreUpToMtvec(h)
  BY <1>6, GotoLoc DEF RestoreUpToMtvec
<1>7. CASE RestoreRest(h)
  BY <1>7, GotoLoc DEF RestoreRest
<1>8. CASE Fault(h)
  BY <1>8, TrapLoc DEF Fault, TakeTrap
<1>9. CASE RejectTarget(h)
  BY <1>9, CallLoc DEF RejectTarget
<1>10. CASE SignalBadImm(h)
  BY <1>10, GotoLoc DEF SignalBadImm
<1>11. CASE HandlerPrint(h)
  BY <1>11, CallLoc DEF HandlerPrint
<1>12. CASE HandlerSignal(h)
  BY <1>12, GotoLoc DEF HandlerSignal
<1>13. CASE SpinEnds(h)
  BY <1>13, GotoLoc DEF SpinEnds
<1>14. CASE Interrupt(h)
  BY <1>14, TrapLoc DEF Interrupt, TakeTrap
<1>15. QED
  BY <1>1, <1>2, <1>3, <1>4, <1>5, <1>6, <1>7, <1>8, <1>9, <1>10, <1>11, <1>12, <1>13, <1>14
     DEF QuietStart, RestoreHart

(* The invariant but for types and paths: what the harts do together.      *)
Rest == Rendezvous /\ LocksExact /\ CounterExact /\ BarrierInv /\ TimerInv

(* What the invariant says of a hart outside mt_printf depends on its Loc; *)
(* all steps it takes in Early look the same.                              *)
SameStage(h) ==
  /\ Counted(h)' = Counted(h)
  /\ Released(h)' = Released(h)
  /\ Passing(h)' = Passing(h)
  /\ (Loc(h)' = "unlock_release") = (Loc(h) = "unlock_release")
  /\ (Loc(h)' = "test") = (Loc(h) = "test")

(* ... and the locks and the rendezvous see no difference either.          *)
SameClass(h) ==
  /\ SameStage(h)
  /\ HoldsRestoreLock(h)' = HoldsRestoreLock(h)
  /\ (Loc(h)' = "return") = (Loc(h) = "return")
  /\ (Loc(h)' = "clear_bss") = (Loc(h) = "clear_bss")

(* A hart that does not move, or moves within Early, keeps its class.      *)
LEMMA ClassOfLoc ==
  ASSUME NEW h \in Harts,
         Loc(h)' = Loc(h) \/ (Loc(h) \in Early /\ Loc(h)' \in Early)
  PROVE  SameClass(h)
<1>1. CASE Loc(h)' = Loc(h)
  BY <1>1 DEF SameClass, SameStage, HoldsRestoreLock, Counted, Released, Passing
<1>2. CASE Loc(h) \in Early /\ Loc(h)' \in Early
  BY <1>2 DEF SameClass, SameStage, HoldsRestoreLock, Counted, Released, Passing, Early
<1>3. QED
  BY <1>1, <1>2

(* A hart is past the rendezvous only if bss_lock is set.                  *)
LEMMA Busy ==
  ASSUME Rendezvous, RunsOnce, NEW h \in Harts, pc[h] \notin {"clear_bss", "wait_bss"}
  PROVE  Opened
BY DEF Rendezvous, Opened

(* While the harts keep their classes and the words of the barrier their   *)
(* values, the counter and the barrier stay as they are.                   *)
LEMMA SameBarrier ==
  ASSUME UNCHANGED <<cpt, mtimeRestores>>, Opened' => Opened,
         bss'["global_atomic_restore_counter"] = bss["global_atomic_restore_counter"],
         bss'["release_restore"] = bss["release_restore"],
         \A g \in Harts : SameStage(g)
  PROVE  /\ CounterExact => CounterExact'
         /\ BarrierInv => BarrierInv'
         /\ TimerInv => TimerInv'
<1>1. {g \in Harts : Counted(g)}' = {g \in Harts : Counted(g)}
  BY DEF SameStage
<1>2. CounterExact => CounterExact'
  BY <1>1 DEF CounterExact
<1>3. CoversMachine' = CoversMachine /\ Agreeing' = Agreeing /\ LastCount' = LastCount
  BY DEF CoversMachine, Agreeing, CountsAgree, LastCount
<1>4. BarrierInv => BarrierInv'
  BY <1>3 DEF BarrierInv, AllCounted, SameStage
<1>5. Passed' = Passed
  BY DEF Passed, SameStage
<1>6. TimerInv => TimerInv'
  BY <1>3, <1>5 DEF TimerInv, SameStage
<1>7. QED
  BY <1>2, <1>4, <1>6

(* Steps that are quiet keep the invariant.                                *)
LEMMA QuietRest == TypeOK /\ Rest /\ Quiet => Rest'
<1> SUFFICES ASSUME TypeOK, Rest, Quiet PROVE Rest'
  OBVIOUS
<1>1. \A g \in Harts : SameClass(g)
  BY ClassOfLoc DEF Quiet, Loc
<1>2. Opened' = Opened /\ RunsOnce' = RunsOnce
  BY DEF Opened, RunsOnce, Quiet
<1>3. Rendezvous'
  <2>1. \A g \in Harts : pc[g] \in {"clear_bss", "wait_bss"} => pc'[g] = pc[g]
    BY DEF Quiet, Loc, Early, PrintfPcs
  <2>2. QED
    BY <1>1, <1>2, <2>1, HartsAssumption DEF Rest, Rendezvous, Quiet, SameClass
<1>4. LocksExact'
  BY <1>1, <1>2 DEF Rest, LocksExact, Quiet, SameClass, HoldsPrintfLock
<1>5. CounterExact' /\ BarrierInv' /\ TimerInv'
  BY <1>1, <1>2, SameBarrier DEF SameClass, Rest, Quiet
<1>6. QED
  BY <1>3, <1>4, <1>5 DEF Rest

(* mt_printf: the swap that finds 0 finds nobody printing.                 *)
LEMMA PrintfRest == ASSUME TypeOK, Rest, NEW h \in Harts, Printf(h) PROVE Rest'
<1>1. \A g \in Harts : SameClass(g)
  BY PrintfLoc, ClassOfLoc
<1>2. /\ UNCHANGED <<cpt, mtimeRestores, reentered, cleared>>
      /\ \A w \in BssWords : w # "mt_printf_lock" => bss'[w] = bss[w]
      /\ pc[h] \in PrintfPcs
  BY DEF Printf, PrintfSpinEnds, PrintfTrylock, PrintfUnlock, Store, Goto, shared, TypeOK, BssWords, PrintfPcs
<1>3. Opened' = Opened /\ RunsOnce' = RunsOnce
  BY <1>2 DEF Opened, RunsOnce, BssWords
<1>4. RunsOnce => Opened
  BY <1>2, Busy DEF Rest, PrintfPcs
<1>5. Rendezvous'
  BY <1>1, <1>2, <1>3, <1>4, HartsAssumption DEF Rest, Rendezvous, Opened, SameClass, BssWords
<1>6. LocksExact'
  <2>1. CASE PrintfSpinEnds(h)
    BY <1>1, <1>3, <2>1 DEF PrintfSpinEnds, Goto, shared, TypeOK, Rest, LocksExact, SameClass, HoldsPrintfLock
  <2>2. CASE PrintfTrylock(h)
    BY <1>1, <1>3, <2>2 DEF PrintfTrylock, Goto, Store, BssWords, TypeOK, Rest, LocksExact, SameClass, HoldsPrintfLock
  <2>3. CASE PrintfUnlock(h)
    BY <1>1, <1>3, <2>3 DEF PrintfUnlock, Goto, Store, BssWords, TypeOK, Rest, LocksExact, SameClass, HoldsPrintfLock, PrintfPcs
  <2>4. QED
    BY <2>1, <2>2, <2>3 DEF Printf
<1>7. CounterExact' /\ BarrierInv' /\ TimerInv'
  BY <1>1, <1>2, <1>3, SameBarrier DEF SameClass, Rest, BssWords
<1>8. QED
  BY <1>5, <1>6, <1>7 DEF Rest

-----------------------------------------------------------------------------
(* The rendezvous.                                                         *)

(* Of a machine that starts over for ever the invariant says nothing.      *)
LEMMA NotOnce == ASSUME ~RunsOnce, UNCHANGED cpt PROVE Rest'
BY DEF RunsOnce, Opened, Rest, Rendezvous, LocksExact, CounterExact, BarrierInv, TimerInv

(* Before bss_lock is set only hart 0 moves, and it sets words to 0.       *)
LEMMA ClearBssRest == ASSUME TypeOK, Rest, NEW h \in Harts, ClearBss(h) PROVE Rest'
<1>1. CASE ~RunsOnce
  BY <1>1, NotOnce DEF ClearBss
<1>2. CASE RunsOnce
  <2>1. PICK w \in BssWords \ cleared :
          bss' = [bss EXCEPT ![w] = 0] /\ cleared' = cleared \cup {w}
    BY DEF ClearBss, Store
  <2>2. UNCHANGED <<cpt, pc, ret, mtimeRestores, reentered>> /\ pc[h] = "clear_bss"
    BY DEF ClearBss
  <2>3. bss["bss_lock"] = 0
    BY <1>2, <2>2, HartsAssumption DEF Rest, Rendezvous, Loc, PrintfPcs
  <2>4. bss'["bss_lock"] = 0
    BY <2>1, <2>3 DEF TypeOK, BssWords
  <2>5. \A v \in cleared' : bss'[v] = 0
    BY <1>2, <2>1, <2>3 DEF TypeOK, Rest, Rendezvous
  <2>6. Rendezvous'
    BY <1>2, <2>2, <2>3, <2>4, <2>5, HartsAssumption DEF RunsOnce, Rest, Rendezvous, Loc
  <2>7. ~Opened'
    BY <2>4 DEF Opened
  <2>8. QED
    BY <2>6, <2>7 DEF Rest, LocksExact, CounterExact, BarrierInv, TimerInv
<1>3. QED
  BY <1>1, <1>2

(* When bss_lock is set all words are 0 and nobody has used them.          *)
LEMMA OpenBssLockRest == ASSUME TypeOK, Rest, NEW h \in Harts, OpenBssLock(h) PROVE Rest'
<1>1. CASE ~RunsOnce
  BY <1>1, NotOnce DEF OpenBssLock
<1>2. CASE RunsOnce
  <2>1. /\ Loc(h) = "clear_bss" /\ Loc(h)' = "enable_trap" /\ ~HoldsPrintfLock(h)'
        /\ \A g \in Harts \ {h} : pc'[g] = pc[g] /\ ret'[g] = ret[g]
    BY CallLoc DEF OpenBssLock, PrintfPcs
  <2>2. h = 0 /\ bss["bss_lock"] = 0
    BY <1>2, <2>1, HartsAssumption DEF Rest, Rendezvous
  <2>3. \A g \in Harts : Loc(g)' \in {"enable_trap", "wait_bss"} /\ ~HoldsPrintfLock(g)'
    BY <1>2, <2>1, <2>2 DEF Rest, Rendezvous, Loc, HoldsPrintfLock, PrintfPcs
  <2>4. /\ UNCHANGED <<cpt, reentered>> /\ mtimeRestores' = 0
        /\ \A w \in BssWords : bss'[w] = IF w = "bss_lock" THEN 1 ELSE 0
    BY <1>2, <2>2 DEF OpenBssLock, Store, TypeOK, Rest, Rendezvous, BssWords
  <2>5. \A g \in Harts : /\ ~HoldsRestoreLock(g)' /\ ~Counted(g)' /\ ~Released(g)'
                         /\ ~Passing(g)' /\ Loc(g)' \notin {"unlock_release", "clear_bss", "return"}
    BY <2>3 DEF HoldsRestoreLock, Counted, Released, Passing
  <2>6. Rendezvous'
    BY <1>2, <2>3, <2>4, <2>5, HartsAssumption DEF Rest, Rendezvous, RunsOnce, BssWords
  <2>7. LocksExact'
    BY <2>3, <2>4, <2>5 DEF LocksExact, BssWords
  <2>8. CounterExact'
    <3>1. {g \in Harts : Counted(g)}' = {}
      BY <2>5
    <3>2. QED
      BY <2>4, <3>1, FS_EmptySet DEF CounterExact, BssWords
  <2>9. BarrierInv'
    BY <2>4, <2>5 DEF BarrierInv, BssWords
  <2>10. ~Passed'
    BY <2>4, <2>5 DEF Passed
  <2>11. TimerInv'
    BY <2>4, <2>5, <2>10 DEF TimerInv
  <2>12. QED
    BY <2>6, <2>7, <2>8, <2>9, <2>11 DEF Rest
<1>3. QED
  BY <1>1, <1>2

(* A hart passes the rendezvous into a call of mt_printf with bss_lock     *)
(* set.                                                                    *)
LEMMA WaitBssRest == ASSUME TypeOK, Rest, NEW h \in Harts, WaitBss(h) PROVE Rest'
<1>1. CASE ~RunsOnce
  BY <1>1, NotOnce DEF WaitBss
<1>2. CASE RunsOnce
  <2>1. /\ Loc(h) = "wait_bss" /\ Loc(h)' = "enable_trap"
        /\ ~HoldsPrintfLock(h) /\ ~HoldsPrintfLock(h)'
        /\ \A g \in Harts \ {h} : Loc(g)' = Loc(g) /\ HoldsPrintfLock(g)' = HoldsPrintfLock(g)
    BY CallLoc DEF WaitBss, PrintfPcs
  <2>2. UNCHANGED <<cpt, bss, cleared, mtimeRestores, reentered>> /\ bss["bss_lock"] # 0
    BY DEF WaitBss, shared
  <2>3. SameClass(h)
    BY <2>1 DEF SameClass, SameStage, HoldsRestoreLock, Counted, Released, Passing
  <2>4. \A g \in Harts : SameClass(g)
    BY <2>1, <2>3, ClassOfLoc
  <2>5. Opened' = Opened
    BY <2>2 DEF Opened, RunsOnce
  <2>6. Rendezvous'
    BY <1>2, <2>2, <2>4, HartsAssumption DEF Rest, Rendezvous, RunsOnce, SameClass
  <2>7. LocksExact'
    BY <2>1, <2>2, <2>4, <2>5 DEF Rest, LocksExact, SameClass
  <2>8. CounterExact' /\ BarrierInv' /\ TimerInv'
    BY <2>2, <2>4, <2>5, SameBarrier DEF SameClass, Rest
  <2>9. QED
    BY <2>6, <2>7, <2>8 DEF Rest
<1>3. QED
  BY <1>1, <1>2

(* A hart comes back into gcpt_c_start only without checkpoint and payload. *)
LEMMA ReentryRest ==
  ASSUME TypeOK, Paths, Rest, NEW h \in Harts, Restart(h) \/ NoPayload(h) \/ Return(h)
  PROVE  Rest'
<1>1. UNCHANGED cpt
  BY DEF Restart, NoPayload, Return
<1>2. ~RunsOnce
  <2>1. CASE Restart(h)
    BY <2>1 DEF Restart, Rest, Rendezvous
  <2>2. CASE NoPayload(h)
    BY <2>2, CallLoc DEF NoPayload, Paths, RunsOnce, PrintfPcs
  <2>3. CASE Return(h)
    BY <2>3 DEF Return, Goto, Loc, Rest, Rendezvous, PrintfPcs
  <2>4. QED
    BY <2>1, <2>2, <2>3
<1>3. QED
  BY <1>1, <1>2, NotOnce

-----------------------------------------------------------------------------
(* The barrier.                                                            *)

(* A hart in the barrier is past the rendezvous.                           *)
LEMMA PastRendezvous ==
  ASSUME TypeOK, Rest, RunsOnce, NEW h \in Harts, pc[h] \notin {"clear_bss", "wait_bss"},
         UNCHANGED <<cpt, reentered>>, bss'["bss_lock"] = bss["bss_lock"],
         Loc(h)' \notin {"clear_bss", "return"}, Loc(h) # "clear_bss",
         \A g \in Harts \ {h} : Loc(g)' = Loc(g)
  PROVE  Opened /\ Opened' /\ Rendezvous'
<1>1. Opened
  BY Busy DEF Rest
<1>2. Opened'
  BY <1>1 DEF Opened, RunsOnce
<1>3. Rendezvous'
  BY <1>1, <1>2, HartsAssumption DEF Rest, Rendezvous, Opened
<1>4. QED
  BY <1>1, <1>2, <1>3

(* The swap that finds 0 finds nobody with the restore lock.               *)
LEMMA TrylockRest == ASSUME TypeOK, Rest, RunsOnce, NEW h \in Harts, Trylock(h) PROVE Rest'
<1>1. /\ pc[h] = "g_swap" /\ Loc(h) = "g_swap" /\ ~HoldsPrintfLock(h) /\ ~HoldsPrintfLock(h)'
      /\ Loc(h)' = IF bss["globash_restore_lock"] = 0 THEN "g_add" ELSE "g_spin"
      /\ \A g \in Harts \ {h} : Loc(g)' = Loc(g) /\ HoldsPrintfLock(g)' = HoldsPrintfLock(g)
  BY DEF Trylock, Goto, Loc, HoldsPrintfLock, PrintfPcs, TypeOK
<1>2. /\ UNCHANGED <<cpt, reentered, mtimeRestores>>
      /\ bss' = [bss EXCEPT !["globash_restore_lock"] = -1]
  BY DEF Trylock, Store
<1>3. Opened /\ Opened' /\ Rendezvous'
  BY <1>1, <1>2, PastRendezvous DEF TypeOK, BssWords
<1>4. LocksExact'
  BY <1>1, <1>2, <1>3 DEF Rest, LocksExact, HoldsRestoreLock, TypeOK, BssWords
<1>5. \A g \in Harts : SameStage(g)
  BY <1>1 DEF SameStage, Counted, Released, Passing
<1>6. CounterExact' /\ BarrierInv' /\ TimerInv'
  BY <1>2, <1>3, <1>5, SameBarrier DEF Rest, TypeOK, BssWords
<1>7. QED
  BY <1>3, <1>4, <1>6 DEF Rest

(* The counter counts h, and it passes LastCount if h comes after the last. *)
LEMMA CountRest == ASSUME TypeOK, Rest, RunsOnce, NEW h \in Harts, Count(h) PROVE Rest'
<1> DEFINE cnt == bss["global_atomic_restore_counter"]
<1>1. /\ pc[h] = "g_add" /\ Loc(h) = "g_add" /\ Loc(h)' = "test"
      /\ ~HoldsPrintfLock(h) /\ ~HoldsPrintfLock(h)'
      /\ \A g \in Harts \ {h} : Loc(g)' = Loc(g) /\ HoldsPrintfLock(g)' = HoldsPrintfLock(g)
  BY CallLoc DEF Count, CallPrintf, PrintfPcs
<1>2. /\ UNCHANGED <<cpt, reentered, mtimeRestores>> /\ cnt \in Int /\ cnt' = cnt + 1
      /\ \A w \in BssWords \ {"global_atomic_restore_counter"} : bss'[w] = bss[w]
  BY DEF Count, Store, TypeOK, BssWords
<1>3. Opened /\ Opened' /\ Rendezvous'
  BY <1>1, <1>2, PastRendezvous DEF BssWords
<1>4. LocksExact'
  BY <1>1, <1>2, <1>3 DEF Rest, LocksExact, HoldsRestoreLock, BssWords
<1>5. CounterExact'
  <2> DEFINE C == {g \in Harts : Counted(g)}
  <2>1. C' = C \cup {h} /\ h \notin C
    BY <1>1 DEF Counted
  <2>2. IsFiniteSet(C)
    BY FS_Subset, HartsAssumption
  <2>3. Cardinality(C') = Cardinality(C) + 1
    <3> HIDE DEF C
    <3> QED
      BY <2>1, <2>2, FS_AddElement
  <2>4. QED
    BY <1>2, <1>3, <2>3 DEF Rest, CounterExact
<1>6. ~Counted(h) /\ \A g \in Harts \ {h} : SameStage(g)
  BY <1>1 DEF SameStage, Counted, Released, Passing
<1>7. CoversMachine' = CoversMachine /\ Agreeing' = Agreeing /\ LastCount' = LastCount
  BY <1>2 DEF CoversMachine, Agreeing, CountsAgree, LastCount
<1>8. ~Released(h) /\ ~Released(h)' /\ ~Passing(h) /\ ~Passing(h)'
  BY <1>1 DEF Released, Passing
<1>9. BarrierInv'
  BY <1>1, <1>2, <1>3, <1>6, <1>7, <1>8 DEF Rest, BarrierInv, AllCounted, SameStage, BssWords
<1>10. Passed' = Passed
  BY <1>2, <1>6, <1>8 DEF Passed, SameStage
<1>11. Passed /\ Agreeing => cnt >= LastCount
  BY <1>3 DEF Rest, TimerInv
<1>12. LastCount \in Int
  BY FS_CardinalityType, HartsAssumption, CheckpointTypes DEF LastCount, TypeOK
<1>13. TimerInv'
  <2>1. Passed' /\ Agreeing => cnt' >= LastCount /\ cnt' > LastCount
    BY <1>2, <1>10, <1>11, <1>12
  <2>2. QED
    BY <1>2, <1>3, <1>6, <1>7, <1>8, <2>1 DEF Rest, TimerInv, SameStage
<1>14. QED
  BY <1>3, <1>4, <1>5, <1>9, <1>13 DEF Rest

(* The hart that does not wait has counted the last one.                   *)
LEMMA LastHart ==
  ASSUME TypeOK, CounterExact, Opened, Agreeing, NEW h \in Harts, Loc(h) = "test", ~MustWait(h)
  PROVE  /\ bss["global_atomic_restore_counter"] = LastCount
         /\ CoversMachine => AllCounted
<1> DEFINE C == {g \in Harts : Counted(g)}
           cnt == bss["global_atomic_restore_counter"]
<1>1. cnt = Cardinality(C) /\ h \in C
  BY DEF CounterExact, Counted
<1>2. /\ IsFiniteSet(C) /\ Cardinality(C) \in Nat /\ Cardinality(Harts) \in Nat
      /\ Cardinality(C) <= Cardinality(Harts) /\ (Cardinality(C) = Cardinality(Harts) => C = Harts)
  <2>1. C \in SUBSET Harts
    OBVIOUS
  <2> HIDE DEF C
  <2>2. QED
    BY <2>1, FS_Subset, FS_CardinalityType, HartsAssumption
<1>3. cpt.allCpuNum[h] \in Nat
  BY CheckpointTypes DEF TypeOK
<1>4. CASE CoversMachine
  <2>1. C # {} /\ Cardinality(C) # 0
    BY <1>1, <1>2, FS_EmptySet
  <2>2. CASE Harts = {0}
    BY <1>1, <1>2, <1>4, <2>2 DEF LastCount, AllCounted
  <2>3. CASE cpt.allCpuNum[h] >= Cardinality(Harts)
    <3>1. cpt.allCpuNum[h] # 0
      BY <1>2, <1>3, <2>1, <2>3
    <3>2. cnt = Cardinality(Harts)
      BY <1>1, <1>2, <1>3, <2>3, <3>1 DEF MustWait
    <3>3. QED
      BY <1>1, <1>2, <1>4, <3>2 DEF LastCount, AllCounted
  <2>4. QED
    BY <1>4, <2>2, <2>3 DEF CoversMachine
<1>5. CASE ~CoversMachine
  BY <1>5 DEF Agreeing, CountsAgree, MustWait, LastCount
<1>6. QED
  BY <1>4, <1>5

(* A hart becomes the one that passes the barrier only if none did before. *)
LEMMA TestRest == ASSUME TypeOK, Rest, RunsOnce, NEW h \in Harts, Test(h) PROVE Rest'
<1>1. /\ pc[h] = "test" /\ Loc(h) = "test"
      /\ Loc(h)' = IF MustWait(h) THEN "unlock_wait" ELSE "unlock_release"
      /\ ~HoldsPrintfLock(h) /\ ~HoldsPrintfLock(h)'
      /\ \A g \in Harts \ {h} : Loc(g)' = Loc(g) /\ HoldsPrintfLock(g)' = HoldsPrintfLock(g)
  BY DEF Test, Goto, Loc, HoldsPrintfLock, PrintfPcs, TypeOK
<1>2. UNCHANGED <<cpt, bss, reentered, mtimeRestores>>
  BY DEF Test, shared
<1>3. Opened /\ Opened' /\ Rendezvous'
  BY <1>1, <1>2, PastRendezvous
<1>4. LocksExact'
  BY <1>1, <1>2, <1>3 DEF Rest, LocksExact, HoldsRestoreLock
<1>5. /\ Counted(h) /\ Counted(h)' /\ ~Released(h) /\ ~Released(h)' /\ ~Passing(h)
      /\ Passing(h)' = ~MustWait(h) /\ Loc(h)' # "test"
  BY <1>1 DEF Counted, Released, Passing
<1>6. \A g \in Harts \ {h} : SameStage(g) /\ Loc(g) # "test"
  BY <1>1, <1>3 DEF SameStage, Counted, Released, Passing, Rest, LocksExact, HoldsRestoreLock
<1>7. CoversMachine' = CoversMachine /\ Agreeing' = Agreeing /\ LastCount' = LastCount
  BY <1>2 DEF CoversMachine, Agreeing, CountsAgree, LastCount
<1>8. CounterExact'
  <2>1. {g \in Harts : Counted(g)}' = {g \in Harts : Counted(g)}
    BY <1>5, <1>6 DEF SameStage
  <2>2. QED
    BY <1>2, <1>3, <2>1 DEF Rest, CounterExact
<1>9. CoversMachine => Agreeing
  BY DEF Agreeing
<1>10. BarrierInv'
  <2>1. AllCounted' = AllCounted
    BY <1>5, <1>6 DEF AllCounted, SameStage
  <2>2. CoversMachine /\ ~MustWait(h) => AllCounted
    BY <1>1, <1>3, <1>9, LastHart DEF Rest
  <2>3. QED
    BY <1>1, <1>2, <1>3, <1>5, <1>6, <1>7, <2>1, <2>2 DEF Rest, BarrierInv, SameStage
<1>11. TimerInv'
  <2>1. SUFFICES ASSUME Agreeing PROVE TimerInv'
    BY <1>7 DEF TimerInv
  <2>2. LastCount \in Int /\ bss["global_atomic_restore_counter"] \in Int
    BY FS_CardinalityType, HartsAssumption, CheckpointTypes DEF LastCount, TypeOK, BssWords
  <2>3. CASE MustWait(h)
    <3>1. Passed' = Passed
      BY <1>2, <1>5, <1>6, <2>3 DEF Passed, SameStage
    <3>2. QED
      BY <1>2, <1>3, <1>5, <1>6, <1>7, <2>1, <2>3, <3>1 DEF Rest, TimerInv, SameStage
  <2>4. CASE ~MustWait(h)
    <3>1. bss["global_atomic_restore_counter"] = LastCount
      BY <1>1, <1>3, <2>1, <2>4, LastHart DEF Rest
    <3>2. ~Passed
      BY <1>1, <1>3, <2>1, <2>2, <3>1 DEF Rest, TimerInv
    <3>3. mtimeRestores' = 0 /\ \A g \in Harts \ {h} : ~Passing(g)' /\ Loc(g)' # "test"
      BY <1>2, <1>6, <3>2 DEF Passed, SameStage
    <3>4. QED
      BY <1>2, <1>5, <1>7, <2>2, <3>1, <3>3 DEF TimerInv
  <2>5. QED
    BY <2>3, <2>4
<1>12. QED
  BY <1>3, <1>4, <1>8, <1>10, <1>11 DEF Rest

(* The restore lock is given back by its holder, who is the only one.      *)
LEMMA UnlockRest == ASSUME TypeOK, Rest, RunsOnce, NEW h \in Harts, Unlock(h) PROVE Rest'
<1>1. /\ pc[h] \in {"unlock_wait", "unlock_release"} /\ Loc(h) = pc[h]
      /\ Loc(h)' = IF pc[h] = "unlock_wait" THEN "await_release" ELSE "set_release"
      /\ ~HoldsPrintfLock(h) /\ ~HoldsPrintfLock(h)'
      /\ \A g \in Harts \ {h} : Loc(g)' = Loc(g) /\ HoldsPrintfLock(g)' = HoldsPrintfLock(g)
  BY DEF Unlock, Goto, Loc, HoldsPrintfLock, PrintfPcs, TypeOK
<1>2. /\ UNCHANGED <<cpt, reentered, mtimeRestores>>
      /\ bss' = [bss EXCEPT !["globash_restore_lock"] = 0]
  BY DEF Unlock, Store
<1>3. Opened /\ Opened' /\ Rendezvous'
  BY <1>1, <1>2, PastRendezvous DEF TypeOK, BssWords
<1>4. LocksExact'
  BY <1>1, <1>2, <1>3 DEF Rest, LocksExact, HoldsRestoreLock, TypeOK, BssWords
<1>5. /\ \A g \in Harts : Counted(g)' = Counted(g) /\ Passing(g)' = Passing(g)
      /\ \A g \in Harts : (Loc(g)' = "test") = (Loc(g) = "test")
      /\ \A g \in Harts : (Loc(g) = "unlock_release" \/ Released(g))'
                           = (Loc(g) = "unlock_release" \/ Released(g))
  BY <1>1 DEF Counted, Released, Passing
<1>6. /\ CoversMachine' = CoversMachine /\ Agreeing' = Agreeing /\ LastCount' = LastCount
      /\ \A w \in BssWords \ {"globash_restore_lock"} : bss'[w] = bss[w]
  BY <1>2 DEF CoversMachine, Agreeing, CountsAgree, LastCount, TypeOK, BssWords
<1>7. CounterExact'
  <2>1. {g \in Harts : Counted(g)}' = {g \in Harts : Counted(g)}
    BY <1>5
  <2>2. QED
    BY <1>3, <1>6, <2>1 DEF Rest, CounterExact, BssWords
<1>8. BarrierInv'
  BY <1>3, <1>5, <1>6 DEF Rest, BarrierInv, AllCounted, BssWords
<1>9. Passed' = Passed
  BY <1>2, <1>5 DEF Passed
<1>10. TimerInv'
  BY <1>2, <1>3, <1>5, <1>6, <1>9 DEF Rest, TimerInv, BssWords
<1>11. QED
  BY <1>3, <1>4, <1>7, <1>8, <1>10 DEF Rest

(* The last steps: release_restore and mtime are written by the hart that  *)
(* passes, when all have been counted.                                     *)
LEMMA ReleaseRest ==
  ASSUME TypeOK, Rest, RunsOnce, NEW h \in Harts,
         AwaitRelease(h) \/ SetRelease(h) \/ RestoreMtime(h) \/ Leave(h)
  PROVE  Rest'
<1>1. /\ pc[h] \in {"await_release", "set_release", "restore_mtime", "leave"} /\ Loc(h) = pc[h]
      /\ Loc(h)' = IF pc[h] = "set_release" THEN "restore_mtime"
                   ELSE IF pc[h] = "leave" THEN "running" ELSE "leave"
      /\ ~HoldsPrintfLock(h) /\ ~HoldsPrintfLock(h)'
      /\ \A g \in Harts \ {h} : Loc(g)' = Loc(g) /\ HoldsPrintfLock(g)' = HoldsPrintfLock(g)
  BY DEF AwaitRelease, SetRelease, RestoreMtime, Leave, Goto, Loc, HoldsPrintfLock, PrintfPcs, TypeOK
<1>2. /\ UNCHANGED <<cpt, reentered>>
      /\ mtimeRestores' = mtimeRestores + IF pc[h] = "restore_mtime" THEN 1 ELSE 0
      /\ \A w \in BssWords \ {"release_restore"} : bss'[w] = bss[w]
      /\ bss'["release_restore"] = IF pc[h] = "set_release" THEN 1 ELSE bss["release_restore"]
      /\ pc[h] = "await_release" => bss["release_restore"] = 1
  BY DEF AwaitRelease, SetRelease, RestoreMtime, Leave, Goto, Store, shared, TypeOK, BssWords
<1>3. Opened /\ Opened' /\ Rendezvous'
  BY <1>1, <1>2, PastRendezvous DEF BssWords
<1>4. LocksExact'
  BY <1>1, <1>2, <1>3 DEF Rest, LocksExact, HoldsRestoreLock, BssWords
<1>5. /\ Counted(h) /\ Counted(h)' /\ Released(h)' /\ Released(h) = (pc[h] # "await_release")
      /\ Passing(h) = (pc[h] \in {"set_release", "restore_mtime"})
      /\ Passing(h)' = (pc[h] = "set_release")
      /\ \A g \in Harts : Loc(g)' # "test" \/ Loc(g) = "test"
      /\ \A g \in Harts \ {h} : SameStage(g)
  BY <1>1 DEF Counted, Released, Passing, SameStage
<1>6. CoversMachine' = CoversMachine /\ Agreeing' = Agreeing /\ LastCount' = LastCount
  BY <1>2 DEF CoversMachine, Agreeing, CountsAgree, LastCount
<1>7. CounterExact'
  <2>1. {g \in Harts : Counted(g)}' = {g \in Harts : Counted(g)}
    BY <1>5 DEF SameStage
  <2>2. QED
    BY <1>2, <1>3, <2>1 DEF Rest, CounterExact, BssWords
<1>8. BarrierInv'
  <2>1. AllCounted' = AllCounted
    BY <1>5 DEF AllCounted, SameStage
  <2>2. CoversMachine => AllCounted
    BY <1>2, <1>3, <1>5 DEF Rest, BarrierInv
  <2>3. QED
    BY <1>6, <2>1, <2>2 DEF BarrierInv
<1>9. TimerInv'
  <2>1. CASE pc[h] = "restore_mtime"
    <3>1. Passing(h) /\ ~Passing(h)' /\ Passed
      BY <1>5, <2>1 DEF Passed
    <3>2. Agreeing => mtimeRestores' = 1 /\ \A g \in Harts : ~Passing(g)'
      BY <1>2, <1>3, <1>5, <2>1, <3>1 DEF Rest, TimerInv, SameStage, TypeOK
    <3>3. QED
      BY <1>2, <1>3, <1>5, <1>6, <3>1, <3>2 DEF Rest, TimerInv, BssWords
  <2>2. CASE pc[h] # "restore_mtime"
    <3>1. mtimeRestores' = mtimeRestores
      BY <1>2, <2>2 DEF TypeOK
    <3>2. \A g \in Harts : Passing(g)' = Passing(g)
      BY <1>1, <1>5, <2>2 DEF SameStage
    <3>3. Passed' = Passed
      BY <3>1, <3>2 DEF Passed
    <3>4. QED
      BY <1>2, <1>3, <1>5, <1>6, <3>1, <3>2, <3>3 DEF Rest, TimerInv, BssWords
  <2>3. QED
    BY <2>1, <2>2
<1>10. QED
  BY <1>3, <1>4, <1>7, <1>8, <1>9 DEF Rest

-----------------------------------------------------------------------------
(* Only a checkpoint takes a hart into the restore.                        *)

(* No step takes a hart from the way to the payload to the one of the      *)
(* restore or back.                                                        *)
LEMMA NextPaths == TypeOK /\ Paths /\ [Next]_vars => Paths'
<1> SUFFICES ASSUME TypeOK, Paths, [Next]_vars PROVE Paths'
  OBVIOUS
<1>1. ASSUME NEW h \in Harts, Printf(h) PROVE Paths'
  BY <1>1, PrintfLoc DEF Paths, Printf, PrintfSpinEnds, PrintfTrylock, PrintfUnlock, shared
<1>2. ASSUME NEW h \in Harts, Start(h) PROVE Paths'
  <2> USE DEF Paths, RestorePcs, PrintfPcs, shared
  <2>1. CASE ClearBss(h)
    BY <2>1 DEF ClearBss, Loc
  <2>2. CASE OpenBssLock(h)
    BY <2>2, CallLoc DEF OpenBssLock
  <2>3. CASE WaitBss(h)
    BY <2>3, CallLoc DEF WaitBss
  <2>4. CASE EnableTrap(h)
    BY <2>4, GotoLoc DEF EnableTrap
  <2>5. CASE SelectRestore(h)
    BY <2>5, GotoLoc DEF SelectRestore
  <2>6. CASE SelectPayload(h)
    BY <2>6, CallLoc DEF SelectPayload
  <2>7. CASE BadStartAddress(h)
    BY <2>7, TrapLoc DEF BadStartAddress, TakeTrap
  <2>8. CASE JumpPayload(h)
    BY <2>8, GotoLoc DEF JumpPayload
  <2>9. CASE Restart(h)
    BY <2>9, GotoLoc DEF Restart, Entry
  <2>10. CASE NoPayload(h)
    BY <2>10, CallLoc DEF NoPayload
  <2>11. CASE Return(h)
    BY <2>11, GotoLoc DEF Return
  <2>12. QED
    BY <1>2, <2>1, <2>2, <2>3, <2>4, <2>5, <2>6, <2>7, <2>8, <2>9, <2>10, <2>11 DEF Start
<1>3. ASSUME NEW h \in Harts, RestoreHart(h) PROVE Paths'
  <2>1. CASE RestoreUpToMtvec(h)
    BY <2>1, GotoLoc DEF RestoreUpToMtvec, Paths, RestorePcs, PrintfPcs, shared
  <2>2. CASE RestoreRest(h)
    BY <2>2, GotoLoc DEF RestoreRest, Paths, RestorePcs, PrintfPcs, shared
  <2>3. CASE Fault(h)
    BY <2>3, TrapLoc DEF Fault, TakeTrap, Paths, RestorePcs, PrintfPcs, shared
  <2>4. CASE RejectTarget(h)
    BY <2>4, CallLoc DEF RejectTarget, Paths, RestorePcs, PrintfPcs, shared
  <2>5. CASE SignalBadImm(h)
    BY <2>5, GotoLoc DEF SignalBadImm, Paths, RestorePcs, PrintfPcs, shared
  <2>6. CASE HandlerPrint(h)
    BY <2>6, CallLoc DEF HandlerPrint, Paths, RestorePcs, PrintfPcs, shared
  <2>7. CASE HandlerSignal(h)
    BY <2>7, GotoLoc DEF HandlerSignal, Paths, RestorePcs, PrintfPcs, shared
  <2>8. QED
    BY <1>3, <2>1, <2>2, <2>3, <2>4, <2>5, <2>6, <2>7 DEF RestoreHart
<1>4. ASSUME NEW h \in Harts, Barrier(h) PROVE Paths'
  <2> USE DEF Paths, RestorePcs, PrintfPcs, shared
  <2>1. Loc(h) \in RestorePcs /\ Loc(h)' \in RestorePcs /\ UNCHANGED cpt
    BY <1>4 DEF Barrier, SpinEnds, Trylock, Count, CallPrintf, Test, Unlock, AwaitRelease,
                SetRelease, RestoreMtime, Leave, Goto, Loc, TypeOK
  <2>2. \A g \in Harts \ {h} : Loc(g)' = Loc(g)
    BY <1>4 DEF Barrier, SpinEnds, Trylock, Count, CallPrintf, Test, Unlock, AwaitRelease,
                SetRelease, RestoreMtime, Leave, Goto, Loc, TypeOK
  <2>3. QED
    BY <2>1, <2>2
<1>5. ASSUME NEW h \in Harts, Interrupt(h) PROVE Paths'
  BY <1>5, TrapLoc DEF Interrupt, TakeTrap, Paths, RestorePcs, shared
<1>6. CASE UNCHANGED vars
  BY <1>6 DEF vars, shared, Paths, Loc
<1>7. QED
  BY <1>1, <1>2, <1>3, <1>4, <1>5, <1>6 DEF Next, Step, Finished

-----------------------------------------------------------------------------
(* The invariant holds when the harts leave reset.                         *)
LEMMA InitInv == Init => IInv
<1> SUFFICES ASSUME Init PROVE IInv
  OBVIOUS
<1>1. TypeOK
  BY InitType
<1>2. /\ \A h \in Harts : pc[h] = Entry(h) /\ Loc(h) = Entry(h)
      /\ bss["bss_lock"] = 0 /\ mtimeRestores = 0 /\ reentered = {} /\ cleared = {}
  BY DEF Init, Entry, Loc, PrintfPcs
<1>3. Paths /\ Rendezvous
  BY <1>2, HartsAssumption DEF Entry, Paths, RestorePcs, Rendezvous
<1>4. ~Opened
  BY <1>2 DEF Opened
<1>5. QED
  BY <1>1, <1>3, <1>4 DEF IInv, LocksExact, CounterExact, BarrierInv, TimerInv

(* Every step of every hart, and every interrupt, keeps the invariant.     *)
LEMMA NextInv == IInv /\ [Next]_vars => IInv'
<1> SUFFICES ASSUME IInv, [Next]_vars PROVE IInv'
  OBVIOUS
<1>1. TypeOK /\ Paths /\ Rest /\ TypeOK' /\ Paths'
  BY NextType, NextPaths DEF IInv, Rest
<1>2. ASSUME NEW h \in Harts, Printf(h) PROVE Rest'
  BY <1>1, <1>2, PrintfRest
<1>3. ASSUME NEW h \in Harts, Start(h) PROVE Rest'
  BY <1>1, <1>3, ClearBssRest, OpenBssLockRest, WaitBssRest, ReentryRest, QuietSteps, QuietRest
     DEF Start, QuietStart
<1>4. ASSUME NEW h \in Harts, RestoreHart(h) PROVE Rest'
  BY <1>1, <1>4, QuietSteps, QuietRest
<1>5. ASSUME NEW h \in Harts, Barrier(h) PROVE Rest'
  <2>1. UNCHANGED cpt
    BY <1>5 DEF Barrier, SpinEnds, Trylock, Count, Test, Unlock, AwaitRelease, SetRelease,
                RestoreMtime, Leave
  <2>2. CASE ~RunsOnce
    BY <2>1, <2>2, NotOnce
  <2>3. CASE RunsOnce
    BY <1>1, <1>5, <2>3, QuietSteps, QuietRest, TrylockRest, CountRest, TestRest, UnlockRest,
       ReleaseRest DEF Barrier
  <2>4. QED
    BY <2>2, <2>3
<1>6. ASSUME NEW h \in Harts, Interrupt(h) PROVE Rest'
  BY <1>1, <1>6, QuietSteps, QuietRest
<1>7. ASSUME UNCHANGED vars PROVE Rest'
  <2>1. Quiet
    BY <1>7 DEF Quiet, vars, shared
  <2>2. QED
    BY <1>1, <2>1, QuietRest
<1>8. Rest'
  BY <1>2, <1>3, <1>4, <1>5, <1>6, <1>7 DEF Next, Step, Finished
<1>9. QED
  BY <1>1, <1>8 DEF IInv, Rest

(* The invariant holds for any set of harts, any checkpoint and any boot-  *)
(* time contents of .bss.                                                  *)
LEMMA Invariance == Spec => []IInv
BY InitInv, NextInv, PTL DEF Spec

(* The variables of the restorer keep their types, for any number of       *)
(* harts.                                                                  *)
THEOREM TypeCorrect == Spec => []TypeOK
BY Invariance, PTL DEF IInv

(* mt_printf_lock and globash_restore_lock (utils.c:8,                     *)
(* decode_restore.c:15) have at most one holder and say whether they have  *)
(* one, once .bss is cleared, for any number of harts and any garbage in   *)
(* .bss, also if harts trap or are interrupted with a lock held.           *)
THEOREM LocksAreExact == Spec => []LocksExact
BY Invariance, PTL DEF IInv

(* global_atomic_restore_counter (decode_restore.c:279) is the number of   *)
(* harts that have arrived: clear_bss and harts arriving together lose     *)
(* none.                                                                   *)
THEOREM CounterIsExact == Spec => []CounterExact
BY Invariance, PTL DEF IInv

(* No hart gets past the barrier of decode_restore.c:278-290 before all    *)
(* harts of the machine have arrived. The hart that finds the counter      *)
(* equal to all_cpu_num has counted everybody, and release_restore is set  *)
(* by that hart alone.                                                     *)
THEOREM BarrierIsSafe == Spec => []BarrierSafe
<1>1. IInv => BarrierSafe
  <2>1. SUFFICES ASSUME IInv, CoversMachine, NEW g \in Harts, NEW h \in Harts, Released(g)
                 PROVE  Counted(h)
    BY DEF BarrierSafe
  <2>2. cpt.valid
    BY <2>1 DEF IInv, Paths, Released, RestorePcs
  <2>3. pc[g] \notin {"clear_bss", "wait_bss"}
    BY <2>1 DEF Released, Loc, PrintfPcs
  <2>4. Opened
    BY <2>1, <2>2, <2>3, Busy DEF IInv, RunsOnce
  <2>5. QED
    BY <2>1, <2>4 DEF IInv, BarrierInv, AllCounted
<1>2. QED
  BY <1>1, Invariance, PTL

(* At most one hart writes mtime (decode_restore.c:289), even when the     *)
(* count the harts agree on is not that of the machine.                    *)
THEOREM MtimeIsRestoredOnce == Spec => []MtimeRestoredOnce
<1>1. IInv => MtimeRestoredOnce
  <2>1. SUFFICES ASSUME IInv, Agreeing PROVE mtimeRestores <= 1
    BY DEF MtimeRestoredOnce
  <2>2. CASE ~Opened
    <3>1. mtimeRestores = 0
      BY <2>1, <2>2 DEF Opened, RunsOnce, IInv, Paths, Rendezvous
    <3>2. QED
      BY <3>1
  <2>3. CASE Opened
    BY <2>1, <2>3 DEF IInv, TimerInv
  <2>4. QED
    BY <2>2, <2>3
<1>2. QED
  BY <1>1, Invariance, PTL

-----------------------------------------------------------------------------
(* Checkpoints that block the harts, and checkpoints that fail none.       *)

(* A step moves one hart.                                                  *)
LEMMA OneMoves ==
  ASSUME TypeOK, NEW h \in Harts, Step(h) \/ Interrupt(h)
  PROVE  \A g \in Harts \ {h} : Loc(g)' = Loc(g)
<1> SUFFICES ASSUME NEW g \in Harts \ {h} PROVE pc'[g] = pc[g] /\ ret'[g] = ret[g]
  BY DEF Loc
<1> USE DEF TypeOK, Goto, CallPrintf
<1>1. CASE Printf(h)
  BY <1>1 DEF Printf, PrintfSpinEnds, PrintfTrylock, PrintfUnlock
<1>2. CASE Start(h)
  BY <1>2 DEF Start, ClearBss, OpenBssLock, WaitBss, EnableTrap, SelectRestore, SelectPayload,
              BadStartAddress, TakeTrap, JumpPayload, Restart, NoPayload, Return
<1>3. CASE RestoreHart(h)
  BY <1>3 DEF RestoreHart, RestoreUpToMtvec, RestoreRest, Fault, TakeTrap, RejectTarget,
              SignalBadImm, HandlerPrint, HandlerSignal
<1>4. CASE Barrier(h)
  BY <1>4 DEF Barrier, SpinEnds, Trylock, Count, Test, Unlock, AwaitRelease, SetRelease,
              RestoreMtime, Leave
<1>5. CASE Interrupt(h)
  BY <1>5 DEF Interrupt, TakeTrap
<1>6. QED
  BY <1>1, <1>2, <1>3, <1>4, <1>5 DEF Step

(* Nobody writes the memory of the checkpoint.                             *)
LEMMA CheckpointKept == [Next]_vars => cpt' = cpt
BY DEF Next, Step, Interrupt, Finished, vars, Printf, PrintfSpinEnds, PrintfTrylock, PrintfUnlock,
       Start, ClearBss, OpenBssLock, WaitBss, EnableTrap, SelectRestore, SelectPayload,
       BadStartAddress, JumpPayload, Restart, NoPayload, Return, TakeTrap, RestoreHart,
       RestoreUpToMtvec, RestoreRest, Fault, RejectTarget, SignalBadImm, HandlerPrint,
       HandlerSignal, Barrier, SpinEnds, Trylock, Count, Test, Unlock, AwaitRelease, SetRelease,
       RestoreMtime, Leave

(* How far a hart gets that is built to stop or takes a fault late.        *)
StrandedPcs(h) ==
  {"clear_bss", "wait_bss", "enable_trap", "select", "handler"}
    \cup IF h = StopCpu THEN {"stopped"} ELSE {"restore", "restore_rest"}

(* The stranded harts never get to the barrier.                            *)
StrandedStay == cpt.valid => \A h \in Harts : Stranded(h) => Loc(h) \in StrandedPcs(h)

(* No step takes a stranded hart closer to the barrier: the hart to stop   *)
(* spins where it is told to restore, the fault comes before the restore   *)
(* lock.                                                                   *)
LEMMA StrandedStep ==
  ASSUME TypeOK, cpt.valid, NEW h \in Harts, Stranded(h), Loc(h) \in StrandedPcs(h),
         Step(h) \/ Interrupt(h)
  PROVE  Loc(h)' \in StrandedPcs(h)
<1> USE DEF StrandedPcs, PrintfPcs
<1>1. CASE Printf(h)
  BY <1>1, PrintfLoc
<1>2. CASE Start(h)
  <2>1. CASE ClearBss(h)
    BY <2>1 DEF ClearBss, Loc
  <2>2. CASE OpenBssLock(h)
    BY <2>2, CallLoc DEF OpenBssLock
  <2>3. CASE WaitBss(h)
    BY <2>3, CallLoc DEF WaitBss
  <2>4. CASE EnableTrap(h)
    BY <2>4, GotoLoc DEF EnableTrap
  <2>5. CASE SelectRestore(h)
    BY <2>5, GotoLoc DEF SelectRestore
  <2>6. CASE SelectPayload(h)
    BY <2>6 DEF SelectPayload
  <2>7. CASE BadStartAddress(h)
    BY <2>7, TrapLoc DEF BadStartAddress
  <2>8. CASE JumpPayload(h) \/ NoPayload(h)
    BY <2>8, GotoLoc, CallLoc DEF JumpPayload, NoPayload
  <2>9. CASE Restart(h) \/ Return(h)
    BY <2>9, GotoLoc DEF Restart, Return, Entry
  <2>10. QED
    BY <1>2, <2>1, <2>2, <2>3, <2>4, <2>5, <2>6, <2>7, <2>8, <2>9 DEF Start
<1>3. CASE RestoreHart(h)
  <2>1. CASE RestoreUpToMtvec(h)
    BY <2>1, GotoLoc DEF RestoreUpToMtvec
  <2>2. CASE RestoreRest(h)
    BY <2>2, GotoLoc DEF RestoreRest, Stranded
  <2>3. CASE Fault(h)
    BY <2>3, TrapLoc DEF Fault
  <2>4. CASE RejectTarget(h)
    BY <2>4, CallLoc DEF RejectTarget, Stranded
  <2>5. CASE SignalBadImm(h) \/ HandlerSignal(h)
    BY <2>5, GotoLoc DEF SignalBadImm, HandlerSignal
  <2>6. CASE HandlerPrint(h)
    BY <2>6, CallLoc DEF HandlerPrint
  <2>7. QED
    BY <1>3, <2>1, <2>2, <2>3, <2>4, <2>5, <2>6 DEF RestoreHart
<1>4. CASE Barrier(h)
  <2>1. pc[h] \in {"g_spin", "g_swap", "g_add", "test", "unlock_wait", "await_release",
                   "unlock_release", "set_release", "restore_mtime", "leave"}
    BY <1>4 DEF Barrier, SpinEnds, Trylock, Count, CallPrintf, Test, Unlock, AwaitRelease,
                SetRelease, RestoreMtime, Leave, Goto
  <2>2. QED
    BY <2>1 DEF Loc
<1>5. CASE Interrupt(h)
  BY <1>5, TrapLoc DEF Interrupt
<1>6. QED
  BY <1>1, <1>2, <1>3, <1>4, <1>5 DEF Step

(* Nor does a step of another hart.                                        *)
LEMMA NextStranded == TypeOK /\ StrandedStay /\ [Next]_vars => StrandedStay'
<1> SUFFICES ASSUME TypeOK, StrandedStay, [Next]_vars, cpt.valid, NEW h \in Harts, Stranded(h)
             PROVE  Loc(h)' \in StrandedPcs(h)
  BY CheckpointKept DEF StrandedStay, Stranded, StrandedPcs
<1>1. Loc(h) \in StrandedPcs(h)
  BY DEF StrandedStay
<1>2. ASSUME NEW g \in Harts, Step(g) \/ Interrupt(g) PROVE Loc(h)' \in StrandedPcs(h)
  BY <1>1, <1>2, StrandedStep, OneMoves
<1>3. CASE UNCHANGED vars
  BY <1>1, <1>3 DEF vars, Loc
<1>4. QED
  BY <1>2, <1>3 DEF Next, Finished

(* All areas ask for more harts than the machine has.                      *)
TooMany == \A h \in Harts : cpt.allCpuNum[h] > Cardinality(Harts)

Behind(h) == Loc(h) = "unlock_release" \/ Released(h)

(* Then no hart passes the test of the counter.                            *)
Blocked ==
  Opened /\ cpt.valid /\ TooMany =>
    bss["release_restore"] # 1 /\ \A h \in Harts : ~Behind(h)

(* A counter that says how many harts have arrived never reaches a number  *)
(* above that of all harts.                                                *)
LEMMA TooManyWait ==
  ASSUME IInv, Opened, TooMany, NEW h \in Harts
  PROVE  MustWait(h)
<1> DEFINE C == {g \in Harts : Counted(g)}
           n == Cardinality(C)
<1>1. bss["global_atomic_restore_counter"] = n
  BY DEF IInv, CounterExact
<1>2. n \in Nat /\ Cardinality(Harts) \in Nat /\ n <= Cardinality(Harts)
  <2>1. C \in SUBSET Harts
    OBVIOUS
  <2> HIDE DEF C
  <2>2. QED
    BY <2>1, FS_Subset, FS_CardinalityType, HartsAssumption
<1>3. cpt.allCpuNum[h] \in Nat /\ cpt.allCpuNum[h] > Cardinality(Harts)
  BY CheckpointTypes DEF IInv, TypeOK, TooMany
<1> HIDE DEF n
<1>4. QED
  BY <1>1, <1>2, <1>3 DEF MustWait

(* So the hart that tests it waits, and release_restore, which only a hart *)
(* behind the test sets, stays clear.                                      *)
LEMMA BlockedStep ==
  ASSUME IInv, Blocked, Opened, cpt.valid, TooMany, NEW h \in Harts, Step(h) \/ Interrupt(h)
  PROVE  bss'["release_restore"] # 1 /\ ~Behind(h)'
<1> USE DEF Behind, Released, PrintfPcs
<1>1. TypeOK /\ bss["release_restore"] # 1 /\ ~Behind(h)
  BY DEF IInv, Blocked
<1>2. CASE Printf(h)
  <2>1. bss'["release_restore"] = bss["release_restore"]
    BY <1>1, <1>2 DEF Printf, PrintfSpinEnds, PrintfTrylock, PrintfUnlock, Store, shared, TypeOK, BssWords
  <2>2. QED
    BY <1>1, <1>2, <2>1, PrintfLoc
<1>3. CASE QuietStart(h) \/ RestoreHart(h) \/ SpinEnds(h) \/ Interrupt(h)
  <2>1. Quiet
    BY <1>1, <1>3, QuietSteps
  <2>2. QED
    BY <1>1, <2>1, ClassOfLoc DEF Quiet, SameClass, SameStage, Loc
<1>4. CASE ClearBss(h) \/ OpenBssLock(h) \/ WaitBss(h)
  <2>1. Loc(h)' \in {"clear_bss", "enable_trap"}
    BY <1>1, <1>4, CallLoc DEF ClearBss, OpenBssLock, WaitBss, Loc
  <2>2. bss'["release_restore"] \in {0, bss["release_restore"]}
    BY <1>1, <1>4 DEF ClearBss, OpenBssLock, WaitBss, Store, shared, TypeOK, BssWords
  <2>3. QED
    BY <1>1, <2>1, <2>2
<1>5. CASE Restart(h) \/ NoPayload(h) \/ Return(h)
  <2>1. Loc(h)' \in {"clear_bss", "wait_bss", "return"} /\ UNCHANGED bss
    BY <1>1, <1>5, CallLoc, GotoLoc DEF Restart, NoPayload, Return, Entry, shared
  <2>2. QED
    BY <1>1, <2>1
<1>6. CASE Trylock(h)
  <2>1. Loc(h)' \in {"g_add", "g_spin"}
    BY <1>1, <1>6, GotoLoc DEF Trylock
  <2>2. bss'["release_restore"] = bss["release_restore"]
    BY <1>1, <1>6 DEF Trylock, Store, TypeOK, BssWords
  <2>3. QED
    BY <1>1, <2>1, <2>2
<1>7. CASE Count(h)
  <2>1. Loc(h)' = "test"
    BY <1>1, <1>7, CallLoc DEF Count
  <2>2. bss'["release_restore"] = bss["release_restore"]
    BY <1>1, <1>7 DEF Count, Store, TypeOK, BssWords
  <2>3. QED
    BY <1>1, <2>1, <2>2
<1>8. CASE Test(h)
  <2>1. Loc(h)' = "unlock_wait" /\ UNCHANGED bss
    BY <1>1, <1>8, TooManyWait, GotoLoc DEF Test, shared
  <2>2. QED
    BY <1>1, <2>1
<1>9. CASE Unlock(h)
  <2>1. Loc(h)' = "await_release"
    BY <1>1, <1>9, GotoLoc DEF Unlock
  <2>2. bss'["release_restore"] = bss["release_restore"]
    BY <1>1, <1>9 DEF Unlock, Store, TypeOK, BssWords
  <2>3. QED
    BY <1>1, <2>1, <2>2
<1>10. CASE AwaitRelease(h) \/ SetRelease(h) \/ RestoreMtime(h) \/ Leave(h)
  BY <1>1, <1>10, GotoLoc DEF AwaitRelease, SetRelease, RestoreMtime, Leave
<1>11. QED
  BY <1>2, <1>3, <1>4, <1>5, <1>6, <1>7, <1>8, <1>9, <1>10 DEF Step, Start, QuietStart, Barrier

(* The same from the moment bss_lock is set, when release_restore is 0.    *)
LEMMA NextBlocked == IInv /\ Blocked /\ [Next]_vars => Blocked'
<1> SUFFICES ASSUME IInv, Blocked, [Next]_vars, Opened', cpt.valid, TooMany PROVE
             bss'["release_restore"] # 1 /\ \A h \in Harts : ~Behind(h)'
  BY CheckpointKept DEF Blocked, TooMany
<1>0. TypeOK /\ Rendezvous /\ RunsOnce
  BY DEF IInv, RunsOnce
<1>1. CASE UNCHANGED vars
  <2>1. Opened
    BY <1>1 DEF vars, shared, Opened, RunsOnce
  <2>2. QED
    BY <1>1, <2>1 DEF vars, shared, Blocked, Behind, Released, Loc
<1>2. ASSUME NEW h \in Harts, Step(h) \/ Interrupt(h)
      PROVE  bss'["release_restore"] # 1 /\ \A g \in Harts : ~Behind(g)'
  <2>1. \A g \in Harts \ {h} : Loc(g)' = Loc(g)
    BY <1>0, <1>2, OneMoves
  <2>2. CASE Opened
    <3>1. \A g \in Harts : ~Behind(g)
      BY <2>2 DEF Blocked
    <3>2. QED
      BY <1>2, <2>1, <2>2, <3>1, BlockedStep DEF Behind, Released
  <2>3. CASE ~Opened
    <3>1. \A g \in Harts : pc[g] \in {"clear_bss", "wait_bss"} /\ Loc(g) = pc[g]
      BY <1>0, <2>3, Busy DEF Loc, PrintfPcs
    <3>2. bss["bss_lock"] = 0 /\ bss'["bss_lock"] = 1
      BY <1>0, <2>3 DEF Rendezvous, Opened
    <3>3. OpenBssLock(h)
      BY <1>0, <1>2, <3>1, <3>2
         DEF Step, Interrupt, Printf, PrintfSpinEnds, PrintfTrylock, PrintfUnlock, Start, ClearBss,
             WaitBss, EnableTrap, SelectRestore, SelectPayload, BadStartAddress, TakeTrap,
             JumpPayload, Restart, NoPayload, Return, RestoreHart, RestoreUpToMtvec, RestoreRest,
             Fault, RejectTarget, SignalBadImm, HandlerPrint, HandlerSignal, Barrier, SpinEnds,
             Trylock, Count, Test, Unlock, AwaitRelease, SetRelease, RestoreMtime, Leave, Goto,
             CallPrintf, Store, TypeOK, BssWords, shared
    <3>4. bss'["release_restore"] = 0
      BY <1>0, <3>2, <3>3, <3>1 DEF OpenBssLock, Store, TypeOK, BssWords, Rendezvous
    <3>5. Loc(h)' = "enable_trap"
      BY <1>0, <3>3, CallLoc DEF OpenBssLock, PrintfPcs
    <3>6. QED
      BY <2>1, <3>1, <3>4, <3>5 DEF Behind, Released
  <2>4. QED
    BY <2>2, <2>3
<1>3. QED
  BY <1>1, <1>2 DEF Next, Finished

(* With a hart built to stop or lost after its mtvec was replaced, or a    *)
(* checkpoint of more harts than the machine, nobody ever gets past the    *)
(* barrier (decode_restore.c:199-203, 282-288; README.md:11), for any      *)
(* number of harts.                                                        *)
THEOREM IncompleteIsBlocked == Spec => []IncompleteBlocks
<1>1. Init => StrandedStay /\ Blocked
  BY DEF Init, StrandedStay, StrandedPcs, Blocked, Opened, Entry, Loc, PrintfPcs
<1>2. IInv /\ StrandedStay /\ Blocked /\ [Next]_vars => StrandedStay' /\ Blocked'
  BY NextStranded, NextBlocked DEF IInv
<1>3. IInv /\ BarrierSafe /\ StrandedStay /\ Blocked => IncompleteBlocks
  <2>1. SUFFICES ASSUME IInv, BarrierSafe, StrandedStay, Blocked, cpt.valid, Incomplete,
                        NEW h \in Harts, Released(h)
                 PROVE  FALSE
    BY DEF IncompleteBlocks
  <2>2. Opened
    <3>1. pc[h] \notin {"clear_bss", "wait_bss"}
      BY <2>1 DEF Released, Loc, PrintfPcs
    <3>2. QED
      BY <2>1, <3>1, Busy DEF IInv, RunsOnce
  <2>3. CASE TooMany
    BY <2>1, <2>2, <2>3 DEF Blocked, Behind
  <2>4. CASE CoversMachine /\ \E g \in Harts : Stranded(g)
    <3>1. PICK g \in Harts : Stranded(g)
      BY <2>4
    <3>2. Counted(g)
      BY <2>1, <2>4 DEF BarrierSafe
    <3>3. QED
      BY <2>1, <3>1, <3>2 DEF StrandedStay, StrandedPcs, Counted
  <2>5. QED
    BY <2>1, <2>3, <2>4 DEF Incomplete, TooMany
<1>4. QED
  BY <1>1, <1>2, <1>3, Invariance, BarrierIsSafe, PTL DEF Spec

(* A hart on the way of a healthy checkpoint: MIE is off once mtvec is the *)
(* checkpoint's.                                                           *)
OnItsWay(h) ==
  /\ Loc(h) \notin {"stopped", "handler", "signal_bad_imm"}
  /\ mtvec[h] = "checkpoint" => ~mie[h]

HealthyInv ==
  Healthy => signal = "none" /\ strayed = {} /\ \A h \in Harts : OnItsWay(h)

(* No step loses the hart: the csr writes raise nothing, the jal reaches   *)
(* its target, and mstatus clears MIE in the step that replaces mtvec.     *)
LEMMA HealthyStep ==
  ASSUME TypeOK, Healthy, NEW h \in Harts, OnItsWay(h), h \notin reentered,
         Step(h) \/ Interrupt(h)
  PROVE  UNCHANGED <<signal, strayed>> /\ OnItsWay(h)'
<1> USE DEF OnItsWay, PrintfPcs, trap
<1>1. CASE Printf(h)
  BY <1>1, PrintfLoc DEF Printf, PrintfSpinEnds, PrintfTrylock, PrintfUnlock
<1>2. CASE Start(h)
  <2>1. CASE ClearBss(h)
    BY <2>1 DEF ClearBss, Loc
  <2>2. CASE OpenBssLock(h)
    BY <2>2, CallLoc DEF OpenBssLock
  <2>3. CASE WaitBss(h)
    BY <2>3, CallLoc DEF WaitBss
  <2>4. CASE EnableTrap(h)
    BY <2>4, GotoLoc DEF EnableTrap, TypeOK
  <2>5. CASE SelectRestore(h)
    BY <2>5, GotoLoc DEF SelectRestore, Healthy
  <2>6. CASE SelectPayload(h)
    BY <2>6 DEF SelectPayload, Healthy
  <2>7. CASE BadStartAddress(h)
    BY <2>7 DEF BadStartAddress
  <2>8. CASE JumpPayload(h)
    BY <2>8, GotoLoc DEF JumpPayload
  <2>9. CASE Restart(h)
    BY <2>9 DEF Restart
  <2>10. CASE NoPayload(h)
    BY <2>10, CallLoc DEF NoPayload
  <2>11. CASE Return(h)
    BY <2>11, GotoLoc DEF Return
  <2>12. QED
    BY <1>2, <2>1, <2>2, <2>3, <2>4, <2>5, <2>6, <2>7, <2>8, <2>9, <2>10, <2>11 DEF Start
<1>3. CASE RestoreHart(h)
  <2>1. CASE RestoreUpToMtvec(h)
    BY <2>1, GotoLoc DEF RestoreUpToMtvec, Healthy, TypeOK
  <2>2. CASE RestoreRest(h)
    BY <2>2, GotoLoc DEF RestoreRest
  <2>3. CASE Fault(h) \/ RejectTarget(h)
    BY <2>3 DEF Fault, RejectTarget, Healthy
  <2>4. CASE SignalBadImm(h) \/ HandlerPrint(h) \/ HandlerSignal(h)
    BY <2>4, GotoLoc, CallLoc DEF SignalBadImm, HandlerPrint, HandlerSignal
  <2>5. QED
    BY <1>3, <2>1, <2>2, <2>3, <2>4 DEF RestoreHart
<1>4. CASE Barrier(h)
  <2>1. UNCHANGED <<mie, mtvec, strayed, signal>>
    BY <1>4 DEF Barrier, SpinEnds, Trylock, Count, Test, Unlock, AwaitRelease, SetRelease,
                RestoreMtime, Leave
  <2>2. Loc(h)' \notin {"stopped", "handler", "signal_bad_imm"}
    BY <1>4 DEF Barrier, SpinEnds, Trylock, Count, CallPrintf, Test, Unlock, AwaitRelease,
                SetRelease, RestoreMtime, Leave, Goto, Loc, TypeOK
  <2>3. QED
    BY <2>1, <2>2
<1>5. CASE Interrupt(h)
  BY <1>5 DEF Interrupt, Healthy
<1>6. QED
  BY <1>1, <1>2, <1>3, <1>4, <1>5 DEF Step

(* The registers of a hart are its own.                                    *)
LEMMA OwnCsrs ==
  ASSUME TypeOK, NEW h \in Harts, Step(h) \/ Interrupt(h)
  PROVE  \A g \in Harts \ {h} : mie'[g] = mie[g] /\ mtvec'[g] = mtvec[g]
BY DEF TypeOK, trap, Step, Interrupt, TakeTrap, Printf, PrintfSpinEnds, PrintfTrylock,
       PrintfUnlock, Start, ClearBss, OpenBssLock, WaitBss, EnableTrap, SelectRestore,
       SelectPayload, BadStartAddress, JumpPayload, Restart, NoPayload, Return, RestoreHart,
       RestoreUpToMtvec, RestoreRest, Fault, RejectTarget, SignalBadImm, HandlerPrint,
       HandlerSignal, Barrier, SpinEnds, Trylock, Count, Test, Unlock, AwaitRelease, SetRelease,
       RestoreMtime, Leave

(* All harts stay on their way.                                            *)
LEMMA NextHealthy == IInv /\ HealthyInv /\ [Next]_vars => HealthyInv'
<1> SUFFICES ASSUME IInv, HealthyInv, [Next]_vars, Healthy
             PROVE  signal' = "none" /\ strayed' = {} /\ \A h \in Harts : OnItsWay(h)'
  BY CheckpointKept DEF HealthyInv, Healthy, CountsAgree
<1>1. TypeOK /\ reentered = {}
  BY DEF IInv, Rendezvous, RunsOnce, Healthy
<1>2. signal = "none" /\ strayed = {} /\ \A h \in Harts : OnItsWay(h)
  BY DEF HealthyInv
<1>3. ASSUME NEW h \in Harts, Step(h) \/ Interrupt(h)
      PROVE  signal' = "none" /\ strayed' = {} /\ \A g \in Harts : OnItsWay(g)'
  <2>1. UNCHANGED <<signal, strayed>> /\ OnItsWay(h)'
    BY <1>1, <1>2, <1>3, HealthyStep
  <2>2. \A g \in Harts \ {h} : OnItsWay(g)'
    BY <1>1, <1>2, <1>3, OneMoves, OwnCsrs DEF OnItsWay
  <2>3. QED
    BY <1>2, <2>1, <2>2
<1>4. CASE UNCHANGED vars
  BY <1>2, <1>4 DEF vars, trap, OnItsWay, Loc
<1>5. QED
  BY <1>3, <1>4 DEF Next, Finished

(* A checkpoint that every hart can restore stops none of them, at any     *)
(* number of harts: no signal, no trap and no interrupt before they leave  *)
(* (gcpt.c:84, csr.h:25).                                                   *)
THEOREM HealthyHartsGoOn == Spec => []HealthyGoesOn
<1>1. Init => HealthyInv
  BY DEF Init, HealthyInv, OnItsWay, Entry, Loc, PrintfPcs
<1>2. HealthyInv => HealthyGoesOn
  BY DEF HealthyInv, HealthyGoesOn, OnItsWay
<1>3. QED
  BY <1>1, <1>2, NextHealthy, Invariance, PTL DEF Spec
=============================================================================
