------------------------- MODULE RestorerRefinement -------------------------
(***************************************************************************)
(* The restorer keeps the promises of RestoreContract and uses its locks   *)
(* as SpinLock describes: every step of every hart is a step of theirs, or *)
(* changes nothing they know of.                                           *)
(***************************************************************************)
EXTENDS RestorerProofs

-----------------------------------------------------------------------------
(* The contract.                                                           *)

(* The steps that follow a call of mt_printf.                              *)
ReturnPcs == {"enable_trap", "jump_payload", "return", "signal_bad_imm", "handler", "test"}

(* mt_printf returns to one of its callers, and no hart calls it last      *)
(* before it leaves the restorer.                                          *)
Returns == \A h \in Harts : ret[h] \in ReturnPcs

(* No call has been made when the harts leave reset.                       *)
LEMMA InitReturns == Init => Returns
BY DEF Init, Returns, ReturnPcs

(* A call returns to its caller.                                           *)
LEMMA CallReturns ==
  ASSUME TypeOK, Returns, NEW h \in Harts, NEW from, NEW back \in ReturnPcs, CallPrintf(h, from, back)
  PROVE  Returns'
BY DEF TypeOK, Returns, CallPrintf

(* All calls of mt_printf have one of these callers.                       *)
LEMMA NextReturns == TypeOK /\ Returns /\ [Next]_vars => Returns'
<1> SUFFICES ASSUME TypeOK, Returns, [Next]_vars PROVE Returns'
  OBVIOUS
<1> USE DEF ReturnPcs
<1>1. ASSUME ret' = ret PROVE Returns'
  BY <1>1 DEF Returns
<1>2. ASSUME NEW h \in Harts, Printf(h) PROVE Returns'
  BY <1>1, <1>2 DEF Printf, PrintfSpinEnds, PrintfTrylock, PrintfUnlock, Goto
<1>3. ASSUME NEW h \in Harts, Start(h) PROVE Returns'
  <2>1. CASE OpenBssLock(h)
    BY <2>1, CallReturns DEF OpenBssLock
  <2>2. CASE WaitBss(h)
    BY <2>2, CallReturns DEF WaitBss
  <2>3. CASE SelectPayload(h)
    BY <2>3, CallReturns DEF SelectPayload
  <2>4. CASE NoPayload(h)
    BY <2>4, CallReturns DEF NoPayload
  <2>5. CASE ~(OpenBssLock(h) \/ WaitBss(h) \/ SelectPayload(h) \/ NoPayload(h))
    BY <1>1, <1>3, <2>5 DEF Start, ClearBss, EnableTrap, SelectRestore, BadStartAddress, TakeTrap,
                            JumpPayload, Restart, Return, Goto
  <2>6. QED
    BY <2>1, <2>2, <2>3, <2>4, <2>5
<1>4. ASSUME NEW h \in Harts, RestoreHart(h) PROVE Returns'
  <2>1. CASE RejectTarget(h)
    BY <2>1, CallReturns DEF RejectTarget
  <2>2. CASE HandlerPrint(h)
    BY <2>2, CallReturns DEF HandlerPrint
  <2>3. CASE ~(RejectTarget(h) \/ HandlerPrint(h))
    BY <1>1, <1>4, <2>3 DEF RestoreHart, RestoreUpToMtvec, RestoreRest, Fault, TakeTrap,
                            SignalBadImm, HandlerSignal, Goto
  <2>4. QED
    BY <2>1, <2>2, <2>3
<1>5. ASSUME NEW h \in Harts, Barrier(h) PROVE Returns'
  <2>1. CASE Count(h)
    BY <2>1, CallReturns DEF Count
  <2>2. CASE ~Count(h)
    BY <1>1, <1>5, <2>2 DEF Barrier, SpinEnds, Trylock, Test, Unlock, AwaitRelease, SetRelease,
                            RestoreMtime, Leave, Goto
  <2>3. QED
    BY <2>1, <2>2
<1>6. ASSUME NEW h \in Harts, Interrupt(h) PROVE Returns'
  BY <1>1, <1>6 DEF Interrupt, TakeTrap
<1>7. CASE UNCHANGED vars
  BY <1>1, <1>7 DEF vars
<1>8. QED
  BY <1>2, <1>3, <1>4, <1>5, <1>6, <1>7 DEF Next, Step, Finished

(* The checkpoint, if there is one, is for the harts of the machine.       *)
Fits == cpt.valid => CoversMachine

(* The steps of a hart that is counted: it is ready for RestoreContract.   *)
CountedPcs ==
  {"test", "unlock_wait", "await_release", "unlock_release",
   "set_release", "restore_mtime", "leave", "running"}

(* A hart that stays where it is, or moves without being counted or        *)
(* leaving the restorer, stays in its phase.                               *)
LEMMA SamePhase ==
  ASSUME NEW h \in Harts, signal' = signal, (h \in strayed') = (h \in strayed),
         \/ pc'[h] = pc[h] /\ ret'[h] = ret[h]
         \/ pc[h] \notin FinalPcs /\ pc'[h] \notin FinalPcs /\ Counted(h)' = Counted(h)
  PROVE  Phase(h)' = Phase(h)
<1>1. CASE pc'[h] = pc[h] /\ ret'[h] = ret[h]
  BY <1>1 DEF Phase, Counted, Loc
<1>2. CASE pc[h] \notin FinalPcs /\ pc'[h] \notin FinalPcs /\ Counted(h)' = Counted(h)
  BY <1>2 DEF Phase, FinalPcs
<1>3. QED
  BY <1>1, <1>2

(* Most steps change no phase: ...                                         *)
LEMMA GotoPhase ==
  ASSUME TypeOK, NEW h \in Harts, NEW from, NEW to, Goto(h, from, to),
         from \notin PrintfPcs \cup FinalPcs, to \notin PrintfPcs \cup FinalPcs,
         (from \in CountedPcs) = (to \in CountedPcs), signal' = signal, strayed' = strayed
  PROVE  \A g \in Harts : Phase(g)' = Phase(g)
<1>1. /\ Loc(h) = from /\ Loc(h)' = to
      /\ \A g \in Harts \ {h} : pc'[g] = pc[g] /\ ret'[g] = ret[g]
  BY GotoLoc
<1>2. pc[h] = from /\ pc'[h] = to
  BY DEF Goto, TypeOK
<1>3. Counted(h)' = Counted(h)
  BY <1>1 DEF Counted, CountedPcs
<1>4. QED
  BY <1>1, <1>2, <1>3, SamePhase

(* ... nor do most calls of mt_printf.                                     *)
LEMMA CallPhase ==
  ASSUME TypeOK, NEW h \in Harts, NEW from, NEW back, CallPrintf(h, from, back),
         from \notin PrintfPcs \cup FinalPcs, back \notin CountedPcs, from \notin CountedPcs,
         signal' = signal, strayed' = strayed
  PROVE  \A g \in Harts : Phase(g)' = Phase(g)
<1>1. /\ Loc(h) = from /\ Loc(h)' = back
      /\ \A g \in Harts \ {h} : pc'[g] = pc[g] /\ ret'[g] = ret[g]
  BY CallLoc
<1>2. pc[h] = from /\ pc'[h] = "mt_spin"
  BY DEF CallPrintf, TypeOK
<1>3. Counted(h)' = Counted(h)
  BY <1>1 DEF Counted, CountedPcs
<1>4. QED
  BY <1>1, <1>2, <1>3, SamePhase DEF FinalPcs

(* One hart changes its phase.                                             *)
LEMMA PhaseChange ==
  ASSUME NEW h \in Harts, NEW from, NEW to, Phase(h) = from, Phase(h)' = to,
         \A g \in Harts \ {h} : Phase(g)' = Phase(g)
  PROVE  Contract!Become(h, from, to)
BY DEF Contract!Become

(* A step of the contract, or none.                                        *)
ContractStep == Contract!Next \/ UNCHANGED Contract!vars

(* A step that changes no phase and does not set the timer.                *)
LEMMA ContractStutters ==
  ASSUME cpt' = cpt, (mtimeRestores' > 0) = (mtimeRestores > 0),
         \A g \in Harts : Phase(g)' = Phase(g)
  PROVE  ContractStep
BY DEF ContractStep, Contract!vars

(* A trap loses the hart, unless it was ready, or has the trap handler     *)
(* print before the machine stops.                                         *)
LEMMA TrapRefines ==
  ASSUME TypeOK, NEW h \in Harts, TakeTrap(h), signal = "none", h \notin strayed,
         pc[h] \in {"select", "restore", "restore_rest"} \/ mtvec[h] = "checkpoint",
         pc[h] \notin FinalPcs
  PROVE  ContractStep
<1>1. cpt' = cpt /\ mtimeRestores' = mtimeRestores /\ signal' = signal /\ ret' = ret
  BY DEF TakeTrap, shared
<1>2. CASE mtvec[h] = "gcpt"
  <2>1. pc' = [pc EXCEPT ![h] = "handler"] /\ strayed' = strayed
        /\ pc[h] \in {"select", "restore", "restore_rest"}
    BY <1>2 DEF TakeTrap
  <2>2. pc[h] \notin PrintfPcs /\ pc'[h] = "handler"
    BY <2>1 DEF PrintfPcs, TypeOK
  <2>3. \A g \in Harts \ {h} : pc'[g] = pc[g]
    BY <2>1 DEF TypeOK
  <2>4. Phase(h) = "booting" /\ Phase(h)' = "booting"
    BY <1>1, <2>1, <2>2 DEF Phase, Counted, Loc, PrintfPcs
  <2>5. \A g \in Harts \ {h} : Phase(g)' = Phase(g)
    BY <1>1, <2>1, <2>3, SamePhase
  <2>6. QED
    BY <1>1, <2>4, <2>5, ContractStutters
<1>3. CASE mtvec[h] # "gcpt"
  <2>1. pc' = pc /\ strayed' = strayed \cup {h}
    BY <1>3 DEF TakeTrap
  <2>2. \A g \in Harts \ {h} : Phase(g)' = Phase(g)
    BY <1>1, <2>1, SamePhase
  <2>3. CASE Counted(h)
    <3>1. Phase(h)' = Phase(h)
      BY <1>1, <2>1, <2>3 DEF Phase, Counted, Loc
    <3>2. QED
      BY <1>1, <2>2, <3>1, ContractStutters
  <2>4. CASE ~Counted(h)
    <3>1. Phase(h) = "booting" /\ Phase(h)' = "lost"
      BY <1>1, <2>1, <2>4 DEF Phase, Counted, Loc, FinalPcs
    <3>2. Contract!Become(h, "booting", "lost")
      BY <2>2, <3>1, PhaseChange
    <3>3. QED
      BY <1>1, <3>2 DEF ContractStep, Contract!Next, Contract!GetReady, Contract!Lose
  <2>5. QED
    BY <2>3, <2>4
<1>4. QED
  BY <1>2, <1>3

(* A hart that is neither strayed nor counted, in a running machine.       *)
LEMMA BootingPhase ==
  ASSUME NEW h \in Harts, signal = "none", h \notin strayed,
         pc[h] \notin FinalPcs, ~Counted(h)
  PROVE  Phase(h) = "booting"
BY DEF Phase, FinalPcs

(* nemu_signal stops all harts that are still on their way.                *)
LEMMA HaltRefines ==
  ASSUME TypeOK, NEW h \in Harts, NEW at, at \in {"signal_bad_imm", "handler"}, Goto(h, at, at),
         signal = "none", signal' # "none", h \notin strayed, UNCHANGED <<cpt, shared, trap>>
  PROVE  ContractStep
<1>1. pc' = pc /\ ret' = ret /\ pc[h] = at /\ Loc(h) = at
  BY DEF Goto, TypeOK, Loc, PrintfPcs
<1>2. UNCHANGED <<cpt, strayed, mtimeRestores>>
  BY DEF shared, trap
<1>3. Phase(h) = "booting"
  BY <1>1, BootingPhase DEF Counted, FinalPcs
<1>4. \A g \in Harts : Phase(g)' = IF Phase(g) = "booting" THEN "lost" ELSE Phase(g)
  BY <1>1, <1>2 DEF Phase, Counted, Loc
<1>5. Contract!Halt
  BY <1>2, <1>3, <1>4 DEF Contract!Halt
<1>6. QED
  BY <1>5 DEF ContractStep, Contract!Next

(* Printing changes nothing the contract knows.                            *)
LEMMA PrintfRefines ==
  ASSUME TypeOK, Returns, NEW h \in Harts, Printf(h)
  PROVE  ContractStep
<1>1. /\ UNCHANGED <<cpt, mtimeRestores, strayed, signal>> /\ ret' = ret
      /\ pc[h] \in PrintfPcs /\ pc'[h] \in PrintfPcs \cup ReturnPcs
      /\ \A g \in Harts \ {h} : pc'[g] = pc[g]
  BY DEF Printf, PrintfSpinEnds, PrintfTrylock, PrintfUnlock, Goto, shared, trap, TypeOK,
         Returns, PrintfPcs
<1>2. Counted(h)' = Counted(h)
  BY PrintfLoc DEF Counted
<1>3. Phase(h)' = Phase(h)
  BY <1>1, <1>2, SamePhase DEF PrintfPcs, ReturnPcs, FinalPcs
<1>4. \A g \in Harts \ {h} : Phase(g)' = Phase(g)
  BY <1>1, SamePhase
<1>5. QED
  BY <1>1, <1>3, <1>4, ContractStutters

(* Up to the choice of the path nobody gets anywhere; then the hart to     *)
(* stop is lost, and harts boot the payload.                               *)
LEMMA StartRefines ==
  ASSUME TypeOK, Paths, Returns, NEW h \in Harts, signal = "none", h \notin strayed, Start(h)
  PROVE  ContractStep
<1> USE DEF PrintfPcs, FinalPcs, CountedPcs, shared, trap
<1>1. CASE ClearBss(h)
  <2>1. \A g \in Harts : Phase(g)' = Phase(g)
    BY <1>1, SamePhase DEF ClearBss
  <2>2. QED
    BY <1>1, <2>1, ContractStutters DEF ClearBss
<1>2. CASE OpenBssLock(h)
  BY <1>2, CallPhase, ContractStutters DEF OpenBssLock
<1>3. CASE WaitBss(h)
  BY <1>3, CallPhase, ContractStutters DEF WaitBss
<1>4. CASE EnableTrap(h)
  BY <1>4, GotoPhase, ContractStutters DEF EnableTrap
<1>5. CASE SelectRestore(h)
  <2>1. CASE h # StopCpu
    BY <1>5, <2>1, GotoPhase, ContractStutters DEF SelectRestore
  <2>2. CASE h = StopCpu
    <3>1. /\ UNCHANGED <<cpt, mtimeRestores, strayed, signal>> /\ ret' = ret
          /\ pc[h] = "select" /\ pc'[h] = "stopped"
          /\ \A g \in Harts \ {h} : pc'[g] = pc[g]
      BY <1>5, <2>2 DEF SelectRestore, Goto, TypeOK
    <3>2. Phase(h) = "booting" /\ Phase(h)' = "lost"
      BY <3>1 DEF Phase, Counted, Loc
    <3>3. \A g \in Harts \ {h} : Phase(g)' = Phase(g)
      BY <3>1, SamePhase
    <3>4. Contract!Become(h, "booting", "lost")
      BY <3>2, <3>3, PhaseChange
    <3>5. QED
      BY <3>1, <3>4 DEF ContractStep, Contract!Next, Contract!GetReady, Contract!Lose
  <2>3. QED
    BY <2>1, <2>2
<1>6. CASE SelectPayload(h)
  BY <1>6, CallPhase, ContractStutters DEF SelectPayload
<1>7. CASE BadStartAddress(h)
  BY <1>7, TrapRefines DEF BadStartAddress
<1>8. CASE JumpPayload(h)
  <2>1. /\ UNCHANGED <<cpt, mtimeRestores, strayed, signal>> /\ ret' = ret
        /\ pc[h] = "jump_payload" /\ pc'[h] = "payload"
        /\ \A g \in Harts \ {h} : pc'[g] = pc[g]
    BY <1>8 DEF JumpPayload, Goto, TypeOK
  <2>2. Phase(h) = "booting" /\ Phase(h)' = "payload"
    BY <2>1 DEF Phase, Counted, Loc
  <2>3. \A g \in Harts \ {h} : Phase(g)' = Phase(g)
    BY <2>1, SamePhase
  <2>4. Contract!Become(h, "booting", "payload")
    BY <2>2, <2>3, PhaseChange
  <2>5. ~cpt.valid
    BY <2>1 DEF Paths, Loc
  <2>6. QED
    BY <2>1, <2>4, <2>5 DEF ContractStep, Contract!Next, Contract!GetReady, Contract!Boot
<1>9. CASE Restart(h)
  BY <1>9, GotoPhase, ContractStutters DEF Restart, Entry
<1>10. CASE NoPayload(h)
  BY <1>10, CallPhase, ContractStutters DEF NoPayload
<1>11. CASE Return(h)
  BY <1>11, GotoPhase, ContractStutters DEF Return
<1>12. QED
  BY <1>1, <1>2, <1>3, <1>4, <1>5, <1>6, <1>7, <1>8, <1>9, <1>10, <1>11 DEF Start

(* The restore of a hart: it fails, or goes on booting.                    *)
LEMMA RestoreHartRefines ==
  ASSUME TypeOK, NEW h \in Harts, signal = "none", h \notin strayed, RestoreHart(h)
  PROVE  ContractStep
<1> USE DEF PrintfPcs, FinalPcs, CountedPcs, shared, trap
<1>1. CASE RestoreUpToMtvec(h)
  BY <1>1, GotoPhase, ContractStutters DEF RestoreUpToMtvec
<1>2. CASE RestoreRest(h)
  BY <1>2, GotoPhase, ContractStutters DEF RestoreRest
<1>3. CASE Fault(h)
  BY <1>3, TrapRefines DEF Fault
<1>4. CASE RejectTarget(h)
  BY <1>4, CallPhase, ContractStutters DEF RejectTarget
<1>5. CASE SignalBadImm(h)
  BY <1>5, HaltRefines DEF SignalBadImm
<1>6. CASE HandlerPrint(h)
  BY <1>6, CallPhase, ContractStutters DEF HandlerPrint
<1>7. CASE HandlerSignal(h)
  BY <1>7, HaltRefines DEF HandlerSignal
<1>8. QED
  BY <1>1, <1>2, <1>3, <1>4, <1>5, <1>6, <1>7 DEF RestoreHart

(* A hart past the barrier finds all of them ready.                        *)
LEMMA ReadyWhenReleased ==
  ASSUME IInv, Fits, NEW h \in Harts, Released(h)
  PROVE  Contract!AllReady /\ Opened /\ Agreeing
<1>1. cpt.valid
  BY DEF IInv, Paths, Released, RestorePcs
<1>2. CoversMachine /\ RunsOnce
  BY <1>1 DEF Fits, RunsOnce
<1>3. Opened
  <2>1. pc[h] \notin {"clear_bss", "wait_bss"}
    BY DEF Released, Loc, PrintfPcs
  <2>2. QED
    BY <1>2, <2>1, Busy DEF IInv
<1>4. AllCounted
  BY <1>2, <1>3 DEF IInv, BarrierInv
<1>5. \A g \in Harts : Phase(g) \in {"ready", "resumed"}
  BY <1>4 DEF AllCounted, Phase
<1>6. QED
  BY <1>2, <1>3, <1>5 DEF Contract!AllReady, Agreeing

(* Count is Prepare, RestoreMtime is SetTimer and Leave is Resume: the     *)
(* barrier lets a hart do these when all are ready.                        *)
LEMMA BarrierRefines ==
  ASSUME IInv, Fits, NEW h \in Harts, signal = "none", h \notin strayed, Barrier(h)
  PROVE  ContractStep
<1> USE DEF PrintfPcs, FinalPcs, CountedPcs, shared, trap
<1>0. TypeOK /\ Paths
  BY DEF IInv
<1>1. CASE SpinEnds(h)
  BY <1>0, <1>1, GotoPhase, ContractStutters DEF SpinEnds
<1>2. CASE Trylock(h)
  <2>1. \A g \in Harts : Phase(g)' = Phase(g)
    <3>1. CASE bss["globash_restore_lock"] = 0
      BY <1>0, <1>2, <3>1, GotoPhase DEF Trylock
    <3>2. CASE bss["globash_restore_lock"] # 0
      BY <1>0, <1>2, <3>2, GotoPhase DEF Trylock
    <3>3. QED
      BY <3>1, <3>2
  <2>2. QED
    BY <1>2, <2>1, ContractStutters DEF Trylock
<1>3. CASE Count(h)
  <2>1. /\ UNCHANGED <<cpt, mtimeRestores, strayed, signal>>
        /\ pc[h] = "g_add" /\ Loc(h) = "g_add" /\ Loc(h)' = "test" /\ pc'[h] = "mt_spin"
        /\ \A g \in Harts \ {h} : pc'[g] = pc[g] /\ ret'[g] = ret[g]
    BY <1>0, <1>3, CallLoc DEF Count, CallPrintf, TypeOK
  <2>2. Phase(h) = "booting" /\ Phase(h)' = "ready"
    BY <2>1 DEF Phase, Counted
  <2>3. \A g \in Harts \ {h} : Phase(g)' = Phase(g)
    BY <2>1, SamePhase
  <2>4. Contract!Become(h, "booting", "ready")
    BY <2>2, <2>3, PhaseChange
  <2>5. cpt.valid
    BY <1>0, <2>1, CheckpointTypes DEF Paths, RestorePcs, TypeOK
  <2>6. QED
    BY <2>1, <2>4, <2>5 DEF ContractStep, Contract!Next, Contract!GetReady, Contract!Prepare
<1>4. CASE Test(h)
  <2>1. \A g \in Harts : Phase(g)' = Phase(g)
    <3>1. CASE MustWait(h)
      BY <1>0, <1>4, <3>1, GotoPhase DEF Test
    <3>2. CASE ~MustWait(h)
      BY <1>0, <1>4, <3>2, GotoPhase DEF Test
    <3>3. QED
      BY <3>1, <3>2
  <2>2. QED
    BY <1>4, <2>1, ContractStutters DEF Test
<1>5. CASE Unlock(h)
  BY <1>0, <1>5, GotoPhase, ContractStutters DEF Unlock
<1>6. CASE AwaitRelease(h)
  BY <1>0, <1>6, GotoPhase, ContractStutters DEF AwaitRelease
<1>7. CASE SetRelease(h)
  BY <1>0, <1>7, GotoPhase, ContractStutters DEF SetRelease
<1>8. CASE RestoreMtime(h)
  <2>1. \A g \in Harts : Phase(g)' = Phase(g)
    BY <1>0, <1>8, GotoPhase DEF RestoreMtime
  <2>2. Released(h) /\ Passing(h)
    BY <1>8 DEF RestoreMtime, Goto, Loc, Released, Passing
  <2>3. Contract!AllReady /\ mtimeRestores = 0
    BY <2>2, ReadyWhenReleased DEF IInv, TimerInv
  <2>4. cpt' = cpt /\ mtimeRestores' = 1
    BY <1>8, <2>3 DEF RestoreMtime
  <2>5. Contract!SetTimer
    BY <2>1, <2>3, <2>4 DEF Contract!SetTimer
  <2>6. QED
    BY <2>5 DEF ContractStep, Contract!Next
<1>9. CASE Leave(h)
  <2>1. /\ UNCHANGED <<cpt, mtimeRestores, strayed, signal>>
        /\ pc[h] = "leave" /\ pc'[h] = "running" /\ Loc(h) = "leave"
        /\ \A g \in Harts \ {h} : pc'[g] = pc[g] /\ ret'[g] = ret[g]
    BY <1>0, <1>9 DEF Leave, Goto, TypeOK, Loc
  <2>2. Phase(h) = "ready" /\ Phase(h)' = "resumed"
    BY <2>1 DEF Phase, Counted
  <2>3. \A g \in Harts \ {h} : Phase(g)' = Phase(g)
    BY <2>1, SamePhase
  <2>4. Contract!Become(h, "ready", "resumed")
    BY <2>2, <2>3, PhaseChange
  <2>5. Contract!AllReady
    BY <2>1, ReadyWhenReleased DEF Released
  <2>6. QED
    BY <2>1, <2>4, <2>5 DEF ContractStep, Contract!Next, Contract!Resume
<1>10. QED
  BY <1>1, <1>2, <1>3, <1>4, <1>5, <1>6, <1>7, <1>8, <1>9 DEF Barrier

(* Every step of the machine is a step of the contract or none.            *)
LEMMA NextRefines == IInv /\ Returns /\ Fits /\ [Next]_vars => ContractStep
<1> SUFFICES ASSUME IInv, Returns, Fits, [Next]_vars PROVE ContractStep
  OBVIOUS
<1>1. TypeOK /\ Paths
  BY DEF IInv
<1>2. ASSUME NEW h \in Harts, Step(h) PROVE ContractStep
  BY <1>1, <1>2, PrintfRefines, StartRefines, RestoreHartRefines, BarrierRefines DEF Step
<1>3. ASSUME NEW h \in Harts, Interrupt(h) PROVE ContractStep
  BY <1>1, <1>3, TrapRefines DEF Interrupt, FinalPcs
<1>4. ASSUME UNCHANGED vars PROVE ContractStep
  <2>1. \A g \in Harts : Phase(g)' = Phase(g)
    BY <1>4 DEF vars, shared, trap, Phase, Counted, Loc
  <2>2. QED
    BY <1>4, <2>1, ContractStutters DEF vars, shared
<1>5. QED
  BY <1>2, <1>3, <1>4 DEF Next, Finished

(* Out of reset all harts are booting.                                     *)
LEMMA InitRefines == Init => Contract!Init
<1> SUFFICES ASSUME Init PROVE Contract!Init
  OBVIOUS
<1>1. cpt.valid \in BOOLEAN /\ mtimeRestores = 0
  BY CheckpointTypes DEF Init
<1>2. \A h \in Harts : Phase(h) = "booting"
  BY DEF Init, Phase, Counted, Loc, Entry, PrintfPcs
<1>3. QED
  BY <1>1, <1>2 DEF Contract!Init

(* The locks, the counter and the traps of the restorer implement the      *)
(* contract as far as safety goes, for any number of harts: they get ready *)
(* one by one, resume only when all are (decode_restore.c:278-296), set    *)
(* the timer once, and a hart that fails keeps the others from resuming.   *)
(* The checkpoint has to fit the machine: with one of fewer harts the      *)
(* barrier opens early.                                                    *)
THEOREM KeepsContract ==
  Spec /\ Fits => Contract!Init /\ [][Contract!Next]_(Contract!vars)
<1>1. Fits /\ [Next]_vars => Fits'
  BY CheckpointKept DEF Fits, CoversMachine
<1>2. IInv /\ Returns /\ Fits /\ [Next]_vars => [Contract!Next]_(Contract!vars)
  BY NextRefines DEF ContractStep
<1>3. IInv /\ Returns /\ [Next]_vars => Returns'
  BY NextReturns DEF IInv
<1>4. QED
  BY <1>1, <1>2, <1>3, InitReturns, InitRefines, Invariance, PTL DEF Spec

-----------------------------------------------------------------------------
(* The locks.                                                              *)

(* Each instance of SpinLock sees a step of the restorer as a step of its  *)
(* own, or does not see it.                                                *)
PrintfLockStep == PrintfLock!Next \/ UNCHANGED PrintfLock!vars

RestoreLockStep == RestoreLock!Next \/ UNCHANGED RestoreLock!vars

(* A hart that moves in spinlock_lock or spinlock_unlock of a lock while   *)
(* the others stay where they are does what Goto of SpinLock says.         *)
LEMMA PrintfLockMove ==
  ASSUME NEW h \in Harts, NEW from, NEW to, PrintfPc(h) = from, PrintfPc(h)' = to,
         \A g \in Harts \ {h} : PrintfPc(g)' = PrintfPc(g)
  PROVE  PrintfLock!Goto(h, from, to)
BY DEF PrintfLock!Goto

(* The same for the restore lock.                                          *)
LEMMA RestoreLockMove ==
  ASSUME NEW h \in Harts, NEW from, NEW to, RestoreLockPc(h) = from, RestoreLockPc(h)' = to,
         \A g \in Harts \ {h} : RestoreLockPc(g)' = RestoreLockPc(g)
  PROVE  RestoreLock!Goto(h, from, to)
BY DEF RestoreLock!Goto

(* Where a hart is in a lock depends on its own steps only.                *)
LEMMA LockPcs ==
  ASSUME NEW h \in Harts, pc'[h] = pc[h], ret'[h] = ret[h]
  PROVE  PrintfPc(h)' = PrintfPc(h) /\ RestoreLockPc(h)' = RestoreLockPc(h)
BY DEF PrintfPc, RestoreLockPc, HoldsPrintfLock, HoldsRestoreLock, Loc

(* A step outside of mt_printf does not concern its lock.                  *)
LEMMA PrintfLockGoto ==
  ASSUME TypeOK, NEW h \in Harts, NEW from, NEW to, Goto(h, from, to),
         from \notin PrintfPcs, to \notin PrintfPcs,
         bss'["mt_printf_lock"] = bss["mt_printf_lock"]
  PROVE  PrintfLockStep
<1>1. /\ pc[h] = from /\ pc'[h] = to
      /\ \A g \in Harts \ {h} : pc'[g] = pc[g] /\ ret'[g] = ret[g]
  BY DEF Goto, TypeOK
<1>2. PrintfPc(h)' = PrintfPc(h)
  BY <1>1 DEF PrintfPc, HoldsPrintfLock, PrintfPcs
<1>3. QED
  BY <1>1, <1>2, LockPcs DEF PrintfLockStep, PrintfLock!vars

(* A call of mt_printf is a call of spinlock_lock.                         *)
LEMMA PrintfLockCall ==
  ASSUME TypeOK, NEW h \in Harts, NEW from, NEW back, CallPrintf(h, from, back),
         from \notin PrintfPcs, bss'["mt_printf_lock"] = bss["mt_printf_lock"]
  PROVE  PrintfLockStep
<1>1. /\ pc[h] = from /\ pc'[h] = "mt_spin"
      /\ \A g \in Harts \ {h} : pc'[g] = pc[g] /\ ret'[g] = ret[g]
  BY DEF CallPrintf, TypeOK
<1>2. PrintfPc(h) = "idle" /\ PrintfPc(h)' = "spin"
  BY <1>1 DEF PrintfPc, HoldsPrintfLock, PrintfPcs
<1>3. PrintfLock!Goto(h, "idle", "spin")
  BY <1>1, <1>2, LockPcs, PrintfLockMove
<1>4. QED
  BY <1>3 DEF PrintfLockStep, PrintfLock!Next, PrintfLock!Call

(* mt_printf takes and gives back its lock as spinlock_t says: the swap    *)
(* writes -1 whether it finds 0 or not (spinlock.h:34-40).                 *)
LEMMA PrintfLockPrintf ==
  ASSUME TypeOK, NEW h \in Harts, Printf(h)
  PROVE  PrintfLockStep
<1> USE DEF Goto, TypeOK
<1>1. \A g \in Harts \ {h} : pc'[g] = pc[g] /\ ret'[g] = ret[g]
  BY DEF Printf, PrintfSpinEnds, PrintfTrylock, PrintfUnlock
<1>2. \A g \in Harts \ {h} : PrintfPc(g)' = PrintfPc(g)
  BY <1>1, LockPcs
<1> USE DEF PrintfPc, HoldsPrintfLock, PrintfPcs
<1>3. CASE PrintfSpinEnds(h)
  <2>1. PrintfPc(h) = "spin" /\ PrintfPc(h)' = "swap"
    BY <1>3 DEF PrintfSpinEnds
  <2>2. PrintfLock!Goto(h, "spin", "swap")
    BY <1>2, <2>1, PrintfLockMove
  <2>3. PrintfLock!SpinEnds(h)
    BY <1>3, <2>2 DEF PrintfSpinEnds, PrintfLock!SpinEnds, shared
  <2>4. QED
    BY <2>3 DEF PrintfLockStep, PrintfLock!Next, PrintfLock!Step
<1>4. CASE PrintfTrylock(h) /\ bss["mt_printf_lock"] = 0
  <2>1. PrintfPc(h) = "swap" /\ PrintfPc(h)' = "held" /\ bss'["mt_printf_lock"] = -1
    BY <1>4 DEF PrintfTrylock, Store, BssWords
  <2>2. PrintfLock!Goto(h, "swap", "held")
    BY <1>2, <2>1, PrintfLockMove
  <2>3. PrintfLock!TrylockGets(h)
    BY <1>4, <2>1, <2>2 DEF PrintfLock!TrylockGets
  <2>4. QED
    BY <2>3 DEF PrintfLockStep, PrintfLock!Next, PrintfLock!Step
<1>5. CASE PrintfTrylock(h) /\ bss["mt_printf_lock"] # 0
  <2>1. PrintfPc(h) = "swap" /\ PrintfPc(h)' = "spin" /\ bss'["mt_printf_lock"] = -1
    BY <1>5 DEF PrintfTrylock, Store, BssWords
  <2>2. PrintfLock!Goto(h, "swap", "spin")
    BY <1>2, <2>1, PrintfLockMove
  <2>3. PrintfLock!TrylockFails(h)
    BY <1>5, <2>1, <2>2 DEF PrintfLock!TrylockFails
  <2>4. QED
    BY <2>3 DEF PrintfLockStep, PrintfLock!Next, PrintfLock!Step
<1>6. CASE PrintfUnlock(h)
  <2>1. PrintfPc(h) = "held" /\ PrintfPc(h)' = "idle" /\ bss'["mt_printf_lock"] = 0
    BY <1>6 DEF PrintfUnlock, Store, BssWords
  <2>2. PrintfLock!Goto(h, "held", "idle")
    BY <1>2, <2>1, PrintfLockMove
  <2>3. PrintfLock!Unlock(h)
    BY <2>1, <2>2 DEF PrintfLock!Unlock
  <2>4. QED
    BY <2>3 DEF PrintfLockStep, PrintfLock!Next, PrintfLock!Step
<1>7. QED
  BY <1>3, <1>4, <1>5, <1>6 DEF Printf

(* A trap does not take a hart into a lock or out of one.                  *)
LEMMA TrapLocks ==
  ASSUME TypeOK, NEW h \in Harts, TakeTrap(h),
         pc[h] \in {"select", "restore", "restore_rest"} \/ mtvec[h] = "checkpoint"
  PROVE  PrintfLockStep /\ RestoreLockStep
<1>1. UNCHANGED bss /\ \A g \in Harts \ {h} : pc'[g] = pc[g] /\ ret'[g] = ret[g]
  BY DEF TakeTrap, shared, TypeOK
<1>2. PrintfPc(h)' = PrintfPc(h) /\ RestoreLockPc(h)' = RestoreLockPc(h)
  <2>1. CASE pc' = pc
    BY <2>1, LockPcs DEF TakeTrap
  <2>2. CASE pc' # pc
    <3>1. pc[h] \in {"select", "restore", "restore_rest"} /\ pc'[h] = "handler"
      BY <2>2 DEF TakeTrap, TypeOK
    <3>2. QED
      BY <3>1 DEF PrintfPc, RestoreLockPc, HoldsPrintfLock, HoldsRestoreLock, Loc, PrintfPcs
  <2>3. QED
    BY <2>1, <2>2
<1>3. QED
  BY <1>1, <1>2, LockPcs
     DEF PrintfLockStep, PrintfLock!vars, RestoreLockStep, RestoreLock!vars

(* A word clear_bss passes is 0 already, or nobody can use the locks yet.  *)
LockWordsFree == bss["mt_printf_lock"] = 0 /\ bss["globash_restore_lock"] = 0

(* ... so that clear_bss changes nothing that the locks know.              *)
LEMMA ClearBssLocks ==
  ASSUME TypeOK, NEW h \in Harts, ClearBss(h), LockWordsFree
  PROVE  PrintfLockStep /\ RestoreLockStep /\ LockWordsFree'
<1>1. UNCHANGED <<pc, ret>>
  BY DEF ClearBss
<1>2. UNCHANGED <<bss["mt_printf_lock"], bss["globash_restore_lock"]>>
  BY DEF ClearBss, Store, TypeOK, LockWordsFree
<1>3. QED
  BY <1>1, <1>2, LockPcs
     DEF PrintfLockStep, PrintfLock!vars, RestoreLockStep, RestoreLock!vars, LockWordsFree

(* All that a hart does is a step of mt_printf_lock, or does not concern   *)
(* it.                                                                     *)
LEMMA PrintfLockSteps ==
  ASSUME TypeOK, NEW h \in Harts, Step(h) \/ Interrupt(h), ClearBss(h) => LockWordsFree
  PROVE  PrintfLockStep
<1> USE DEF PrintfPcs, shared, Store, BssWords, TypeOK
<1>1. CASE Printf(h)
  BY <1>1, PrintfLockPrintf
<1>2. CASE Start(h)
  <2>1. CASE ClearBss(h)
    BY <2>1, ClearBssLocks
  <2>2. CASE OpenBssLock(h)
    BY <2>2, PrintfLockCall DEF OpenBssLock
  <2>3. CASE WaitBss(h)
    BY <2>3, PrintfLockCall DEF WaitBss
  <2>4. CASE EnableTrap(h)
    BY <2>4, PrintfLockGoto DEF EnableTrap
  <2>5. CASE SelectRestore(h)
    BY <2>5, PrintfLockGoto DEF SelectRestore
  <2>6. CASE SelectPayload(h)
    BY <2>6, PrintfLockCall DEF SelectPayload
  <2>7. CASE BadStartAddress(h)
    BY <2>7, TrapLocks DEF BadStartAddress
  <2>8. CASE JumpPayload(h)
    BY <2>8, PrintfLockGoto DEF JumpPayload
  <2>9. CASE Restart(h)
    BY <2>9, PrintfLockGoto DEF Restart, Entry
  <2>10. CASE NoPayload(h)
    BY <2>10, PrintfLockCall DEF NoPayload
  <2>11. CASE Return(h)
    BY <2>11, PrintfLockGoto DEF Return
  <2>12. QED
    BY <1>2, <2>1, <2>2, <2>3, <2>4, <2>5, <2>6, <2>7, <2>8, <2>9, <2>10, <2>11 DEF Start
<1>3. CASE RestoreHart(h)
  <2>1. CASE RestoreUpToMtvec(h)
    BY <2>1, PrintfLockGoto DEF RestoreUpToMtvec
  <2>2. CASE RestoreRest(h)
    BY <2>2, PrintfLockGoto DEF RestoreRest
  <2>3. CASE Fault(h)
    BY <2>3, TrapLocks DEF Fault
  <2>4. CASE RejectTarget(h)
    BY <2>4, PrintfLockCall DEF RejectTarget
  <2>5. CASE SignalBadImm(h)
    BY <2>5, PrintfLockGoto DEF SignalBadImm
  <2>6. CASE HandlerPrint(h)
    BY <2>6, PrintfLockCall DEF HandlerPrint
  <2>7. CASE HandlerSignal(h)
    BY <2>7, PrintfLockGoto DEF HandlerSignal
  <2>8. QED
    BY <1>3, <2>1, <2>2, <2>3, <2>4, <2>5, <2>6, <2>7 DEF RestoreHart
<1>4. CASE Barrier(h)
  <2>1. CASE SpinEnds(h)
    BY <2>1, PrintfLockGoto DEF SpinEnds
  <2>2. CASE Trylock(h)
    BY <2>2, PrintfLockGoto DEF Trylock
  <2>3. CASE Count(h)
    BY <2>3, PrintfLockCall DEF Count
  <2>4. CASE Test(h)
    BY <2>4, PrintfLockGoto DEF Test
  <2>5. CASE Unlock(h)
    BY <2>5, PrintfLockGoto DEF Unlock
  <2>6. CASE AwaitRelease(h)
    BY <2>6, PrintfLockGoto DEF AwaitRelease
  <2>7. CASE SetRelease(h)
    BY <2>7, PrintfLockGoto DEF SetRelease
  <2>8. CASE RestoreMtime(h)
    BY <2>8, PrintfLockGoto DEF RestoreMtime
  <2>9. CASE Leave(h)
    BY <2>9, PrintfLockGoto DEF Leave
  <2>10. QED
    BY <1>4, <2>1, <2>2, <2>3, <2>4, <2>5, <2>6, <2>7, <2>8, <2>9 DEF Barrier
<1>5. CASE Interrupt(h)
  BY <1>5, TrapLocks DEF Interrupt
<1>6. QED
  BY <1>1, <1>2, <1>3, <1>4, <1>5 DEF Step

(* Where a hart is in the restore lock, by its step outside mt_printf.     *)
LockOfStep(at) ==
  CASE at = "g_spin" -> "spin" [] at = "g_swap" -> "swap"
    [] at \in {"g_add", "test", "unlock_wait", "unlock_release"} -> "held" [] OTHER -> "idle"

(* That is where SpinLock sees it: no call of mt_printf returns to a step  *)
(* in the lock's loops.                                                    *)
LEMMA RestoreLockOf ==
  ASSUME TypeOK, Returns, NEW h \in Harts
  PROVE  RestoreLockPc(h) = LockOfStep(Loc(h))
BY DEF Returns, ReturnPcs, RestoreLockPc, LockOfStep, HoldsRestoreLock, Loc, PrintfPcs

(* A step that moves one hart and leaves the word alone: what it is to the *)
(* lock follows from where it takes the hart.                              *)
LEMMA RestoreLockLoc ==
  ASSUME TypeOK, Returns, TypeOK', Returns', NEW h \in Harts,
         \A g \in Harts \ {h} : Loc(g)' = Loc(g)
  PROVE  /\ \A g \in Harts \ {h} : RestoreLockPc(g)' = RestoreLockPc(g)
         /\ RestoreLockPc(h) = LockOfStep(Loc(h)) /\ RestoreLockPc(h)' = LockOfStep(Loc(h)')
<1>1. \A g \in Harts : RestoreLockPc(g) = LockOfStep(Loc(g))
  BY RestoreLockOf
<1>2. \A g \in Harts : RestoreLockPc(g)' = LockOfStep(Loc(g)')
  <2>1. SUFFICES ASSUME NEW g \in Harts PROVE RestoreLockPc(g)' = LockOfStep(Loc(g)')
    OBVIOUS
  <2>2. QED
    BY DEF TypeOK, Returns, ReturnPcs, RestoreLockPc, LockOfStep, HoldsRestoreLock, Loc, PrintfPcs
<1>3. QED
  BY <1>1, <1>2

(* A step outside of the lock, or inside with the lock held.               *)
LEMMA RestoreLockQuiet ==
  ASSUME TypeOK, Returns, TypeOK', Returns', NEW h \in Harts,
         \A g \in Harts \ {h} : Loc(g)' = Loc(g), LockOfStep(Loc(h)') = LockOfStep(Loc(h)),
         bss'["globash_restore_lock"] = bss["globash_restore_lock"]
  PROVE  RestoreLockStep
<1>1. \A g \in Harts : RestoreLockPc(g)' = RestoreLockPc(g)
  BY RestoreLockLoc
<1>2. QED
  BY <1>1 DEF RestoreLockStep, RestoreLock!vars

(* The same for the two ways to move a hart.                               *)
LEMMA RestoreLockGoto ==
  ASSUME TypeOK, Returns, TypeOK', Returns', NEW h \in Harts, NEW from, NEW to, Goto(h, from, to),
         from \notin PrintfPcs, to \notin PrintfPcs, LockOfStep(to) = LockOfStep(from),
         bss'["globash_restore_lock"] = bss["globash_restore_lock"]
  PROVE  RestoreLockStep
<1>1. Loc(h) = from /\ Loc(h)' = to /\ \A g \in Harts \ {h} : Loc(g)' = Loc(g)
  BY GotoLoc
<1>2. QED
  BY <1>1, RestoreLockQuiet

(* ... and for calls of mt_printf.                                         *)
LEMMA RestoreLockCall ==
  ASSUME TypeOK, Returns, TypeOK', Returns', NEW h \in Harts, NEW from, NEW back,
         CallPrintf(h, from, back), from \notin PrintfPcs, LockOfStep(back) = LockOfStep(from),
         bss'["globash_restore_lock"] = bss["globash_restore_lock"]
  PROVE  RestoreLockStep
<1>1. Loc(h) = from /\ Loc(h)' = back /\ \A g \in Harts \ {h} : Loc(g)' = Loc(g)
  BY CallLoc
<1>2. QED
  BY <1>1, RestoreLockQuiet

(* RestoreRest calls spinlock_lock; SpinEnds, Trylock and Unlock are the   *)
(* steps of SpinLock (decode_restore.c:276-288).                           *)
LEMMA RestoreLockUse ==
  ASSUME TypeOK, Returns, TypeOK', Returns', NEW h \in Harts,
         RestoreRest(h) \/ SpinEnds(h) \/ Trylock(h) \/ Unlock(h)
  PROVE  RestoreLockStep
<1> USE DEF PrintfPcs, LockOfStep, shared, Store, BssWords, TypeOK
<1>1. \A from, to :
        from \notin PrintfPcs /\ to \notin PrintfPcs /\ Goto(h, from, to)
          => RestoreLock!Goto(h, LockOfStep(from), LockOfStep(to))
  <2> SUFFICES ASSUME NEW from, NEW to,
                      from \notin PrintfPcs, to \notin PrintfPcs, Goto(h, from, to)
               PROVE  RestoreLock!Goto(h, LockOfStep(from), LockOfStep(to))
    OBVIOUS
  <2>1. Loc(h) = from /\ Loc(h)' = to /\ \A g \in Harts \ {h} : Loc(g)' = Loc(g)
    BY GotoLoc
  <2> HIDE DEF LockOfStep
  <2>2. QED
    BY <2>1, RestoreLockLoc, RestoreLockMove
<1>2. CASE RestoreRest(h)
  <2>1. RestoreLock!Goto(h, "idle", "spin")
    BY <1>1, <1>2 DEF RestoreRest
  <2>2. RestoreLock!Call(h)
    BY <1>2, <2>1 DEF RestoreRest, RestoreLock!Call
  <2>3. QED
    BY <2>2 DEF RestoreLockStep, RestoreLock!Next
<1>3. CASE SpinEnds(h)
  <2>1. RestoreLock!Goto(h, "spin", "swap")
    BY <1>1, <1>3 DEF SpinEnds
  <2>2. RestoreLock!SpinEnds(h)
    BY <1>3, <2>1 DEF SpinEnds, RestoreLock!SpinEnds
  <2>3. QED
    BY <2>2 DEF RestoreLockStep, RestoreLock!Next, RestoreLock!Step
<1>4. CASE Trylock(h) /\ bss["globash_restore_lock"] = 0
  <2>1. RestoreLock!Goto(h, "swap", "held")
    BY <1>1, <1>4 DEF Trylock
  <2>2. RestoreLock!TrylockGets(h)
    BY <1>4, <2>1 DEF Trylock, RestoreLock!TrylockGets
  <2>3. QED
    BY <2>2 DEF RestoreLockStep, RestoreLock!Next, RestoreLock!Step
<1>5. CASE Trylock(h) /\ bss["globash_restore_lock"] # 0
  <2>1. RestoreLock!Goto(h, "swap", "spin")
    BY <1>1, <1>5 DEF Trylock
  <2>2. RestoreLock!TrylockFails(h)
    BY <1>5, <2>1 DEF Trylock, RestoreLock!TrylockFails
  <2>3. QED
    BY <2>2 DEF RestoreLockStep, RestoreLock!Next, RestoreLock!Step
<1>6. CASE Unlock(h)
  <2>1. RestoreLock!Goto(h, "held", "idle")
    BY <1>1, <1>6 DEF Unlock
  <2>2. RestoreLock!Unlock(h)
    BY <1>6, <2>1 DEF Unlock, RestoreLock!Unlock
  <2>3. QED
    BY <2>2 DEF RestoreLockStep, RestoreLock!Next, RestoreLock!Step
<1>7. QED
  BY <1>2, <1>3, <1>4, <1>5, <1>6

(* All that a hart does is a step of globash_restore_lock, or does not     *)
(* concern it.                                                             *)
LEMMA RestoreLockSteps ==
  ASSUME TypeOK, Returns, TypeOK', Returns', NEW h \in Harts, Step(h) \/ Interrupt(h),
         ClearBss(h) => LockWordsFree
  PROVE  RestoreLockStep
<1> USE DEF PrintfPcs, LockOfStep, shared
<1>1. CASE Printf(h)
  <2>1. bss'["globash_restore_lock"] = bss["globash_restore_lock"]
    BY <1>1 DEF Printf, PrintfSpinEnds, PrintfTrylock, PrintfUnlock, Store, BssWords, TypeOK
  <2>2. \A g \in Harts : Loc(g)' = Loc(g)
    BY <1>1, PrintfLoc
  <2> HIDE DEF LockOfStep
  <2>3. QED
    BY <2>1, <2>2, RestoreLockQuiet
<1>2. CASE Start(h)
  <2>1. CASE ClearBss(h)
    BY <2>1, ClearBssLocks
  <2>2. CASE OpenBssLock(h)
    <3>1. bss'["globash_restore_lock"] = bss["globash_restore_lock"]
      BY <2>2 DEF OpenBssLock, Store, BssWords, TypeOK
    <3>2. QED
      BY <2>2, <3>1, RestoreLockCall DEF OpenBssLock
  <2>3. CASE WaitBss(h)
    BY <2>3, RestoreLockCall DEF WaitBss
  <2>4. CASE EnableTrap(h)
    BY <2>4, RestoreLockGoto DEF EnableTrap
  <2>5. CASE SelectRestore(h)
    <3>1. CASE h = StopCpu
      BY <2>5, <3>1, RestoreLockGoto DEF SelectRestore
    <3>2. CASE h # StopCpu
      BY <2>5, <3>2, RestoreLockGoto DEF SelectRestore
    <3>3. QED
      BY <3>1, <3>2
  <2>6. CASE SelectPayload(h)
    BY <2>6, RestoreLockCall DEF SelectPayload
  <2>7. CASE BadStartAddress(h)
    BY <2>7, TrapLocks DEF BadStartAddress
  <2>8. CASE JumpPayload(h)
    BY <2>8, RestoreLockGoto DEF JumpPayload
  <2>9. CASE Restart(h)
    <3>1. CASE h = 0
      BY <2>9, <3>1, RestoreLockGoto DEF Restart, Entry
    <3>2. CASE h # 0
      BY <2>9, <3>2, RestoreLockGoto DEF Restart, Entry
    <3>3. QED
      BY <3>1, <3>2
  <2>10. CASE NoPayload(h)
    BY <2>10, RestoreLockCall DEF NoPayload
  <2>11. CASE Return(h)
    BY <2>11, RestoreLockGoto DEF Return
  <2>12. QED
    BY <1>2, <2>1, <2>2, <2>3, <2>4, <2>5, <2>6, <2>7, <2>8, <2>9, <2>10, <2>11 DEF Start
<1>3. CASE RestoreHart(h)
  <2>1. CASE RestoreUpToMtvec(h)
    BY <2>1, RestoreLockGoto DEF RestoreUpToMtvec
  <2>2. CASE RestoreRest(h)
    BY <2>2, RestoreLockUse
  <2>3. CASE Fault(h)
    BY <2>3, TrapLocks DEF Fault
  <2>4. CASE RejectTarget(h)
    BY <2>4, RestoreLockCall DEF RejectTarget
  <2>5. CASE SignalBadImm(h)
    BY <2>5, RestoreLockGoto DEF SignalBadImm
  <2>6. CASE HandlerPrint(h)
    BY <2>6, RestoreLockCall DEF HandlerPrint
  <2>7. CASE HandlerSignal(h)
    BY <2>7, RestoreLockGoto DEF HandlerSignal
  <2>8. QED
    BY <1>3, <2>1, <2>2, <2>3, <2>4, <2>5, <2>6, <2>7 DEF RestoreHart
<1>4. CASE Barrier(h)
  <2>1. CASE SpinEnds(h) \/ Trylock(h) \/ Unlock(h)
    BY <2>1, RestoreLockUse
  <2>2. CASE Count(h)
    <3>1. bss'["globash_restore_lock"] = bss["globash_restore_lock"]
      BY <2>2 DEF Count, Store, BssWords, TypeOK
    <3>2. QED
      BY <2>2, <3>1, RestoreLockCall DEF Count
  <2>3. CASE Test(h)
    <3>1. CASE MustWait(h)
      BY <2>3, <3>1, RestoreLockGoto DEF Test
    <3>2. CASE ~MustWait(h)
      BY <2>3, <3>2, RestoreLockGoto DEF Test
    <3>3. QED
      BY <3>1, <3>2
  <2>4. CASE AwaitRelease(h)
    BY <2>4, RestoreLockGoto DEF AwaitRelease
  <2>5. CASE SetRelease(h)
    <3>1. bss'["globash_restore_lock"] = bss["globash_restore_lock"]
      BY <2>5 DEF SetRelease, Store, BssWords, TypeOK
    <3>2. QED
      BY <2>5, <3>1, RestoreLockGoto DEF SetRelease
  <2>6. CASE RestoreMtime(h)
    BY <2>6, RestoreLockGoto DEF RestoreMtime
  <2>7. CASE Leave(h)
    BY <2>7, RestoreLockGoto DEF Leave
  <2>8. QED
    BY <1>4, <2>1, <2>2, <2>3, <2>4, <2>5, <2>6, <2>7 DEF Barrier
<1>5. CASE Interrupt(h)
  BY <1>5, TrapLocks DEF Interrupt
<1>6. QED
  BY <1>1, <1>2, <1>3, <1>4, <1>5 DEF Step

-----------------------------------------------------------------------------
(* Until bss_lock is set nobody is near a lock.                            *)

(* In a machine that starts with the words 0, clear_bss only finds 0.      *)
LocksUnused == RunsOnce /\ (bss["bss_lock"] = 0 => LockWordsFree)

(* Every step is one of each lock or does not concern it, as long as       *)
(* clear_bss does not write over a lock in use.                            *)
LEMMA BothLocks ==
  ASSUME IInv, Returns, IInv', Returns', [Next]_vars,
         \A h \in Harts : ClearBss(h) => LockWordsFree
  PROVE  PrintfLockStep /\ RestoreLockStep
<1>1. ASSUME NEW h \in Harts, Step(h) \/ Interrupt(h) PROVE PrintfLockStep /\ RestoreLockStep
  BY <1>1, PrintfLockSteps, RestoreLockSteps DEF IInv
<1>2. ASSUME UNCHANGED vars PROVE PrintfLockStep /\ RestoreLockStep
  <2>1. UNCHANGED <<bss, pc, ret>>
    BY <1>2 DEF vars, shared
  <2>2. QED
    BY <2>1, LockPcs DEF PrintfLockStep, PrintfLock!vars, RestoreLockStep, RestoreLock!vars
<1>3. QED
  BY <1>1, <1>2 DEF Next, Finished

(* Before bss_lock is set nobody else writes a word.                       *)
LEMMA OnlyClearBss ==
  ASSUME IInv, LocksUnused, [Next]_vars
  PROVE  LocksUnused'
<1>0. RunsOnce /\ RunsOnce' /\ TypeOK /\ Rendezvous
  BY CheckpointKept DEF IInv, LocksUnused, RunsOnce
<1>1. SUFFICES ASSUME bss'["bss_lock"] = 0 PROVE LockWordsFree'
  BY <1>0 DEF LocksUnused
<1>2. CASE \E h \in Harts : ClearBss(h)
  <2>1. bss["bss_lock"] = 0
    BY <1>0, <1>2, HartsAssumption DEF ClearBss, Rendezvous, LocksUnused, Loc, PrintfPcs
  <2>2. QED
    BY <1>0, <1>2, <2>1, ClearBssLocks DEF LocksUnused
<1>3. CASE ~\E h \in Harts : ClearBss(h)
  <2>1. bss["bss_lock"] = 0
    BY <1>0, <1>1, <1>3 DEF Next, Step, Interrupt, Finished, vars, shared, Printf, PrintfSpinEnds,
         PrintfTrylock, PrintfUnlock, Start, OpenBssLock, WaitBss, EnableTrap, SelectRestore,
         SelectPayload, BadStartAddress, JumpPayload, Restart, NoPayload, Return, TakeTrap,
         RestoreHart, RestoreUpToMtvec, RestoreRest, Fault, RejectTarget, SignalBadImm,
         HandlerPrint, HandlerSignal, Barrier, SpinEnds, Trylock, Count, Test, Unlock,
         AwaitRelease, SetRelease, RestoreMtime, Leave, Store, TypeOK, BssWords
  <2>2. LockWordsFree
    BY <2>1 DEF LocksUnused
  <2>3. \A h \in Harts : pc[h] \in {"clear_bss", "wait_bss"}
    BY <1>0, <2>1, HartsAssumption DEF Rendezvous, LocksUnused
  <2>4. bss' = bss
    BY <1>0, <1>1, <1>3, <2>1, <2>3 DEF Next, Step, Interrupt, Finished, vars, shared, Printf,
         PrintfSpinEnds, PrintfTrylock, PrintfUnlock, Start, OpenBssLock, WaitBss, EnableTrap,
         SelectRestore, SelectPayload, BadStartAddress, JumpPayload, Restart, NoPayload, Return,
         TakeTrap, RestoreHart, RestoreUpToMtvec, RestoreRest, Fault, RejectTarget, SignalBadImm,
         HandlerPrint, HandlerSignal, Barrier, SpinEnds, Trylock, Count, Test, Unlock,
         AwaitRelease, SetRelease, RestoreMtime, Leave, Goto, CallPrintf, Store, TypeOK, BssWords
  <2>5. QED
    BY <2>2, <2>4 DEF LockWordsFree
<1>4. QED
  BY <1>2, <1>3

(* At reset no hart is near a lock.                                        *)
LEMMA InitLocks == Init /\ LockWordsFree => PrintfLock!Init /\ RestoreLock!Init
<1> SUFFICES ASSUME Init, LockWordsFree PROVE PrintfLock!Init /\ RestoreLock!Init
  OBVIOUS
<1>1. \A h \in Harts : PrintfPc(h) = "idle" /\ RestoreLockPc(h) = "idle"
  BY DEF Init, Entry, PrintfPc, RestoreLockPc, HoldsPrintfLock, HoldsRestoreLock, Loc, PrintfPcs
<1>2. QED
  BY <1>1 DEF PrintfLock!Init, RestoreLock!Init, LockWordsFree

(* Once hart 0 has set bss_lock, all that happens to mt_printf_lock and to *)
(* globash_restore_lock is a step of SpinLock, whatever .bss held at reset *)
(* and whatever harts trap, stray or fail with a lock held or wanted.      *)
THEOREM LocksAreSpinLocksOnceOpened ==
  Spec => [][Opened => PrintfLockStep /\ RestoreLockStep]_vars
<1>1. IInv /\ Opened => \A h \in Harts : ~ClearBss(h)
  BY HartsAssumption DEF IInv, Rendezvous, Opened, ClearBss, Loc, PrintfPcs
<1>2. IInv /\ IInv' /\ Returns /\ Returns' /\ [Next]_vars
        => [Opened => PrintfLockStep /\ RestoreLockStep]_vars
  BY <1>1, BothLocks
<1>3. IInv /\ Returns /\ [Next]_vars => Returns'
  BY NextReturns DEF IInv
<1>4. QED
  BY <1>2, <1>3, InitReturns, Invariance, PTL DEF Spec

(* A machine that runs the restorer once and leaves reset with 0 in the    *)
(* two words uses them, from the first step on, as SpinLock describes: the *)
(* safety part of LocksImplementSpinLock. What is proved of SpinLock, that *)
(* it is a Mutex, holds of both.                                           *)
THEOREM LocksAreSpinLocks ==
  Spec /\ RunsOnce /\ LockWordsFree =>
    /\ PrintfLock!Init /\ [][PrintfLock!Next]_(PrintfLock!vars)
    /\ RestoreLock!Init /\ [][RestoreLock!Next]_(RestoreLock!vars)
<1>1. RunsOnce /\ LockWordsFree => LocksUnused
  BY DEF LocksUnused
<1>2. IInv /\ LocksUnused /\ [Next]_vars => LocksUnused'
  BY OnlyClearBss
<1>3. IInv /\ LocksUnused => \A h \in Harts : ClearBss(h) => LockWordsFree
  BY HartsAssumption DEF IInv, Rendezvous, LocksUnused, ClearBss, Loc, PrintfPcs
<1>4. IInv /\ IInv' /\ Returns /\ Returns' /\ LocksUnused /\ [Next]_vars
        => [PrintfLock!Next]_(PrintfLock!vars) /\ [RestoreLock!Next]_(RestoreLock!vars)
  BY <1>3, BothLocks DEF PrintfLockStep, RestoreLockStep
<1>5. IInv /\ Returns /\ [Next]_vars => Returns'
  BY NextReturns DEF IInv
<1>6. QED
  BY <1>1, <1>2, <1>4, <1>5, InitReturns, InitLocks, Invariance, PTL DEF Spec
=============================================================================
