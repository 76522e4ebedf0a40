------------------------------ MODULE Restorer ------------------------------
(***************************************************************************)
(* The restorer as the harts of one machine run it together: from the      *)
(* entry of gcpt_c_start (src/gcpt.c), through the clearing of .bss, the   *)
(* choice between restoring and booting the payload, the restore of each   *)
(* hart and the barrier of src/decode_restore.c, to the instruction that   *)
(* leaves the restorer.                                                    *)
(*                                                                         *)
(* One action per access to memory the harts share.  Code between two such *)
(* accesses touches the hart's own registers, stack and checkpoint area    *)
(* only and is part of the action of the access before or after it.  The   *)
(* shared words are accessed with SEQ_CST atomics or between fences, so    *)
(* that interleaving the accesses loses no behaviour.                      *)
(***************************************************************************)
EXTENDS Integers, FiniteSets

CONSTANTS
  Harts,        \* the mhartid values of the harts that leave reset
  Checkpoints,  \* what memory may hold when they do: a set of Checkpoint records
  BootBss,      \* what a word of .bss other than bss_lock may hold before clear_bss
  StopCpu,      \* the hart configured with --stop-cpu; not a hart if there is none
  HasPayload    \* TRUE iff there is a program at the payload's address

(* The variables of the restorer that live in .bss and are shared.         *)
BssWords == {"bss_lock", "mt_printf_lock", "globash_restore_lock",
             "release_restore", "global_atomic_restore_counter"}

(* A checkpoint as far as the control flow depends on it: does memory hold *)
(* one (magic number, decoding), how many harts does the area of each hart *)
(* say it has (csr_reserve), does its mstatus enable M-mode interrupts     *)
(* (MIE), is the hart's M-mode target out of reach of a jal, and does the  *)
(* host raise an exception on one of the csr writes - for a csr before or  *)
(* after mtvec in the order of CSRS.                                       *)
Checkpoint ==
  [valid     : BOOLEAN,
   allCpuNum : [Harts -> Nat],
   mie       : [Harts -> BOOLEAN],
   badImm    : [Harts -> BOOLEAN],
   fault     : [Harts -> {"none", "before_mtvec", "after_mtvec"}]]

ASSUME HartsAssumption == IsFiniteSet(Harts) /\ 0 \in Harts
ASSUME CheckpointsAssumption == Checkpoints \subseteq Checkpoint
ASSUME BootBssAssumption == BootBss \subseteq Int

VARIABLES
  cpt,            \* the checkpoint in memory; the restorer only reads it
  pc,             \* pc[h]: the next step of hart h
  ret,            \* ret[h]: where h continues when mt_printf returns
  bss,            \* the shared words
  cleared,        \* the words clear_bss has passed
  mie,            \* mie[h]: mstatus.MIE of h
  mtvec,          \* mtvec[h]: whose trap handler mtvec of h points to
  trapLines,      \* trapLines[h]: the lines gcpt_trap_handler has yet to print
  strayed,        \* harts that a trap took to the checkpointed program's handler
  reentered,      \* harts that came back into gcpt_c_start when it returned
  mtimeRestores,  \* how many times mtime was written from the checkpoint
  signal          \* the code passed to nemu_signal, "none" while the machine runs

shared == <<bss, cleared, mtimeRestores>>
trap   == <<mie, mtvec, trapLines, strayed>>
vars   == <<cpt, pc, ret, shared, trap, reentered, signal>>

(* The steps of mt_printf, the steps at which a hart has left the restorer *)
(* or spins for ever, and all of them.                                     *)
PrintfPcs == {"mt_spin", "mt_swap", "mt_print"}

FinalPcs == {"running", "payload", "stopped"}

Pcs == PrintfPcs \cup FinalPcs \cup
  {"clear_bss", "wait_bss", "enable_trap", "select", "restore", "restore_rest",
   "signal_bad_imm", "handler", "g_spin", "g_swap", "g_add", "test",
   "unlock_wait", "await_release", "unlock_release", "set_release",
   "restore_mtime", "leave", "jump_payload", "return"}

(* Where h is, not counting a call of mt_printf: the step after the call.  *)
Loc(h) == IF pc[h] \in PrintfPcs THEN ret[h] ELSE pc[h]

(* The first step of gcpt_c_start(mhartid, ..).                            *)
Entry(h) == IF h = 0 THEN "clear_bss" ELSE "wait_bss"

Init ==
  /\ cpt \in Checkpoints
  /\ pc = [h \in Harts |-> Entry(h)]
  /\ ret = [h \in Harts |-> "enable_trap"]
  /\ bss \in {m \in [BssWords -> BootBss \cup {0}] : m["bss_lock"] = 0}
  /\ cleared = {}
  /\ mie = [h \in Harts |-> FALSE]
  /\ mtvec = [h \in Harts |-> "reset"]
  /\ trapLines = [h \in Harts |-> 0]
  /\ strayed = {}
  /\ reentered = {}
  /\ mtimeRestores = 0
  /\ signal = "none"

Goto(h, from, to) == pc[h] = from /\ pc' = [pc EXCEPT ![h] = to] /\ UNCHANGED ret

(* From step `from', h calls mt_printf and will go on at step `back'.      *)
CallPrintf(h, from, back) ==
  /\ pc[h] = from
  /\ pc' = [pc EXCEPT ![h] = "mt_spin"]
  /\ ret' = [ret EXCEPT ![h] = back]

Store(word, value) == bss' = [bss EXCEPT ![word] = value]

-----------------------------------------------------------------------------
(* mt_printf: take mt_printf_lock (test, then test-and-set), print, and    *)
(* release it.                                                             *)

PrintfSpinEnds(h) ==
  /\ bss["mt_printf_lock"] = 0
  /\ Goto(h, "mt_spin", "mt_swap")
  /\ UNCHANGED <<cpt, shared, trap, reentered, signal>>

PrintfTrylock(h) ==
  /\ Goto(h, "mt_swap", IF bss["mt_printf_lock"] = 0 THEN "mt_print" ELSE "mt_spin")
  /\ Store("mt_printf_lock", -1)
  /\ UNCHANGED <<cpt, cleared, mtimeRestores, trap, reentered, signal>>

(* Faulty: the lock is never given back.                                   *)
PrintfUnlock_NoStore(h) ==
  /\ Goto(h, "mt_print", ret[h])
  /\ UNCHANGED <<cpt, shared, trap, reentered, signal>>

PrintfUnlock(h) ==
  /\ Goto(h, "mt_print", ret[h])
  /\ Store("mt_printf_lock", 0)
  /\ UNCHANGED <<cpt, cleared, mtimeRestores, trap, reentered, signal>>

-----------------------------------------------------------------------------
(* gcpt_c_start: hart 0 clears .bss and opens bss_lock, the others wait    *)
(* for it; everybody says hello.                                           *)

(* One word of the loop of clear_bss; the linker chooses their order.      *)
ClearBss(h) ==
  /\ pc[h] = "clear_bss"
  /\ \E w \in BssWords \ cleared :
       /\ Store(w, 0)
       /\ cleared' = cleared \cup {w}
  /\ UNCHANGED <<cpt, pc, ret, mtimeRestores, trap, reentered, signal>>

(* Faulty: bss_lock is set before all of .bss is cleared.                  *)
OpenBssLock_Early(h) ==
  /\ CallPrintf(h, "clear_bss", "enable_trap")
  /\ Store("bss_lock", 1)
  /\ UNCHANGED <<cpt, cleared, mtimeRestores, trap, reentered, signal>>

OpenBssLock(h) ==
  /\ cleared = BssWords
  /\ CallPrintf(h, "clear_bss", "enable_trap")
  /\ Store("bss_lock", 1)
  /\ UNCHANGED <<cpt, cleared, mtimeRestores, trap, reentered, signal>>

(* Faulty: the hart does not wait for clear_bss.                           *)
WaitBss_NoWait(h) ==
  /\ CallPrintf(h, "wait_bss", "enable_trap")
  /\ UNCHANGED <<cpt, shared, trap, reentered, signal>>

WaitBss(h) ==
  /\ bss["bss_lock"] # 0
  /\ CallPrintf(h, "wait_bss", "enable_trap")
  /\ UNCHANGED <<cpt, shared, trap, reentered, signal>>

EnableTrap(h) ==
  /\ Goto(h, "enable_trap", "select")
  /\ mie' = [mie EXCEPT ![h] = TRUE]
  /\ mtvec' = [mtvec EXCEPT ![h] = "gcpt"]
  /\ UNCHANGED <<cpt, shared, trapLines, strayed, reentered, signal>>

(* Faulty: --stop-cpu has no effect.                                       *)
SelectRestore_NeverStops(h) ==
  /\ cpt.valid
  /\ Goto(h, "select", "restore")
  /\ UNCHANGED <<cpt, shared, trap, reentered, signal>>

(* The header and the layout decode, or the magic number is there.  The    *)
(* hart built to stop spins on the way to its restore.                     *)
SelectRestore(h) ==
  /\ cpt.valid
  /\ Goto(h, "select", IF h = StopCpu THEN "stopped" ELSE "restore")
  /\ UNCHANGED <<cpt, shared, trap, reentered, signal>>

(* boot_payload: traps are disabled and the target is announced.           *)
SelectPayload(h) ==
  /\ ~cpt.valid
  /\ CallPrintf(h, "select", "jump_payload")
  /\ mie' = [mie EXCEPT ![h] = FALSE]
  /\ mtvec' = [mtvec EXCEPT ![h] = "zero"]
  /\ UNCHANGED <<cpt, shared, trapLines, strayed, reentered, signal>>

JumpPayload(h) ==
  /\ HasPayload
  /\ Goto(h, "jump_payload", "payload")
  /\ UNCHANGED <<cpt, shared, trap, reentered, signal>>

(* A hart that came back into gcpt_c_start with any address but 0x80000000 *)
(* takes the restorer for one in flash and 0x80000000 for the payload's    *)
(* address: it enters the restorer again.                                  *)
Restart(h) ==
  /\ h \in reentered
  /\ Goto(h, "jump_payload", Entry(h))
  /\ cleared' = IF h = 0 THEN {} ELSE cleared
  /\ reentered' = reentered \ {h}
  /\ UNCHANGED <<cpt, bss, mtimeRestores, trap, signal>>

(* The stub that stands for a payload returns at once.                     *)
NoPayload(h) ==
  /\ ~HasPayload
  /\ CallPrintf(h, "jump_payload", "return")
  /\ UNCHANGED <<cpt, shared, trap, reentered, signal>>

(* _entry jumps to gcpt_c_start with ra behind its call of                 *)
(* get_restorer_entry_pc, so gcpt_c_start returns to its own call: a0, the *)
(* length of the last message, is the cpu_id now, and t0 the address.      *)
Return(h) ==
  /\ Goto(h, "return", "wait_bss")
  /\ reentered' = reentered \cup {h}
  /\ UNCHANGED <<cpt, shared, trap, signal>>

-----------------------------------------------------------------------------
(* single_core_rvv_rvh_rvgc_restore, the part that concerns one hart.      *)

(* Faulty: mtvec is written before mstatus.                                *)
RestoreUpToMtvec_MtvecFirst(h) ==
  /\ ~cpt.badImm[h] /\ cpt.fault[h] # "before_mtvec"
  /\ Goto(h, "restore", "restore_rest")
  /\ mtvec' = [mtvec EXCEPT ![h] = "checkpoint"]
  /\ UNCHANGED <<cpt, shared, mie, trapLines, strayed, reentered, signal>>

(* The M-mode target is within reach of the jal patched into the hart's    *)
(* slot, or the hart returns with mret; H, V and F state, fcsr and the     *)
(* csrs up to mtvec are written.                                           *)
RestoreUpToMtvec(h) ==
  /\ ~cpt.badImm[h] /\ cpt.fault[h] # "before_mtvec"
  /\ Goto(h, "restore", "restore_rest")
  /\ mie' = [mie EXCEPT ![h] = cpt.mie[h]]
  /\ mtvec' = [mtvec EXCEPT ![h] = "checkpoint"]
  /\ UNCHANGED <<cpt, shared, trapLines, strayed, reentered, signal>>

(* The csrs after mtvec, and mtimecmp of the hart.                         *)
RestoreRest(h) ==
  /\ cpt.fault[h] # "after_mtvec"
  /\ Goto(h, "restore_rest", "g_spin")
  /\ UNCHANGED <<cpt, shared, trap, reentered, signal>>

RejectTarget(h) ==
  /\ cpt.badImm[h]
  /\ CallPrintf(h, "restore", "signal_bad_imm")
  /\ UNCHANGED <<cpt, shared, trap, reentered, signal>>

(* Faulty: the restore goes on without a signal.                           *)
SignalBadImm_FallsThrough(h) ==
  /\ Goto(h, "signal_bad_imm", "restore_rest")
  /\ UNCHANGED <<cpt, shared, trap, reentered, signal>>

SignalBadImm(h) ==
  /\ Goto(h, "signal_bad_imm", "signal_bad_imm")
  /\ signal' = "GCPT_GET_BAD_IMM"
  /\ UNCHANGED <<cpt, shared, trap, reentered>>

(* h traps: MIE is cleared and h goes to mtvec.  The restorer's handler    *)
(* has five lines to print.  With that handler replaced, h strays into the *)
(* checkpointed program's, with the restorer's registers and at this step. *)
TakeTrap(h) ==
  /\ mie' = [mie EXCEPT ![h] = FALSE]
  /\ IF mtvec[h] = "gcpt"
       THEN /\ pc' = [pc EXCEPT ![h] = "handler"]
            /\ trapLines' = [trapLines EXCEPT ![h] = 5]
            /\ UNCHANGED strayed
       ELSE /\ strayed' = strayed \cup {h}
            /\ UNCHANGED <<pc, trapLines>>
  /\ UNCHANGED <<cpt, ret, shared, mtvec, reentered, signal>>

(* A csr write raises an exception.                                        *)
Fault(h) ==
  /\ \/ pc[h] = "restore" /\ ~cpt.badImm[h] /\ cpt.fault[h] = "before_mtvec"
     \/ pc[h] = "restore_rest" /\ cpt.fault[h] = "after_mtvec"
  /\ TakeTrap(h)

(* A hart back in gcpt_c_start decodes from an address it may not read.    *)
BadStartAddress(h) ==
  /\ pc[h] = "select" /\ h \in reentered
  /\ TakeTrap(h)

(* An interrupt the checkpoint's mstatus and mie csrs enable, until the    *)
(* hart is out of the restorer.                                            *)
Interrupt(h) ==
  /\ signal = "none" /\ h \notin strayed
  /\ \/ pc[h] = "restore" /\ ~cpt.badImm[h] /\ cpt.mie[h]
     \/ mtvec[h] = "checkpoint" /\ mie[h] /\ pc[h] \notin FinalPcs
  /\ TakeTrap(h)

(* Faulty: a line too many.                                                *)
HandlerPrint_LineTooMany(h) ==
  /\ CallPrintf(h, "handler", "handler")
  /\ trapLines' = [trapLines EXCEPT ![h] = @ - 1]
  /\ UNCHANGED <<cpt, shared, mie, mtvec, strayed, reentered, signal>>

(* gcpt_trap_handler: five lines, then GCPT_GET_TRAP.                      *)
HandlerPrint(h) ==
  /\ trapLines[h] > 0
  /\ CallPrintf(h, "handler", "handler")
  /\ trapLines' = [trapLines EXCEPT ![h] = @ - 1]
  /\ UNCHANGED <<cpt, shared, mie, mtvec, strayed, reentered, signal>>

HandlerSignal(h) ==
  /\ trapLines[h] = 0
  /\ Goto(h, "handler", "handler")
  /\ signal' = "GCPT_GET_TRAP"
  /\ UNCHANGED <<cpt, shared, trap, reentered>>

-----------------------------------------------------------------------------
(* single_core_rvv_rvh_rvgc_restore, the barrier.                          *)

SpinEnds(h) ==
  /\ bss["globash_restore_lock"] = 0
  /\ Goto(h, "g_spin", "g_swap")
  /\ UNCHANGED <<cpt, shared, trap, reentered, signal>>

(* Faulty: the result of the swap is not looked at.                        *)
Trylock_IgnoreResult(h) ==
  /\ Goto(h, "g_swap", "g_add")
  /\ Store("globash_restore_lock", -1)
  /\ UNCHANGED <<cpt, cleared, mtimeRestores, trap, reentered, signal>>

(* Faulty: a failed swap leaves the lock free.                             *)
Trylock_FailFrees(h) ==
  /\ Goto(h, "g_swap", IF bss["globash_restore_lock"] = 0 THEN "g_add" ELSE "g_spin")
  /\ Store("globash_restore_lock", IF bss["globash_restore_lock"] = 0 THEN -1 ELSE 0)
  /\ UNCHANGED <<cpt, cleared, mtimeRestores, trap, reentered, signal>>

Trylock(h) ==
  /\ Goto(h, "g_swap", IF bss["globash_restore_lock"] = 0 THEN "g_add" ELSE "g_spin")
  /\ Store("globash_restore_lock", -1)
  /\ UNCHANGED <<cpt, cleared, mtimeRestores, trap, reentered, signal>>

(* Count this hart and print the counter.                                  *)
Count(h) ==
  /\ CallPrintf(h, "g_add", "test")
  /\ Store("global_atomic_restore_counter", bss["global_atomic_restore_counter"] + 1)
  /\ UNCHANGED <<cpt, cleared, mtimeRestores, trap, reentered, signal>>

(* Faulty: the last but one passes.                                        *)
MustWait_OffByOne(h) ==
  /\ bss["global_atomic_restore_counter"] + 1 # cpt.allCpuNum[h]
  /\ cpt.allCpuNum[h] # 0

MustWait(h) ==
  /\ bss["global_atomic_restore_counter"] # cpt.allCpuNum[h]
  /\ cpt.allCpuNum[h] # 0

Test(h) ==
  /\ Goto(h, "test", IF MustWait(h) THEN "unlock_wait" ELSE "unlock_release")
  /\ UNCHANGED <<cpt, shared, trap, reentered, signal>>

Unlock(h) ==
  /\ \/ Goto(h, "unlock_wait", "await_release")
     \/ Goto(h, "unlock_release", "set_release")
  /\ Store("globash_restore_lock", 0)
  /\ UNCHANGED <<cpt, cleared, mtimeRestores, trap, reentered, signal>>

(* Faulty: release_restore is not waited for.                              *)
AwaitRelease_NoWait(h) ==
  /\ Goto(h, "await_release", "leave")
  /\ UNCHANGED <<cpt, shared, trap, reentered, signal>>

AwaitRelease(h) ==
  /\ bss["release_restore"] = 1
  /\ Goto(h, "await_release", "leave")
  /\ UNCHANGED <<cpt, shared, trap, reentered, signal>>

(* Faulty: release_restore is never set.                                   *)
SetRelease_NoStore(h) ==
  /\ Goto(h, "set_release", "restore_mtime")
  /\ UNCHANGED <<cpt, shared, trap, reentered, signal>>

SetRelease(h) ==
  /\ Goto(h, "set_release", "restore_mtime")
  /\ Store("release_restore", 1)
  /\ UNCHANGED <<cpt, cleared, mtimeRestores, trap, reentered, signal>>

RestoreMtime(h) ==
  /\ Goto(h, "restore_mtime", "leave")
  /\ mtimeRestores' = mtimeRestores + 1
  /\ UNCHANGED <<cpt, bss, cleared, trap, reentered, signal>>

(* restore_int_vector_jump or restore_int_vector_mret.                     *)
Leave(h) ==
  /\ Goto(h, "leave", "running")
  /\ UNCHANGED <<cpt, shared, trap, reentered, signal>>

-----------------------------------------------------------------------------
Printf(h) == PrintfSpinEnds(h) \/ PrintfTrylock(h) \/ PrintfUnlock(h)

Start(h) ==
  \/ ClearBss(h) \/ OpenBssLock(h) \/ WaitBss(h) \/ EnableTrap(h)
  \/ SelectRestore(h) \/ SelectPayload(h) \/ BadStartAddress(h)
  \/ JumpPayload(h) \/ Restart(h) \/ NoPayload(h) \/ Return(h)

RestoreHart(h) ==
  \/ RestoreUpToMtvec(h) \/ RestoreRest(h) \/ Fault(h)
  \/ RejectTarget(h) \/ SignalBadImm(h) \/ HandlerPrint(h) \/ HandlerSignal(h)

Barrier(h) ==
  \/ SpinEnds(h) \/ Trylock(h) \/ Count(h) \/ Test(h) \/ Unlock(h)
  \/ AwaitRelease(h) \/ SetRelease(h) \/ RestoreMtime(h) \/ Leave(h)

(* A hart executes its next instructions, unless nemu_signal has stopped   *)
(* the machine or a trap took the hart out of the restorer.                *)
Step(h) ==
  /\ signal = "none" /\ h \notin strayed
  /\ Printf(h) \/ Start(h) \/ RestoreHart(h) \/ Barrier(h)

(* Nothing is left to do: the machine is stopped, or no hart is in the     *)
(* restorer.                                                               *)
Finished ==
  /\ signal # "none" \/ \A h \in Harts : pc[h] \in FinalPcs \/ h \in strayed
  /\ UNCHANGED vars

Next == Finished \/ \E h \in Harts : Step(h) \/ Interrupt(h)

(* Every hart keeps executing instructions.                                *)
Spec == Init /\ [][Next]_vars /\ \A h \in Harts : WF_vars(Step(h))

-----------------------------------------------------------------------------
(* Properties.                                                             *)

TypeOK ==
  /\ cpt \in Checkpoints
  /\ pc \in [Harts -> Pcs]
  /\ ret \in [Harts -> Pcs \ PrintfPcs]
  /\ bss \in [BssWords -> Int]
  /\ cleared \subseteq BssWords
  /\ mie \in [Harts -> BOOLEAN]
  /\ mtvec \in [Harts -> {"reset", "gcpt", "zero", "checkpoint"}]
  /\ trapLines \in [Harts -> 0..5]
  /\ strayed \subseteq Harts
  /\ reentered \subseteq Harts
  /\ mtimeRestores \in Nat
  /\ signal \in {"none", "GCPT_GET_BAD_IMM", "GCPT_GET_TRAP"}

HoldsPrintfLock(h) == pc[h] = "mt_print"

HoldsRestoreLock(h) == Loc(h) \in {"g_add", "test", "unlock_wait", "unlock_release"}

(* h has added itself to global_atomic_restore_counter.                    *)
Counted(h) ==
  Loc(h) \in {"test", "unlock_wait", "await_release", "unlock_release",
              "set_release", "restore_mtime", "leave", "running"}

(* h is past the barrier: it saw release_restore, or it sets it.           *)
Released(h) == Loc(h) \in {"set_release", "restore_mtime", "leave", "running"}

(* The area of every hart counts at least the harts of the machine, or     *)
(* there is one hart: all_cpu_num fits the machine.                        *)
CoversMachine ==
  \/ Harts = {0}
  \/ \A h \in Harts : cpt.allCpuNum[h] >= Cardinality(Harts)

CountsAgree == \A h \in Harts : cpt.allCpuNum[h] = cpt.allCpuNum[0]

(* All harts wait for the same number of harts, if for any.                *)
Agreeing == CoversMachine \/ (CountsAgree /\ cpt.allCpuNum[0] # 0)

(* No hart enters gcpt_c_start a second time.                              *)
RunsOnce == cpt.valid \/ HasPayload

(* hart 0 has cleared .bss, and nobody clears it again.                    *)
Opened == RunsOnce /\ bss["bss_lock"] = 1

(* A lock word in .bss is what its holders make it: -1 while exactly one   *)
(* hart is inside and 0 otherwise.  A hart that does not wait for          *)
(* clear_bss, or a clear_bss that passes a word too late, takes a lock     *)
(* from its holder or leaves a free lock taken (gcpt.c:70-77).             *)
LocksExact ==
  Opened =>
    /\ \A g, h \in Harts : HoldsPrintfLock(g) /\ HoldsPrintfLock(h) => g = h
    /\ \A g, h \in Harts : HoldsRestoreLock(g) /\ HoldsRestoreLock(h) => g = h
    /\ bss["mt_printf_lock"] = IF \E h \in Harts : HoldsPrintfLock(h) THEN -1 ELSE 0
    /\ bss["globash_restore_lock"] = IF \E h \in Harts : HoldsRestoreLock(h) THEN -1 ELSE 0

(* No arrival at the barrier is lost or counted twice, neither by          *)
(* clear_bss nor by harts arriving together: the counter is the number of  *)
(* harts that have arrived (decode_restore.c:278-283).                     *)
CounterExact ==
  Opened =>
    bss["global_atomic_restore_counter"] = Cardinality({h \in Harts : Counted(h)})

(* No hart resumes the checkpointed program, nor is about to, while a hart *)
(* of the machine still has to restore its state: not one that is late,    *)
(* that trapped, or that is blocked with --stop-cpu.                       *)
BarrierSafe ==
  CoversMachine => \A g, h \in Harts : Released(g) => Counted(h)

(* Exactly one hart finds itself the last one, so that mtime is written    *)
(* once and does not go back under a running program.  It needs the harts  *)
(* to agree on how many they are, not that they are right.                 *)
MtimeRestoredOnce == Agreeing => mtimeRestores <= 1

(* The interrupts of M-mode stay off while a hart holds a lock, as         *)
(* include/spinlock.h:6 says ("Currently, interrupts are always disabled   *)
(* in M-mode") to justify that disable_irqsave does nothing.               *)
IrqsDisabledInLocks ==
  \A h \in Harts : HoldsPrintfLock(h) \/ HoldsRestoreLock(h) => ~mie[h]

(* A hart that resumes the program finds the machine timer restored, like  *)
(* the rest of "the in-memory architectural state" (README.md:3).          *)
MtimeRestoredBeforeResume ==
  \A h \in Harts : pc[h] = "running" => mtimeRestores > 0

(* A restorer in memory does not take 0x80000000, its own address, for the *)
(* payload's: that is the payload of a "gcpt at flash" (gcpt.c:135).       *)
NoSelfBoot == \A h \in Harts : Loc(h) = "jump_payload" => h \notin reentered

(* A checkpoint every hart can restore, for at most this many harts.       *)
Healthy ==
  /\ cpt.valid
  /\ StopCpu \notin Harts
  /\ \A h \in Harts : ~cpt.badImm[h] /\ cpt.fault[h] = "none" /\ ~cpt.mie[h]
  /\ CountsAgree /\ cpt.allCpuNum[0] <= Cardinality(Harts)

(* Nothing stops or loses a hart on the way to a healthy checkpoint, no    *)
(* matter how long it waits for the others: once its mtvec and mie are the *)
(* checkpoint's, MIE, which the restorer itself turned on (gcpt.c:84), is  *)
(* off, because mstatus comes before mtvec in CSRS (csr.h:25).             *)
HealthyGoesOn ==
  Healthy =>
    /\ signal = "none" /\ strayed = {}
    /\ \A h \in Harts : Loc(h) \notin {"stopped", "handler", "signal_bad_imm"}

(* Nobody waits for ever: all harts resume a healthy checkpoint, those     *)
(* beyond its count too, and the timer is restored.                        *)
AllResume ==
  Healthy => <>[](mtimeRestores > 0 /\ \A h \in Harts : pc[h] = "running")

(* Without a checkpoint all harts boot the payload.                        *)
AllBoot == ~cpt.valid /\ HasPayload => <>[](\A h \in Harts : pc[h] = "payload")

(* A machine without checkpoint and payload starts over for ever, clearing *)
(* the locks under harts that hold them; it never wedges on one: messages  *)
(* go on, or a trap stops it.                                              *)
NeverWedged ==
  ~RunsOnce => <>(signal # "none") \/ []<>(\E h \in Harts : HoldsPrintfLock(h))

(* The harts that stop the simulator, and those that are silently lost.    *)
Signals(h) == h # StopCpu /\ (cpt.badImm[h] \/ cpt.fault[h] = "before_mtvec")

Stranded(h) == h = StopCpu \/ (~cpt.badImm[h] /\ cpt.fault[h] = "after_mtvec")

(* A hart that cannot be restored and knows it stops the whole machine,    *)
(* through all the locks its message needs.                                *)
FailureIsSignalled ==
  cpt.valid /\ (\E h \in Harts : Signals(h)) /\ (\A h \in Harts : ~cpt.mie[h])
    => <>(signal # "none")

(* The barrier is never reached by everybody: a hart is stopped            *)
(* (README.md:11, "Block core N") or lost after its mtvec was replaced, or *)
(* the checkpoint has more harts than the machine.                         *)
Incomplete ==
  \/ CoversMachine /\ Cardinality(Harts) > 1 /\ \E h \in Harts : Stranded(h)
  \/ \A h \in Harts : cpt.allCpuNum[h] > Cardinality(Harts)

(* Then no hart takes itself for the last one, nor finds release_restore   *)
(* set, at any time: the harts that arrive stay (decode_restore.c:282-288).*)
IncompleteBlocks ==
  cpt.valid /\ Incomplete => \A h \in Harts : ~Released(h)

(* Then all harts end up waiting in the barrier, for ever and without a    *)
(* message, and none has left it.                                          *)
OthersBlock ==
  (cpt.valid /\ Incomplete /\ \A h \in Harts : ~Signals(h) /\ ~cpt.mie[h])
  => <>[](\A h \in Harts : IF Stranded(h) THEN pc[h] = "stopped" \/ h \in strayed
                                          ELSE pc[h] = "await_release")

-----------------------------------------------------------------------------
(* How far a hart is, as RestoreContract sees it.                          *)
Phase(h) ==
  IF pc[h] = "running" THEN "resumed"
  ELSE IF Counted(h) THEN "ready"
  ELSE IF pc[h] = "payload" THEN "payload"
  ELSE IF pc[h] = "stopped" \/ h \in strayed \/ signal # "none" THEN "lost"
  ELSE "booting"

Contract == INSTANCE RestoreContract
  WITH valid <- cpt.valid, phase <- [h \in Harts |-> Phase(h)], timerSet <- mtimeRestores > 0

(* The locks, the counter and the traps implement the contract: harts get  *)
(* ready one by one, resume only when all are, and set the timer once.     *)
ImplementsContract == Contract!Spec

(* The two locks, each as SpinLock sees it.                                *)
PrintfPc(h) ==
  CASE pc[h] = "mt_spin" -> "spin" [] pc[h] = "mt_swap" -> "swap"
    [] HoldsPrintfLock(h) -> "held" [] OTHER -> "idle"

RestoreLockPc(h) ==
  CASE pc[h] = "g_spin" -> "spin" [] pc[h] = "g_swap" -> "swap"
    [] HoldsRestoreLock(h) -> "held" [] OTHER -> "idle"

PrintfLock == INSTANCE SpinLock
  WITH Proc <- Harts, lock <- bss["mt_printf_lock"], pc <- [h \in Harts |-> PrintfPc(h)]

RestoreLock == INSTANCE SpinLock
  WITH Proc <- Harts, lock <- bss["globash_restore_lock"],
       pc <- [h \in Harts |-> RestoreLockPc(h)]

(* Whatever the harts do inside and outside of them, mt_printf_lock and    *)
(* globash_restore_lock are used as SpinLock describes, also where a hart  *)
(* prints with the other lock held: what is proved of SpinLock holds here. *)
LocksImplementSpinLock == PrintfLock!Spec /\ RestoreLock!Spec
=============================================================================
