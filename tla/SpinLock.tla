------------------------------ MODULE SpinLock ------------------------------
(***************************************************************************)
(* spinlock_t of include/spinlock.h: a test-and-test-and-set lock in one   *)
(* memory word, 0 when free.  spinlock_lock reads the word until it is 0,  *)
(* then swaps -1 into it; the swap writes the word even when it fails.     *)
(* The word is only accessed with __ATOMIC_SEQ_CST operations, amoswap and *)
(* fences, so that its accesses are interleaved one at a time.             *)
(***************************************************************************)
EXTENDS Integers

CONSTANT Proc           \* the harts that use the lock

VARIABLES
  lock,                 \* the word: 0 or -1
  pc                    \* pc[p]: where p is in spinlock_lock .. spinlock_unlock

vars == <<lock, pc>>

Goto(p, from, to) == pc[p] = from /\ pc' = [pc EXCEPT ![p] = to]

(* SPINLOCK_INIT, and no hart near the lock. *)
Init == lock = 0 /\ pc = [p \in Proc |-> "idle"]

(* A hart calls spinlock_lock. *)
Call(p) == Goto(p, "idle", "spin") /\ UNCHANGED lock

(* The inner loop ends: atomic_read found the word zero.                   *)
SpinEnds(p) == Goto(p, "spin", "swap") /\ lock = 0 /\ UNCHANGED lock

(* Faulty: the result of the swap is not looked at. *)
TrylockGets_IgnoreResult(p) == Goto(p, "swap", "held") /\ lock' = -1

(* Faulty: the swap of a build without atomics: the word is tested but the *)
(* store of -1 is lost, as when two read-then-write sequences overlap.     *)
TrylockGets_LostStore(p) == Goto(p, "swap", "held") /\ lock = 0 /\ UNCHANGED lock

(* spinlock_trylock: the swap returned 0, and the outer loop ends.         *)
TrylockGets(p) == Goto(p, "swap", "held") /\ lock = 0 /\ lock' = -1

(* Faulty: a failed swap leaves the lock free. *)
TrylockFails_Frees(p) == Goto(p, "swap", "spin") /\ lock # 0 /\ lock' = 0

(* Faulty: the swap is a fetch-and-add of -1.                              *)
TrylockFails_Adds(p) == Goto(p, "swap", "spin") /\ lock # 0 /\ lock' = lock - 1

(* spinlock_trylock: the swap returned -1; it has written -1 all the same. *)
TrylockFails(p) == Goto(p, "swap", "spin") /\ lock # 0 /\ lock' = -1

(* Faulty: unlock without the store. *)
Unlock_NoStore(p) == Goto(p, "held", "idle") /\ UNCHANGED lock

(* spinlock_unlock: fence, then store 0.                                   *)
Unlock(p) == Goto(p, "held", "idle") /\ lock' = 0

Step(p) == SpinEnds(p) \/ TrylockGets(p) \/ TrylockFails(p) \/ Unlock(p)

Next == \E p \in Proc : Call(p) \/ Step(p)

(* A hart keeps executing instructions until it is out of the lock; that   *)
(* it calls spinlock_lock at all is its own choice.                        *)
Spec == Init /\ [][Next]_vars /\ \A p \in Proc : WF_vars(Step(p))

-----------------------------------------------------------------------------
TypeOK ==
  /\ lock \in {0, -1}
  /\ pc \in [Proc -> {"idle", "spin", "swap", "held"}]

(* Two harts never hold the lock together, although each decides on a word *)
(* it read before its swap and a failing swap writes the word of the       *)
(* holder.                                                                 *)
MutualExclusion ==
  \A p, q \in Proc : pc[p] = "held" /\ pc[q] = "held" => p = q

(* The word says exactly whether the lock is held: the -1 a losing swap    *)
(* writes over the word can never outlive the holder, which would lock     *)
(* everybody out.                                                          *)
WordIsExact == (lock = -1) <=> (\E p \in Proc : pc[p] = "held")

(* What a user of the lock sees. *)
UserState ==
  [p \in Proc |-> IF pc[p] = "idle" THEN "idle"
                  ELSE IF pc[p] = "held" THEN "inside" ELSE "waiting"]

Abstract == INSTANCE Mutex WITH state <- UserState

(* The spin lock is a lock: every behaviour of the word and its users is   *)
(* one of Mutex, and whenever somebody waits and nobody is inside somebody *)
(* gets in.                                                                *)
ImplementsMutex == Abstract!Spec
=============================================================================
