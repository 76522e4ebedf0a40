--------------------------- MODULE SpinLockProofs ---------------------------
(***************************************************************************)
(* The spin lock of include/spinlock.h excludes, its word is exact, and    *)
(* its steps are steps of an abstract lock, for any set of harts.          *)
(***************************************************************************)
EXTENDS SpinLock, TLAPS

(* Exclusion rests on the word: the swap that finds 0 finds nobody inside. *)
(* The word stays exact because a losing swap overwrites -1 with -1.       *)
Inv == TypeOK /\ MutualExclusion /\ WordIsExact

(* SPINLOCK_INIT: the word of a lock nobody is near is exact.              *)
LEMMA InitInv == Init => Inv
BY DEF Init, Inv, TypeOK, MutualExclusion, WordIsExact

(* No instruction of spinlock_lock or spinlock_unlock, by any hart in any  *)
(* state of the others, breaks the invariant.                              *)
LEMMA NextInv == Inv /\ [Next]_vars => Inv'
<1> SUFFICES ASSUME Inv, [Next]_vars PROVE Inv'
  OBVIOUS
<1> USE DEF Inv, TypeOK, MutualExclusion, WordIsExact, Goto
<1>1. ASSUME NEW p \in Proc, Call(p) PROVE Inv'
  BY <1>1 DEF Call
<1>2. ASSUME NEW p \in Proc, SpinEnds(p) PROVE Inv'
  BY <1>2 DEF SpinEnds
<1>3. ASSUME NEW p \in Proc, TrylockGets(p) PROVE Inv'
  BY <1>3 DEF TrylockGets
<1>4. ASSUME NEW p \in Proc, TrylockFails(p) PROVE Inv'
  BY <1>4 DEF TrylockFails
<1>5. ASSUME NEW p \in Proc, Unlock(p) PROVE Inv'
  BY <1>5 DEF Unlock
<1>6. CASE UNCHANGED vars
  BY <1>6 DEF vars
<1>7. QED
  BY <1>1, <1>2, <1>3, <1>4, <1>5, <1>6 DEF Next, Step

(* The word is exact and the lock excludes, at every moment, for any       *)
(* harts.                                                                  *)
LEMMA Invariance == Spec => []Inv
BY InitInv, NextInv, PTL DEF Spec

(* The variables keep their types: the word is 0 or -1 although a swap     *)
(* writes it without looking.                                              *)
THEOREM TypeCorrect == Spec => []TypeOK
BY Invariance, PTL DEF Inv

(* Two harts never hold a spinlock_t together.                             *)
THEOREM Exclusion == Spec => []MutualExclusion
BY Invariance, PTL DEF Inv

(* The word of a spinlock_t says exactly whether a hart holds it.          *)
THEOREM WordExact == Spec => []WordIsExact
BY Invariance, PTL DEF Inv

-----------------------------------------------------------------------------
(* Reading and losing the swap are stutters of Mutex, winning it is Enter: *)
(* the word is 0, so that nobody is inside.                                *)
LEMMA StepRefines == Inv /\ [Next]_vars => [Abstract!Next]_UserState
<1> SUFFICES ASSUME Inv, [Next]_vars PROVE [Abstract!Next]_UserState
  OBVIOUS
<1> USE DEF Inv, TypeOK, Goto, UserState
<1>1. ASSUME NEW p \in Proc, Call(p) PROVE Abstract!Ask(p)
  BY <1>1 DEF Call, Abstract!Ask
<1>2. ASSUME NEW p \in Proc, SpinEnds(p) PROVE UNCHANGED UserState
  BY <1>2 DEF SpinEnds
<1>3. ASSUME NEW p \in Proc, TrylockGets(p) PROVE Abstract!Enter(p)
  <2>1. \A q \in Proc : UserState[q] # "inside"
    BY <1>3 DEF TrylockGets, WordIsExact
  <2>2. UserState[p] = "waiting" /\ UserState' = [UserState EXCEPT ![p] = "inside"]
    BY <1>3 DEF TrylockGets
  <2>3. QED
    BY <2>1, <2>2 DEF Abstract!Enter
<1>4. ASSUME NEW p \in Proc, TrylockFails(p) PROVE UNCHANGED UserState
  BY <1>4 DEF TrylockFails
<1>5. ASSUME NEW p \in Proc, Unlock(p) PROVE Abstract!Leave(p)
  BY <1>5 DEF Unlock, Abstract!Leave
<1>6. CASE UNCHANGED vars
  BY <1>6 DEF vars
<1>7. QED
  BY <1>1, <1>2, <1>3, <1>4, <1>5, <1>6 DEF Next, Step, Abstract!Next

(* Every behaviour of the word and its users is one of an abstract lock,   *)
(* as far as safety goes.                                                  *)
THEOREM RefinesMutex == Spec => Abstract!Init /\ [][Abstract!Next]_UserState
<1>1. Init => Abstract!Init
  BY DEF Init, Abstract!Init, UserState
<1>2. QED
  BY <1>1, Invariance, StepRefines, PTL DEF Spec
=============================================================================
