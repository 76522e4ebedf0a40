------------------------------- MODULE Mutex -------------------------------
(***************************************************************************)
(* What a lock promises its users: a set of processes ask for it, at most  *)
(* one has it at a time, and whoever has it gives it back.  This is the    *)
(* specification SpinLock (include/spinlock.h) is shown to implement.      *)
(***************************************************************************)
CONSTANT Proc           \* the processes that share the lock

VARIABLE state          \* state[p]: what process p is doing about the lock

Init == state = [p \in Proc |-> "idle"]

(* p calls lock() and is not back yet. *)
Ask(p) ==
  /\ state[p] = "idle"
  /\ state' = [state EXCEPT ![p] = "waiting"]

(* lock() returns to p: nobody is inside. *)
Enter(p) ==
  /\ state[p] = "waiting"
  /\ \A q \in Proc : state[q] # "inside"
  /\ state' = [state EXCEPT ![p] = "inside"]

(* p calls unlock(). *)
Leave(p) ==
  /\ state[p] = "inside"
  /\ state' = [state EXCEPT ![p] = "idle"]

Next == \E p \in Proc : Ask(p) \/ Enter(p) \/ Leave(p)

(* The lock is never withheld for ever from everybody: while some process  *)
(* waits and none is inside, one of the waiting processes gets in.         *)
Fairness == WF_state(\E p \in Proc : Enter(p)) /\ \A p \in Proc : WF_state(Leave(p))

Spec == Init /\ [][Next]_state /\ Fairness
=============================================================================
