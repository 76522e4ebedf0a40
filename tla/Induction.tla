------------------------------ MODULE Induction ------------------------------
(***************************************************************************)
(* Induction and recursive functions for the proofs about printf: what a   *)
(* loop of the code leaves behind, written as a recursive function over    *)
(* 0..n, exists and takes its steps.                                       *)
(*                                                                         *)
(* The induction theorems of the library take the statement to prove as an *)
(* operator. Here it is a set: that of the numbers for which the statement *)
(* holds. It rests on one fact of WellFoundedInduction, that a set on      *)
(* which < is well founded has a least element.                            *)
(***************************************************************************)
EXTENDS Integers, Sequences, WellFoundedInduction, TLAPS

(* A set of natural numbers that is not empty has a least one.             *)
LEMMA LeastNumber ==
  ASSUME NEW T \in SUBSET Nat, T # {}
  PROVE  \E n \in T : \A m \in T : n <= m
<1> DEFINE less == {ss \in Nat \X Nat : ss[1] < ss[2]}
<1>1. less = OpToRel(<, Nat)
  BY DEF OpToRel
<1>2. IsWellFoundedOn(less, Nat)
  BY <1>1, NatLessThanWellFounded
<1>3. PICK n \in T : \A m \in T : <<m, n>> \notin less
  <2> HIDE DEF less
  <2>1. QED
    BY <1>2, WFMin
<1>4. ASSUME NEW m \in T PROVE n <= m
  <2>1. m \in Nat /\ n \in Nat /\ (m < n => <<m, n>> \in less)
    OBVIOUS
  <2> HIDE DEF less
  <2>2. QED
    BY <1>3, <2>1
<1>5. QED
  BY <1>4

(* Induction: a set with 0 that has n + 1 with each n has all numbers.     *)
LEMMA NatSetInduction ==
  ASSUME NEW T \in SUBSET Nat, 0 \in T, \A n \in T : n + 1 \in T
  PROVE  T = Nat
<1>1. SUFFICES ASSUME Nat \ T # {} PROVE FALSE
  OBVIOUS
<1>2. PICK n \in Nat \ T : \A m \in Nat \ T : n <= m
  BY <1>1, LeastNumber
<1>3. n # 0 /\ n - 1 \in Nat /\ n - 1 \notin Nat \ T
  BY <1>2
<1>4. n - 1 + 1 \in T
  BY <1>3
<1>5. QED
  BY <1>2, <1>4

(* Induction up to a bound: the index of a loop that runs n times.         *)
LEMMA SegmentInduction ==
  ASSUME NEW n \in Nat, NEW T, 0 \in T, \A k \in 1..n : k - 1 \in T => k \in T
  PROVE  0..n \subseteq T
<1> DEFINE U == {k \in Nat : k <= n => k \in T}
<1>1. \A k \in U : k + 1 \in U
  <2>1. ASSUME NEW k \in U, k + 1 <= n PROVE k + 1 \in T
    <3>1. k \in T /\ k + 1 \in 1..n /\ k + 1 - 1 = k
      BY <2>1
    <3>2. QED
      BY <3>1
  <2>2. QED
    BY <2>1
<1>2. U \in SUBSET Nat /\ 0 \in U
  OBVIOUS
<1>3. U = Nat
  <2> HIDE DEF U
  <2>1. QED
    BY <1>1, <1>2, NatSetInduction
<1>4. QED
  BY <1>3

(* n steps on the elements of S, and the sequences of states they make.    *)
Steps(n, S) == [1..n -> [S -> S]]
Iterations(n, S, c, step) == {f \in [0..n -> S] : f[0] = c /\ \A k \in 1..n : f[k] = step[k][f[k - 1]]}

(* A loop that starts from c and takes step[k] as its k-th step runs:      *)
(* there is a sequence of states that starts with c and follows the steps. *)
(* This is what a recursive function over 0..n stands for.                 *)
LEMMA Recursion ==
  ASSUME NEW S, NEW c \in S, NEW n \in Nat, NEW step \in Steps(n, S)
  PROVE  \E f : f \in Iterations(n, S, c, step)
<1> DEFINE Partial(m) == {f \in [0..m -> S] : f[0] = c /\ \A k \in 1..m : f[k] = step[k][f[k - 1]]}
           T == {m \in Nat : m <= n => \E f : f \in Partial(m)}
<1> HIDE DEF Partial
<1>1. 0 \in T
  <2>1. [k \in 0..0 |-> c] \in Partial(0)
    BY DEF Partial
  <2>2. QED
    BY <2>1
<1>2. ASSUME NEW m \in T PROVE m + 1 \in T
  <2>1. SUFFICES ASSUME m + 1 <= n PROVE \E f : f \in Partial(m + 1)
    OBVIOUS
  <2>2. PICK f : f \in Partial(m)
    BY <2>1
  <2> DEFINE x == step[m + 1][f[m]]
             g == [k \in 0..m + 1 |-> IF k <= m THEN f[k] ELSE x]
  <2>3. /\ m \in Nat /\ m + 1 \in 1..n /\ f \in [0..m -> S] /\ f[0] = c
        /\ \A k \in 1..m : f[k] = step[k][f[k - 1]]
    BY <2>1, <2>2 DEF Partial
  <2>0. step \in [1..n -> [S -> S]]
    BY DEF Steps
  <2>4. f[m] \in S /\ x \in S
    BY <2>0, <2>3
  <2>5. \A k \in 0..m : g[k] = f[k]
    BY <2>3
  <2>6. g[m + 1] = x
    BY <2>3
  <2>7. g \in [0..m + 1 -> S]
    <3> HIDE DEF x
    <3>1. QED
      BY <2>3, <2>4
  <2> HIDE DEF g
  <2>8. \A k \in 1..m + 1 : g[k] = step[k][g[k - 1]]
    BY <2>3, <2>5, <2>6
  <2>9. g \in Partial(m + 1)
    BY <2>3, <2>5, <2>7, <2>8 DEF Partial
  <2>10. QED
    BY <2>9
<1>3. T = Nat
  <2> HIDE DEF T
  <2>1. T \in SUBSET Nat
    BY DEF T
  <2>2. QED
    BY <1>1, <1>2, <2>1, NatSetInduction
<1>4. PICK f : f \in Partial(n)
  BY <1>3
<1>5. QED
  BY <1>4 DEF Partial, Iterations
=============================================================================
