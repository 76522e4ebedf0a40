----------------------------- MODULE MCRestorer -----------------------------
(* Machines and checkpoints for TLC.                                       *)
EXTENDS Restorer

(* A build without --stop-cpu. *)
NoHart == -1

TwoHarts   == 0..1
ThreeHarts == 0..2
FourHarts  == 0..3

(* A checkpoint of n harts that all can restore.                           *)
CheckpointOf(n) ==
  [valid     |-> TRUE,
   allCpuNum |-> [h \in Harts |-> n],
   mie       |-> [h \in Harts |-> FALSE],
   badImm    |-> [h \in Harts |-> FALSE],
   fault     |-> [h \in Harts |-> "none"]]

NoCheckpoint == [CheckpointOf(0) EXCEPT !.valid = FALSE]

JustNone == {NoCheckpoint}

JustGood == {CheckpointOf(Cardinality(Harts))}

(* A checkpoint of this machine, or none.                                  *)
GoodOrNone == {CheckpointOf(Cardinality(Harts)), NoCheckpoint}

(* A checkpoint of this machine, or of a larger one, or none.              *)
GoodLargerOrNone == GoodOrNone \cup {CheckpointOf(Cardinality(Harts) + 1)}

(* A checkpoint of this machine or of a smaller one (the single-core       *)
(* generators leave 0 in csr_reserve), or none.                            *)
UpToMachine == {CheckpointOf(n) : n \in 0..Cardinality(Harts)} \cup {NoCheckpoint}

(* Functions on Harts that differ from `usual' at no more than one hart.   *)
AtMostOne(S, usual) == {[[h \in Harts |-> usual] EXCEPT ![g] = x] : g \in Harts, x \in S}

(* At most one hart takes a fault.                                         *)
Faults == AtMostOne({"none", "before_mtvec", "after_mtvec"}, "none")

(* ... and at most one has no jal to its target.                           *)
Failing ==
  {[CheckpointOf(Cardinality(Harts)) EXCEPT !.fault = f, !.badImm = b] :
     f \in Faults, b \in AtMostOne(BOOLEAN, FALSE)}

(* ... or at most one has interrupts enabled.                              *)
Interrupted ==
  {[CheckpointOf(Cardinality(Harts)) EXCEPT !.fault = f, !.mie = m] :
     f \in Faults, m \in AtMostOne(BOOLEAN, FALSE)}

FailingOrInterrupted == Failing \cup Interrupted
=============================================================================
