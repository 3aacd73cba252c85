------------------------ MODULE LayerwiseCalibration ------------------------
(***************************************************************************)
(* What the sequential pipeline promises to the modifiers: the layers are  *)
(* calibrated in order, the hooks of a layer see every batch exactly once  *)
(* before the layer is compressed, and nothing of a layer that has been    *)
(* compressed is calibrated again.                                         *)
(***************************************************************************)
EXTENDS Naturals

CONSTANTS Layers, Batches   \* their numbers

VARIABLES
  compressed,   \* number of layers compressed so far
  runs,         \* runs[b]: times batch b ran through the hooks of this layer
  status        \* "running", "done" or "failed"

vars == <<compressed, runs, status>>

NoRuns == [b \in 1 .. Batches |-> 0]

Init == compressed = 0 /\ runs = NoRuns /\ status = "running"

Calibrate(b) ==
  /\ status = "running" /\ compressed < Layers
  /\ runs[b] = 0
  /\ runs' = [runs EXCEPT ![b] = 1]
  /\ UNCHANGED <<compressed, status>>

Compress ==
  /\ status = "running" /\ compressed < Layers
  /\ \A b \in 1 .. Batches : runs[b] = 1
  /\ compressed' = compressed + 1
  /\ runs' = NoRuns
  /\ UNCHANGED status

Finish ==
  /\ status = "running" /\ compressed = Layers
  /\ status' = "done"
  /\ UNCHANGED <<compressed, runs>>

Fail == status = "running" /\ status' = "failed" /\ UNCHANGED <<compressed, runs>>

Next == (\E b \in 1 .. Batches : Calibrate(b)) \/ Compress \/ Finish \/ Fail

Spec == Init /\ [][Next]_vars
=============================================================================
