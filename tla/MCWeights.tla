----------------------------- MODULE MCWeights -----------------------------
(* What becomes of the weights, on up to two ranks.  A behaviour is one of the
   calibration of weights, of smoothing, of the columns of one weight in GPTQ, or of
   rotations; the other three stay as they are.

   WeightCalibration: three fused projections and another weight, in one epoch or in
   several.  Smoothing: two sequential decoder layers, or a parallel block, in one
   subgraph or two, with mappings that cannot be smoothed.  GptqColumns: up to five
   columns in any order.  Rotations: a decoder layer of either architecture, rotated by
   any choice of matrices of one modifier or of both. *)
EXTENDS MCWeightCalibration, Smoothing, GptqColumns, Rotations, TLC

-----------------------------------------------------------------------------
(* The mappings of default_mappings: norm -> q, v and v -> o of decoder layers 1 and 2,
   up -> down of layer 1.  Those of _cohere_mappings, with the smooth layer inside of the
   parent; v and o of a model with grouped queries have different shapes. *)

SmoothLayers == {"norm1", "q1", "v1", "o1", "up1", "down1", "norm2", "q2", "v2", "o2"}
SmoothParents == {"block1", "attn1", "out1", "mlp1", "attn2"}
InsideParents ==
  [block1 |-> {"norm1", "q1", "v1", "o1", "up1", "down1"},
   attn1 |-> {"q1", "v1", "o1"}, out1 |-> {"o1"}, mlp1 |-> {"down1"},
   attn2 |-> {"q2", "v2", "o2"}]

Mapping(smooth, balance, parent, hook) ==
  [smooth |-> smooth, balance |-> balance, parent |-> parent, hook |-> hook,
   compatible |-> TRUE, targeted |-> TRUE]

Serial ==
  << Mapping("norm1", {"q1", "v1"}, "attn1", "q1"),
     Mapping("norm2", {"q2", "v2"}, "attn2", "q2"),
     Mapping("v1", {"o1"}, "out1", "o1"),
     Mapping("up1", {"down1"}, "mlp1", "down1") >>
Parallel ==
  << Mapping("norm1", {"q1", "v1", "up1"}, "block1", "q1"),
     [Mapping("v1", {"o1"}, "out1", "o1") EXCEPT !.compatible = FALSE],
     Mapping("up1", {"down1"}, "mlp1", "down1"),
     [Mapping("norm2", {"q2", "v2"}, "attn2", "q2") EXCEPT !.targeted = FALSE] >>

SmoothMatched == {Serial, Parallel}

(* The decoder layers in one subgraph, as in the basic pipeline, or divided by finer
   targets: the first block is traced through, and its MLP runs with the second layer. *)
Whole ==
  [subgraph |-> [l \in SmoothLayers |-> 1], calls |-> [p \in SmoothParents |-> 1]]
Halves ==
  [subgraph |-> [l \in SmoothLayers |-> IF l \in {"norm1", "q1", "v1", "o1"} THEN 1 ELSE 2],
   calls |-> [block1 |-> 0, attn1 |-> 1, out1 |-> 1, mlp1 |-> 2, attn2 |-> 2]]
SmoothLayouts == {Whole, Halves}

(* Everything is reached, or up1 and down1 are an expert that no token is routed to. *)
ForwardOrder ==
  <<"norm1", "q1", "v1", "o1", "up1", "down1", "norm2", "q2", "v2", "o2">>
SmoothReaches ==
  {ForwardOrder, SelectSeq(ForwardOrder, LAMBDA l : l \notin {"up1", "down1"})}

ASSUME SmoothingAssumption

(* What WeightsProofs assumes of the resolved mappings. *)
ASSUME MappingsSupported

-----------------------------------------------------------------------------

(* Norms have to be fused before anything stands between a norm and its readers: QuIP
   before SpinQuant does not preserve the function. *)
MCRecipes == {<<"spinquant">>, <<"quip">>, <<"spinquant", "quip">>}

-----------------------------------------------------------------------------

VARIABLE component  \* the component that moves

(* One of the states each component may start in. *)
WeightsRest ==
  /\ ranks = {r1} /\ modifier = "gptq" /\ schedule = << <<q, k, v, o>> >>
  /\ coverage = [r \in Ranks |-> <<q, k, v, o>>] /\ home = [m \in Modules |-> r1]
SmoothingRests ==
  /\ algorithm = "awq" /\ world = {r1} /\ mappings = Resolved(Serial, algorithm)
  /\ layout = Whole /\ reach = [r \in {r1} |-> ForwardOrder]
  /\ propagate = TRUE /\ bad = [r \in {r1} |-> [i \in DOMAIN mappings |-> "no"]]
ColumnsRest ==
  /\ columns = 1 /\ blockSize = 1 /\ groupSize = 0 /\ perm = [p \in {0} |-> 0]
  /\ isFactorized = TRUE
RotationsRest ==
  /\ arch = "llama" /\ recipe = <<"quip">> /\ rotations = {} /\ sides = {}
  /\ ignoresHead = TRUE /\ isOverridden = FALSE /\ isShared = TRUE
  /\ norms = [n \in {"input", "post", "final"} |->
                [factor |-> "own", isOffset |-> FALSE, shift |-> 0]]

MCInit ==
  /\ component \in {"weights", "smoothing", "columns", "rotations"}
  /\ component # "weights" => WeightsRest
  /\ WeightInit
  /\ component # "smoothing" => SmoothingRests
  /\ SmoothingInit
  /\ component # "columns" => ColumnsRest
  /\ GptqColumnsInit
  /\ component # "rotations" => RotationsRest
  /\ RotationsInit

MCNext ==
  /\ UNCHANGED component
  /\ \/ component = "weights" /\ WeightNext /\ UNCHANGED <<smoothVars, gptqVars, rotVars>>
     \/ component = "smoothing" /\ SmoothingNext /\ UNCHANGED <<weightVars, gptqVars, rotVars>>
     \/ component = "columns" /\ GptqColumnsNext /\ UNCHANGED <<weightVars, smoothVars, rotVars>>
     \/ component = "rotations" /\ RotationsNext
        /\ UNCHANGED <<weightVars, smoothVars, gptqVars>>

(* The fairness of each component, where it is the one that moves. *)
MCSpec ==
  /\ MCInit /\ [][MCNext]_<<component, weightVars, smoothVars, gptqVars, rotVars>>
  /\ \A r \in Ranks :
       /\ WF_weightVars(component = "weights" /\ r \in ranks /\ Step(r))
       /\ WF_smoothVars(component = "smoothing" /\ r \in world /\ SmoothStep(r))

-----------------------------------------------------------------------------
(* No rank waits forever, neither when weights are calibrated nor when they are
   smoothed. *)
RanksTerminate ==
  /\ component = "weights" => AllRanksFinish
  /\ component = "smoothing" => SmoothingTerminates
=============================================================================
