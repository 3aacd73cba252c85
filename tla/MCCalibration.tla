---------------------------- MODULE MCCalibration ----------------------------
(* How a model is calibrated.  A behaviour is one of dividing a dataset among ranks, of
   rewriting a forward function for tracing, of partitioning a traced graph, of a run of
   the sequential pipeline, or of AutoRound in its pipelines; the others stay as they are.

   Datasets: up to three ranks with datasets of up to five samples.  Autowrap: functions
   of three statements: one that prepares names, an if on data with any two branches, and
   one that reads.  Partition: every
   graph of five nodes: an input, the output, and three nodes of any kind connected in
   any way that respects the order of tracing.  SequentialPipeline: every way to connect
   three subgraphs through two names of the data loader and two values that one subgraph
   computes: a chain, a skip connection, a value several later subgraphs read, data that
   is read again or not at all.  AutoRound: three layers of an attention and three
   projections, tuned alone or beside the modifier that calibrates the attention. *)
EXTENDS MCDatasets, Autowrap, Partition, SequentialPipeline, AutoRound, TLC

CONSTANTS ids, mask, hidden, skip

MCIdentifiers == {"x", "h", "cache", "scale"}
MCTests == {"t", "u"}

Compute(op, to, from) == << Assign(op, to, {from}) >>

Branches ==
  { <<>>, << Assign("up", "h", {"x", "scale"}) >>, Compute("read", "cache", "h"), << Augment("add", "h") >>,
    << Delete("h") >>, << ReturnOf({"x"}) >>,
    << For("t", "cache", {"x"}, Compute("attend", "h", "cache")) >>,
    << If("t", {"x"}, Compute("gate", "h", "x"), <<>>),
       If("t", {"x"}, Compute("read", "cache", "h"), Compute("reset", "cache", "x")) >> }

Prologues ==
  { Assign("embed", "h", {"x", "scale"}), Delete("x"),
    If("true", {}, Compute("embed", "h", "x"), Compute("embed", "cache", "x")),
    If("false", {}, Compute("embed", "h", "x"), Compute("embed", "cache", "x")),
    If("t", {"x"}, <<Assign("embed", "h", {"x"}), ReturnOf({"h"})>>, Compute("embed", "cache", "x")),
    For("t", "cache", {"x"}, Compute("attend", "h", "x")),
    For("t", "cache", {"x"}, << If("u", {"x"}, <<Assign("skip", "x", {"x"}), Break>>, <<>>),
                                If("u", {"x"}, <<>>, Compute("attend", "x", "cache")) >>),
    For("t", "cache", {"x"}, << If("u", {"x"}, <<Break>>, Compute("skip", "h", "x")),
                                If("u", {"x"}, <<>>, Compute("attend", "x", "h")) >>) }

Epilogues ==
  { If("u", {"cache"}, <<>>, Compute("norm", "x", "h")),
    ReturnOf({"h"}), ReturnOf({"x"}), Delete("h"),
    Choose("norm", "x", "t", {"x"}, {"h"}, {"cache"}), Choose("norm", "h", "t", {"x"}, {"x"}, {"h"}),
    Call("norm", "x", {"h", "cache"}) }

MCForwards ==
  {<<p, If("u", {r}, yes, no), e>> :
     p \in Prologues, r \in {"x", "h"}, yes \in Branches, no \in Branches, e \in Epilogues}

-----------------------------------------------------------------------------

MCGraphSize == 5
MCLimits == {1, 2}
MCNodes == 1 .. MCGraphSize

Kinds ==
  {op \in [MCNodes -> Ops] :
     /\ op[1] = "placeholder" /\ op[MCGraphSize] = "output"
     /\ \A n \in 2 .. MCGraphSize - 1 : op[n] \in {"get_attr", "call", "target"}}

Edges(op) ==
  {e \in MCNodes \X MCNodes :
     e[1] < e[2] /\ op[e[2]] \notin {"placeholder", "get_attr"}}

(* Every node that computes reads a value of the input, directly or not. *)
WellFormed(g) ==
  \A n \in MCNodes : g.op[n] \notin {"placeholder", "get_attr"} =>
    \E i \in MCNodes : <<i, n>> \in g.edges /\ g.op[i] # "get_attr"

AnyGraph ==
  UNION {{g \in {[op |-> op, edges |-> edges] : edges \in SUBSET Edges(op)} :
            WellFormed(g)} : op \in Kinds}

(* The nodes the output depends on through at most k edges. *)
Live(g) ==
  LET live[k \in Nat] ==
        IF k = 0 THEN {MCGraphSize}
        ELSE LET nearer == live[k - 1] IN
             nearer \cup {i \in MCNodes : \E j \in nearer : <<i, j>> \in g.edges}
  IN live[MCGraphSize]

(* The graphs whose targets contribute to the output. *)
MCGraphs ==
  {g \in AnyGraph : \A n \in MCNodes : g.op[n] = "target" => n \in Live(g)}

(* What CalibrationProofs assumes of graphs. *)
ASSUME GraphsAssumption == GraphsAreSound

-----------------------------------------------------------------------------

MCNames == {ids, mask, hidden, skip}
MCDataNames == {ids, mask}

(* As partition_graph makes them: a value is written where it is computed, and
   data by the first subgraph only. *)
MCPartitions ==
  {p \in [inputs : [1 .. N -> SUBSET MCNames],
          outputs : [1 .. N -> SUBSET MCNames]] :
     /\ p.outputs[N] = {}
     /\ \A s \in 2 .. N : p.outputs[s] \cap (MCDataNames \cup p.outputs[1]) = {}
     /\ hidden \in p.outputs[1] /\ mask \in p.inputs[1]
     /\ Executable(p.inputs, p.outputs, MCDataNames)
     /\ NothingWasted(p.inputs, p.outputs)}

MCModules == {"attn", "q", "up", "down"}
MCLinear == {"q", "up", "down"}
MCPlans ==
  { << <<"ar">> >>, << <<"ar", "qm">> >>, << <<"qm", "ar">> >>,
    << <<"ar">>, <<"qm">> >>, << <<"qm">>, <<"ar">> >> }
MCFields == {{"q", "up"}, MCLinear}

(* What CalibrationProofs assumes of recipes. *)
ASSUME PlansAssumption == PlansTuneOnce

-----------------------------------------------------------------------------

VARIABLE component  \* the component that moves

(* The state in which a component stays that does not move. *)
DatasetsRests ==
  /\ world = 1 /\ request = 0 /\ shuffle = FALSE /\ data = [r \in {0} |-> "small"]
  /\ DatasetsInit
AutowrapRests ==
  /\ forward = << Assign("embed", "h", {"x", "scale"}), If("u", {"x"}, <<>>, <<>>), ReturnOf({"h"}) >>
  /\ AutowrapInit
PartitionRests ==
  /\ graph = [op |-> [n \in MCNodes |-> CASE n = 1 -> "placeholder"
                                          [] n = MCGraphSize -> "output"
                                          [] OTHER -> "call"],
              edges |-> {<<n, n + 1>> : n \in 1 .. MCGraphSize - 1}]
  /\ limit = 1
  /\ PartitionInit
PipelineRests ==
  /\ partition = [inputs |-> [s \in 1 .. N |-> IF s = 1 THEN MCDataNames ELSE {hidden}],
                  outputs |-> [s \in 1 .. N |-> IF s = 1 THEN {hidden} ELSE {}]]
  /\ propagate = TRUE /\ prefetch = FALSE
  /\ PipelineInit
AutoRoundRests ==
  /\ plan = << <<"ar">> >> /\ field = MCLinear /\ group = 1 /\ propagateError = TRUE
  /\ AutoRoundInit

(* The component that moves comes last: the others have one state each. *)
MCInit ==
  \/ /\ component = "datasets"
     /\ AutowrapRests /\ PartitionRests /\ PipelineRests /\ AutoRoundRests /\ DatasetsInit
  \/ /\ component = "autowrap"
     /\ DatasetsRests /\ PartitionRests /\ PipelineRests /\ AutoRoundRests /\ AutowrapInit
  \/ /\ component = "partition"
     /\ DatasetsRests /\ AutowrapRests /\ PipelineRests /\ AutoRoundRests /\ PartitionInit
  \/ /\ component = "pipeline"
     /\ DatasetsRests /\ AutowrapRests /\ PartitionRests /\ AutoRoundRests /\ PipelineInit
  \/ /\ component = "autoround"
     /\ DatasetsRests /\ AutowrapRests /\ PartitionRests /\ PipelineRests /\ AutoRoundInit

MCNext ==
  /\ UNCHANGED component
  /\ \/ /\ component = "datasets" /\ DatasetsNext
        /\ UNCHANGED <<wrapVars, partVars, pipelineVars, autoRoundVars>>
     \/ /\ component = "autowrap" /\ AutowrapNext
        /\ UNCHANGED <<datasetsVars, partVars, pipelineVars, autoRoundVars>>
     \/ /\ component = "partition" /\ PartitionNext
        /\ UNCHANGED <<datasetsVars, wrapVars, pipelineVars, autoRoundVars>>
     \/ /\ component = "pipeline" /\ PipelineNext
        /\ UNCHANGED <<datasetsVars, wrapVars, partVars, autoRoundVars>>
     \/ /\ component = "autoround" /\ AutoRoundNext
        /\ UNCHANGED <<datasetsVars, wrapVars, partVars, pipelineVars>>

(* The fairness of PipelineSpec, where it is the pipeline that moves. *)
MCSpec ==
  /\ MCInit
  /\ [][MCNext]_<<component, datasetsVars, wrapVars, partVars, pipelineVars, autoRoundVars>>
  /\ WF_pipelineVars(component = "pipeline" /\ Main)
  /\ WF_pipelineVars(component = "pipeline" /\ Worker)

(* A pipeline comes to an end, and never waits for a batch nobody reads. *)
CalibrationTerminates == component = "pipeline" => PipelineTerminates
=============================================================================
