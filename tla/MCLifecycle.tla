----------------------------- MODULE MCLifecycle -----------------------------
(* What the modifiers of a session live in, and those that take something out of a model.
   A behaviour is one of the lifecycle with any caller, of the hooks of two modifiers, of
   pruning modifiers and their masks, of the columns of a weight in SparseGPT or Wanda,
   of REAP, or of the experts of a layer from linearization to repacking; the other
   components stay as they are.

   Lifecycle: a modifier that starts when it is initialized and one that ends at the
   first batch end.  Hooks: three hooks of two modifiers.  Masking: two layers of
   three elements, and the recipes of two modifiers: side by side, one after the other
   on a layer, and both on a layer at once.  Sparsify: four or six columns.  Reap: two
   layers of six experts whose names are not in the order of the forward pass, on two
   ranks.  Experts: two experts. *)
EXTENDS Lifecycle, Hooks, Masking, Reap, MCSparsify, Experts, TLC

CONSTANTS early, over, none, h1, h2, h3, m1, m2, r1, r2

MCModifiers == {early, over}
MCRecipes == {<<>>, <<early, over>>, <<over>>}
StartOfRun == (early :> 0) @@ (over :> none)
EndOfRun == (early :> none) @@ (over :> 0)

MCHandles == {h1, h2, h3}
MCHookOwners == {m1, m2}

-----------------------------------------------------------------------------

MCRanks == {r1, r2}
MCLayerOrder == <<"layers.10", "layers.2">>

(* The basic pipeline, and the sequential one with a block that runs twice. *)
MCPlans ==
  { << {"layers.2", "layers.10"} >>,
    << {"layers.2"}, {"layers.10", "layers.2"} >> }

MCRouters ==
  { [topK |-> 1, nGroup |-> 0, topKGroup |-> 0],
    [topK |-> 1, nGroup |-> 2, topKGroup |-> 1],
    [topK |-> 2, nGroup |-> 2, topKGroup |-> 1],
    [topK |-> 1, nGroup |-> 4, topKGroup |-> 1] }

MCFound == {{"layers.2", "layers.10"}, {"layers.10"}, {}}
MCRoutes == "layers.2" :> {0, 4} @@ "layers.10" :> {3}

(* Layers that are reached by the samples of all ranks or of none. *)
MCReaches == {[r \in MCRanks |-> L] : L \in {{"layers.2"}, {"layers.2", "layers.10"}}}

(* What PruningProofs assumes of the samples of the ranks. *)
ASSUME ReachesAssumption == ReachesAgree

-----------------------------------------------------------------------------

MaskingOf(kind, L, a, b, x, y, p) ==
  [kind |-> kind, targets |-> L, start |-> a, end |-> b, from |-> x, to |-> y, power |-> p]
Constant(L, a, b) == MaskingOf("constant", L, a, b, 0, 0, 1)
Magnitude(L, a, b, x, y, p) == MaskingOf("magnitude", L, a, b, x, y, p)

SideBySide == << Constant({"fc1"}, 0, 2), Magnitude({"fc2"}, 0, 2, 0, 4, 1) >>
MCMaskRecipes ==
  { SideBySide,
    << Magnitude({"fc1"}, 1, 3, 2, 4, 3), Constant({"fc2"}, 1, 2) >>,
    << Magnitude({"fc1", "fc2"}, 0, 1, 1, 3, 2), Constant({"fc1"}, 1, 2) >> }

MCLayerParamOrder == <<"fc1", "fc2">>
MCValues == {<<0, 1, 2>>, <<2, 1, 1>>, <<1, 2, 1>>}

-----------------------------------------------------------------------------

VARIABLE component  \* the component that moves

(* One of the states each component may start in; the lifecycle and the hooks start in
   one only. *)
MaskingRests ==
  /\ modifiers = SideBySide /\ useHooks = FALSE /\ persistent = FALSE
  /\ weight = [l \in {"fc1", "fc2"} |-> <<0, 1, 2>>]
ReapRests ==
  /\ router = [topK |-> 1, nGroup |-> 0, topKGroup |-> 0] /\ plan = << {"layers.2", "layers.10"} >>
  /\ reach = [r \in MCRanks |-> {"layers.2"}] /\ names = {} /\ drop = 0
SparsifyRests ==
  /\ method = "wanda" /\ width = 4 /\ block = 2 /\ structure = <<0, 0>> /\ sparsity = 0
  /\ base = {}
ExpertsRest ==
  /\ layout = "halves" /\ size = 1 /\ hasGate = TRUE /\ shape = "scalar" /\ targeted = {}

MCInit ==
  /\ component \in {"lifecycle", "hooks", "masking", "reap", "sparsify", "experts"}
  /\ Init /\ HooksInit
  /\ component # "reap" => ReapRests
  /\ ReapInit
  /\ component # "experts" => ExpertsRest
  /\ ExpertsInit
  /\ component # "masking" => MaskingRests
  /\ MaskingInit
  /\ component # "sparsify" => SparsifyRests
  /\ SparsifyInit

sessionVars == <<vars, hookVars, maskingVars>>
removalVars == <<reapVars, sparsifyVars, expertsVars>>

MCNext ==
  /\ UNCHANGED component
  /\ \/ component = "lifecycle" /\ Next /\ UNCHANGED <<hookVars, maskingVars, removalVars>>
     \/ component = "hooks" /\ HooksNext /\ UNCHANGED <<vars, maskingVars, removalVars>>
     \/ component = "masking" /\ MaskingNext /\ UNCHANGED <<vars, hookVars, removalVars>>
     \/ component = "reap" /\ ReapNext /\ UNCHANGED <<sessionVars, sparsifyVars, expertsVars>>
     \/ component = "sparsify" /\ SparsifyNext
        /\ UNCHANGED <<sessionVars, reapVars, expertsVars>>
     \/ component = "experts" /\ ExpertsNext
        /\ UNCHANGED <<sessionVars, reapVars, sparsifyVars>>

(* The fairness of ReapSpec, where it is Reap that moves. *)
MCSpec ==
  /\ MCInit /\ [][MCNext]_<<component, sessionVars, removalVars>>
  /\ WF_reapVars(component = "reap" /\ Initialize)
  /\ WF_reapVars(component = "reap" /\ Decide)
  /\ \A r \in Ranks : WF_reapVars(component = "reap" /\ RankStep(r))

-----------------------------------------------------------------------------
(* The property of Reap that rests on fairness *)

(* No rank waits forever, whatever it counts and whichever layers it prunes. *)
PruningTerminates == component = "reap" => RanksFinish
=============================================================================
