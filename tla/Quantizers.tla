----------------------------- MODULE Quantizers -----------------------------
(***************************************************************************)
(* Several quantization modifiers and smoothers of one recipe, in one      *)
(* pipeline or each in its own: QuantizationMixin (modifiers/quantization/ *)
(* quantization/mixin.py), the epoch ends of QuantizationModifier,         *)
(* GPTQModifier and AWQModifier, and what they share on a module: its      *)
(* scheme, its status, its weight observer and its scale.                  *)
(*                                                                         *)
(* A weight is the sequence of what has been done to it, statistics and    *)
(* scales are the weight they were calculated from.  Activations have      *)
(* observers of their own and are left out, so are ranks and fused groups  *)
(* (WeightCalibration).                                                    *)
(***************************************************************************)
EXTENDS Naturals, Sequences, SequencesExt, FiniteSets

CONSTANTS
  QuantModules,  \* modules with a weight
  QuantRecipes,  \* sequences of [kind, targets, configures]
  Subgraphings   \* sequences of sets of modules: what the epoch ends of a run are for

QuantModifiers ==
  [kind : {"gptq", "quantization", "awq"}, targets : (SUBSET QuantModules) \ {{}},
   configures : BOOLEAN]

(* A quantizer that configures nothing relies on one before it; modules have one
   configuration, and are smoothed before they are quantized. *)
IsQuantRecipe(r) ==
  LET quantizers == {i \in DOMAIN r : r[i].kind # "awq"}
  IN /\ r \in Seq(QuantModifiers) /\ r # <<>>
     /\ \A i \in DOMAIN r :
          /\ r[i].kind = "quantization" => r[i].configures
          /\ r[i].kind = "awq" => ~ r[i].configures
     /\ \A i \in quantizers, j \in DOMAIN r : j < i /\ r[i].targets \cap r[j].targets # {} =>
          r[j].kind = "awq" \/ (r[j].kind = "quantization" /\ ~ r[i].configures)
     /\ \A i \in quantizers : ~ r[i].configures =>
          \E j \in quantizers : j < i /\ r[i].targets \subseteq r[j].targets
     /\ \A i \in quantizers, j \in DOMAIN r \ quantizers :
          i < j => r[i].targets \cap r[j].targets = {}

ASSUME QuantizersAssumption ==
  /\ \A r \in QuantRecipes : IsQuantRecipe(r)
  /\ \A s \in Subgraphings :
       /\ s \in Seq(SUBSET QuantModules)
       /\ UNION ToSet(s) = QuantModules
       /\ \A i, j \in DOMAIN s : i # j => s[i] \cap s[j] = {}

VARIABLES
  modifiers,      \* the recipe
  isIndependent,  \* each modifier has a pipeline of its own
  important,      \* modules whose scheme asks for an importance-weighted observer
  subgraphing,    \* how the sequential pipeline divides the model
  nextEvent,      \* the event that is sent next
  running,        \* the modifiers of the pipeline that runs, by their index
  waiting,        \* those of the pipelines after it
  turn,           \* in running: who handles the event next
  epoch,          \* in Epochs
  qStatus,        \* quantization_status; "none" without a quantization_scheme
  observer,       \* weight_observer: which one of those attached to the module, 0: none
  attached,       \* number of weight observers that have been attached to the module
  statistics,     \* min_vals and max_vals of the weight observer
  importance,     \* _imatrix_sum of the weight observer: "zero", "collected", "deleted"
  importanceHooks,  \* <<module, observer>>: the observer's hook on the module
  hooks,          \* <<i, module>>: modifier i has a hook on the module
  hessians,       \* <<i, module>>: GPTQ modifier i has a Hessian of the module
  weight, scale,  \* of each module
  isInformed      \* the scale rests on importance

qSetup == <<modifiers, isIndependent, important, subgraphing>>
qPlace == <<nextEvent, running, waiting, turn, epoch>>
qObservers == <<observer, attached, statistics, importance, importanceHooks>>
qModel == <<qStatus, weight, scale, isInformed>>
quantVars == <<qSetup, qPlace, qObservers, qModel, hooks, hessians>>

-----------------------------------------------------------------------------

(* Not a weight: no statistics, a scale that was never written, one that AWQ tried. *)
Absent == <<"absent">>
Tried == <<"tried">>

IsQuantizer(i) == modifiers[i].kind # "awq"
Configured == UNION {modifiers[i].targets : i \in {j \in DOMAIN modifiers : IsQuantizer(j)}}

(* requires_calibration_data *)
NeedsData(i) ==
  \/ modifiers[i].kind \in {"gptq", "awq"}
  \/ modifiers[i].targets \cap important # {}
PipelineNeedsData == \E i \in ToSet(running) : NeedsData(i)
Epochs == IF PipelineNeedsData THEN subgraphing ELSE <<QuantModules>>

QuantizersInit ==
  /\ modifiers \in QuantRecipes
  /\ isIndependent \in BOOLEAN /\ subgraphing \in Subgraphings
  /\ important \in SUBSET Configured
  /\ nextEvent = "initialize" /\ turn = 1 /\ epoch = 1 /\ waiting = <<>>
  /\ running = [i \in DOMAIN modifiers |-> i]
  /\ qStatus = [m \in QuantModules |-> "none"]
  /\ observer = [m \in QuantModules |-> 0] /\ attached = observer
  /\ statistics = [m \in QuantModules |-> Absent]
  /\ importance = [m \in QuantModules |-> "zero"]
  /\ importanceHooks = {} /\ hooks = {} /\ hessians = {}
  /\ weight = [m \in QuantModules |-> <<>>]
  /\ scale = [m \in QuantModules |-> Absent]
  /\ isInformed = [m \in QuantModules |-> FALSE]

-----------------------------------------------------------------------------
(* The order of the events *)

(* The event goes to the next modifier of the pipeline, or the next event follows. *)
HandledThen(next) ==
  IF turn < Len(running)
  THEN turn' = turn + 1 /\ UNCHANGED <<nextEvent, running, waiting, epoch>>
  ELSE turn' = 1 /\ next

(* The first pipeline: of all modifiers, or of the first one. *)
FirstPipeline ==
  /\ nextEvent' = "start" /\ epoch' = 1
  /\ IF isIndependent
     THEN running' = <<Head(running)>> /\ waiting' = Tail(running)
     ELSE UNCHANGED <<running, waiting>>

FirstEpoch ==
  /\ nextEvent' = IF PipelineNeedsData THEN "forward" ELSE "epoch"
  /\ UNCHANGED <<running, waiting, epoch>>

NextEpoch ==
  /\ IF epoch < Len(Epochs) THEN nextEvent' = "forward" /\ epoch' = epoch + 1
                            ELSE nextEvent' = "end" /\ UNCHANGED epoch
  /\ UNCHANGED <<running, waiting>>

NextPipeline ==
  IF waiting = <<>>
  THEN /\ nextEvent' = "finalize" /\ running' = [i \in DOMAIN modifiers |-> i]
       /\ UNCHANGED <<waiting, epoch>>
  ELSE /\ nextEvent' = "start" /\ epoch' = 1
       /\ running' = <<Head(waiting)>> /\ waiting' = Tail(waiting)

(* An exception leaves oneshot. *)
RaiseError == nextEvent' = "raised" /\ UNCHANGED <<running, waiting, turn, epoch>>

Handling(event) == nextEvent = event /\ UNCHANGED qSetup
Me == running[turn]
Targets == modifiers[Me].targets

-----------------------------------------------------------------------------
(* Handlers *)

(* initialize_quantization resets the status of its targets and applies its config. *)
InitializeQuantizer ==
  /\ Handling("initialize")
  /\ qStatus' = IF modifiers[Me].configures
                THEN [m \in QuantModules |-> IF m \in Targets THEN "initialized" ELSE qStatus[m]]
                ELSE qStatus
  /\ HandledThen(FirstPipeline)
  /\ UNCHANGED <<qObservers, weight, scale, isInformed, hooks, hessians>>

(* start_calibration puts a new weight observer on the targets, in the place of one that
   is there; GPTQ and AWQ register hooks of their own. *)
AttachObservers ==
  /\ attached' = [m \in QuantModules |-> attached[m] + IF m \in Targets THEN 1 ELSE 0]
  /\ observer' = [m \in QuantModules |-> IF m \in Targets THEN attached'[m] ELSE observer[m]]
  /\ statistics' = [m \in QuantModules |-> IF m \in Targets THEN Absent ELSE statistics[m]]
  /\ importance' = [m \in QuantModules |-> IF m \in Targets THEN "zero" ELSE importance[m]]
  /\ importanceHooks' = importanceHooks \cup {<<m, attached'[m]>> : m \in Targets \cap important}
  /\ qStatus' = [m \in QuantModules |-> IF m \in Targets THEN "calibration" ELSE qStatus[m]]

StartCalibration ==
  /\ Handling("start")
  /\ IF IsQuantizer(Me) THEN AttachObservers ELSE UNCHANGED <<qObservers, qStatus>>
  /\ hooks' = IF modifiers[Me].kind = "quantization" THEN hooks
              ELSE hooks \cup {<<Me, m>> : m \in Targets}
  /\ HandledThen(FirstEpoch)
  /\ UNCHANGED <<weight, scale, isInformed, hessians>>

(* The batches of an epoch: the hooks collect Hessians and importance. *)
ForwardEpoch ==
  LET reached == Epochs[epoch]
  IN /\ Handling("forward")
     /\ hessians' = hessians \cup
          {h \in hooks : h[2] \in reached /\ modifiers[h[1]].kind = "gptq"}
     /\ importance' =
          [m \in QuantModules |->
             IF m \in reached /\ <<m, observer[m]>> \in importanceHooks
             THEN "collected" ELSE importance[m]]
     /\ nextEvent' = "epoch" /\ UNCHANGED <<running, waiting, turn, epoch>>
     /\ UNCHANGED <<observer, attached, statistics, importanceHooks, qModel, hooks>>

(* The modules of the epoch whose weight observer has something to observe: it observes
   a weight once, until its statistics are deleted. *)
Epoch == {m \in Epochs[epoch] : qStatus[m] # "none"}
Observable == {m \in Epoch : observer[m] # 0 /\ statistics[m] = Absent}
Observed == [m \in QuantModules |-> IF m \in Observable THEN weight[m] ELSE statistics[m]]

(* Statistics are deleted with the importance, which the next observation reads. *)
ObservingRaises == \E m \in Observable : importance[m] = "deleted"

(* get_qparams: the scales of the modules, and their statistics are gone. *)
TakeScales(S) ==
  /\ scale' = [m \in QuantModules |-> IF m \in S THEN Observed[m] ELSE scale[m]]
  /\ isInformed' = [m \in QuantModules |->
       IF m \in S THEN importance[m] = "collected" ELSE isInformed[m]]
  /\ statistics' = [m \in QuantModules |-> IF m \in S THEN Absent ELSE Observed[m]]
  /\ importance' = [m \in QuantModules |->
       IF m \in S \cap important THEN "deleted" ELSE importance[m]]

QuantizerEpochEnd ==
  /\ Handling("epoch") /\ modifiers[Me].kind = "quantization"
  /\ IF ObservingRaises
     THEN RaiseError /\ UNCHANGED <<scale, isInformed, statistics, importance>>
     ELSE TakeScales({m \in Epoch : observer[m] # 0}) /\ HandledThen(NextEpoch)
  /\ UNCHANGED <<observer, attached, importanceHooks, qStatus, weight, hooks, hessians>>

(* GPTQ observes every quantized module of the epoch, its own or not, and compresses
   those it has a Hessian of. *)
GPTQEpochEnd ==
  LET mine == {m \in QuantModules : <<Me, m>> \in hessians}
  IN /\ Handling("epoch") /\ modifiers[Me].kind = "gptq"
     /\ IF ObservingRaises
        THEN RaiseError /\ UNCHANGED <<scale, isInformed, statistics, importance, weight, hessians>>
        ELSE /\ TakeScales(mine)
             /\ weight' = [m \in QuantModules |->
                  IF m \in mine THEN Append(weight[m], "round") ELSE weight[m]]
             /\ hessians' = {h \in hessians : h[1] # Me}
             /\ HandledThen(NextEpoch)
     /\ UNCHANGED <<observer, attached, importanceHooks, qStatus, hooks>>

(* AWQ searches with observers of its own, which leaves a scale it has tried. *)
AWQEpochEnd ==
  LET smoothed == Targets \cap Epochs[epoch]
  IN /\ Handling("epoch") /\ modifiers[Me].kind = "awq"
     /\ weight' = [m \in QuantModules |->
          IF m \in smoothed THEN Append(weight[m], "smooth") ELSE weight[m]]
     /\ scale' = [m \in QuantModules |->
          IF m \in smoothed /\ qStatus[m] # "none" THEN Tried ELSE scale[m]]
     /\ HandledThen(NextEpoch)
     /\ UNCHANGED <<qObservers, qStatus, isInformed, hooks, hessians>>

(* end_calibration freezes the targets; a module that is frozen is passed over. *)
Frozen(i) ==
  IF IsQuantizer(i) THEN {m \in modifiers[i].targets : qStatus[m] # "frozen"} ELSE {}

(* Mutant: the observers stay on the frozen modules. *)
FreezeTargetsKeeping(S) == UNCHANGED qObservers

FreezeTargets(S) ==
  /\ observer' = [m \in QuantModules |-> IF m \in S THEN 0 ELSE observer[m]]
  /\ importanceHooks' = importanceHooks \ {<<m, observer[m]>> : m \in S}
  /\ UNCHANGED <<attached, statistics, importance>>

EndCalibration ==
  /\ Handling("end")
  /\ hooks' = {h \in hooks : h[1] # Me}
  /\ FreezeTargets(Frozen(Me))
  /\ qStatus' = [m \in QuantModules |-> IF m \in Frozen(Me) THEN "frozen" ELSE qStatus[m]]
  /\ HandledThen(NextPipeline)
  /\ UNCHANGED <<weight, scale, isInformed, hessians>>

(* GPTQ refuses to finalize with Hessians left. *)
FinalizeQuantizers ==
  /\ Handling("finalize")
  /\ IF \E h \in hessians : h[1] = Me
     THEN RaiseError
     ELSE HandledThen(nextEvent' = "done" /\ UNCHANGED <<running, waiting, epoch>>)
  /\ UNCHANGED <<qObservers, qModel, hooks, hessians>>

QuantizersNext ==
  \/ InitializeQuantizer \/ StartCalibration \/ ForwardEpoch \/ EndCalibration
  \/ QuantizerEpochEnd \/ GPTQEpochEnd \/ AWQEpochEnd
  \/ FinalizeQuantizers

QuantizersSpec == QuantizersInit /\ [][QuantizersNext]_quantVars

-----------------------------------------------------------------------------

(* The scale is that of the weight; of a rounded one, that of the grid it was rounded to. *)
Fits(m) ==
  scale[m] = IF weight[m] # <<>> /\ Last(weight[m]) = "round" THEN Front(weight[m])
                                                              ELSE weight[m]

(* m has been rounded before another modifier calculates its scale, or observed before
   it is smoothed: GPTQ shares its pipeline with a modifier after it. *)
MayBeStale(m) ==
  \E i, j \in DOMAIN modifiers :
    /\ ~ isIndependent /\ i < j /\ modifiers[i].kind = "gptq"
    /\ \/ m \in modifiers[i].targets /\ modifiers[j].kind = "quantization"
       \/ m \in modifiers[j].targets /\ modifiers[j].kind = "awq"

(* Two quantizers of a pipeline observe a weight, and the first one deletes its
   importance. *)
IsObservedTwice(m) ==
  \E i, j \in DOMAIN modifiers :
    /\ ~ isIndependent /\ i < j /\ IsQuantizer(i) /\ IsQuantizer(j)
    /\ modifiers[i].kind = "gptq" => m \in modifiers[i].targets

FinishedAsAlone ==
  /\ hooks = {} /\ importanceHooks = {} /\ hessians = {}
  /\ \A m \in QuantModules : observer[m] = 0
  /\ \A m \in Configured :
       /\ qStatus[m] = "frozen"
       /\ m \in important => isInformed[m]
       /\ Fits(m) \/ MayBeStale(m)

(* However quantizers and smoothers are combined, in pipelines of their own or in one, a
   run that finishes leaves every module frozen, with a scale that fits its weight and
   rests on importance where its scheme asks for it, and without hooks, observers and
   Hessians, save that scales may be stale after a GPTQ modifier that does not come last
   in its pipeline.  A run fails in one case only, which is a fault of the code: that of
   MissingImportanceFallsBack.  In particular no Hessian is left to finalize. *)
QuantizersFinish ==
  /\ nextEvent = "done" => FinishedAsAlone
  /\ nextEvent = "raised" => \E m \in important : IsObservedTwice(m)

(* "Falls back to uniform MSE when importance data is unavailable."
   (observers/imatrix.py:29): the second observation of a weight, whose importance the
   first one has used up, does not fail. *)
MissingImportanceFallsBack ==
  (\E m \in important : IsObservedTwice(m)) => nextEvent # "raised"

(* "Run every modifier in a single, sequential pipeline, performing a single calibrated
   run" (examples/quantization_non_uniform/README.md:17): the scales of the model fit its
   weights then, too. *)
ScalesFitWeights == nextEvent = "done" => \A m \in Configured : Fits(m)
=============================================================================
