------------------------------- MODULE Oneshot -------------------------------
(***************************************************************************)
(* oneshot (entrypoints/oneshot.py) and the calibration pipelines          *)
(* (pipelines/) as the client of the compression lifecycle.                *)
(*                                                                         *)
(* A call of oneshot resets the session, initializes the recipe, runs a    *)
(* pipeline, which sends the calibration events, and finalizes.  Every     *)
(* step of it may raise; the exception leaves oneshot and the session      *)
(* stays as it is until the next call resets it.                           *)
(***************************************************************************)
EXTENDS Lifecycle, FiniteSets

CONSTANTS
  DataMods,      \* modifiers with requires_calibration_data
  HookMods,      \* modifiers that register hooks on calibration start
  OwlMods,       \* sparsity modifiers with sparsity_profile "owl"
  AutoRoundMods, \* AutoRoundModifier objects
  Subgraphs,     \* number of subgraphs the sequential pipeline traces
  UserPipelines  \* values of the pipeline argument, "none" for None

ASSUME OneshotAssumption ==
  /\ DataMods \subseteq Modifiers /\ HookMods \subseteq Modifiers
  /\ OwlMods \subseteq Modifiers /\ AutoRoundMods \subseteq DataMods
  /\ Subgraphs \in Nat \ {0}
  /\ UserPipelines \subseteq
       {"none", "independent", "sequential", "basic", "datafree"}

VARIABLES
  pc,         \* where the oneshot call is
  requested,  \* the recipe this call was given
  user,       \* dataset_args.pipeline
  propagate,  \* dataset_args.propagate_error
  mode,       \* the pipeline that is running
  patched,    \* the independent pipeline has patched recipe.modifiers
  todo,       \* modifiers the independent pipeline has still to run
  hooked,     \* modifiers with registered hooks
  calib,      \* history: calibration events each modifier has handled
  epochs,     \* history: sequential epoch ends each modifier has handled
  unfinalizable  \* history: modifiers whose on_finalize raised during a reset

argVars == <<requested, user>>
runVars == <<propagate, mode, patched, todo>>
histVars == <<calib, epochs, unfinalizable>>
oneshotVars == <<pc, argVars, runVars, hooked, histVars>>
allVars == <<vars, oneshotVars>>

-----------------------------------------------------------------------------

OneshotInit ==
  /\ Init
  /\ pc = "idle" /\ requested = <<>> /\ user = "none"
  /\ propagate = TRUE /\ mode = "none" /\ patched = FALSE /\ todo = <<>>
  /\ hooked = {}
  /\ calib = [m \in Modifiers |-> "none"]
  /\ epochs = [m \in Modifiers |-> 0]
  /\ unfinalizable = {}

(* The step ends the lifecycle call in progress with an exception. *)
Raised == call'.op = "none" /\ error' # "none"

(* Continue at next when the lifecycle call returns, unwind when it raises. *)
ProceedTo(next) ==
  pc' = IF Raised THEN "unwind" ELSE IF call'.op = "none" THEN next ELSE pc

InferPipeline(mods) ==
  IF Range(mods) \cap DataMods # {} THEN "sequential" ELSE "datafree"

(* The pipelines other than sequential send one sequential epoch end. *)
EpochEnds == IF mode = "sequential" THEN Subgraphs ELSE 1

-----------------------------------------------------------------------------

(* Mutant: the session of the last call is not reset. *)
StartOneshotNoReset(r, pipeline, propagateError) ==
  /\ pc = "idle" /\ call.op = "none"
  /\ pc' = "initialize"
  /\ requested' = r /\ user' = pipeline
  /\ propagate' = propagateError
  /\ initialized' = FALSE /\ finalized' = FALSE
  /\ UNCHANGED <<modVars, recipe, lastEvent, globalStep, call, error, refused,
                 delivered, mode, patched, todo, hooked, histVars>>

(* The arguments are parsed anew in every call; apply_recipe_modifiers starts
   with session.reset. *)
StartOneshot(r, pipeline, propagateError) ==
  /\ pc = "idle"
  /\ BeginReset
  /\ pc' = "reset"
  /\ requested' = r /\ user' = pipeline
  /\ propagate' = propagateError
  /\ UNCHANGED <<mode, patched, todo, hooked, histVars>>

ResetSession ==
  /\ pc \in {"reset", "clear"}
  /\ ResetModifier \/ EndReset
  /\ ProceedTo(IF pc = "reset" THEN "initialize" ELSE "idle")
  /\ unfinalizable' =
       IF Visiting("reset") /\ Current \in initializedMods \ finalizedMods'
       THEN unfinalizable \cup {Current} ELSE unfinalizable
  /\ UNCHANGED <<argVars, runVars, hooked, calib, epochs>>

(* The OWL profile calibrates the model inside on_initialize: it registers
   hooks and runs the basic pipeline, whose first event is an event of this
   very session, which is not initialized yet. *)
NeedsOwl ==
  /\ Visiting("initialize")
  /\ Current \in OwlMods \ (initializedMods \cup finalizedMods)

InitializeOwlModifier ==
  /\ NeedsOwl
  /\ hooked' = hooked \cup {Current}
  /\ Raise("state")
  /\ UNCHANGED <<modVars, lifecycleVars, refused, delivered>>

InitializeSession ==
  /\ pc = "initialize"
  /\ \/ BeginInitialize(requested) /\ UNCHANGED hooked
     \/ ~NeedsOwl /\ InitializeModifier /\ UNCHANGED hooked
     \/ InitializeOwlModifier
     \/ EndInitialize /\ UNCHANGED hooked
  /\ ProceedTo("pipeline")
  /\ UNCHANGED <<argVars, runVars, histVars>>

-----------------------------------------------------------------------------
(* The pipelines *)

ChoosePipeline ==
  /\ pc = "pipeline"
  /\ IF user = "independent"
     THEN /\ patched' = TRUE /\ todo' = requested
          /\ pc' = "next" /\ UNCHANGED mode
     ELSE /\ mode' = IF user = "none" THEN InferPipeline(recipe) ELSE user
          /\ pc' = "start" /\ UNCHANGED <<patched, todo>>
  /\ UNCHANGED <<vars, argVars, propagate, hooked, histVars>>

(* Mutant: the independent pipeline leaves the last modifier patched in. *)
NextModifierNoRestore ==
  /\ pc = "next"
  /\ IF todo # <<>>
     THEN /\ recipe' = <<Head(todo)>> /\ todo' = Tail(todo)
          /\ mode' = InferPipeline(<<Head(todo)>>)
          /\ pc' = "start" /\ UNCHANGED patched
     ELSE /\ patched' = FALSE
          /\ pc' = "finalize" /\ UNCHANGED <<todo, mode, recipe>>
  /\ UNCHANGED <<modVars, initialized, finalized, lastEvent, globalStep, call,
                 error, refused, delivered, argVars, propagate, hooked,
                 histVars>>

(* The loop of the independent pipeline; the patch of recipe.modifiers is
   undone when the loop is left. *)
NextModifier ==
  /\ pc = "next"
  /\ IF todo # <<>>
     THEN /\ recipe' = <<Head(todo)>> /\ todo' = Tail(todo)
          /\ mode' = InferPipeline(<<Head(todo)>>)
          /\ pc' = "start" /\ UNCHANGED patched
     ELSE /\ recipe' = requested /\ patched' = FALSE
          /\ pc' = "finalize" /\ UNCHANGED <<todo, mode>>
  /\ UNCHANGED <<modVars, initialized, finalized, lastEvent, globalStep, call,
                 error, refused, delivered, argVars, propagate, hooked,
                 histVars>>

(* The sequential pipeline turns error propagation off for AutoRound before it
   sends the first event. *)
SendCalibrationStart ==
  /\ pc = "start"
  /\ BeginEvent("calibration_start", 0)
  /\ propagate' = (propagate /\ ~(mode = "sequential"
                                  /\ Range(recipe) \cap AutoRoundMods # {}))
  /\ pc' = "starting"
  /\ UNCHANGED <<argVars, mode, patched, todo, hooked, histVars>>

SendSequentialEpochEnd ==
  /\ pc = "calibrate"
  /\ BeginEvent("sequential_epoch_end", 0)
  /\ pc' = "epoch"
  /\ UNCHANGED <<argVars, runVars, hooked, histVars>>

SendCalibrationEnd ==
  /\ pc = "calibrated"
  /\ BeginEvent("calibration_end", 0)
  /\ pc' = "ending"
  /\ UNCHANGED <<argVars, runVars, hooked, histVars>>

(* Tracing, a forward pass or the propagation pass raises. *)
PipelineRaises ==
  /\ pc \in {"start", "calibrate", "calibrated"}
  /\ pc' = "unwind"
  /\ UNCHANGED <<vars, argVars, runVars, hooked, histVars>>

(* Mutant: the calibration ends without a sequential epoch end. *)
AfterEventNoEpoch ==
  CASE pc = "starting" -> "calibrated"
    [] pc = "epoch" -> "calibrated"
    [] pc = "ending" -> IF patched THEN "next" ELSE "finalize"

(* Where the pipeline continues once the event has been handled. *)
AfterEvent ==
  CASE pc = "starting" -> "calibrate"
    [] pc = "epoch" -> IF \A m \in Range(recipe) : epochs[m] >= EpochEnds
                       THEN "calibrated" ELSE "calibrate"
    [] pc = "ending" -> IF patched THEN "next" ELSE "finalize"

(* Hooks are registered by on_calibration_start and removed by
   on_calibration_end; a callback that raises may have registered some. *)
HandleHooks(m) ==
  CASE call.type = "calibration_start" /\ m \in HookMods ->
         IF Raised THEN hooked' \in {hooked, hooked \cup {m}}
         ELSE hooked' = hooked \cup {m}
    [] call.type = "calibration_end" /\ ~Raised -> hooked' = hooked \ {m}
    [] OTHER -> UNCHANGED hooked

HandleCalibration(m) ==
  IF Raised THEN UNCHANGED <<calib, epochs>>
  ELSE CASE call.type = "calibration_start" ->
              /\ calib' = [calib EXCEPT ![m] = "running"]
              /\ UNCHANGED epochs
         [] call.type = "sequential_epoch_end" ->
              /\ epochs' = [epochs EXCEPT ![m] = @ + 1]
              /\ UNCHANGED calib
         [] call.type = "calibration_end" ->
              /\ calib' = [calib EXCEPT ![m] = "done"]
              /\ UNCHANGED epochs

HandleEvent ==
  /\ pc \in {"starting", "epoch", "ending"}
  /\ \/ UpdateModifier /\ HandleHooks(Current) /\ HandleCalibration(Current)
     \/ EndEvent /\ UNCHANGED <<hooked, calib, epochs>>
  /\ ProceedTo(AfterEvent)
  /\ UNCHANGED <<argVars, runVars, unfinalizable>>

-----------------------------------------------------------------------------

FinalizeSession ==
  /\ pc = "finalize"
  /\ BeginFinalize \/ FinalizeModifier \/ EndFinalize
  /\ ProceedTo("post")
  /\ UNCHANGED <<argVars, runVars, hooked, histVars>>

(* post_process: the session is reset when clear_sparse_session is set. *)
PostProcess ==
  /\ pc = "post"
  /\ \/ BeginReset /\ pc' = "clear"
     \/ pc' = "idle" /\ UNCHANGED vars
  /\ UNCHANGED <<argVars, runVars, hooked, histVars>>

(* The exception leaves the pipeline, which undoes the patch, and oneshot. *)
Unwind ==
  /\ pc = "unwind"
  /\ pc' = "idle"
  /\ recipe' = IF patched THEN requested ELSE recipe
  /\ patched' = FALSE /\ todo' = <<>>
  /\ UNCHANGED <<modVars, initialized, finalized, lastEvent, globalStep, call,
                 error, refused, delivered, argVars, propagate, mode, hooked,
                 histVars>>

Step ==
  \/ ResetSession
  \/ InitializeSession
  \/ ChoosePipeline
  \/ NextModifier
  \/ SendCalibrationStart
  \/ SendSequentialEpochEnd
  \/ SendCalibrationEnd
  \/ PipelineRaises
  \/ HandleEvent
  \/ FinalizeSession
  \/ PostProcess
  \/ Unwind

OneshotNext ==
  \/ \E r \in Recipes, pipeline \in UserPipelines, propagateError \in BOOLEAN :
       StartOneshot(r, pipeline, propagateError)
  \/ Step

OneshotSpec == OneshotInit /\ [][OneshotNext]_allVars

-----------------------------------------------------------------------------
(* Properties *)

(* A modifier object that was initialized and not finalized stays in reach of
   the next reset: no failure, of whatever step, and no patch of the recipe
   loses it.  The exception is an object whose own on_finalize raised. *)
NoModifierIsOrphaned ==
  initializedMods \ finalizedMods \subseteq
    Range(recipe) \cup unfinalizable
    \cup (IF patched THEN Range(requested) ELSE {})

(* When oneshot finalizes the session, every modifier the user asked for has
   completed one calibration with at least one sequential epoch, is finalized,
   and has left no hook on the model: whichever pipeline ran, and also after
   the independent pipeline has exchanged the recipe. *)
FinalizedIsApplied ==
  finalized /\ pc # "reset" =>
    /\ recipe = requested /\ ~patched
    /\ \A m \in Range(requested) :
         /\ m \in finalizedMods \ hooked
         /\ calib[m] = "done" /\ epochs[m] > 0

(* Every modifier object goes through the callbacks its author was promised,
   across calls of oneshot that fail at any step and reuse the object. *)
MP == INSTANCE ModifierProtocol WITH
  phase <- [m \in Modifiers |->
              CASE m \in finalizedMods -> "finalized"
                [] m \notin initializedMods \cup finalizedMods -> "new"
                [] OTHER -> CASE calib[m] = "none" -> "initialized"
                              [] calib[m] = "running" -> "calibrating"
                              [] calib[m] = "done" -> "calibrated"],
  epochs <- epochs

ImplementsModifierProtocol == MP!Spec

-----------------------------------------------------------------------------
(* What comments and docs of the code say, and the code does not do *)

(* sparsegpt/base.py, class docstring: sparsity_profile "can be set to 'owl'".
   Nothing a recipe asks for makes oneshot call the lifecycle in a state that
   rejects the call. *)
CallsAreInState == error # "state"
=============================================================================
