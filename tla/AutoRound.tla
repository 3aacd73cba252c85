----------------------------- MODULE AutoRound -----------------------------
(***************************************************************************)
(* AutoRoundModifier (modifiers/autoround/base.py) in the sequential       *)
(* pipeline, beside a QuantizationModifier in the same pipeline or in one  *)
(* before or after it.                                                     *)
(*                                                                         *)
(* AutoRound does not observe: a hook captures the inputs of each decoding *)
(* layer, and when the layer's subgraph has been run the layer is handed,  *)
(* with them and with the output of the layer tuned before, to the         *)
(* auto_round library.  The library has names of its own for quantization  *)
(* parameters, so those of all modules of the layer, of other modifiers    *)
(* too, are taken off before and put back after.                           *)
(*                                                                         *)
(* All layers have the same modules.  An activation is represented by its  *)
(* batch and by the tuned layers it has gone through.                      *)
(***************************************************************************)
EXTENDS Naturals, Sequences, FiniteSets

CONSTANTS
  NumLayers,    \* decoding layers, one stack
  TuningBatches,
  Modules,      \* modules of a layer
  Linear,       \* those the auto_round library can tune
  Targeted,     \* those that match resolved_targets
  Ignored,      \* those that match ignore
  Others,       \* those with a scheme of the QuantizationModifier
  Fields,       \* what the field "targets" may match, which schemes need not use
  Plans,        \* sequences of pipelines, a pipeline is a sequence of modifiers
  LayersPerSubgraph

Layers == 1 .. NumLayers
Own == Targeted \ Ignored

ASSUME AutoRoundAssumption ==
  /\ NumLayers \in Nat \ {0} /\ TuningBatches \in Nat \ {0}
  /\ Linear \subseteq Modules /\ Targeted \subseteq Modules
  /\ Others \subseteq Modules \ Own
  /\ \A F \in Fields : F \subseteq Modules
  /\ LayersPerSubgraph \subseteq Nat \ {0}

(* AutoRound has turn j of pipeline i of plan p, and no other. *)
TunesAt(p, i, j) ==
  /\ i \in 1 .. Len(p) /\ j \in 1 .. Len(p[i])
  /\ \A k \in 1 .. Len(p) : \A n \in 1 .. Len(p[k]) : p[k][n] = "ar" <=> k = i /\ n = j

(* A recipe has one AutoRound modifier, alone or beside quantization modifiers: a second
   one would tune layers that are tuned.  The code does not check it. *)
PlansTuneOnce ==
  \A p \in Plans :
    /\ p \in Seq(Seq({"ar", "qm"})) /\ \A i \in 1 .. Len(p) : p[i] # <<>>
    /\ \E i \in 1 .. Len(p) : \E j \in 1 .. Len(p[i]) : TunesAt(p, i, j)

VARIABLES
  plan, field, group,   \* chosen at the start
  propagateError, \* dataset_args.propagate_error, shared by all pipelines
  pipe,         \* index of the pipeline
  phase,        \* "start", "pass", "epoch", "tune", "propagate", "end", "done", "raised"
  sub,          \* index of the subgraph
  turn,         \* the batch of a pass, or the modifier at an epoch end
  through,      \* through[b]: the tuned layers the cached activation has gone through
  hooked,       \* layers with a capture hook
  moduleInput,  \* _all_module_input
  qInput,       \* _q_input: the layer whose output it is, or 0
  collected,    \* llmc_registered_qparams of the layer being tuned
  qparams, scheme, status,   \* attributes of the modules
  tunedOn,      \* tunedOn[l]: what quantize_block was given, <<>> before
  rounded       \* rounded[l]: modules whose weights the library has rounded

arSetup == <<plan, field, group>>
arData == <<through, hooked, moduleInput, qInput>>
arModel == <<collected, qparams, scheme, status, tunedOn, rounded>>
autoRoundVars == <<arSetup, propagateError, pipe, phase, sub, turn, arData, arModel>>

Modifiers == plan[pipe]
IsPresent(m) == \E i \in DOMAIN Modifiers : Modifiers[i] = m
NumSubgraphs == ((NumLayers + group - 1) \div group) + 1

(* The decoding layers of the subgraph, none in the one of the head. *)
Decoding == {l \in Layers : (l - 1) \div group = sub - 1}

AutoRoundInit ==
  /\ plan \in Plans /\ field \in Fields /\ group \in LayersPerSubgraph
  /\ propagateError \in BOOLEAN
  /\ pipe = 1 /\ phase = "start" /\ sub = 1 /\ turn = 1
  /\ through = [b \in 1 .. TuningBatches |-> {}]
  /\ hooked = {} /\ moduleInput = [l \in Layers |-> <<>>] /\ qInput = 0
  /\ collected = [m \in Modules |-> "none"]
  /\ scheme = [l \in Layers |-> Own \cup Others]
  /\ qparams = [l \in Layers |->
                 [m \in Modules |-> IF m \in Own \cup Others THEN "new" ELSE "none"]]
  /\ status = [m \in Modules |-> "initialized"]
  /\ tunedOn = [l \in Layers |-> <<>>]
  /\ rounded = [l \in Layers |-> {}]

(* Mutant: the error is propagated as the user has asked for. *)
PropagatesAsAsked == propagateError

(* The sequential pipeline turns propagate_error off for AutoRound, and nothing
   turns it on again. *)
Propagates == propagateError /\ ~ IsPresent("ar")

(* start_calibration: AutoRound marks what its field matches, the
   QuantizationModifier what its schemes match. *)
Marked ==
  (IF IsPresent("ar") THEN field \ Ignored ELSE {}) \cup
  (IF IsPresent("qm") THEN Others ELSE {})

StartPipeline ==
  /\ phase = "start"
  /\ propagateError' = Propagates
  /\ status' = [m \in Modules |->
                 IF m \in Marked /\ m \in Own \cup Others THEN "calibration" ELSE status[m]]
  /\ hooked' = IF IsPresent("ar") THEN Layers ELSE hooked
  /\ through' = [b \in 1 .. TuningBatches |-> {}]
  /\ phase' = "pass" /\ sub' = 1 /\ turn' = 1
  /\ UNCHANGED <<arSetup, pipe, moduleInput, qInput, collected, qparams, scheme, tunedOn, rounded>>

TunedLayers == {l \in Layers : tunedOn[l] /= <<>>}

(* The calibrating pass over one batch. *)
ForwardBatch ==
  /\ phase = "pass"
  /\ moduleInput' = [l \in Layers |->
       IF l \in Decoding \cap hooked
       THEN Append(moduleInput[l],
              <<turn, through[turn] \cup {k \in Decoding \cap TunedLayers : k < l}>>)
       ELSE moduleInput[l]]
  /\ through' = IF propagateError THEN through
                ELSE [through EXCEPT ![turn] = @ \cup (Decoding \cap TunedLayers)]
  /\ IF turn < TuningBatches THEN turn' = turn + 1 /\ UNCHANGED phase
     ELSE turn' = 1 /\ phase' = "epoch"
  /\ UNCHANGED <<arSetup, propagateError, pipe, sub, hooked, qInput, arModel>>

NextModifier ==
  IF turn < Len(Modifiers) THEN turn' = turn + 1 /\ phase' = "epoch"
  ELSE turn' = 1 /\ phase' = "propagate"

(* QuantizationModifier.on_sequential_epoch_end: the parameters of its modules. *)
ObserveLayers ==
  /\ phase = "epoch" /\ Modifiers[turn] = "qm"
  /\ qparams' = [l \in Layers |-> [m \in Modules |->
       IF l \in Decoding /\ m \in Others /\ qparams[l][m] /= "none"
       THEN "observed" ELSE qparams[l][m]]]
  /\ NextModifier
  /\ UNCHANGED <<arSetup, propagateError, pipe, sub, arData, collected, scheme, status, tunedOn,
                 rounded>>

(* apply_autoround up to the call of quantize_block: no decoding layer, more than
   one, one without inputs, or the layer that is tuned. *)
BeginTuning ==
  /\ phase = "epoch" /\ Modifiers[turn] = "ar"
  /\ IF Decoding = {}
     THEN /\ NextModifier
          /\ moduleInput' = [l \in Layers |-> <<>>]
          /\ UNCHANGED <<hooked, collected, qparams, tunedOn>>
     ELSE IF Cardinality(Decoding) > 1
     THEN phase' = "raised" /\ UNCHANGED <<turn, hooked, moduleInput, collected, qparams, tunedOn>>
     ELSE \E l \in Decoding :
          /\ collected' = qparams[l]
          /\ qparams' = [qparams EXCEPT ![l] = [m \in Modules |-> "none"]]
          /\ hooked' = hooked \ {l}
          /\ moduleInput' = [moduleInput EXCEPT ![l] = <<>>]
          /\ IF moduleInput[l] = <<>> THEN phase' = "raised" /\ UNCHANGED tunedOn
             ELSE /\ phase' = "tune"
                  /\ tunedOn' = [tunedOn EXCEPT ![l] = <<moduleInput[l], qInput>>]
          /\ UNCHANGED turn
  /\ UNCHANGED <<arSetup, propagateError, pipe, sub, through, qInput, scheme, status, rounded>>

(* get_unquantized_layer_names: modules the library is told to leave alone. *)
IgnoredByLibrary(l) == Targeted \ scheme[l]

(* What the library tunes: a module it is not told to ignore has the default scheme, or
   the one layer_config gives it. *)
Tunable(l) == Linear \ IgnoredByLibrary(l)

(* Modules whose metadata is cleared if the library has kept them unquantized. *)
DecidesOn(l) == Own

(* The library tunes what it can and is not told to ignore, but may fall back to full
   precision; the rest has never been quantized by it.  _postprocess_qparams then
   clears the metadata of the targets that are not quantized, renames the parameters
   that the library has computed, and puts the other ones back. *)
EndTuning ==
  /\ phase = "tune"
  /\ \E l \in Decoding : \E Tuned \in SUBSET Tunable(l) :
       LET Cleared == DecidesOn(l) \ Tuned IN
       /\ Tunable(l) \ Own \subseteq Tuned
       /\ scheme' = [scheme EXCEPT ![l] = @ \ Cleared]
       /\ qparams' = [qparams EXCEPT ![l] = [m \in Modules |->
            CASE m \in Cleared -> "none"
              [] m \in Tuned \ Cleared /\ collected[m] /= "none" -> "tuned"
              [] OTHER -> collected[m]]]
       /\ rounded' = [rounded EXCEPT ![l] = @ \cup Tuned]
       /\ qInput' = l
  /\ collected' = [m \in Modules |-> "none"]
  /\ moduleInput' = [l \in Layers |-> <<>>]
  /\ NextModifier
  /\ UNCHANGED <<arSetup, propagateError, pipe, sub, through, hooked, status, tunedOn>>

(* The propagating pass, without hooks, and the next subgraph. *)
NextSubgraph ==
  /\ phase = "propagate"
  /\ through' = IF propagateError
                THEN [b \in 1 .. TuningBatches |-> through[b] \cup (Decoding \cap TunedLayers)]
                ELSE through
  /\ IF sub < NumSubgraphs THEN sub' = sub + 1 /\ phase' = "pass"
     ELSE phase' = "end" /\ UNCHANGED sub
  /\ UNCHANGED <<arSetup, propagateError, pipe, turn, hooked, moduleInput, qInput, arModel>>

(* end_calibration freezes what the schemes of the modifiers match. *)
Frozen ==
  (IF IsPresent("ar") THEN Own ELSE {}) \cup (IF IsPresent("qm") THEN Others ELSE {})

EndPipeline ==
  /\ phase = "end"
  /\ status' = [m \in Modules |-> IF m \in Frozen THEN "frozen" ELSE status[m]]
  /\ hooked' = IF IsPresent("ar") THEN {} ELSE hooked
  /\ qInput' = IF IsPresent("ar") THEN 0 ELSE qInput
  /\ IF pipe < Len(plan) THEN pipe' = pipe + 1 /\ phase' = "start"
     ELSE phase' = "done" /\ UNCHANGED pipe
  /\ UNCHANGED <<arSetup, propagateError, sub, turn, through, moduleInput, collected, qparams, scheme,
                 tunedOn, rounded>>

AutoRoundNext ==
  \/ StartPipeline \/ ForwardBatch \/ ObserveLayers \/ BeginTuning \/ EndTuning
  \/ NextSubgraph \/ EndPipeline

AutoRoundSpec == AutoRoundInit /\ [][AutoRoundNext]_autoRoundVars

-----------------------------------------------------------------------------
(* Properties *)

(* A layer is tuned on its inputs of all batches, each once and in order, computed by
   layers that are not tuned ("quantization error should not be propagated",
   pipelines/sequential/pipeline.py:88), and beside them on the output of the layer
   before it.  No layer is found without inputs. *)
TunedOnOwnInputs ==
  /\ phase = "raised" => group > 1
  /\ \A l \in TunedLayers :
       tunedOn[l] = << [b \in 1 .. TuningBatches |-> <<b, {}>>], l - 1 >>

(* In the end the targets have the parameters of the library, or none and no scheme if
   it has left them in full precision, and a module of the other modifier that the
   library cannot tune has the parameters this modifier has observed, wherever in the
   recipe it stands. *)
EachKeepsItsOwn ==
  phase = "done" =>
    \A l \in Layers :
      /\ \A m \in Own : qparams[l][m] = IF m \in scheme[l] THEN "tuned" ELSE "none"
      /\ (\E i \in DOMAIN plan : \E j \in DOMAIN plan[i] : plan[i][j] = "qm") =>
           \A m \in Others \ Linear : m \in scheme[l] /\ qparams[l][m] = "observed"

(* Neither the layers that are tuned before nor the modifiers at work beside get into
   what a layer is tuned on or what its modules end up with. *)
TuningStaysApart == TunedOnOwnInputs /\ EachKeepsItsOwn

=============================================================================
