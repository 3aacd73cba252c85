------------------------------ MODULE Masking ------------------------------
(***************************************************************************)
(* ConstantPruningModifier and MagnitudePruningModifier                    *)
(* (modifiers/pruning/constant, modifiers/pruning/magnitude) and the masks *)
(* they put on layers (LayerParamMasking in modifiers/pruning/utils).      *)
(*                                                                         *)
(* The masks of a modifier are buffers of the layers, so modifiers of one  *)
(* recipe that target the same layer share the buffer, while each keeps    *)
(* its own record of the layers it has masked.  An event reaches the       *)
(* modifiers one after the other; between the events the training loop     *)
(* changes the weights.                                                    *)
(*                                                                         *)
(* A caller passes the step with an event, as the tests of the modifiers   *)
(* do; the events that the lifecycle builds leave it at 0.                 *)
(***************************************************************************)
EXTENDS Integers, Sequences, SequencesExt, FiniteSets

CONSTANTS
  LayerParamOrder, \* the layers of the model
  Elements,     \* elements of a weight
  Values,       \* weights, as magnitudes of their elements
  MaskRecipes,  \* sequences of modifiers, see Modifier
  UseHooks,     \* values of the argument use_hooks
  SparsityUnits,\* sparsities of modifiers are given in parts of SparsityUnits
  MaxTrainStep, \* bound on the steps of a caller
  NoMask, None

LayerParams == ToSet(LayerParamOrder)

(* power is the exponent of polynomial_decay, 1 for linear and 3 for cubic. *)
Modifier ==
  [kind : {"constant", "magnitude"}, targets : SUBSET LayerParams,
   start : Nat, end : Nat, from : 0 .. SparsityUnits, to : 0 .. SparsityUnits,
   power : Nat \ {0}]

ASSUME MaskingAssumption ==
  /\ LayerParamOrder \in Seq(LayerParams)
  /\ IsFiniteSet(Elements) /\ Values \subseteq [Elements -> Nat]
  /\ SparsityUnits \in Nat \ {0} /\ MaxTrainStep \in Nat
  /\ \A r \in MaskRecipes : r \in Seq(Modifier)
  /\ UseHooks \subseteq BOOLEAN /\ \A K \in SUBSET Elements : K # NoMask

VARIABLES
  modifiers, useHooks,
  persistent,   \* save_masks
  phase,        \* what the session is doing
  visits,       \* modifiers that the present call has still to visit
  event, step,
  opened, started, ended, closed,   \* modifiers with initialized_, started_, ended_, finalized_
  sparsities,   \* current_sparsity_
  enabled,      \* modifiers whose enabled_ is True
  masked,       \* _masked_layer_params
  hooks,        \* layers with a hook of a modifier
  masks,        \* elements that the buffer of a layer keeps
  weight,
  zeros         \* zeros of the weights when a modifier started

maskingSetup == <<modifiers, useHooks, persistent>>
flags == <<opened, started, ended, closed>>
schedules == <<sparsities, enabled>>
buffers == <<masked, hooks, masks>>
maskingVars ==
  <<maskingSetup, phase, visits, event, step, flags, schedules, buffers, weight, zeros>>

Mods == DOMAIN modifiers

(* The first of some layers, in the order of build_parameterized_layers. *)
FirstParam(S) == LayerParamOrder[CHOOSE i \in DOMAIN LayerParamOrder :
  LayerParamOrder[i] \in S /\ \A j \in 1 .. i - 1 : LayerParamOrder[j] \notin S]
Zeros(w) == [l \in LayerParams |-> {e \in Elements : w[l][e] = 0}]

MaskingInit ==
  /\ modifiers \in MaskRecipes /\ useHooks \in UseHooks /\ persistent \in BOOLEAN
  /\ phase = "initialize" /\ visits = [m \in Mods |-> m]
  /\ event = "none" /\ step = 0
  /\ opened = {} /\ started = {} /\ ended = {} /\ closed = {}
  /\ sparsities = [m \in Mods |-> None]
  /\ enabled = {}
  /\ masked = [m \in Mods |-> {}] /\ hooks = [m \in Mods |-> {}]
  /\ masks = [l \in LayerParams |-> NoMask]
  /\ weight \in [LayerParams -> Values]
  /\ zeros = [m \in Mods |-> [l \in LayerParams |-> {}]]

-----------------------------------------------------------------------------
(* Schedules and masks *)

StartsAt(m, s) == modifiers[m].start <= s /\ s < modifiers[m].end
EndsAt(m, s) == s >= modifiers[m].end

Power(a, n) ==
  LET power[k \in Nat] == IF k = 0 THEN 1 ELSE a * power[k - 1] IN power[n]

(* Schedules divide by this. *)
Span(m) == Power(modifiers[m].end - modifiers[m].start, modifiers[m].power)

(* Mutant: (t - 1)^power + 1, which turns the sign for even powers. *)
ScheduledFlipped(m, s) ==
  LET left == Power(modifiers[m].end - s, modifiers[m].power)
      sign == IF modifiers[m].power % 2 = 0 THEN 1 ELSE -1
      r == modifiers[m]
  IN r.from * Span(m) + (r.to - r.from) * (Span(m) + sign * left)

(* The sparsity at a step, in parts of SparsityUnits * Span(m): init + (final - init) *
   (1 - (1 - t)^power), where t is the part of the range that is done.  A step
   past the end extrapolates. *)
Scheduled(m, s) ==
  LET left == Power(modifiers[m].end - s, modifiers[m].power)
      r == modifiers[m]
  IN r.from * Span(m) + (r.to - r.from) * (Span(m) - left)

(* How many elements that is, rounded down. *)
PruneElements(m, sp) == (sp * Cardinality(Elements)) \div (SparsityUnits * Span(m))

(* unstructured_pruning keeps the elements above the n-th smallest score, so all
   elements that tie with it are pruned. *)
PruneWith(w, n) ==
  {e \in Elements : n > 0 => Cardinality({f \in Elements : w[f] < w[e]}) >= n}

Nonzero(w) == {e \in Elements : w[e] > 0}
Masked(w, K) == [e \in Elements |-> IF e \in K THEN w[e] ELSE 0]

-----------------------------------------------------------------------------
(* Callbacks of the modifiers: the masks k with those of m computed anew. *)

MagnitudeMasks(m, sp, k) ==
  [l \in LayerParams |-> IF l \in modifiers[m].targets
                    THEN PruneWith(weight[l], PruneElements(m, sp)) ELSE k[l]]

ConstantMasks(m, k) ==
  [l \in LayerParams |-> IF l \in modifiers[m].targets THEN Nonzero(weight[l]) ELSE k[l]]

OnStart(m, s, k) ==
  /\ IF modifiers[m].kind = "constant"
     THEN masks' = ConstantMasks(m, k) /\ UNCHANGED sparsities
     ELSE /\ masks' = MagnitudeMasks(m, Scheduled(m, s), k)
          /\ sparsities' = [sparsities EXCEPT ![m] = Scheduled(m, s)]
  /\ enabled' = enabled \cup {m}
  /\ started' = started \cup {m}
  /\ zeros' = [zeros EXCEPT ![m] = Zeros(weight)]

(* on_update at the start of a batch.  A modifier that has just started finds the
   sparsity it has computed. *)
OnBatchStart(m) ==
  IF modifiers[m].kind = "magnitude" /\ Scheduled(m, step) # sparsities[m]
  THEN /\ sparsities' = [sparsities EXCEPT ![m] = Scheduled(m, step)]
       /\ masks' = MagnitudeMasks(m, Scheduled(m, step), masks)
  ELSE UNCHANGED <<sparsities, masks>>

(* Mutant: the masks are applied before the optimizer changes the weights. *)
AppliesBefore(m, e) == e = "optim_pre_step"

Applies(m, e) == e = "optim_post_step"

(* on_update after the optimizer: a constant modifier multiplies every weight of the
   model that has a mask, a magnitude modifier those of its layers while it is
   enabled. *)
Apply(m) ==
  weight' = [l \in LayerParams |->
    IF masks[l] # NoMask /\ (modifiers[m].kind = "constant" \/ (m \in enabled /\ l \in masked[m]))
    THEN Masked(weight[l], masks[l]) ELSE weight[l]]

-----------------------------------------------------------------------------
(* initialize *)

AddMasks(m, S) ==
  [l \in LayerParams |-> IF l \in S /\ masks[l] = NoMask THEN Elements ELSE masks[l]]

(* add_mask reuses the buffer of a layer.  A modifier whose range holds step 0
   starts at once. *)
InitializeMasks ==
  /\ phase = "initialize" /\ visits # <<>>
  /\ ~ (useHooks /\ modifiers[Head(visits)].targets # {})
  /\ LET m == Head(visits)
         k == AddMasks(m, modifiers[m].targets)
     IN /\ masked' = [masked EXCEPT ![m] = modifiers[m].targets]
        /\ opened' = opened \cup {m}
        /\ IF StartsAt(m, 0) THEN OnStart(m, 0, k)
           ELSE masks' = k /\ UNCHANGED <<sparsities, enabled, started, zeros>>
  /\ visits' = Tail(visits)
  /\ UNCHANGED <<maskingSetup, phase, event, step, ended, closed, hooks, weight>>

(* With use_hooks the hook on the gradient of the first layer cannot be registered:
   tensors have no register__hook. *)
InitializeHooks ==
  /\ phase = "initialize" /\ visits # <<>>
  /\ useHooks /\ modifiers[Head(visits)].targets # {}
  /\ LET m == Head(visits)
         first == FirstParam(modifiers[m].targets)
     IN /\ masked' = [masked EXCEPT ![m] = {first}]
        /\ hooks' = [hooks EXCEPT ![m] = {first}]
        /\ masks' = AddMasks(m, {first})
  /\ phase' = "raised"
  /\ UNCHANGED <<maskingSetup, visits, event, step, flags, schedules, weight, zeros>>

-----------------------------------------------------------------------------
(* Training *)

Post(e) == event' = e /\ visits' = [m \in Mods |-> m]
Quiet == phase \in {"initialize", "train"} /\ visits = <<>>

BatchStart ==
  /\ Quiet /\ event \in {"none", "batch_end"}
  /\ phase' = "train"
  /\ Post("batch_start")
  /\ step' \in {step, step + 1} /\ step' <= MaxTrainStep
  /\ UNCHANGED <<maskingSetup, flags, schedules, buffers, weight, zeros>>

OptimPreStep ==
  /\ Quiet /\ event = "batch_start"
  /\ Post("optim_pre_step")
  /\ UNCHANGED <<maskingSetup, phase, step, flags, schedules, buffers, weight, zeros>>

(* The optimizer may change any weight: masked gradients leave it momentum. *)
OptimPostStep ==
  /\ Quiet /\ event = "optim_pre_step"
  /\ weight' \in [LayerParams -> Values]
  /\ Post("optim_post_step")
  /\ UNCHANGED <<maskingSetup, phase, step, flags, schedules, buffers, zeros>>

(* A batch whose gradients are accumulated ends without a step of the optimizer. *)
BatchEnd ==
  /\ Quiet /\ event \in {"batch_start", "optim_post_step"}
  /\ Post("batch_end")
  /\ UNCHANGED <<maskingSetup, phase, step, flags, schedules, buffers, weight, zeros>>

(* Modifier.update_event of the next modifier. *)
Starts(m) == event = "batch_start" /\ m \notin started /\ StartsAt(m, step)
Ends(m) == event = "batch_end" /\ m \notin ended /\ EndsAt(m, step)

UpdateEvent ==
  /\ phase = "train" /\ visits # <<>>
  /\ LET m == Head(visits)
         running == m \in started \ ended
     IN \/ /\ Starts(m)
           /\ OnStart(m, step, masks)
           /\ UNCHANGED <<ended, weight>>
        \/ /\ Ends(m)
           /\ ended' = ended \cup {m}
           /\ enabled' = enabled \ {m}
           /\ UNCHANGED <<started, sparsities, masks, weight, zeros>>
        \/ /\ ~ Starts(m) /\ ~ Ends(m)
           /\ IF running /\ event = "batch_start" THEN OnBatchStart(m)
              ELSE UNCHANGED <<sparsities, masks>>
           /\ IF running /\ Applies(m, event) THEN Apply(m) ELSE UNCHANGED weight
           /\ UNCHANGED <<started, ended, enabled, zeros>>
  /\ visits' = Tail(visits)
  /\ UNCHANGED <<maskingSetup, phase, event, step, opened, closed, masked, hooks>>

-----------------------------------------------------------------------------
(* finalize *)

FinalizeMasks ==
  /\ Quiet /\ event \in {"none", "batch_end"}
  /\ phase' = "finalize" /\ event' = "finalize"
  /\ visits' = [m \in Mods |-> m]
  /\ UNCHANGED <<maskingSetup, step, flags, schedules, buffers, weight, zeros>>

(* remove_mask deletes the buffer unless masks are saved; with another modifier's
   mask on the layer it may be gone. *)
RemoveMask ==
  /\ phase = "finalize" /\ visits # <<>> /\ masked[Head(visits)] # {}
  /\ LET m == Head(visits)
         l == FirstParam(masked[m])
     IN IF ~ persistent /\ masks[l] = NoMask
        THEN phase' = "raised" /\ UNCHANGED <<masked, masks>>
        ELSE /\ masks' = IF persistent THEN masks ELSE [masks EXCEPT ![l] = NoMask]
             /\ masked' = [masked EXCEPT ![m] = @ \ {l}]
             /\ UNCHANGED phase
  /\ UNCHANGED <<maskingSetup, visits, event, step, flags, schedules, hooks, weight, zeros>>

FinalizeNext ==
  /\ phase = "finalize" /\ visits # <<>> /\ masked[Head(visits)] = {}
  /\ closed' = closed \cup {Head(visits)}
  /\ visits' = Tail(visits)
  /\ phase' = IF Tail(visits) # <<>> THEN "finalize" ELSE "done"
  /\ UNCHANGED <<maskingSetup, event, step, opened, started, ended, schedules, buffers, weight,
                 zeros>>

MaskingNext ==
  \/ InitializeMasks \/ InitializeHooks
  \/ BatchStart \/ OptimPreStep \/ OptimPostStep \/ BatchEnd \/ UpdateEvent
  \/ FinalizeMasks \/ RemoveMask \/ FinalizeNext

MaskingSpec == MaskingInit /\ [][MaskingNext]_maskingVars

-----------------------------------------------------------------------------
(* Properties *)

(* Layers that no other modifier of the recipe masks. *)
Own(m) == modifiers[m].targets \ UNION {modifiers[o].targets : o \in Mods \ {m}}

(* After a step of the optimizer has been handled, whatever it did to the weights:
   what was zero when a constant modifier started is zero, and of the layers of a
   magnitude modifier as much is zero as its schedule asks for. *)
SparsityIsKept ==
  event = "optim_post_step" /\ visits = <<>> =>
    \A m \in enabled : \A l \in Own(m) :
      IF modifiers[m].kind = "constant" THEN zeros[m][l] \subseteq Zeros(weight)[l]
      ELSE Cardinality(Zeros(weight)[l]) >= PruneElements(m, sparsities[m])

(* While the sparsity of a magnitude modifier grows, no element it has pruned comes
   back: masks are computed from weights that the last mask has been applied to. *)
PrunedStaysPruned ==
  [][\A m \in enabled \cap enabled' :
       modifiers[m].kind = "magnitude" /\ modifiers[m].from <= modifiers[m].to /\ phase = "train" =>
         \A l \in Own(m) : masks'[l] \subseteq masks[l]]_maskingVars

(* Finalization removes every mask of every modifier or, when masks are saved,
   leaves them all; it raises only if modifiers share a layer. *)
FinalizedIsClean ==
  /\ phase = "done" =>
       /\ \A m \in Mods : masked[m] = {}
       /\ \A l \in LayerParams : masks[l] = NoMask \/
            (persistent /\ \E m \in Mods : l \in modifiers[m].targets)
  /\ phase = "raised" => useHooks \/ \E m \in Mods : Own(m) # modifiers[m].targets

(* Masks are kept as long as they are wanted. *)
MasksAreKept == SparsityIsKept /\ FinalizedIsClean
=============================================================================
