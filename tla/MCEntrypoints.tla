---------------------------- MODULE MCEntrypoints ----------------------------
(* The calls a user makes.  A behaviour is one of calls of oneshot, one of a call of
   oneshot with several quantization modifiers, one of model_free_ptq, or one of saving
   a model; the other three stay as they are.

   Oneshot: gptq and owl stand for modifiers that calibrate with data through hooks,
   rtn for a data-free one.  ModelFree: two attention layers, or an MLP with experts,
   divided in every way among three shards.  Quantizers: see MCQuantizers.  Saving: three
   ranks. *)
EXTENDS MCOneshot, MCModelFree, MCQuantizers, Saving

-----------------------------------------------------------------------------

VARIABLE component  \* the component that moves

(* One of the states model_free_ptq may start in, and one of the quantizers and of a model
   to save. *)
ModelFreeRests ==
  /\ checkpoint = [t \in ToSet(MlpNames) \cup {ExpertNames[1]} |-> 1]
  /\ config = << Group(Names, TRUE) >> /\ bad = {}
QuantizersRest ==
  /\ modifiers \in MultipleModifiers /\ isIndependent = FALSE /\ important = {}
  /\ subgraphing = << MCQuantModules >>
SavingRests ==
  /\ original = [nested |-> FALSE, readable |-> TRUE, tie |-> [l \in {"top"} |-> FALSE],
                 experts |-> 0]
  /\ isShared = FALSE

MCInit ==
  /\ component \in {"oneshot", "quantizers", "model_free", "saving"}
  /\ OneshotInit
  /\ component # "model_free" => ModelFreeRests
  /\ ModelFreeInit
  /\ component # "quantizers" => QuantizersRest
  /\ QuantizersInit
  /\ component # "saving" => SavingRests
  /\ SavingInit

MCNext ==
  /\ UNCHANGED component
  /\ \/ component = "oneshot" /\ OneshotNext /\ UNCHANGED <<quantVars, freeVars, savingVars>>
     \/ component = "quantizers" /\ QuantizersNext
        /\ UNCHANGED <<allVars, freeVars, savingVars>>
     \/ component = "model_free" /\ ModelFreeNext
        /\ UNCHANGED <<allVars, quantVars, savingVars>>
     \/ component = "saving" /\ SavingNext /\ UNCHANGED <<allVars, quantVars, freeVars>>

(* The fairness of SavingSpec, where it is Saving that moves. *)
MCSpec ==
  /\ MCInit /\ [][MCNext]_<<component, allVars, quantVars, freeVars, savingVars>>
  /\ WF_savingVars(component = "saving" /\ CompressAndRetie)
  /\ \A r \in SavingRanks : WF_savingVars(component = "saving" /\ RankStep(r))

(* Every rank leaves save_pretrained, also when the source raises while it writes. *)
SavingTerminates == component = "saving" => EveryRankLeaves
=============================================================================
