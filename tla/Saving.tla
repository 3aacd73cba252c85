------------------------------- MODULE Saving -------------------------------
(***************************************************************************)
(* Saving a compressed model: save_pretrained_wrapper, _retie_embeddings,  *)
(* resave_config and suspend_distributed_timeout of transformers/          *)
(* compression/compressed_tensors_utils.py, after what the modifiers have  *)
(* done to the embeddings (untie_word_embeddings of utils/transformers.py) *)
(* and to the number of experts.                                           *)
(*                                                                         *)
(* Every rank has the model and calls save_pretrained; the source rank     *)
(* writes, the others wait in barriers.  Each step of writing may raise.   *)
(*                                                                         *)
(* The config is the fields at two levels: "top", and "text" if it has a   *)
(* text_config.  The k-th collective a rank issues returns when all ranks  *)
(* have issued their k-th.                                                 *)
(***************************************************************************)
EXTENDS Integers, Sequences, FiniteSets

CONSTANTS
  SavingRanks,  \* the ranks; 0 is the source
  Nestings      \* whether the config has a text_config: subset of BOOLEAN

ASSUME SavingAssumption ==
  /\ 0 \in SavingRanks /\ IsFiniteSet(SavingRanks)
  /\ Nestings \subseteq BOOLEAN

VARIABLES
  original,     \* the config of the original model: nested, tie, experts, readable
  modelConfig,  \* model.config: tie at each level, experts
  embeddings,   \* the values of the input and the output embedding
  isShared,     \* both are the same tensor
  isQuantized,  \* a modifier has set a scheme
  place,        \* where each rank is
  issued,       \* issued[r]: the collectives of rank r
  writing,      \* what the source has written last, or "raised"
  saved         \* config.json and the tables in the save directory

modelVars == <<original, modelConfig, embeddings, isShared, isQuantized>>
savingVars == <<modelVars, place, issued, writing, saved>>

Source == 0
Levels == IF original.nested THEN {"top", "text"} ELSE {"top"}
TextLevel == IF original.nested THEN "text" ELSE "top"

NoFile == [kind |-> "none", tie |-> [l \in Levels |-> FALSE], experts |-> 0, quantized |-> FALSE]

(* Tied models share the table, unless offloading has split it. *)
SavingInit ==
  /\ \E nested \in Nestings, tied \in BOOLEAN, hasExperts \in BOOLEAN, readable \in BOOLEAN :
       /\ original = [nested |-> nested, readable |-> readable,
            tie |-> [l \in IF nested THEN {"top", "text"} ELSE {"top"} |-> tied],
            experts |-> IF hasExperts THEN 2 ELSE 0]
       /\ modelConfig = [tie |-> original.tie, experts |-> original.experts]
       /\ embeddings = [in |-> <<"table">>, out |-> IF tied THEN <<"table">> ELSE <<"head">>]
       /\ isShared \in IF tied THEN BOOLEAN ELSE {FALSE}
  /\ isQuantized = FALSE
  /\ place = [r \in SavingRanks |-> "calibrating"]
  /\ issued = [r \in SavingRanks |-> <<>>]
  /\ writing = "nothing"
  /\ saved = [config |-> NoFile, tables |-> {}]

IsCalibrating == \A r \in SavingRanks : place[r] = "calibrating"

(* untie_word_embeddings: the field is the one of the config itself. *)
UntiedConfig == [modelConfig EXCEPT !.tie["top"] = FALSE]

UntieEmbeddings ==
  /\ IsCalibrating
  /\ isShared' = FALSE /\ modelConfig' = UntiedConfig
  /\ UNCHANGED <<original, embeddings, isQuantized, place, issued, writing, saved>>

(* A modifier quantizes the modules with a scheme; it unties embeddings it targets. *)
QuantizeEmbeddings(S, scheme) ==
  /\ IsCalibrating
  /\ ~isQuantized /\ isQuantized' = TRUE
  /\ embeddings' = [e \in {"in", "out"} |->
       IF e \in S THEN Append(embeddings[e], scheme[e]) ELSE embeddings[e]]
  /\ IF S # {} THEN isShared' = FALSE /\ modelConfig' = UntiedConfig
     ELSE UNCHANGED <<isShared, modelConfig>>
  /\ UNCHANGED <<original, place, issued, writing, saved>>

(* update_model_config *)
PruneExperts ==
  /\ IsCalibrating /\ modelConfig.experts = 2
  /\ modelConfig' = [modelConfig EXCEPT !.experts = 1]
  /\ UNCHANGED <<original, embeddings, isShared, isQuantized, place, issued, writing, saved>>

(* All ranks have the same model: compressing and retying it is one step. *)
CompressAndRetie ==
  /\ IsCalibrating
  /\ IF embeddings["in"] = embeddings["out"] /\ ~isShared
     THEN isShared' = TRUE /\ modelConfig' = [modelConfig EXCEPT !.tie[TextLevel] = TRUE]
     ELSE UNCHANGED <<isShared, modelConfig>>
  /\ place' = [r \in SavingRanks |-> "outside"]
  /\ UNCHANGED <<original, embeddings, isQuantized, issued, writing, saved>>

-----------------------------------------------------------------------------
(* suspend_distributed_timeout *)

Entry == <<"new_group", "barrier">>

(* Mutant: nothing is waited for after the body. *)
ExitWithout == <<>>

Exit == <<"barrier_suspend", "barrier">>

Issue(r, calls) == issued' = [issued EXCEPT ![r] = @ \o calls]

(* Collectives return in order, each when all ranks have issued it; a rank that waits
   for one issues no other, so only the last that all share matters. *)
Returned(r) == \A s \in SavingRanks : Len(issued[s]) >= Len(issued[r])

EnterSave(r) ==
  /\ place[r] = "outside" /\ Returned(r)
  /\ IF Len(issued[r]) < Len(Entry)
     THEN Issue(r, <<Entry[Len(issued[r]) + 1]>>) /\ UNCHANGED place
     ELSE place' = [place EXCEPT ![r] = "body"] /\ UNCHANGED issued
  /\ UNCHANGED <<modelVars, writing, saved>>

(* Mutant: the config of the quantization is written before the original config. *)
StepsSwapped == <<"structure", "quantization", "config", "recipe">>

(* The files of the save directory, in the order in which they are written; the python
   files and the MTP tensors that some models have follow the recipe. *)
Steps == <<"structure", "config", "quantization", "recipe">>

NextStep == IF writing = "nothing" THEN 1 ELSE 1 + CHOOSE i \in DOMAIN Steps : Steps[i] = writing

IsWritten == writing = Steps[Len(Steps)]

Serialized == [kind |-> "serialized", tie |-> modelConfig.tie, experts |-> modelConfig.experts, quantized |-> FALSE]

(* resave_config: the original config with the fields of the text config patched; it is
   kept as serialized if there is no original. *)
Resaved ==
  IF ~original.readable THEN saved.config
  ELSE [kind |-> "original",
        tie |-> [original.tie EXCEPT ![TextLevel] = modelConfig.tie[TextLevel]],
        experts |-> modelConfig.experts, quantized |-> FALSE]

Write(r) ==
  /\ r = Source /\ place[r] = "body" /\ writing # "raised" /\ ~IsWritten
  /\ writing' = Steps[NextStep]
  /\ saved' =
       CASE writing' = "structure" ->
              [config |-> Serialized, tables |-> IF isShared THEN {"in"} ELSE {"in", "out"}]
         [] writing' = "config" -> [saved EXCEPT !.config = Resaved]
         [] writing' = "quantization" -> [saved EXCEPT !.config.quantized = isQuantized]
         [] OTHER -> saved
  /\ UNCHANGED <<modelVars, place, issued>>

RaiseWriting(r) ==
  /\ r = Source /\ place[r] = "body" /\ writing # "raised" /\ ~IsWritten
  /\ writing' = "raised"
  /\ UNCHANGED <<modelVars, place, issued, saved>>

(* Mutant: the barriers are left out when the body raises. *)
LeaveUnlessRaised(r) ==
  /\ place[r] = "body"
  /\ r = Source => writing = "raised" \/ IsWritten
  /\ place' = [place EXCEPT ![r] =
       IF r = Source /\ writing = "raised" THEN "raised" ELSE "leaving"]
  /\ UNCHANGED <<modelVars, issued, writing, saved>>

(* The body ends or raises: the barriers are in a finally clause. *)
Leave(r) ==
  /\ place[r] = "body"
  /\ r = Source => writing = "raised" \/ IsWritten
  /\ place' = [place EXCEPT ![r] = "leaving"]
  /\ UNCHANGED <<modelVars, issued, writing, saved>>

AwaitOthers(r) ==
  /\ place[r] = "leaving" /\ Returned(r)
  /\ LET k == Len(issued[r]) - Len(Entry) IN
       IF k < Len(Exit) THEN Issue(r, <<Exit[k + 1]>>) /\ UNCHANGED place
       ELSE /\ place' = [place EXCEPT ![r] =
                 IF r = Source /\ writing = "raised" THEN "raised" ELSE "restored"]
            /\ UNCHANGED issued
  /\ UNCHANGED <<modelVars, writing, saved>>

-----------------------------------------------------------------------------
RankStep(r) == EnterSave(r) \/ Write(r) \/ RaiseWriting(r) \/ Leave(r) \/ AwaitOthers(r)

SavingNext ==
  \/ UntieEmbeddings \/ PruneExperts \/ CompressAndRetie
  \/ \E S \in SUBSET {"in", "out"}, scheme \in [{"in", "out"} -> {"int", "float"}] :
       QuantizeEmbeddings(S, scheme)
  \/ \E r \in SavingRanks : RankStep(r)

SavingSpec ==
  /\ SavingInit /\ [][SavingNext]_savingVars
  /\ WF_savingVars(CompressAndRetie)
  /\ \A r \in SavingRanks : WF_savingVars(RankStep(r))

-----------------------------------------------------------------------------
(* Properties *)

HasLeft(r) == place[r] \in {"restored", "raised"}

(* No rank is done with saving, and free to read or replace the files, before the source
   has written them all or has raised, whichever barrier it waits in. *)
NobodyLeavesEarly ==
  \A r \in SavingRanks : HasLeft(r) => writing = "raised" \/ IsWritten

(* Every rank leaves save_pretrained, also when the source raises while it writes. *)
EveryRankLeaves == \A r \in SavingRanks : <>HasLeft(r)

(* What was done to the embeddings by all modifiers, and what retying makes of them, fits
   the saved config: tied tables are equal, and a table that is not written is tied. *)
SavedTiesAreTrue ==
  /\ saved.config.tie[TextLevel] => embeddings["in"] = embeddings["out"]
  /\ "out" \notin saved.tables => saved.config.tie[TextLevel]

(* The saved config describes the model, whichever of the steps wrote it: the ties, the
   number of experts that are left, and the quantization. *)
SavedConfigDescribesModel ==
  IsWritten =>
    /\ SavedTiesAreTrue
    /\ saved.config.experts = modelConfig.experts
    /\ saved.config.quantized = isQuantized
=============================================================================
