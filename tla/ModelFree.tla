------------------------------ MODULE ModelFree ------------------------------
(***************************************************************************)
(* model_free_ptq (entrypoints/model_free): the quantization of a          *)
(* checkpoint, shard by shard, without a model definition.                 *)
(*                                                                         *)
(* One job per shard loads tensors, quantizes them and writes a shard of   *)
(* the same name.  Weights that share a global scale must be quantized in  *)
(* one job; when they are in different shards, the job of the primary      *)
(* weight loads its partners.  Inside of a job fused weights are found by  *)
(* matching the sorted names against lists of patterns.  Jobs run in       *)
(* threads, and each of them may raise.                                    *)
(*                                                                         *)
(* The checkpoint has several shards and so an index file; one of a single *)
(* file may lack it, and is then not looked at by validate_safetensors_    *)
(* index.  A config.json that the checkpoint brings may have the config of *)
(* an earlier quantization: what is modelled is the one this run writes.   *)
(***************************************************************************)
EXTENDS Naturals, Sequences, SequencesExt, FiniteSets

CONSTANTS
  Families,     \* modules that hold projections: "self_attn", "mlp", ...
  NameOrder,    \* tensor names in natural order
  Shards,
  Checkpoints,  \* checkpoints: functions from their tensors to shards
  Configs,      \* config_groups: sequences of [targets, microscale]
  Unquantizable,\* tensors that may have a shape that cannot be quantized
  Workers       \* max_workers

(* A tensor name.  A fused tensor of experts is of family "experts". *)
Names == ToSet(NameOrder)

ASSUME ModelFreeAssumption ==
  /\ \A t \in Names : t.layer \in Nat /\ t.family \in Families
  /\ \A c \in Checkpoints : DOMAIN c \subseteq Names /\ c \in [DOMAIN c -> Shards]
  /\ \A g \in Configs : g \in Seq([targets : SUBSET Names, microscale : BOOLEAN])
  /\ IsFiniteSet(Shards) /\ Workers \in Nat \ {0}

VARIABLES
  checkpoint, config,
  bad,          \* tensors of this checkpoint that cannot be quantized
  stage,        \* where model_free_ptq is
  job,          \* job[s]: "pending", "running", "saved" or "failed"
  files,        \* files[s]: what the written shard holds, per tensor the set
                \* of tensors its scales are computed from, {} if not quantized
  index,        \* weight_map of the index file in save_directory
  quantizedConfig, \* config.json there has the quantization config of this run
  failure

freeVars == <<checkpoint, config, bad, stage, job, files, index, quantizedConfig, failure>>

-----------------------------------------------------------------------------
(* Fused weights *)

(* DEFAULT_FUSED_MAPPINGS: for each primary projection the families it may be in
   and its partners. *)
Attention == {"attn", "attention", "self_attn", "self_attention"}
FusedMappings ==
  [q_proj |-> [families |-> Attention, partners |-> {"k_proj", "v_proj"}],
   wq_a |-> [families |-> Attention \ {"self_attention"},
             partners |-> {"wkv_a_with_mqa"}],
   gate_proj |-> [families |-> {"mlp", "feed_forward"}, partners |-> {"up_proj"}],
   w1 |-> [families |-> Families, partners |-> {"w3"}]]

(* _DEFAULT_FUSED_MAPPINGS_LIST, whose patterns match the end of a family. *)
FusedLists ==
  LET attentions == Attention \cup {"cross_attn"} IN
  {[families |-> attentions, projs |-> {"q_proj", "k_proj", "v_proj"}],
   [families |-> attentions, projs |-> {"wq_a", "wkv_a_with_mqa"}],
   [families |-> {"mlp"}, projs |-> {"gate_proj", "up_proj"}],
   [families |-> Families, projs |-> {"w1", "w3"}]}

HasMicroscale(g) == \E i \in DOMAIN g : g[i].microscale

(* Mutant: the partners are not asked for. *)
NoDependencies(t) == {}

(* get_dependencies *)
Dependencies(t) ==
  IF HasMicroscale(config) /\ t.proj \in DOMAIN FusedMappings
       /\ t.family \in FusedMappings[t.proj].families
  THEN {[t EXCEPT !.proj = p] : p \in FusedMappings[t.proj].partners}
  ELSE {}

Tensors == DOMAIN checkpoint
Partners == UNION {Dependencies(t) : t \in Tensors}

(* Mutant: a partner is loaded by the job of its own shard, too. *)
LoadedTwice(s) ==
  LET own == {t \in Tensors : checkpoint[t] = s}
  IN own \cup UNION {Dependencies(t) : t \in own}

(* build_inverse_weight_maps: the tensors the job of a shard loads. *)
Loaded(s) ==
  LET own == {t \in Tensors \ Partners : checkpoint[t] = s}
  IN own \cup UNION {Dependencies(t) : t \in own}

-----------------------------------------------------------------------------
(* The work of a job *)

(* split_fused_moe_experts, for two experts. *)
Split(t) ==
  IF t.family # "experts" THEN {t}
  ELSE {[t EXCEPT !.family = e, !.proj = p] : e \in {"experts.0", "experts.1"},
          p \in IF t.proj = "gate_up_proj" THEN {"gate_proj", "up_proj"} ELSE {t.proj}}

(* _match_tensors_to_schemes: the first group that matches. *)
Groups(t) == {i \in DOMAIN config : t \in config[i].targets}
Matched(t) == Groups(t) # {}
Microscale(t) == Matched(t) /\ config[Min(Groups(t))].microscale

Complete(set, list) == {t.proj : t \in set} = list.projs

(* One name of match_names_set_eager: a set is complete when every target has
   matched; a target that matches twice before is an error. *)
MatchName(acc, t, list) ==
  IF t.family \notin list.families \/ t.proj \notin list.projs THEN acc
  ELSE IF \E u \in acc.matches : u.proj = t.proj THEN [acc EXCEPT !.twice = TRUE]
  ELSE LET matches == acc.matches \cup {t} IN
       IF Complete(matches, list)
       THEN [acc EXCEPT !.sets = @ \cup {matches}, !.matches = {}]
       ELSE [acc EXCEPT !.matches = matches]

(* The names of S one after the other, in their natural order. *)
MatchNamesSetEager(S, list) ==
  LET matched[n \in 0 .. Len(NameOrder)] ==
        IF n = 0 THEN [sets |-> {}, matches |-> {}, twice |-> FALSE]
        ELSE IF NameOrder[n] \in S THEN MatchName(matched[n - 1], NameOrder[n], list)
        ELSE matched[n - 1]
  IN matched[Len(NameOrder)]

(* Whether one of the lists matches a target twice before its set is complete. *)
MatchesTwice(S) == \E l \in FusedLists : MatchNamesSetEager(S, l).twice

(* The weights the global scale of a weight is computed from: those of its fused
   set that have a microscale scheme. *)
ScaledWith(S, t) ==
  LET fused == {F \in UNION {MatchNamesSetEager(S, l).sets : l \in FusedLists} : t \in F}
  IN IF ~Matched(t) THEN {}
     ELSE IF ~Microscale(t) \/ fused = {} THEN {t}
     ELSE {u \in UNION fused : Microscale(u)}

Output(s) ==
  LET S == UNION {Split(t) : t \in Loaded(s)} IN [t \in S |-> ScaledWith(S, t)]

(* The conversion of a shard raises for names that match twice and for weights
   of a shape that its scheme cannot quantize. *)
Raises(s) ==
  LET S == UNION {Split(t) : t \in Loaded(s)} IN
  \/ HasMicroscale(config) /\ MatchesTwice(S)
  \/ \E t \in S : t \in bad /\ Matched(t)

-----------------------------------------------------------------------------

ModelFreeInit ==
  /\ checkpoint \in Checkpoints /\ config \in Configs
  /\ bad \in {{}} \cup {{t} : t \in Unquantizable}
  /\ stage = "check"
  /\ job = [s \in Shards |-> "pending"]
  /\ files = [s \in Shards |-> <<>>]
  /\ index = {} /\ quantizedConfig = FALSE
  /\ failure = "none"

Fail(e) == stage' = "failed" /\ failure' = e

(* validate_safetensors_index: the sets that are divided among shards are looked
   for, to log them, in the names of each shard by itself. *)
ValidateIndex ==
  /\ stage = "check"
  /\ IF HasMicroscale(config)
          /\ \E s \in Shards : MatchesTwice({t \in Tensors : checkpoint[t] = s})
     THEN Fail("names")
     ELSE stage' = "copy" /\ UNCHANGED failure
  /\ UNCHANGED <<checkpoint, config, bad, job, files, index, quantizedConfig>>

(* All files that are not weights are copied, the index and the config among
   them. *)
CopyFiles ==
  /\ stage = "copy"
  /\ index' = {<<t, checkpoint[t]>> : t \in Tensors}
  /\ stage' = "plan"
  /\ UNCHANGED <<checkpoint, config, bad, job, files, quantizedConfig, failure>>

(* _build_jobs: a partner that is in no shard, or a shard all of whose tensors
   are partners of others, stops the run. *)
BuildJobs ==
  /\ stage = "plan"
  /\ CASE ~(Partners \subseteq Tensors) -> Fail("partner")
       [] \E s \in Shards : Loaded(s) = {} -> Fail("map")
       [] OTHER -> stage' = "validate" /\ UNCHANGED failure
  /\ UNCHANGED <<checkpoint, config, bad, job, files, index, quantizedConfig>>

(* Each shard is converted on the meta device to estimate its memory.  The
   profiler swallows what a conversion raises, and a failed load leaves nothing
   to estimate with. *)
ValidateShards ==
  /\ stage = "validate"
  /\ \/ stage' = "quantize" /\ UNCHANGED failure
     \/ Fail("load")
  /\ UNCHANGED <<checkpoint, config, bad, job, files, index, quantizedConfig>>

Running == {s \in Shards : job[s] = "running"}
Failed == {s \in Shards : job[s] = "failed"}

StartJob(s) ==
  /\ stage = "quantize" /\ job[s] = "pending"
  /\ Cardinality(Running) < Workers
  /\ job' = [job EXCEPT ![s] = "running"]
  /\ UNCHANGED <<checkpoint, config, bad, stage, files, index, quantizedConfig, failure>>

(* _process_shard; a job that raises while it saves leaves a part of a file. *)
FinishJob(s) ==
  /\ job[s] = "running"
  /\ \/ /\ ~Raises(s)
        /\ files' = [files EXCEPT ![s] = Output(s)]
        /\ job' = [job EXCEPT ![s] = "saved"]
     \/ /\ UNCHANGED files
        /\ job' = [job EXCEPT ![s] = "failed"]
  /\ UNCHANGED <<checkpoint, config, bad, stage, index, quantizedConfig, failure>>

(* Mutant: the results of the jobs that have not failed are collected. *)
CollectFinished ==
  /\ stage = "quantize" /\ Running = {} /\ \E s \in Shards : job[s] = "saved"
  /\ stage' = "config"
  /\ UNCHANGED <<checkpoint, config, bad, job, files, index, quantizedConfig, failure>>

CollectResults ==
  /\ stage = "quantize" /\ \A s \in Shards : job[s] = "saved"
  /\ stage' = "config"
  /\ UNCHANGED <<checkpoint, config, bad, job, files, index, quantizedConfig, failure>>

(* The exception of a job ends the run once no job is running any more. *)
JobsFail ==
  /\ stage = "quantize" /\ Failed # {} /\ Running = {}
  /\ Fail("job")
  /\ UNCHANGED <<checkpoint, config, bad, job, files, index, quantizedConfig>>

(* update_config; without a config.json it only warns. *)
UpdateConfig ==
  /\ stage = "config"
  /\ \/ quantizedConfig' \in BOOLEAN /\ stage' = "index" /\ UNCHANGED failure
     \/ Fail("io") /\ UNCHANGED quantizedConfig
  /\ UNCHANGED <<checkpoint, config, bad, job, files, index>>

WeightMap == {x \in Names \X Shards : x[1] \in DOMAIN files[x[2]]}

(* update_safetensors_index *)
UpdateIndex ==
  /\ stage = "index"
  /\ \/ index' = WeightMap /\ stage' = "done" /\ UNCHANGED failure
     \/ Fail("io") /\ UNCHANGED index
  /\ UNCHANGED <<checkpoint, config, bad, job, files, quantizedConfig>>

ModelFreeNext ==
  \/ ValidateIndex \/ CopyFiles \/ BuildJobs \/ ValidateShards
  \/ \E s \in Shards : StartJob(s) \/ FinishJob(s)
  \/ CollectResults \/ JobsFail
  \/ UpdateConfig \/ UpdateIndex

ModelFreeSpec == ModelFreeInit /\ [][ModelFreeNext]_freeVars

-----------------------------------------------------------------------------
(* Properties *)

IsName(t) == t = [layer |-> t.layer, family |-> t.family, proj |-> t.proj]

(* Names have these parts, and no fused tensor of experts stands next to the tensors it is
   split into: otherwise one would overwrite the other in a shard. *)
NamesAreApart ==
  /\ \A t \in Names : IsName(t)
  /\ \A c \in Checkpoints : \A t, u \in DOMAIN c : t # u => Split(t) \cap Split(u) = {}

IsFused(t, list) == t.family \in list.families /\ t.proj \in list.projs
InOneModule(t, u) == t.layer = u.layer /\ t.family = u.family

(* Every name is there once, and those of the fused weights of a module are neighbours
   in their order, as names with a common prefix are. *)
NamesAreSorted ==
  /\ NameOrder \in Seq(Names)
  /\ \A i, j \in DOMAIN NameOrder : NameOrder[i] = NameOrder[j] => i = j
  /\ \A list \in FusedLists : \A i, j, k \in DOMAIN NameOrder :
       /\ i < j /\ j < k
       /\ \A n \in {i, j, k} : IsFused(NameOrder[n], list)
       /\ InOneModule(NameOrder[i], NameOrder[k])
       => InOneModule(NameOrder[i], NameOrder[j])

(* Where a checkpoint has a partner it has the primary weight whose job fetches it, and
   where nothing is fetched a fused set is in one shard.  A feed_forward is known to
   DEFAULT_FUSED_MAPPINGS only. *)
FusedSetsSupported ==
  \A c \in Checkpoints : \A t \in DOMAIN c :
    /\ t.family = "feed_forward" => t.proj \notin {"gate_proj", "up_proj"}
    /\ \A list \in FusedLists : IsFused(t, list) =>
         /\ t.family # "experts"
         /\ \/ \E p \in list.projs \cap DOMAIN FusedMappings :
                 /\ [t EXCEPT !.proj = p] \in DOMAIN c
                 /\ t.family \in FusedMappings[p].families
            \/ \A p \in list.projs :
                 LET u == [t EXCEPT !.proj = p] IN u \in DOMAIN c /\ c[u] = c[t]
    /\ t.family = "experts" =>
         \A x \in Split(t), list \in FusedLists : ~ IsFused(x, list)

(* No tensor is lost or stored twice, although jobs load tensors of other
   shards: when the run is done, the index names one shard for each tensor, and
   that shard holds it. *)
TensorsAreKept ==
  stage = "done" =>
    /\ \A t \in UNION {Split(u) : u \in Tensors} :
         Cardinality({s \in Shards : t \in DOMAIN files[s]}) = 1
    /\ index = WeightMap

(* The weights of a layer that DEFAULT_FUSED_MAPPINGS relates share one global
   scale if their schemes have one, however the checkpoint divides them. *)
FusedWeightsShareScale ==
  stage = "done" =>
    \A t \in Tensors : \A u \in Dependencies(t) : \A s, r \in Shards :
      t \in DOMAIN files[s] /\ u \in DOMAIN files[r] /\ Microscale(t) /\ Microscale(u)
        => files[s][t] = files[r][u] /\ {t, u} \subseteq files[s][t]

(* A scale is never computed from weights of different layers or modules. *)
LayersStayApart ==
  \A s \in Shards : \A t \in DOMAIN files[s] : \A u \in files[s][t] :
    u.layer = t.layer /\ u.family = t.family

(* Weights are scaled together if and only if the model fuses them. *)
ScalesFollowFusion == FusedWeightsShareScale /\ LayersStayApart

(* The config of this run, which says that the weights are quantized, is never next to a
   shard that is missing or incomplete. *)
ConfigMeansQuantized ==
  quantizedConfig =>
    \A s \in Shards : job[s] = "saved" /\ files[s] = Output(s)

-----------------------------------------------------------------------------
(* What comments of the code say, and the code does not do *)

(* Fused weights that are divided among shards are not a reason to refuse a
   checkpoint: "fused weight sets (q/k/v, gate/up) are handled correctly even when
   split across shards". *)
SplitSetsAreAccepted == failure # "names"
=============================================================================
