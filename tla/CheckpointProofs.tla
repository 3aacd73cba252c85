-------------------------- MODULE CheckpointProofs ---------------------------
(***************************************************************************)
(* What a checkpoint on disk says of the model: for model_free_ptq, and    *)
(* for save_pretrained of a model that was compressed in memory.           *)
(***************************************************************************)
EXTENDS ModelFree, Saving, Inductions, TLAPS

(***************************************************************************)
(* Proofs about model_free_ptq: for every checkpoint, every config and     *)
(* every number of workers, whichever jobs raise, a quantization config is *)
(* written only next to a complete set of quantized shards.                *)
(***************************************************************************)

JobStates == {"pending", "running", "saved", "failed"}

(* The results of the jobs are in: they have been collected, or the config that
   is written after that says so. *)
Collected == stage \in {"config", "index", "done"} \/ quantizedConfig

(* A job that is saved has written what its tensors are quantized to, and all
   jobs are saved once their results have been collected. *)
JobsInv ==
  /\ job \in [Shards -> JobStates]
  /\ DOMAIN files = Shards
  /\ \A s \in Shards : job[s] = "saved" => files[s] = Output(s)
  /\ Collected => \A s \in Shards : job[s] = "saved"

-----------------------------------------------------------------------------
(* What a job writes depends on the checkpoint and the config only. *)
LEMMA OutputStays ==
  ASSUME NEW s \in Shards, UNCHANGED <<checkpoint, config>>
  PROVE  Output(s)' = Output(s)
BY DEF Output, Loaded, Partners, Tensors, Dependencies, HasMicroscale,
       ScaledWith, Matched, Groups, Microscale

LEMMA SetupStays ==
  ASSUME ModelFreeNext
  PROVE  UNCHANGED <<checkpoint, config>>
BY DEF ModelFreeNext, ValidateIndex, CopyFiles, BuildJobs, ValidateShards,
       StartJob, FinishJob, CollectResults, JobsFail, UpdateConfig, UpdateIndex

(* JobsInv is inductive. *)
LEMMA JobsInvHolds == ModelFreeSpec => []JobsInv
<1>1. ModelFreeInit => JobsInv
  BY DEF ModelFreeInit, JobsInv, JobStates, Collected
<1>2. JobsInv /\ [ModelFreeNext]_freeVars => JobsInv'
  <2> SUFFICES ASSUME JobsInv, [ModelFreeNext]_freeVars PROVE JobsInv'
    OBVIOUS
  <2>1. \A s \in Shards : Output(s)' = Output(s)
    BY OutputStays, SetupStays DEF freeVars
  <2>2. CASE UNCHANGED <<job, files>> /\ (Collected' => Collected)
    BY <2>1, <2>2 DEF JobsInv
  <2>3. ASSUME NEW s \in Shards, StartJob(s) PROVE JobsInv'
    <3>1. stage' = stage /\ UNCHANGED <<files, quantizedConfig>> /\ job[s] = "pending"
      BY <2>3 DEF StartJob
    <3>2. ~Collected'
      BY <3>1 DEF Collected, JobsInv
    <3>3. job' = [job EXCEPT ![s] = "running"]
      BY <2>3 DEF StartJob
    <3>4. QED BY <2>1, <3>1, <3>2, <3>3 DEF JobsInv, JobStates
  <2>4. ASSUME NEW s \in Shards, FinishJob(s) PROVE JobsInv'
    <3>1. stage' = stage /\ UNCHANGED quantizedConfig /\ job[s] = "running"
      BY <2>4 DEF FinishJob
    <3>2. ~Collected'
      BY <3>1 DEF Collected, JobsInv
    <3>3. CASE /\ files' = [files EXCEPT ![s] = Output(s)]
               /\ job' = [job EXCEPT ![s] = "saved"]
      <4>1. \A r \in Shards : job'[r] = "saved" => files'[r] = Output(r)
        BY <3>3 DEF JobsInv
      <4>2. QED BY <2>1, <3>2, <3>3, <4>1 DEF JobsInv, JobStates
    <3>4. CASE UNCHANGED files /\ job' = [job EXCEPT ![s] = "failed"]
      BY <2>1, <3>2, <3>4 DEF JobsInv, JobStates
    <3>5. QED BY <2>4, <3>3, <3>4 DEF FinishJob
  <2>5. CASE CollectResults
    BY <2>1, <2>5 DEF CollectResults, JobsInv
  <2>6. CASE UpdateConfig
    BY <2>2, <2>6 DEF UpdateConfig, Collected
  <2>7. CASE ValidateIndex \/ CopyFiles \/ BuildJobs \/ ValidateShards
             \/ JobsFail \/ UpdateIndex \/ UNCHANGED freeVars
    BY <2>2, <2>7
    DEF ValidateIndex, CopyFiles, BuildJobs, ValidateShards, JobsFail,
        UpdateIndex, Fail, Collected, freeVars
  <2>8. QED BY <2>3, <2>4, <2>5, <2>6, <2>7 DEF ModelFreeNext
<1>3. QED BY <1>1, <1>2, PTL DEF ModelFreeSpec

(* ConfigMeansQuantized: a config that says that the weights are quantized is
   never next to a shard that is missing or incomplete. *)
THEOREM ConfigAlwaysMeansQuantized == ModelFreeSpec => []ConfigMeansQuantized
<1>1. JobsInv => ConfigMeansQuantized
  BY DEF JobsInv, Collected, ConfigMeansQuantized
<1>2. QED BY <1>1, JobsInvHolds, PTL

-----------------------------------------------------------------------------
(***************************************************************************)
(* Every tensor is stored once: the tensors that jobs load divide those of *)
(* the checkpoint, because a partner has one primary weight, which is no   *)
(* partner itself, and no partner is missing once the jobs are built.      *)
(***************************************************************************)

(* The tensor whose job loads t. *)
IsLoadedWith(t, u) == u \in Tensors \ Partners /\ (t = u \/ t \in Dependencies(u))

LEMMA MappedProjections ==
  /\ DOMAIN FusedMappings = {"q_proj", "wq_a", "gate_proj", "w1"}
  /\ FusedMappings["q_proj"].partners = {"k_proj", "v_proj"}
  /\ FusedMappings["wq_a"].partners = {"wkv_a_with_mqa"}
  /\ FusedMappings["gate_proj"].partners = {"up_proj"}
  /\ FusedMappings["w1"].partners = {"w3"}
BY DEF FusedMappings

(* A partner has a projection that is no primary one, and its primary weight is known
   from it. *)
LEMMA PartnersHaveOnePrimary ==
  ASSUME NEW t, IsName(t), NEW u \in Dependencies(t)
  PROVE  /\ IsName(u) /\ Dependencies(u) = {}
         /\ \A v : IsName(v) /\ u \in Dependencies(v) => v = t
<1>1. /\ t.proj \in DOMAIN FusedMappings
      /\ \E p \in FusedMappings[t.proj].partners : u = [t EXCEPT !.proj = p]
  BY DEF Dependencies
<1>2. PICK p \in FusedMappings[t.proj].partners : u = [t EXCEPT !.proj = p]
  BY <1>1
<1>3. p \in {"k_proj", "v_proj", "wkv_a_with_mqa", "up_proj", "w3"}
  BY <1>1, MappedProjections
<1>4. IsName(u) /\ u.proj = p /\ u.layer = t.layer /\ u.family = t.family
  <2>1. u = [layer |-> t.layer, family |-> t.family, proj |-> p]
    BY <1>2 DEF IsName
  <2> QED
    BY <2>1 DEF IsName
<1>5. Dependencies(u) = {}
  <2>1. u.proj \notin DOMAIN FusedMappings
    BY <1>3, <1>4, MappedProjections
  <2> QED
    BY <2>1 DEF Dependencies
<1>6. ASSUME NEW v, IsName(v), u \in Dependencies(v) PROVE v = t
  <2>1. v.proj \in DOMAIN FusedMappings
    BY <1>6 DEF Dependencies
  <2>2. PICK q \in FusedMappings[v.proj].partners : u = [v EXCEPT !.proj = q]
    BY <1>6 DEF Dependencies
  <2>3. u.proj = q /\ u.layer = v.layer /\ u.family = v.family
    BY <1>6, <2>2 DEF IsName
  <2>4. p \in FusedMappings[v.proj].partners
    BY <1>4, <2>2, <2>3
  <2>5. v.proj = t.proj
    BY <1>1, <1>2, <2>1, <2>4, MappedProjections
  <2>6. /\ v = [layer |-> v.layer, family |-> v.family, proj |-> v.proj]
        /\ t = [layer |-> t.layer, family |-> t.family, proj |-> t.proj]
    BY <1>6 DEF IsName
  <2> QED
    BY <1>4, <2>3, <2>5, <2>6
<1> QED
  BY <1>4, <1>5, <1>6

(* Each tensor is loaded with exactly one that is not a partner. *)
LEMMA LoadedWithOne ==
  ASSUME NamesAreApart, checkpoint \in Checkpoints, Partners \subseteq Tensors, NEW t \in Tensors
  PROVE  \E u \in Tensors : IsLoadedWith(t, u) /\ \A v : IsLoadedWith(t, v) => v = u
<1>1. \A u \in Tensors : IsName(u)
  BY ModelFreeAssumption DEF Tensors, NamesAreApart
<1>2. CASE t \in Partners
  <2>1. PICK u \in Tensors : t \in Dependencies(u)
    BY <1>2 DEF Partners
  <2>2. u \notin Partners
    <3>1. \A w \in Tensors : u \notin Dependencies(w)
      BY <1>1, <2>1, PartnersHaveOnePrimary
    <3> QED
      BY <3>1 DEF Partners
  <2>3. \A v : IsLoadedWith(t, v) => v = u
    <3> SUFFICES ASSUME NEW v, IsLoadedWith(t, v) PROVE v = u
      OBVIOUS
    <3>1. v \in Tensors /\ t \in Dependencies(v)
      BY <1>2 DEF IsLoadedWith
    <3> QED
      BY <1>1, <2>1, <3>1, PartnersHaveOnePrimary
  <2> QED
    BY <2>1, <2>2, <2>3 DEF IsLoadedWith
<1>3. CASE t \notin Partners
  <2>1. IsLoadedWith(t, t)
    BY <1>3 DEF IsLoadedWith
  <2>2. ASSUME NEW v, IsLoadedWith(t, v) PROVE v = t
    BY <1>3, <2>2 DEF IsLoadedWith, Partners
  <2> QED
    BY <2>1, <2>2
<1> QED
  BY <1>2, <1>3

LEMMA LoadedMeansWith ==
  \A t, s : t \in Loaded(s) <=> \E u : IsLoadedWith(t, u) /\ checkpoint[u] = s
BY DEF Loaded, IsLoadedWith

(* What a tensor is split into is written by one job. *)
LEMMA WrittenOnce ==
  ASSUME NamesAreApart, checkpoint \in Checkpoints, Partners \subseteq Tensors,
         NEW t \in Tensors, NEW x \in Split(t)
  PROVE  \E r \in Shards : {s \in Shards : x \in DOMAIN Output(s)} = {r}
<1>1. Tensors \subseteq Names /\ \A u \in Tensors : checkpoint[u] \in Shards
  BY ModelFreeAssumption DEF Tensors
<1>2. PICK u \in Tensors : IsLoadedWith(t, u) /\ \A v : IsLoadedWith(t, v) => v = u
  BY LoadedWithOne
<1>3. ASSUME NEW s \in Shards PROVE x \in DOMAIN Output(s) <=> s = checkpoint[u]
  <2>1. DOMAIN Output(s) = UNION {Split(w) : w \in Loaded(s)}
    BY DEF Output
  <2>2. Loaded(s) \subseteq Tensors
    BY DEF Loaded, Partners
  <2>3. x \in DOMAIN Output(s) <=> t \in Loaded(s)
    BY <1>1, <2>1, <2>2 DEF NamesAreApart, Tensors
  <2> QED
    BY <1>2, <2>3, LoadedMeansWith
<1> QED
  BY <1>1, <1>3

(* The inductive invariant: the jobs are built for a checkpoint with all partners, and the
   index is written last. *)
KeptInv ==
  /\ checkpoint \in Checkpoints
  /\ stage \in {"validate", "quantize", "config", "index", "done"} => Partners \subseteq Tensors
  /\ stage = "done" => index = WeightMap

LEMMA KeptInvHolds == ModelFreeSpec => []KeptInv
<1>1. ModelFreeInit => KeptInv
  BY DEF ModelFreeInit, KeptInv
<1>2. JobsInv /\ KeptInv /\ [ModelFreeNext]_freeVars => KeptInv'
  <2> SUFFICES ASSUME JobsInv, KeptInv, [ModelFreeNext]_freeVars PROVE KeptInv'
    OBVIOUS
  <2>1. UNCHANGED <<checkpoint, config>>
    BY SetupStays DEF freeVars
  <2>2. checkpoint' \in Checkpoints /\ Partners' = Partners /\ Tensors' = Tensors
    BY <2>1 DEF KeptInv, Partners, Tensors, Dependencies, HasMicroscale
  <2>3. CASE UNCHANGED <<stage, files, index>>
    BY <2>2, <2>3 DEF KeptInv, WeightMap
  <2>4. CASE ValidateIndex \/ CopyFiles
    BY <2>2, <2>4 DEF ValidateIndex, CopyFiles, Fail, KeptInv
  <2>5. CASE BuildJobs
    <3>1. stage' \in {"failed", "validate"} /\ (stage' = "validate" => Partners \subseteq Tensors)
      BY <2>5 DEF BuildJobs, Fail
    <3> QED
      BY <2>2, <3>1 DEF KeptInv
  <2>6. CASE ValidateShards \/ CollectResults \/ JobsFail \/ UpdateConfig
    BY <2>2, <2>6 DEF ValidateShards, CollectResults, JobsFail, UpdateConfig, Fail, KeptInv
  <2>7. CASE UpdateIndex
    <3>1. stage' = "failed" \/ (stage' = "done" /\ index' = WeightMap /\ files' = files)
      BY <2>7 DEF UpdateIndex, Fail
    <3> QED
      BY <2>2, <2>7, <3>1 DEF UpdateIndex, KeptInv, WeightMap
  <2>8. ASSUME NEW s \in Shards, StartJob(s) PROVE KeptInv'
    BY <2>3, <2>8 DEF StartJob
  <2>9. ASSUME NEW s \in Shards, FinishJob(s) PROVE KeptInv'
    <3>1. stage' = stage /\ index' = index /\ stage # "done"
      BY <2>9 DEF FinishJob, JobsInv, Collected
    <3> QED
      BY <2>2, <3>1 DEF KeptInv
  <2> QED
    BY <2>3, <2>4, <2>5, <2>6, <2>7, <2>8, <2>9 DEF ModelFreeNext, freeVars
<1> QED
  BY <1>1, <1>2, JobsInvHolds, PTL DEF ModelFreeSpec

(* When model_free_ptq is done, each tensor of the checkpoint, or each tensor it is split
   into, is in exactly one shard, although jobs load partners from other shards, and the
   index names that shard: for every checkpoint, config and number of workers
   (build_inverse_weight_maps, update_safetensors_index). *)
THEOREM TensorsAreAlwaysKept == NamesAreApart /\ ModelFreeSpec => []TensorsAreKept
<1> SUFFICES ASSUME NamesAreApart PROVE ModelFreeSpec => []TensorsAreKept
  OBVIOUS
<1>1. JobsInv /\ KeptInv => TensorsAreKept
  <2> SUFFICES ASSUME JobsInv, KeptInv, stage = "done",
                      NEW t \in Tensors, NEW x \in Split(t)
               PROVE  Cardinality({s \in Shards : x \in DOMAIN files[s]}) = 1
    BY DEF TensorsAreKept, KeptInv
  <2>1. \A s \in Shards : files[s] = Output(s)
    BY DEF JobsInv, Collected
  <2>2. PICK r \in Shards : {s \in Shards : x \in DOMAIN Output(s)} = {r}
    BY WrittenOnce DEF KeptInv
  <2>3. {s \in Shards : x \in DOMAIN files[s]} = {r}
    BY <2>1, <2>2
  <2> QED
    BY <2>3, FS_Singleton
<1> QED
  BY <1>1, JobsInvHolds, KeptInvHolds, PTL

-----------------------------------------------------------------------------
(***************************************************************************)
(* Fused weights share a scale, and no others do.                          *)
(*                                                                         *)
(* A job has whole fused sets only, because it fetches the partners of its *)
(* primary weights.  The matcher goes through names that are sorted, so    *)
(* that of the sets it has met all but one are complete, and it closes     *)
(* each set before the next one begins.                                    *)
(***************************************************************************)

(* The names that a list matches, the set that one of them belongs to, and the sets. *)
FusedNames(S, list) == {t \in S \cap Names : IsFused(t, list)}
SetOf(t, list) == {[t EXCEPT !.proj = p] : p \in list.projs}
SetsOf(S, list) == {SetOf(t, list) : t \in FusedNames(S, list)}

IsWhole(S, list) == \A t \in FusedNames(S, list) : SetOf(t, list) \subseteq S \cap Names

Matching == [sets : SUBSET SUBSET Names, matches : SUBSET Names, twice : BOOLEAN]

(* The matcher passes the names one by one. *)
LEMMA MatcherIsRecursive ==
  ASSUME NamesAreSorted, NEW S, NEW list
  PROVE  LET n == Len(NameOrder) IN
         /\ n \in Nat
         /\ \E f : /\ f \in [0 .. n -> Matching]
                   /\ f[0] = [sets |-> {}, matches |-> {}, twice |-> FALSE]
                   /\ \A i \in 1 .. n :
                        f[i] = IF NameOrder[i] \in S THEN MatchName(f[i - 1], NameOrder[i], list)
                               ELSE f[i - 1]
                   /\ MatchNamesSetEager(S, list) = f[n]
<1> DEFINE n == Len(NameOrder)
           zero == [sets |-> {}, matches |-> {}, twice |-> FALSE]
           next(i, acc) == IF NameOrder[i] \in S THEN MatchName(acc, NameOrder[i], list) ELSE acc
           D(f) == [i \in 0 .. n |-> IF i = 0 THEN [sets |-> {}, matches |-> {}, twice |-> FALSE]
                      ELSE IF NameOrder[i] \in S THEN MatchName(f[i - 1], NameOrder[i], list)
                      ELSE f[i - 1]]
           h == CHOOSE f : f = D(f)
           step == [p \in (1 .. n) \X Matching |-> next(p[1], p[2])]
<1>1. n \in Nat /\ \A i \in 1 .. n : NameOrder[i] \in Names
  BY DEF NamesAreSorted
<1>2. MatchNamesSetEager(S, list) = h[n]
  BY DEF MatchNamesSetEager
<1>3. zero \in Matching
  BY DEF Matching
<1>4. ASSUME NEW acc \in Matching, NEW t \in Names PROVE MatchName(acc, t, list) \in Matching
  <2>1. [acc EXCEPT !.twice = TRUE] \in Matching
    BY DEF Matching
  <2> DEFINE matches == acc.matches \cup {t}
  <2>2. /\ [acc EXCEPT !.sets = @ \cup {matches}, !.matches = {}] \in Matching
        /\ [acc EXCEPT !.matches = matches] \in Matching
    BY DEF Matching
  <2> QED
    BY <2>1, <2>2 DEF MatchName
<1>5. \A i \in 1 .. n : \A acc \in Matching : next(i, acc) \in Matching
  BY <1>1, <1>4
<1>6. step \in [(1 .. n) \X Matching -> Matching]
  <2> HIDE DEF n, next
  <2> QED
    BY <1>5
<1>7. \E f : f = D(f)
  <2>1. \A i \in 1 .. n : \A acc \in Matching : step[<<i, acc>>] = next(i, acc)
    <3> HIDE DEF next, n
    <3> QED
      OBVIOUS
  <2> HIDE DEF step, n, zero
  <2>2. PICK f : f \in [0 .. n -> Matching] /\ f[0] = zero
             /\ \A i \in 1 .. n : f[i] = step[<<i, f[i - 1]>>]
    <3>1. \E f : IsRecursiveUpTo(n, f, Matching, zero, step)
      BY <1>1, <1>3, <1>6, BoundedRecursion
    <3> QED
      BY <3>1 DEF IsRecursiveUpTo
  <2>3. ASSUME NEW i \in 0 .. n
        PROVE  f[i] = IF i = 0 THEN [sets |-> {}, matches |-> {}, twice |-> FALSE]
                      ELSE IF NameOrder[i] \in S THEN MatchName(f[i - 1], NameOrder[i], list)
                      ELSE f[i - 1]
    <3>1. CASE i = 0
      BY <2>2, <3>1 DEF zero
    <3>2. CASE i # 0
      <4>1. i \in 1 .. n /\ i - 1 \in 0 .. n
        BY <1>1, <3>2
      <4>2. f[i] = next(i, f[i - 1])
        <5> HIDE DEF next
        <5> QED
          BY <2>1, <2>2, <4>1
      <4> QED
        BY <3>2, <4>2
    <3> QED
      BY <3>1, <3>2
  <2>4. f = D(f)
    BY <2>2, <2>3
  <2> QED
    BY <2>4
<1>8. h = D(h)
  <2> HIDE DEF D
  <2> QED
    BY <1>7, Zenon
<1> HIDE DEF h, n
<1>9. /\ h[0] = zero /\ \A i \in 1 .. n : h[i] = next(i, h[i - 1])
  <2> DEFINE d == D(h)
  <2>1. d[0] = zero /\ \A i \in 1 .. n : d[i] = next(i, h[i - 1])
    BY <1>1
  <2>2. h = d
    BY <1>8
  <2> HIDE DEF d, next, zero
  <2> QED
    BY <2>1, <2>2
<1> DEFINE T == {k \in Nat : k <= n => h[k] \in Matching}
<1>10. \A k \in Nat : k \in T
  <2>1. 0 \in T
    <3> HIDE DEF zero
    <3> QED
      BY <1>3, <1>9
  <2>2. ASSUME NEW k \in Nat, k \in T PROVE k + 1 \in T
    <3>1. k + 1 <= n => k + 1 \in 1 .. n /\ (k + 1) - 1 = k
      BY <1>1
    <3> HIDE DEF next
    <3> QED
      BY <1>1, <1>5, <1>9, <2>2, <3>1
  <2> HIDE DEF T
  <2> QED
    BY <2>1, <2>2, NumberInduction
<1>11. h \in [0 .. n -> Matching]
  <2>1. DOMAIN h = 0 .. n
    <3> DEFINE d == D(h)
    <3>1. DOMAIN d = 0 .. n
      OBVIOUS
    <3> HIDE DEF d
    <3> QED
      BY <1>8, <3>1 DEF d
  <2>2. h = [i \in 0 .. n |-> h[i]]
    <3> DEFINE d == D(h)
    <3>1. d = [i \in 0 .. n |-> d[i]]
      OBVIOUS
    <3> HIDE DEF d
    <3> QED
      BY <1>8, <3>1 DEF d
  <2>3. \A i \in 0 .. n : h[i] \in Matching
    BY <1>1, <1>10
  <2> QED
    BY <2>2, <2>3
<1> QED
  BY <1>1, <1>2, <1>9, <1>11 DEF n, zero

(* A set is one of all its elements, and an element is known from its projection. *)
LEMMA SetFacts ==
  ASSUME NamesAreApart, NEW S, NEW list, NEW t \in FusedNames(S, list), IsWhole(S, list)
  PROVE  /\ t \in SetOf(t, list) /\ SetOf(t, list) \subseteq FusedNames(S, list)
         /\ \A u \in SetOf(t, list) : InOneModule(u, t) /\ SetOf(u, list) = SetOf(t, list)
         /\ \A u \in FusedNames(S, list) : InOneModule(u, t) => u \in SetOf(t, list)
         /\ \A u, v \in SetOf(t, list) : u.proj = v.proj => u = v
         /\ {u.proj : u \in SetOf(t, list)} = list.projs
<1>1. IsName(t) /\ t.family \in list.families /\ t.proj \in list.projs
  BY DEF FusedNames, NamesAreApart, IsFused
<1>2. ASSUME NEW u, NEW p \in list.projs, u = [t EXCEPT !.proj = p]
      PROVE  u = [layer |-> t.layer, family |-> t.family, proj |-> p]
  BY <1>1, <1>2 DEF IsName
<1>3. ASSUME NEW p \in list.projs
      PROVE  [t EXCEPT !.proj = p] = [layer |-> t.layer, family |-> t.family, proj |-> p]
  BY <1>2, <1>3
<1>4. SetOf(t, list) = {[layer |-> t.layer, family |-> t.family, proj |-> p] : p \in list.projs}
  <2> DEFINE of(p) == [t EXCEPT !.proj = p]
             name(p) == [layer |-> t.layer, family |-> t.family, proj |-> p]
  <2>1. \A p \in list.projs : of(p) = name(p)
    BY <1>3
  <2>2. SetOf(t, list) = {of(p) : p \in list.projs}
    BY DEF SetOf
  <2> HIDE DEF of, name
  <2>3. SetOf(t, list) = {name(p) : p \in list.projs}
    BY <2>1, <2>2
  <2> QED
    BY <2>3 DEF name
<1>5. t \in SetOf(t, list)
  BY <1>1, <1>4 DEF IsName
<1>6. ASSUME NEW u \in SetOf(t, list)
      PROVE  /\ InOneModule(u, t) /\ u.proj \in list.projs
             /\ u = [layer |-> t.layer, family |-> t.family, proj |-> u.proj]
  BY <1>4 DEF InOneModule
<1>7. SetOf(t, list) \subseteq FusedNames(S, list)
  BY <1>1, <1>6 DEF FusedNames, IsWhole, IsFused, InOneModule
<1>8. ASSUME NEW u \in SetOf(t, list) PROVE SetOf(u, list) = SetOf(t, list)
  <2>1. ASSUME NEW p \in list.projs
        PROVE  [u EXCEPT !.proj = p] = [layer |-> t.layer, family |-> t.family, proj |-> p]
    <3>1. u = [layer |-> t.layer, family |-> t.family, proj |-> u.proj]
      BY <1>6
    <3> QED
      BY <3>1
  <2>2. SetOf(u, list)
        = {[layer |-> t.layer, family |-> t.family, proj |-> p] : p \in list.projs}
    BY <2>1 DEF SetOf
  <2> QED
    BY <1>4, <2>2
<1>9. ASSUME NEW u \in FusedNames(S, list), InOneModule(u, t) PROVE u \in SetOf(t, list)
  <2>1. u = [layer |-> u.layer, family |-> u.family, proj |-> u.proj] /\ u.proj \in list.projs
    BY DEF FusedNames, NamesAreApart, IsName, IsFused
  <2> QED
    BY <1>4, <1>9, <2>1 DEF InOneModule
<1>10. \A u, v \in SetOf(t, list) : u.proj = v.proj => u = v
  BY <1>6
<1>11. {u.proj : u \in SetOf(t, list)} = list.projs
  <2>1. ASSUME NEW p \in list.projs PROVE \E u \in SetOf(t, list) : u.proj = p
    <3>1. [layer |-> t.layer, family |-> t.family, proj |-> p] \in SetOf(t, list)
      BY <1>4
    <3> QED
      BY <3>1
  <2> QED
    BY <1>6, <2>1
<1> QED
  BY <1>5, <1>6, <1>7, <1>8, <1>9, <1>10, <1>11

-----------------------------------------------------------------------------
(* What the matcher has made of the names met: the sets that are complete, and the rest,
   which are of one module. *)
MatcherInv(S, list, met, acc) ==
  /\ ~ acc.twice
  /\ acc.sets = {F \in SetsOf(S, list) : F \subseteq met}
  /\ acc.matches = met \ UNION acc.sets
  /\ \A t, u \in acc.matches : InOneModule(t, u)

Met(S, list, n) == {t \in FusedNames(S, list) : \E i \in 1 .. n : t = NameOrder[i]}

(* The next name belongs to the set that is open, if there is one. *)
LEMMA NextIsOfOpenSet ==
  ASSUME NamesAreApart, NamesAreSorted, NEW S, NEW list \in FusedLists, IsWhole(S, list),
         NEW n \in Nat, n + 1 <= Len(NameOrder), NEW t \in FusedNames(S, list),
         t = NameOrder[n + 1], NEW u \in Met(S, list, n),
         ~ (SetOf(u, list) \subseteq Met(S, list, n))
  PROVE  InOneModule(u, t)
<1>1. u \in FusedNames(S, list)
  BY DEF Met
<1>2. SetOf(u, list) \subseteq FusedNames(S, list)
  BY <1>1, SetFacts
<1>3. PICK v \in SetOf(u, list) : v \notin Met(S, list, n)
  OBVIOUS
<1>4. InOneModule(v, u) /\ v \in FusedNames(S, list)
  BY <1>1, <1>2, <1>3, SetFacts
<1>5. Len(NameOrder) \in Nat /\ DOMAIN NameOrder = 1 .. Len(NameOrder)
  BY DEF NamesAreSorted
<1>6. PICK k \in 1 .. Len(NameOrder) : v = NameOrder[k]
  BY <1>4, <1>5 DEF FusedNames, Names, ToSet
<1>7. k > n
  BY <1>3, <1>4, <1>5, <1>6 DEF Met
<1>8. PICK i \in 1 .. n : u = NameOrder[i]
  BY DEF Met
<1>9. CASE k = n + 1
  BY <1>4, <1>6, <1>9 DEF InOneModule
<1>10. CASE k # n + 1
  <2>1. i < n + 1 /\ n + 1 < k /\ i \in DOMAIN NameOrder /\ n + 1 \in DOMAIN NameOrder
        /\ k \in DOMAIN NameOrder
    BY <1>5, <1>7, <1>10
  <2>2. \A m \in {i, n + 1, k} : IsFused(NameOrder[m], list)
    BY <1>1, <1>4, <1>6, <1>8 DEF FusedNames
  <2>3. InOneModule(NameOrder[i], NameOrder[k])
    BY <1>4, <1>6, <1>8 DEF InOneModule
  <2>4. InOneModule(NameOrder[i], NameOrder[n + 1])
    BY <2>1, <2>2, <2>3 DEF NamesAreSorted
  <2> QED
    BY <1>8, <2>4
<1> QED
  BY <1>9, <1>10

(* So the matcher keeps its invariant. *)
LEMMA MatcherStep ==
  ASSUME NamesAreApart, NamesAreSorted, NEW S, NEW list \in FusedLists, IsWhole(S, list),
         NEW n \in Nat, n + 1 <= Len(NameOrder), NEW acc \in Matching,
         MatcherInv(S, list, Met(S, list, n), acc), NEW t \in S, t = NameOrder[n + 1],
         NEW next, next = MatchName(acc, t, list)
  PROVE  MatcherInv(S, list, Met(S, list, n + 1), next)
<1> DEFINE old == Met(S, list, n)
           new == Met(S, list, n + 1)
<1>0. /\ Len(NameOrder) \in Nat /\ DOMAIN NameOrder = 1 .. Len(NameOrder)
      /\ n + 1 \in DOMAIN NameOrder /\ \A i \in 1 .. n : i \in DOMAIN NameOrder /\ i # n + 1
  BY DEF NamesAreSorted
<1>1. CASE ~ IsFused(t, list)
  <2>1. new = old
    <3>1. t \notin FusedNames(S, list)
      BY <1>1 DEF FusedNames
    <3> QED
      BY <1>0, <3>1 DEF Met
  <2>2. next = acc
    BY <1>1 DEF MatchName, IsFused
  <2> QED
    BY <2>1, <2>2
<1>2. CASE IsFused(t, list)
  <2> DEFINE F == SetOf(t, list)
             matches == acc.matches \cup {t}
  <2>1. t \in FusedNames(S, list)
    BY <1>0, <1>2 DEF FusedNames, NamesAreSorted
  <2>2. t \notin old
    BY <1>0 DEF Met, NamesAreSorted
  <2>3. new = old \cup {t}
    BY <1>0, <2>1 DEF Met
  <2>4. /\ ~ acc.twice
        /\ acc.sets = {G \in SetsOf(S, list) : G \subseteq old}
        /\ acc.matches = old \ UNION acc.sets
    BY DEF MatcherInv
  <2>5. /\ t \in F /\ F \subseteq FusedNames(S, list) /\ F \in SetsOf(S, list)
        /\ \A u \in F : InOneModule(u, t) /\ SetOf(u, list) = F
        /\ \A u \in FusedNames(S, list) : InOneModule(u, t) => u \in F
        /\ \A u, v \in F : u.proj = v.proj => u = v
        /\ {u.proj : u \in F} = list.projs
    BY <2>1, SetFacts DEF SetsOf
  <2>6. old \subseteq FusedNames(S, list)
    BY DEF Met
  <2>7. ASSUME NEW G \in SetsOf(S, list), NEW u \in G PROVE G = SetOf(u, list)
    <3>1. PICK v \in FusedNames(S, list) : G = SetOf(v, list)
      BY DEF SetsOf
    <3> QED
      BY <2>7, <3>1, SetFacts
  <2>8. acc.matches = F \cap old
    <3>1. ASSUME NEW u \in acc.matches PROVE u \in F
      <4>1. u \in old /\ u \in FusedNames(S, list)
        BY <2>4, <2>6
      <4>2. SetOf(u, list) \in SetsOf(S, list) /\ u \in SetOf(u, list)
        BY <4>1, SetFacts DEF SetsOf
      <4>3. ~ (SetOf(u, list) \subseteq old)
        BY <2>4, <4>2
      <4>4. InOneModule(u, t)
        BY <2>1, <4>1, <4>3, NextIsOfOpenSet
      <4> QED
        BY <2>5, <4>1, <4>4
    <3>2. ASSUME NEW u \in F, u \in old PROVE u \in acc.matches
      <4>1. ASSUME NEW G \in acc.sets, u \in G PROVE FALSE
        <5>1. G \in SetsOf(S, list) /\ G \subseteq old
          BY <2>4
        <5>2. G = F
          BY <2>5, <2>7, <3>2, <4>1, <5>1
        <5> QED
          BY <2>2, <2>5, <5>1, <5>2
      <4> QED
        BY <2>4, <3>2, <4>1
    <3> QED
      BY <2>4, <3>1, <3>2
  <2>9. ~ \E u \in acc.matches : u.proj = t.proj
    BY <2>2, <2>5, <2>8
  <2>10. matches = F \cap new
    BY <2>3, <2>5, <2>8
  <2>11. Complete(matches, list) <=> F \subseteq new
    <3>1. F \subseteq new => matches = F
      BY <2>10
    <3>2. ASSUME {u.proj : u \in matches} = list.projs, NEW u \in F PROVE u \in new
      <4>1. u.proj \in list.projs
        BY <2>5
      <4>2. PICK v \in matches : v.proj = u.proj
        BY <3>2, <4>1
      <4> QED
        BY <2>5, <2>10, <4>2
    <3> QED
      BY <2>5, <3>1, <3>2 DEF Complete
  <2>12. next = IF Complete(matches, list)
                THEN [acc EXCEPT !.sets = @ \cup {matches}, !.matches = {}]
                ELSE [acc EXCEPT !.matches = matches]
    BY <1>2, <2>9 DEF MatchName, IsFused
  <2>13. ASSUME NEW G \in SetsOf(S, list), G \subseteq new, ~ (G \subseteq old) PROVE G = F
    BY <2>3, <2>7, <2>13
  <2>14. CASE F \subseteq new
    <3>1. matches = F
      BY <2>10, <2>14
    <3>2. next = [acc EXCEPT !.sets = @ \cup {F}, !.matches = {}]
      BY <2>11, <2>12, <2>14, <3>1
    <3>3. next.sets = acc.sets \cup {F} /\ next.matches = {} /\ next.twice = acc.twice
      BY <3>2 DEF Matching
    <3>4. next.sets = {G \in SetsOf(S, list) : G \subseteq new}
      BY <2>3, <2>4, <2>5, <2>13, <2>14, <3>3
    <3>5. new \subseteq UNION next.sets
      BY <2>3, <2>4, <2>5, <2>8, <3>3
    <3> QED
      BY <2>4, <3>3, <3>4, <3>5 DEF MatcherInv
  <2>15. CASE ~ (F \subseteq new)
    <3>1. next = [acc EXCEPT !.matches = matches]
      BY <2>11, <2>12, <2>15
    <3>2. next.sets = acc.sets /\ next.matches = matches /\ next.twice = acc.twice
      BY <3>1 DEF Matching
    <3>3. next.sets = {G \in SetsOf(S, list) : G \subseteq new}
      BY <2>3, <2>4, <2>13, <2>15, <3>2
    <3>4. t \notin UNION next.sets
      BY <2>2, <2>4, <3>2
    <3>5. next.matches = new \ UNION next.sets
      BY <2>3, <2>4, <3>2, <3>4
    <3>6. \A u, v \in next.matches : InOneModule(u, v)
      BY <2>5, <2>10, <3>2 DEF InOneModule
    <3> QED
      BY <2>4, <3>2, <3>3, <3>5, <3>6 DEF MatcherInv
  <2> QED
    BY <2>14, <2>15
<1> QED
  BY <1>1, <1>2

(* The matcher finds the sets of S, and nothing else. *)
LEMMA MatcherFinds ==
  ASSUME NamesAreApart, NamesAreSorted, NEW S, NEW list \in FusedLists, IsWhole(S, list)
  PROVE  /\ MatchNamesSetEager(S, list).sets = SetsOf(S, list)
         /\ ~ MatchNamesSetEager(S, list).twice
<1> DEFINE n == Len(NameOrder)
<1>1. /\ n \in Nat
      /\ \E f : /\ f \in [0 .. n -> Matching]
                /\ f[0] = [sets |-> {}, matches |-> {}, twice |-> FALSE]
                /\ \A i \in 1 .. n :
                     f[i] = IF NameOrder[i] \in S THEN MatchName(f[i - 1], NameOrder[i], list)
                            ELSE f[i - 1]
                /\ MatchNamesSetEager(S, list) = f[n]
  BY MatcherIsRecursive
<1>2. PICK f : /\ f \in [0 .. n -> Matching]
               /\ f[0] = [sets |-> {}, matches |-> {}, twice |-> FALSE]
               /\ \A i \in 1 .. n :
                    f[i] = IF NameOrder[i] \in S THEN MatchName(f[i - 1], NameOrder[i], list)
                           ELSE f[i - 1]
               /\ MatchNamesSetEager(S, list) = f[n]
  BY <1>1
<1> DEFINE T == {k \in Nat : k <= n => MatcherInv(S, list, Met(S, list, k), f[k])}
<1>3. 0 \in T
  <2>1. Met(S, list, 0) = {}
    BY DEF Met
  <2>2. \A G \in SetsOf(S, list) : G # {}
    BY SetFacts DEF SetsOf
  <2>3. MatcherInv(S, list, {}, f[0])
    BY <1>2, <2>2 DEF MatcherInv
  <2> QED
    BY <2>1, <2>3
<1>4. ASSUME NEW k \in Nat, k \in T PROVE k + 1 \in T
  <2> SUFFICES ASSUME k + 1 <= n
               PROVE  MatcherInv(S, list, Met(S, list, k + 1), f[k + 1])
    OBVIOUS
  <2>1. k + 1 \in 1 .. n /\ (k + 1) - 1 = k /\ k \in 0 .. n
    BY <1>1
  <2>2. f[k + 1] = IF NameOrder[k + 1] \in S THEN MatchName(f[k], NameOrder[k + 1], list)
                   ELSE f[k]
    BY <1>2, <2>1
  <2>3. MatcherInv(S, list, Met(S, list, k), f[k]) /\ f[k] \in Matching
    BY <1>1, <1>2, <1>4, <2>1
  <2>4. CASE NameOrder[k + 1] \in S
    BY <2>2, <2>3, <2>4, MatcherStep
  <2>5. CASE NameOrder[k + 1] \notin S
    <3>1. Met(S, list, k + 1) = Met(S, list, k)
      BY <2>5 DEF Met, FusedNames
    <3> QED
      BY <2>2, <2>3, <2>5, <3>1
  <2> QED
    BY <2>4, <2>5
<1>5. MatcherInv(S, list, Met(S, list, n), f[n])
  <2>1. \A k \in Nat : k \in T
    <3> HIDE DEF T
    <3> QED
      BY <1>3, <1>4, NumberInduction
  <2> QED
    BY <1>1, <2>1
<1>6. Met(S, list, n) = FusedNames(S, list)
  <2>1. \A t \in Names : \E i \in 1 .. n : t = NameOrder[i]
    BY DEF Names, ToSet, NamesAreSorted
  <2> QED
    BY <2>1 DEF Met, FusedNames
<1>7. \A G \in SetsOf(S, list) : G \subseteq FusedNames(S, list)
  BY SetFacts DEF SetsOf
<1> QED
  BY <1>2, <1>5, <1>6, <1>7 DEF MatcherInv

-----------------------------------------------------------------------------
(* A list has the projections of one primary weight and of its partners, and lists have no
   projection in common. *)
IsOfPrimary(list, q) ==
  /\ q \in DOMAIN FusedMappings
  /\ list.projs = {q} \cup FusedMappings[q].partners
  /\ list.projs \cap DOMAIN FusedMappings = {q}

LEMMA ListsAndMappings ==
  /\ \A list \in FusedLists : \E q : IsOfPrimary(list, q)
  /\ \A l, m \in FusedLists : l.projs \cap m.projs # {} => l = m
  /\ \A q \in DOMAIN FusedMappings : \E list \in FusedLists :
       /\ IsOfPrimary(list, q)
       /\ \A family \in FusedMappings[q].families :
            family \in list.families \/ (family = "feed_forward" /\ q = "gate_proj")
<1> DEFINE attentions == Attention \cup {"cross_attn"}
           a == [families |-> attentions, projs |-> {"q_proj", "k_proj", "v_proj"}]
           b == [families |-> attentions, projs |-> {"wq_a", "wkv_a_with_mqa"}]
           c == [families |-> {"mlp"}, projs |-> {"gate_proj", "up_proj"}]
           d == [families |-> Families, projs |-> {"w1", "w3"}]
<1>1. FusedLists = {a, b, c, d}
  BY DEF FusedLists
<1>2. /\ a.projs = {"q_proj", "k_proj", "v_proj"} /\ b.projs = {"wq_a", "wkv_a_with_mqa"}
      /\ c.projs = {"gate_proj", "up_proj"} /\ d.projs = {"w1", "w3"}
      /\ a.families = attentions /\ b.families = attentions /\ c.families = {"mlp"}
      /\ d.families = Families
  OBVIOUS
<1>3. /\ FusedMappings["q_proj"].families = Attention
      /\ FusedMappings["wq_a"].families = Attention \ {"self_attention"}
      /\ FusedMappings["gate_proj"].families = {"mlp", "feed_forward"}
      /\ FusedMappings["w1"].families = Families
  BY DEF FusedMappings
<1> HIDE DEF a, b, c, d
<1>4. /\ IsOfPrimary(a, "q_proj") /\ IsOfPrimary(b, "wq_a") /\ IsOfPrimary(c, "gate_proj")
      /\ IsOfPrimary(d, "w1")
  <2>1. IsOfPrimary(a, "q_proj")
    BY <1>2, MappedProjections DEF IsOfPrimary
  <2>2. IsOfPrimary(b, "wq_a")
    BY <1>2, MappedProjections DEF IsOfPrimary
  <2>3. IsOfPrimary(c, "gate_proj")
    BY <1>2, MappedProjections DEF IsOfPrimary
  <2>4. IsOfPrimary(d, "w1")
    BY <1>2, MappedProjections DEF IsOfPrimary
  <2> QED
    BY <2>1, <2>2, <2>3, <2>4
<1>5. \A l, m \in FusedLists : l.projs \cap m.projs # {} => l = m
  <2>1. /\ a.projs \cap b.projs = {} /\ a.projs \cap c.projs = {} /\ a.projs \cap d.projs = {}
        /\ b.projs \cap c.projs = {} /\ b.projs \cap d.projs = {} /\ c.projs \cap d.projs = {}
    BY <1>2
  <2> QED
    BY <1>1, <2>1
<1>6. \A q \in DOMAIN FusedMappings : q \in {"q_proj", "wq_a", "gate_proj", "w1"}
  BY MappedProjections
<1> QED
  <2>1. /\ FusedMappings["q_proj"].families \subseteq a.families
        /\ FusedMappings["wq_a"].families \subseteq b.families
        /\ FusedMappings["gate_proj"].families \ {"feed_forward"} \subseteq c.families
        /\ FusedMappings["w1"].families \subseteq d.families
    BY <1>2, <1>3
  <2>2. \A q \in DOMAIN FusedMappings : \E list \in FusedLists :
          /\ IsOfPrimary(list, q)
          /\ \A family \in FusedMappings[q].families :
               family \in list.families \/ (family = "feed_forward" /\ q = "gate_proj")
    BY <1>1, <1>4, <1>6, <2>1
  <2> QED
    BY <1>1, <1>4, <1>5, <2>2

(* Another weight of the same module. *)
LEMMA Siblings ==
  ASSUME NEW t, IsName(t), NEW p, NEW u, u = [t EXCEPT !.proj = p]
  PROVE  /\ IsName(u) /\ u.proj = p /\ u.layer = t.layer /\ u.family = t.family
         /\ \A q : [u EXCEPT !.proj = q] = [t EXCEPT !.proj = q]
         /\ p = t.proj => u = t
<1>1. u = [layer |-> t.layer, family |-> t.family, proj |-> p]
  BY DEF IsName
<1>2. IsName(u) /\ u.proj = p /\ u.layer = t.layer /\ u.family = t.family
  BY <1>1 DEF IsName
<1>3. ASSUME NEW q PROVE [u EXCEPT !.proj = q] = [t EXCEPT !.proj = q]
  <2> DEFINE r == [layer |-> t.layer, family |-> t.family, proj |-> p]
  <2>1. [r EXCEPT !.proj = q] = [layer |-> t.layer, family |-> t.family, proj |-> q]
    OBVIOUS
  <2>2. [t EXCEPT !.proj = q] = [layer |-> t.layer, family |-> t.family, proj |-> q]
    BY DEF IsName
  <2>3. u = r
    BY <1>1
  <2> HIDE DEF r
  <2> QED
    BY <2>1, <2>2, <2>3
<1>4. p = t.proj => u = t
  BY <1>1 DEF IsName
<1> QED
  BY <1>2, <1>3, <1>4

(* The names a job works on, and those among them that are tensors of the checkpoint. *)
WorksOn(s) == UNION {Split(t) : t \in Loaded(s)}

LEMMA WorksOnLoaded ==
  ASSUME NamesAreApart, checkpoint \in Checkpoints, Partners \subseteq Tensors,
         NEW s, NEW t \in Tensors, t.family # "experts"
  PROVE  t \in WorksOn(s) <=> t \in Loaded(s)
<1>1. Loaded(s) \subseteq Tensors
  BY DEF Loaded, Partners
<1>2. t \in Split(t)
  BY DEF Split
<1>3. ASSUME NEW u \in Loaded(s), t \in Split(u) PROVE t \in Loaded(s)
  <2>1. u \in Tensors /\ Split(u) \cap Split(t) # {}
    BY <1>1, <1>2, <1>3
  <2> QED
    BY <2>1, <1>3 DEF NamesAreApart, Tensors
<1> QED
  BY <1>2, <1>3 DEF WorksOn

(* A job has a fused set as a whole or not at all: the job of the primary weight fetches
   the others, and a set of which nothing is fetched is in one shard. *)
LEMMA JobsHaveWholeSets ==
  ASSUME NamesAreApart, FusedSetsSupported, checkpoint \in Checkpoints, HasMicroscale(config),
         Partners \subseteq Tensors, NEW s, NEW list \in FusedLists
  PROVE  IsWhole(WorksOn(s), list)
<1> SUFFICES ASSUME NEW t \in FusedNames(WorksOn(s), list), NEW u \in SetOf(t, list)
             PROVE  u \in WorksOn(s) \cap Names
  BY DEF IsWhole
<1>1. /\ Tensors \subseteq Names /\ \A v \in Tensors : IsName(v)
      /\ Loaded(s) \subseteq Tensors
  BY ModelFreeAssumption DEF Tensors, NamesAreApart, Loaded, Partners
<1>2. IsFused(t, list) /\ t \in WorksOn(s)
  BY DEF FusedNames
<1>3. PICK w \in Loaded(s) : t \in Split(w)
  BY <1>2 DEF WorksOn
<1>4. w.family # "experts" /\ t = w
  <2>1. w.family # "experts"
    BY <1>1, <1>2, <1>3 DEF FusedSetsSupported, Tensors
  <2> QED
    BY <1>3, <2>1 DEF Split
<1>5. t \in Tensors /\ t \in Loaded(s) /\ IsName(t) /\ t.family # "experts"
  BY <1>1, <1>4
<1>6. PICK q : IsOfPrimary(list, q)
  BY ListsAndMappings
<1>7. PICK p \in list.projs : u = [t EXCEPT !.proj = p]
  BY DEF SetOf
<1>8. IsName(u) /\ u.proj = p /\ u.family = t.family
  BY <1>5, <1>7, Siblings
<1> DEFINE primary == [t EXCEPT !.proj = q]
<1>9. IsName(primary) /\ primary.proj = q /\ primary.family = t.family
  BY <1>5, Siblings
<1>10. PICK v : IsLoadedWith(t, v) /\ checkpoint[v] = s
  BY <1>5, LoadedMeansWith
<1>11. t = [t EXCEPT !.proj = t.proj] /\ t.proj \in list.projs
  <2>1. \A x : x = [t EXCEPT !.proj = t.proj] => x = t
    BY <1>5, Siblings
  <2> QED
    BY <1>2, <2>1 DEF IsFused
<1>12. CASE primary \in Tensors /\ t.family \in FusedMappings[q].families
  <2>1. primary \notin Partners
    <3> SUFFICES ASSUME NEW x \in Tensors, primary \in Dependencies(x) PROVE FALSE
      BY DEF Partners
    <3>1. PICK y \in FusedMappings[x.proj].partners :
            primary = [x EXCEPT !.proj = y] /\ x.proj \in DOMAIN FusedMappings
      BY DEF Dependencies
    <3>2. y = q
      <4> HIDE DEF primary
      <4> QED
        BY <1>1, <1>9, <3>1, Siblings
    <3> QED
      BY <1>6, <3>1, <3>2, MappedProjections DEF IsOfPrimary
  <2>2. ASSUME NEW y \in list.projs, NEW x, x = [t EXCEPT !.proj = y]
        PROVE  IsLoadedWith(x, primary) /\ x \in Tensors
    <3>1. CASE y = q
      BY <1>12, <2>1, <2>2, <3>1 DEF IsLoadedWith
    <3>2. CASE y # q
      <4>1. y \in FusedMappings[q].partners /\ q \in DOMAIN FusedMappings
        BY <1>6, <3>2 DEF IsOfPrimary
      <4>2. x = [primary EXCEPT !.proj = y]
        BY <1>5, <2>2, Siblings
      <4>3. x \in Dependencies(primary)
        BY <1>9, <1>12, <4>1, <4>2 DEF Dependencies
      <4> QED
        BY <1>12, <2>1, <4>3 DEF IsLoadedWith, Partners
    <3> QED
      BY <3>1, <3>2
  <2>3. t = [t EXCEPT !.proj = t.proj] /\ t.proj \in list.projs
    BY <1>2, <1>11
  <2>4. IsLoadedWith(t, primary)
    BY <2>2, <2>3
  <2>5. v = primary
    BY <1>5, <1>10, <2>4, LoadedWithOne
  <2>6. u \in Loaded(s) /\ u \in Tensors
    BY <1>7, <1>10, <2>2, <2>5, LoadedMeansWith
  <2> QED
    BY <1>1, <1>5, <1>8, <2>6, WorksOnLoaded
<1>13. CASE ~ (primary \in Tensors /\ t.family \in FusedMappings[q].families)
  <2>1. ASSUME NEW x \in Tensors, NEW y \in list.projs, x = [t EXCEPT !.proj = y]
        PROVE  x \notin Partners
    <3> SUFFICES ASSUME NEW z \in Tensors, x \in Dependencies(z) PROVE FALSE
      BY DEF Partners
    <3>1. z.proj \in DOMAIN FusedMappings /\ z.family \in FusedMappings[z.proj].families
      BY DEF Dependencies
    <3>2. PICK m \in FusedMappings[z.proj].partners : x = [z EXCEPT !.proj = m]
      BY DEF Dependencies
    <3>3. IsName(z) /\ x.proj = m /\ x.family = z.family /\ x.layer = z.layer
      BY <1>1, <3>2, Siblings
    <3>4. x.proj = y /\ x.family = t.family /\ x.layer = t.layer
      BY <1>5, <2>1, Siblings
    <3>5. PICK other \in FusedLists : IsOfPrimary(other, z.proj)
      BY <3>1, ListsAndMappings
    <3>6. y \in list.projs \cap other.projs
      BY <3>2, <3>3, <3>4, <3>5 DEF IsOfPrimary
    <3>7. other = list
      BY <3>6, ListsAndMappings
    <3>8. z.proj = q
      BY <1>6, <3>5, <3>7 DEF IsOfPrimary
    <3>9. z = primary
      BY <1>9, <3>3, <3>4, <3>8, <1>5, Siblings DEF IsName
    <3> QED
      BY <1>13, <3>1, <3>3, <3>4, <3>8, <3>9
  <2>2. \A y \in list.projs :
          LET x == [t EXCEPT !.proj = y] IN x \in Tensors /\ checkpoint[x] = checkpoint[t]
    <3>1. \/ \E y \in list.projs \cap DOMAIN FusedMappings :
               /\ [t EXCEPT !.proj = y] \in Tensors
               /\ t.family \in FusedMappings[y].families
          \/ \A y \in list.projs :
               LET x == [t EXCEPT !.proj = y] IN x \in Tensors /\ checkpoint[x] = checkpoint[t]
      BY <1>2, <1>5 DEF FusedSetsSupported, Tensors
    <3>2. ASSUME NEW y \in list.projs \cap DOMAIN FusedMappings PROVE y = q
      BY <1>6 DEF IsOfPrimary
    <3> QED
      BY <1>13, <3>1, <3>2
  <2>3. t = [t EXCEPT !.proj = t.proj] /\ t.proj \in list.projs
    BY <1>2, <1>11
  <2>4. t \notin Partners
    BY <1>5, <2>1, <2>3
  <2>5. v = t
    BY <1>10, <2>4 DEF IsLoadedWith, Partners
  <2>6. u \in Tensors /\ checkpoint[u] = s
    BY <1>7, <1>10, <2>2, <2>5
  <2>7. u \notin Partners
    BY <1>7, <2>1, <2>6
  <2>8. IsLoadedWith(u, u)
    BY <2>6, <2>7 DEF IsLoadedWith
  <2>9. u \in Loaded(s)
    BY <2>6, <2>8, LoadedMeansWith
  <2> QED
    BY <1>1, <1>5, <1>8, <2>6, <2>9, WorksOnLoaded
<1> QED
  BY <1>12, <1>13

-----------------------------------------------------------------------------
(* The scale of a fused weight is computed from all weights of its set that have one. *)
LEMMA ScalesOfSets ==
  ASSUME NamesAreApart, NamesAreSorted, NEW S, \A l \in FusedLists : IsWhole(S, l),
         NEW list \in FusedLists, NEW t \in FusedNames(S, list), Microscale(t)
  PROVE  ScaledWith(S, t) = {u \in SetOf(t, list) : Microscale(u)}
<1> DEFINE fused == {F \in UNION {MatchNamesSetEager(S, l).sets : l \in FusedLists} : t \in F}
           F == SetOf(t, list)
<1>1. \A l \in FusedLists : MatchNamesSetEager(S, l).sets = SetsOf(S, l)
  BY MatcherFinds
<1>2. fused = {F}
  <2>1. F \in fused
    <3>1. F \in SetsOf(S, list) /\ t \in F
      BY SetFacts DEF SetsOf
    <3> QED
      BY <1>1, <3>1
  <2>2. ASSUME NEW G \in fused PROVE G = F
    <3>1. PICK l \in FusedLists : G \in SetsOf(S, l) /\ t \in G
      BY <1>1
    <3>2. PICK u \in FusedNames(S, l) : G = SetOf(u, l)
      BY <3>1 DEF SetsOf
    <3>3. t \in FusedNames(S, l) /\ SetOf(t, l) = G
      BY <3>1, <3>2, SetFacts
    <3>4. t.proj \in l.projs \cap list.projs
      BY <3>3 DEF FusedNames, IsFused
    <3>5. l = list
      BY <3>4, ListsAndMappings
    <3> QED
      BY <3>3, <3>5
  <2> QED
    BY <2>1, <2>2
<1>3. Matched(t)
  BY DEF Microscale
<1>4. ScaledWith(S, t) = {u \in UNION fused : Microscale(u)}
  <2>1. fused # {}
    BY <1>2
  <2> QED
    BY <1>3, <2>1 DEF ScaledWith
<1> QED
  BY <1>2, <1>4

(* The scale of a weight that no list matches is its own. *)
LEMMA ScalesOfOthers ==
  ASSUME NamesAreApart, NamesAreSorted, NEW S, \A l \in FusedLists : IsWhole(S, l),
         NEW t, \A l \in FusedLists : t \notin FusedNames(S, l)
  PROVE  ScaledWith(S, t) \subseteq {t}
<1> DEFINE fused == {F \in UNION {MatchNamesSetEager(S, l).sets : l \in FusedLists} : t \in F}
<1>1. fused = {}
  <2>1. ASSUME NEW l \in FusedLists, NEW G \in MatchNamesSetEager(S, l).sets PROVE t \notin G
    <3>1. PICK u \in FusedNames(S, l) : G = SetOf(u, l)
      BY <2>1, MatcherFinds DEF SetsOf
    <3> QED
      BY <3>1, SetFacts
  <2> QED
    BY <2>1
<1>2. ScaledWith(S, t) = IF ~ Matched(t) THEN {}
                         ELSE IF ~ Microscale(t) \/ fused = {} THEN {t}
                         ELSE {u \in UNION fused : Microscale(u)}
  BY DEF ScaledWith
<1> QED
  BY <1>1, <1>2

LEMMA PlainScales ==
  ASSUME NEW S, NEW t, ~ Microscale(t)
  PROVE  ScaledWith(S, t) \subseteq {t}
BY DEF ScaledWith

LEMMA MicroscaleOfConfig ==
  ASSUME NEW t, Microscale(t), config \in Configs
  PROVE  HasMicroscale(config)
<1>1. Groups(t) # {} /\ config[Min(Groups(t))].microscale
  BY DEF Microscale, Matched
<1>2. Groups(t) \subseteq DOMAIN config
  BY DEF Groups
<1>3. DOMAIN config \subseteq Nat
  BY ModelFreeAssumption
<1>4. \E i \in Groups(t) : \A j \in Groups(t) : i <= j
  BY <1>1, <1>2, <1>3, LeastNumber
<1>5. Min(Groups(t)) \in Groups(t)
  BY <1>4 DEF Min
<1> QED
  BY <1>1, <1>2, <1>5 DEF HasMicroscale

(* What a job writes: the modules stay apart, and a fused weight is scaled with its set. *)
LEMMA OutputsStayApart ==
  ASSUME NamesAreApart, NamesAreSorted, FusedSetsSupported, checkpoint \in Checkpoints,
         config \in Configs, Partners \subseteq Tensors,
         NEW s, NEW t \in DOMAIN Output(s), NEW u \in Output(s)[t]
  PROVE  u.layer = t.layer /\ u.family = t.family
<1>1. t \in WorksOn(s) /\ u \in ScaledWith(WorksOn(s), t)
  BY DEF Output, WorksOn
<1>2. CASE ~ Microscale(t)
  BY <1>1, <1>2, PlainScales
<1>3. CASE Microscale(t)
  <2>1. \A l \in FusedLists : IsWhole(WorksOn(s), l)
    BY <1>3, MicroscaleOfConfig, JobsHaveWholeSets
  <2>2. CASE \E l \in FusedLists : t \in FusedNames(WorksOn(s), l)
    <3>1. PICK l \in FusedLists : t \in FusedNames(WorksOn(s), l)
      BY <2>2
    <3>2. u \in SetOf(t, l)
      BY <1>1, <1>3, <2>1, <3>1, ScalesOfSets
    <3> QED
      BY <2>1, <3>1, <3>2, SetFacts DEF InOneModule
  <2>3. CASE \A l \in FusedLists : t \notin FusedNames(WorksOn(s), l)
    BY <1>1, <2>1, <2>3, ScalesOfOthers
  <2> QED
    BY <2>2, <2>3
<1> QED
  BY <1>2, <1>3

LEMMA PartnersShareScale ==
  ASSUME NamesAreApart, NamesAreSorted, FusedSetsSupported, checkpoint \in Checkpoints,
         config \in Configs, Partners \subseteq Tensors,
         NEW t \in Tensors, NEW u \in Dependencies(t), Microscale(t), Microscale(u),
         NEW s, NEW r, t \in DOMAIN Output(s), u \in DOMAIN Output(r)
  PROVE  Output(s)[t] = Output(r)[u] /\ {t, u} \subseteq Output(s)[t]
<1>1. /\ Tensors \subseteq Names /\ IsName(t) /\ t.family \in Families
      /\ u \in Partners /\ u \in Tensors
  BY ModelFreeAssumption DEF Tensors, NamesAreApart, Partners
<1>2. t.proj \in DOMAIN FusedMappings /\ t.family \in FusedMappings[t.proj].families
  BY DEF Dependencies
<1>3. PICK list \in FusedLists :
        /\ IsOfPrimary(list, t.proj)
        /\ t.family \in list.families \/ (t.family = "feed_forward" /\ t.proj = "gate_proj")
  BY <1>2, ListsAndMappings
<1>4. PICK p \in FusedMappings[t.proj].partners : u = [t EXCEPT !.proj = p]
  BY DEF Dependencies
<1>5. p \in list.projs /\ t.proj \in list.projs
  BY <1>3, <1>4 DEF IsOfPrimary
<1>6. u.proj = p /\ u.family = t.family
  BY <1>1, <1>4, Siblings
<1>7. t.family # "feed_forward" \/ t.proj # "gate_proj"
  BY DEF FusedSetsSupported, Tensors
<1>8. IsFused(t, list) /\ IsFused(u, list)
  BY <1>3, <1>5, <1>6, <1>7 DEF IsFused
<1>9. t.family # "experts" /\ u.family # "experts"
  BY <1>6, <1>8 DEF FusedSetsSupported, Tensors
<1>10. t \in WorksOn(s) /\ u \in WorksOn(r)
  BY DEF Output, WorksOn
<1>11. t \in Loaded(s) /\ u \in Loaded(r)
  BY <1>1, <1>9, <1>10, WorksOnLoaded
<1>12. t \notin Partners
  <2> SUFFICES ASSUME NEW w \in Tensors, t \in Dependencies(w) PROVE FALSE
    BY DEF Partners
  <2>1. IsName(w)
    BY ModelFreeAssumption DEF Tensors, NamesAreApart
  <2> QED
    BY <2>1, PartnersHaveOnePrimary
<1>13. IsLoadedWith(t, t) /\ IsLoadedWith(u, t)
  BY <1>12 DEF IsLoadedWith
<1>14. checkpoint[t] = s /\ checkpoint[t] = r
  <2>1. PICK v : IsLoadedWith(t, v) /\ checkpoint[v] = s
    BY <1>11, LoadedMeansWith
  <2>2. PICK w : IsLoadedWith(u, w) /\ checkpoint[w] = r
    BY <1>11, LoadedMeansWith
  <2>3. v = t
    BY <1>13, <2>1, LoadedWithOne
  <2>4. w = t
    BY <1>1, <1>13, <2>2, LoadedWithOne
  <2> QED
    BY <2>1, <2>2, <2>3, <2>4
<1>15. \A l \in FusedLists : IsWhole(WorksOn(s), l)
  BY MicroscaleOfConfig, JobsHaveWholeSets
<1>16. t \in FusedNames(WorksOn(s), list) /\ u \in FusedNames(WorksOn(s), list)
  BY <1>1, <1>8, <1>10, <1>14 DEF FusedNames
<1>17. u \in SetOf(t, list)
  BY <1>4, <1>5 DEF SetOf
<1>18. SetOf(u, list) = SetOf(t, list) /\ t \in SetOf(t, list)
  BY <1>15, <1>16, <1>17, SetFacts
<1>19. /\ ScaledWith(WorksOn(s), t) = {v \in SetOf(t, list) : Microscale(v)}
       /\ ScaledWith(WorksOn(s), u) = {v \in SetOf(u, list) : Microscale(v)}
  BY <1>15, <1>16, ScalesOfSets
<1>20. /\ Output(s)[t] = ScaledWith(WorksOn(s), t)
       /\ Output(r)[u] = ScaledWith(WorksOn(r), u)
  BY <1>10 DEF Output, WorksOn
<1> QED
  BY <1>14, <1>17, <1>18, <1>19, <1>20

(* The inductive invariant: a shard is written for a checkpoint that has all partners, and
   once.  KeptInv has it that no job starts before they are known to be there. *)
ScalesInv ==
  /\ config \in Configs
  /\ (\E s \in Shards : job[s] # "pending") => Partners \subseteq Tensors
  /\ \A s \in Shards : files[s] = <<>> \/ (files[s] = Output(s) /\ job[s] = "saved")

LEMMA ScalesInvHolds == ModelFreeSpec => []ScalesInv
<1>1. ModelFreeInit => ScalesInv
  BY DEF ModelFreeInit, ScalesInv
<1>2. JobsInv /\ KeptInv /\ ScalesInv /\ [ModelFreeNext]_freeVars => ScalesInv'
  <2> SUFFICES ASSUME JobsInv, KeptInv, ScalesInv, [ModelFreeNext]_freeVars PROVE ScalesInv'
    OBVIOUS
  <2>1. UNCHANGED <<checkpoint, config>>
    BY SetupStays DEF freeVars
  <2>2. /\ config' \in Configs /\ Partners' = Partners /\ Tensors' = Tensors
        /\ \A s \in Shards : Output(s)' = Output(s)
    BY <2>1, OutputStays DEF ScalesInv, Partners, Tensors, Dependencies, HasMicroscale
  <2>3. CASE UNCHANGED <<job, files>>
    BY <2>2, <2>3 DEF ScalesInv
  <2>4. ASSUME NEW s \in Shards, StartJob(s) PROVE ScalesInv'
    <3>1. /\ Partners \subseteq Tensors /\ job[s] = "pending"
          /\ job' = [job EXCEPT ![s] = "running"] /\ files' = files
      BY <2>4 DEF StartJob, KeptInv
    <3>2. ASSUME NEW r \in Shards
          PROVE  files'[r] = <<>> \/ (files'[r] = Output(r) /\ job'[r] = "saved")
      BY <3>1 DEF ScalesInv, JobsInv
    <3> QED
      BY <2>2, <3>1, <3>2 DEF ScalesInv
  <2>5. ASSUME NEW s \in Shards, FinishJob(s) PROVE ScalesInv'
    <3>1. Partners \subseteq Tensors /\ job[s] = "running"
      BY <2>5 DEF FinishJob, ScalesInv
    <3>2. \/ files' = [files EXCEPT ![s] = Output(s)] /\ job' = [job EXCEPT ![s] = "saved"]
          \/ files' = files /\ job' = [job EXCEPT ![s] = "failed"]
      BY <2>5 DEF FinishJob
    <3>3. ASSUME NEW r \in Shards
          PROVE  files'[r] = <<>> \/ (files'[r] = Output(r) /\ job'[r] = "saved")
      BY <3>1, <3>2 DEF ScalesInv, JobsInv
    <3> QED
      BY <2>2, <3>1, <3>3 DEF ScalesInv
  <2> QED
    BY <2>3, <2>4, <2>5
    DEF ModelFreeNext, freeVars, ValidateIndex, CopyFiles, BuildJobs, ValidateShards,
        CollectResults, JobsFail, UpdateConfig, UpdateIndex
<1> QED
  BY <1>1, <1>2, JobsInvHolds, KeptInvHolds, PTL DEF ModelFreeSpec

(* The weights of a module that the model fuses are quantized with one scale, computed from
   all of them, and no scale mixes modules: for every checkpoint whose names are sorted and
   whose fused sets are fetched or in one shard, every config and number of workers
   (get_dependencies, match_names_set_eager, _process_microscale). *)
THEOREM ScalesAlwaysFollowFusion ==
  NamesAreApart /\ NamesAreSorted /\ FusedSetsSupported /\ ModelFreeSpec
    => []ScalesFollowFusion
<1> SUFFICES ASSUME NamesAreApart, NamesAreSorted, FusedSetsSupported
             PROVE  ModelFreeSpec => []ScalesFollowFusion
  OBVIOUS
<1>1. JobsInv /\ KeptInv /\ ScalesInv => ScalesFollowFusion
  <2> SUFFICES ASSUME JobsInv, KeptInv, ScalesInv PROVE ScalesFollowFusion
    OBVIOUS
  <2>1. checkpoint \in Checkpoints /\ config \in Configs
    BY DEF KeptInv, ScalesInv
  <2>2. FusedWeightsShareScale
    <3> SUFFICES ASSUME stage = "done", NEW t \in Tensors, NEW u \in Dependencies(t),
                        NEW s \in Shards, NEW r \in Shards,
                        t \in DOMAIN files[s], u \in DOMAIN files[r],
                        Microscale(t), Microscale(u)
                 PROVE  files[s][t] = files[r][u] /\ {t, u} \subseteq files[s][t]
      BY DEF FusedWeightsShareScale
    <3>1. files[s] = Output(s) /\ files[r] = Output(r)
      BY DEF JobsInv, Collected
    <3>2. Partners \subseteq Tensors
      BY DEF KeptInv
    <3> QED
      BY <2>1, <3>1, <3>2, PartnersShareScale
  <2>3. LayersStayApart
    <3> SUFFICES ASSUME NEW s \in Shards, NEW t \in DOMAIN files[s], NEW u \in files[s][t]
                 PROVE  u.layer = t.layer /\ u.family = t.family
      BY DEF LayersStayApart
    <3>1. files[s] # <<>>
      <4>1. DOMAIN <<>> = {}
        OBVIOUS
      <4> QED
        BY <4>1
    <3>2. files[s] = Output(s) /\ Partners \subseteq Tensors
      BY <3>1 DEF ScalesInv
    <3> QED
      BY <2>1, <3>2, OutputsStayApart
  <2> QED
    BY <2>2, <2>3 DEF ScalesFollowFusion
<1> QED
  BY <1>1, JobsInvHolds, KeptInvHolds, ScalesInvHolds, PTL

-----------------------------------------------------------------------------
(***************************************************************************)
(* For every set of ranks: no rank leaves save_pretrained before the       *)
(* source has written all files or has raised.                             *)
(*                                                                         *)
(* The barriers are a finite sequence that all ranks issue in the same     *)
(* order, so the argument is about how many a rank has issued: in the body *)
(* as many as Entry has, after leaving it as many as Entry and Exit have,  *)
(* and then everyone else has, too, the source included.                   *)
(***************************************************************************)

Places == {"calibrating", "outside", "body", "leaving", "restored", "raised"}
CollectiveNames == {"new_group", "barrier", "barrier_suspend"}
HasWritten == writing \in {"raised", "recipe"}

(* How many collectives a rank has issued where it is. *)
CountsFit(r) ==
  /\ place[r] \in {"calibrating", "outside"} => Len(issued[r]) <= 2
  /\ place[r] = "body" => Len(issued[r]) = 2
  /\ place[r] = "leaving" => Len(issued[r]) \in 2 .. 4
  /\ HasLeft(r) => Len(issued[r]) = 4 /\ \A s \in SavingRanks : Len(issued[s]) >= 4

(* The inductive invariant: the source leaves the body only when it has written. *)
BarriersInv ==
  /\ place \in [SavingRanks -> Places]
  /\ issued \in [SavingRanks -> Seq(CollectiveNames)]
  /\ \A r \in SavingRanks : CountsFit(r)
  /\ place[0] \in {"leaving", "restored", "raised"} => HasWritten

LEMMA WrittenMeansRecipe == IsWritten <=> writing = "recipe"
BY DEF IsWritten, Steps

LEMMA Collectives ==
  /\ Len(Entry) = 2 /\ \A i \in 1 .. 2 : Entry[i] \in CollectiveNames
  /\ Len(Exit) = 2 /\ \A i \in 1 .. 2 : Exit[i] \in CollectiveNames
<1>1. Len(Entry) = 2 /\ Len(Exit) = 2
  BY DEF Entry, Exit
<1>2. Entry[1] \in CollectiveNames /\ Entry[2] \in CollectiveNames
      /\ Exit[1] \in CollectiveNames /\ Exit[2] \in CollectiveNames
  BY DEF Entry, Exit, CollectiveNames
<1>3. \A i \in 1 .. 2 : i = 1 \/ i = 2
  OBVIOUS
<1> QED
  BY <1>1, <1>2, <1>3

(* What the counts say of each other. *)
LEMMA Counts ==
  \A n \in Nat : /\ n >= 4 => ~ n <= 2 /\ n # 2
                 /\ n <= 2 /\ ~ n < 2 => n = 2
                 /\ n \in 2 .. 4 /\ n < 4 => n + 1 \in 2 .. 4
                 /\ n \in 2 .. 4 /\ n - 2 < 2 => n < 4 /\ n - 2 + 1 \in 1 .. 2
                 /\ n \in 2 .. 4 /\ ~ n - 2 < 2 => n = 4
OBVIOUS

(* The invariant is enough: the source has issued as many as the rank that has left. *)
LEMMA BarriersKeepRanks == BarriersInv => NobodyLeavesEarly
<1> SUFFICES ASSUME BarriersInv, NEW r \in SavingRanks, HasLeft(r)
             PROVE  writing = "raised" \/ IsWritten
  BY DEF NobodyLeavesEarly
<1>1. 0 \in SavingRanks /\ Len(issued[0]) >= 4
  BY SavingAssumption DEF BarriersInv, CountsFit
<1>2. place[0] \in Places /\ CountsFit(0) /\ Len(issued[0]) \in Nat
  BY <1>1 DEF BarriersInv
<1>3. place[0] \notin {"calibrating", "outside"} /\ place[0] # "body"
  <2>1. place[0] \in {"calibrating", "outside"} => Len(issued[0]) <= 2
    BY <1>2 DEF CountsFit
  <2>2. place[0] = "body" => Len(issued[0]) = 2
    BY <1>2 DEF CountsFit
  <2> QED
    BY <1>1, <1>2, <2>1, <2>2, Counts
<1>4. place[0] \in {"leaving", "restored", "raised"}
  BY <1>2, <1>3 DEF Places
<1> QED
  BY <1>4, WrittenMeansRecipe DEF BarriersInv, HasWritten

LEMMA BarriersInit == SavingInit => BarriersInv
<1> SUFFICES ASSUME SavingInit PROVE BarriersInv
  OBVIOUS
<1>1. 0 \in SavingRanks /\ place[0] = "calibrating"
  BY SavingAssumption DEF SavingInit
<1>2. \A r \in SavingRanks : CountsFit(r)
  BY DEF SavingInit, CountsFit, HasLeft
<1> QED
  BY <1>1, <1>2 DEF SavingInit, BarriersInv, Places

(* A rank that issues one more collective waits in place, and is not in the body. *)
LEMMA IssueKeepsBarriers ==
  ASSUME BarriersInv, NEW r \in SavingRanks, NEW c \in CollectiveNames,
         place[r] \in {"outside", "leaving"}, place' = place, writing' = writing,
         Issue(r, <<c>>),
         Len(issued[r]) < IF place[r] = "outside" THEN 2 ELSE 4
  PROVE  BarriersInv'
<1>1. /\ issued' \in [SavingRanks -> Seq(CollectiveNames)]
      /\ \A s \in SavingRanks : Len(issued'[s]) \in Nat /\ Len(issued[s]) \in Nat
      /\ \A s \in SavingRanks : Len(issued'[s]) >= Len(issued[s])
      /\ \A s \in SavingRanks \ {r} : issued'[s] = issued[s]
      /\ Len(issued'[r]) = Len(issued[r]) + 1
  BY DEF BarriersInv, Issue
<1>2. ASSUME NEW s \in SavingRanks PROVE CountsFit(s)'
  <2>1. CASE s = r
    <3>1. place[s] = "outside" => Len(issued'[s]) <= 2
      BY <1>1, <2>1
    <3>2. place[s] = "leaving" => Len(issued'[s]) \in 2 .. 4
      <4> SUFFICES ASSUME place[s] = "leaving" PROVE Len(issued'[s]) \in 2 .. 4
        OBVIOUS
      <4>1. Len(issued[s]) \in 2 .. 4
        BY DEF BarriersInv, CountsFit
      <4>2. Len(issued[s]) < 4
        BY <2>1
      <4> QED
        BY <1>1, <2>1, <4>1, <4>2, Counts
    <3>3. place'[s] \in {"outside", "leaving"}
      BY <2>1
    <3> QED
      BY <3>1, <3>2, <3>3 DEF CountsFit, HasLeft
  <2>2. CASE s # r
    <3>1. HasLeft(s) => Len(issued'[s]) = 4 /\ \A t \in SavingRanks : Len(issued'[t]) >= 4
      <4> SUFFICES ASSUME HasLeft(s) PROVE Len(issued'[s]) = 4
                   /\ \A t \in SavingRanks : Len(issued'[t]) >= 4
        OBVIOUS
      <4>1. Len(issued[s]) = 4 /\ \A t \in SavingRanks : Len(issued[t]) >= 4
        BY DEF BarriersInv, CountsFit
      <4> QED
        BY <1>1, <2>2, <4>1
    <3> QED
      BY <1>1, <2>2, <3>1 DEF BarriersInv, CountsFit, HasLeft
  <2> QED
    BY <2>1, <2>2
<1> QED
  BY <1>1, <1>2 DEF BarriersInv, HasWritten

(* A rank that goes from one place to the next has issued what it has to there. *)
LEMMA MoveKeepsBarriers ==
  ASSUME BarriersInv, NEW r \in SavingRanks, NEW p \in Places \ {"calibrating", "outside"},
         place' = [place EXCEPT ![r] = p], issued' = issued, writing' = writing,
         p = "body" => Len(issued[r]) = 2,
         p = "leaving" => Len(issued[r]) = 2,
         p \in {"restored", "raised"} =>
           Len(issued[r]) = 4 /\ \A s \in SavingRanks : Len(issued[s]) >= 4,
         r = 0 /\ p # "body" => HasWritten
  PROVE  BarriersInv'
<1>1. ASSUME NEW s \in SavingRanks PROVE CountsFit(s)'
  <2>1. CASE s = r
    <3>1. place'[r] = p
      BY DEF BarriersInv
    <3> QED
      BY <2>1, <3>1 DEF CountsFit, HasLeft, Places
  <2>2. CASE s # r
    BY <2>2 DEF BarriersInv, CountsFit, HasLeft
  <2> QED
    BY <2>1, <2>2
<1>2. place' \in [SavingRanks -> Places]
  BY DEF BarriersInv
<1>3. place'[0] \in {"leaving", "restored", "raised"} => HasWritten'
  BY SavingAssumption DEF BarriersInv, HasWritten
<1> QED
  BY <1>1, <1>2, <1>3 DEF BarriersInv

LEMMA BarriersStep == BarriersInv /\ [SavingNext]_savingVars => BarriersInv'
<1> SUFFICES ASSUME BarriersInv, [SavingNext]_savingVars PROVE BarriersInv'
  OBVIOUS
<1>0. 0 \in SavingRanks
  BY SavingAssumption
<1>1. ASSUME UNCHANGED <<place, issued, writing>> PROVE BarriersInv'
  BY <1>1 DEF BarriersInv, CountsFit, HasLeft, HasWritten
<1>2. CASE CompressAndRetie
  <2>1. /\ \A r \in SavingRanks : place[r] = "calibrating" /\ place'[r] = "outside"
        /\ place' \in [SavingRanks -> Places] /\ issued' = issued /\ writing' = writing
    BY <1>2 DEF CompressAndRetie, IsCalibrating, Places
  <2>2. ASSUME NEW r \in SavingRanks PROVE CountsFit(r)'
    BY <2>1 DEF BarriersInv, CountsFit, HasLeft
  <2> QED
    BY <1>0, <2>1, <2>2 DEF BarriersInv
<1>3. ASSUME NEW r \in SavingRanks, EnterSave(r) PROVE BarriersInv'
  <2>1. place[r] = "outside" /\ writing' = writing /\ Len(issued[r]) \in Nat /\ Len(issued[r]) <= 2
    BY <1>3 DEF EnterSave, BarriersInv, CountsFit
  <2>2. CASE Len(issued[r]) < Len(Entry)
    <3>1. Issue(r, <<Entry[Len(issued[r]) + 1]>>) /\ place' = place
      BY <1>3, <2>2 DEF EnterSave
    <3>2. Len(Entry) = 2 /\ Entry[Len(issued[r]) + 1] \in CollectiveNames
      BY <2>1, <2>2, Collectives, Counts
    <3> QED
      BY <2>1, <2>2, <3>1, <3>2, IssueKeepsBarriers
  <2>3. CASE ~ Len(issued[r]) < Len(Entry)
    <3>1. place' = [place EXCEPT ![r] = "body"] /\ issued' = issued
      BY <1>3, <2>3 DEF EnterSave
    <3>2. Len(issued[r]) = 2
      BY <2>1, <2>3, Collectives, Counts
    <3> QED
      BY <2>1, <3>1, <3>2, MoveKeepsBarriers DEF Places
  <2> QED
    BY <2>2, <2>3
<1>4. ASSUME NEW r \in SavingRanks, Write(r) \/ RaiseWriting(r) PROVE BarriersInv'
  <2>1. r = 0 /\ place[0] = "body" /\ place' = place /\ issued' = issued
    BY <1>4 DEF Write, RaiseWriting, Source
  <2> QED
    BY <2>1 DEF BarriersInv, CountsFit, HasLeft
<1>5. ASSUME NEW r \in SavingRanks, Leave(r) PROVE BarriersInv'
  <2>1. place[r] = "body" /\ Len(issued[r]) = 2 /\ writing' = writing /\ issued' = issued
    BY <1>5 DEF Leave, BarriersInv, CountsFit
  <2>2. place' = [place EXCEPT ![r] = "leaving"]
    BY <1>5 DEF Leave
  <2>3. r = 0 => HasWritten
    BY <1>5, WrittenMeansRecipe DEF Leave, HasWritten, Source
  <2> QED
    BY <2>1, <2>2, <2>3, MoveKeepsBarriers DEF Places
<1>6. ASSUME NEW r \in SavingRanks, AwaitOthers(r) PROVE BarriersInv'
  <2>1. /\ place[r] = "leaving" /\ writing' = writing /\ Returned(r)
        /\ Len(issued[r]) \in Nat /\ Len(issued[r]) \in 2 .. 4
    BY <1>6 DEF AwaitOthers, BarriersInv, CountsFit
  <2>2. CASE Len(issued[r]) - Len(Entry) < Len(Exit)
    <3>1. Issue(r, <<Exit[Len(issued[r]) - Len(Entry) + 1]>>) /\ place' = place
      BY <1>6, <2>2 DEF AwaitOthers
    <3>2. Len(issued[r]) < 4 /\ Exit[Len(issued[r]) - Len(Entry) + 1] \in CollectiveNames
      BY <2>1, <2>2, Collectives, Counts
    <3> QED
      BY <2>1, <3>1, <3>2, IssueKeepsBarriers
  <2>3. CASE ~ Len(issued[r]) - Len(Entry) < Len(Exit)
    <3>1. issued' = issued
      BY <1>6, <2>3 DEF AwaitOthers
    <3>2. Len(issued[r]) = 4 /\ \A s \in SavingRanks : Len(issued[s]) >= 4
      BY <2>1, <2>3, Collectives, Counts DEF Returned, BarriersInv
    <3>3. r = 0 => HasWritten
      BY <2>1 DEF BarriersInv
    <3>4. PICK p \in {"restored", "raised"} : place' = [place EXCEPT ![r] = p]
      BY <1>6, <2>3 DEF AwaitOthers
    <3> QED
      BY <2>1, <3>1, <3>2, <3>3, <3>4, MoveKeepsBarriers DEF Places
  <2> QED
    BY <2>2, <2>3
<1> QED
  BY <1>1, <1>2, <1>3, <1>4, <1>5, <1>6
     DEF SavingNext, RankStep, UntieEmbeddings, PruneExperts, QuantizeEmbeddings,
         savingVars, modelVars

(* No rank is done with saving, and free to read or to replace the files, before the
   source has written them all or has raised (suspend_distributed_timeout around
   save_pretrained_wrapper), for any number of ranks. *)
THEOREM NobodyLeavesEarlyThm == SavingSpec => []NobodyLeavesEarly
<1>1. SavingSpec => []BarriersInv
  BY BarriersInit, BarriersStep, PTL DEF SavingSpec
<1> QED
  BY <1>1, BarriersKeepRanks, PTL

-----------------------------------------------------------------------------
(***************************************************************************)
(* What is saved is what the modifiers have made of the model: a tie in    *)
(* the config of the model is true at any time, retying included, and each *)
(* file that is written describes the model, which no longer changes.      *)
(***************************************************************************)

(* The tie is looked for where it is set: configs with a text_config are saved with a
   wrong one: untying changes the top level, and the text level is written. *)
FlatConfigs == Nestings \subseteq {FALSE}

Ties == [{"top"} -> BOOLEAN]
ConfigFiles == [kind : {"none", "serialized", "original"}, tie : Ties, experts : Nat,
               quantized : BOOLEAN]

SavingTypeOK ==
  /\ original.nested = FALSE /\ original.tie \in Ties
  /\ modelConfig \in [tie : Ties, experts : Nat]
  /\ isShared \in BOOLEAN /\ isQuantized \in BOOLEAN
  /\ saved \in [config : ConfigFiles, tables : SUBSET {"in", "out"}]
  /\ writing \in {"nothing", "structure", "config", "quantization", "recipe", "raised"}

ModelTiesAreTrue ==
  /\ modelConfig.tie["top"] => embeddings["in"] = embeddings["out"]
  /\ isShared => modelConfig.tie["top"]

(* What has been written describes the model as it is. *)
FilesDescribeModel ==
  /\ writing \in {"structure", "config", "quantization", "recipe"} =>
       /\ saved.config.tie = modelConfig.tie /\ saved.config.experts = modelConfig.experts
       /\ "out" \notin saved.tables => isShared
  /\ writing \in {"quantization", "recipe"} => saved.config.quantized = isQuantized

(* The inductive invariant: once something is written, the model is no longer calibrated. *)
SavedInv ==
  /\ SavingTypeOK /\ ModelTiesAreTrue /\ FilesDescribeModel
  /\ writing # "nothing" => place[0] # "calibrating"

LEMMA SavedMeansDescribed == SavedInv => SavedConfigDescribesModel
<1> SUFFICES ASSUME SavedInv, writing = "recipe"
             PROVE  /\ SavedTiesAreTrue
                    /\ saved.config.experts = modelConfig.experts
                    /\ saved.config.quantized = isQuantized
  BY WrittenMeansRecipe DEF SavedConfigDescribesModel
<1>1. TextLevel = "top"
  BY DEF SavedInv, SavingTypeOK, TextLevel
<1> QED
  BY <1>1 DEF SavedInv, FilesDescribeModel, ModelTiesAreTrue, SavedTiesAreTrue

(* The file that follows each file. *)
LEMMA FilesInOrder ==
  /\ writing = "nothing" => Steps[NextStep] = "structure"
  /\ writing = "structure" => Steps[NextStep] = "config"
  /\ writing = "config" => Steps[NextStep] = "quantization"
  /\ writing = "quantization" => Steps[NextStep] = "recipe"
<1>1. DOMAIN Steps = 1 .. 4
  BY DEF Steps
<1>2. Steps[1] = "structure" /\ Steps[2] = "config" /\ Steps[3] = "quantization"
      /\ Steps[4] = "recipe"
  BY DEF Steps
<1>3. writing = "structure" => NextStep = 2
  <2> SUFFICES ASSUME writing = "structure" PROVE NextStep = 2
    OBVIOUS
  <2> DEFINE at == CHOOSE i \in DOMAIN Steps : Steps[i] = writing
  <2>1. at = 1
    BY <1>1, <1>2
  <2>2. NextStep = 1 + at
    BY Zenon DEF NextStep
  <2> HIDE DEF at
  <2> QED
    BY <2>1, <2>2
<1>4. writing = "config" => NextStep = 3
  <2> SUFFICES ASSUME writing = "config" PROVE NextStep = 3
    OBVIOUS
  <2> DEFINE at == CHOOSE i \in DOMAIN Steps : Steps[i] = writing
  <2>1. at = 2
    BY <1>1, <1>2
  <2>2. NextStep = 1 + at
    BY Zenon DEF NextStep
  <2> HIDE DEF at
  <2> QED
    BY <2>1, <2>2
<1>5. writing = "quantization" => NextStep = 4
  <2> SUFFICES ASSUME writing = "quantization" PROVE NextStep = 4
    OBVIOUS
  <2> DEFINE at == CHOOSE i \in DOMAIN Steps : Steps[i] = writing
  <2>1. at = 3
    BY <1>1, <1>2
  <2>2. NextStep = 1 + at
    BY Zenon DEF NextStep
  <2> HIDE DEF at
  <2> QED
    BY <2>1, <2>2
<1>6. writing = "nothing" => NextStep = 1
  BY DEF NextStep
<1> QED
  BY <1>2, <1>3, <1>4, <1>5, <1>6

LEMMA SavedInitOK == FlatConfigs /\ SavingInit => SavedInv
<1> SUFFICES ASSUME FlatConfigs, SavingInit PROVE SavedInv
  OBVIOUS
<1>1. PICK tied \in BOOLEAN, hasExperts \in BOOLEAN, readable \in BOOLEAN :
        /\ original = [nested |-> FALSE, readable |-> readable, tie |-> [l \in {"top"} |-> tied],
                       experts |-> IF hasExperts THEN 2 ELSE 0]
        /\ modelConfig = [tie |-> original.tie, experts |-> original.experts]
        /\ embeddings = [in |-> <<"table">>, out |-> IF tied THEN <<"table">> ELSE <<"head">>]
        /\ isShared \in IF tied THEN BOOLEAN ELSE {FALSE}
  BY DEF SavingInit, FlatConfigs
<1>2. modelConfig \in [tie : Ties, experts : Nat] /\ original.nested = FALSE
      /\ original.tie \in Ties
  BY <1>1 DEF Ties
<1>3. saved \in [config : ConfigFiles, tables : SUBSET {"in", "out"}]
  <2>1. Levels = {"top"}
    BY <1>2 DEF Levels
  <2> QED
    BY <2>1 DEF SavingInit, NoFile, ConfigFiles, Ties
<1>4. SavingTypeOK
  BY <1>1, <1>2, <1>3 DEF SavingTypeOK, SavingInit
<1>5. ModelTiesAreTrue
  BY <1>1 DEF ModelTiesAreTrue
<1> QED
  BY <1>4, <1>5 DEF SavedInv, FilesDescribeModel, SavingInit

(* The model changes only while nothing has been written. *)
LEMMA CalibratingMeansUnwritten == SavedInv /\ IsCalibrating => writing = "nothing"
BY SavingAssumption DEF SavedInv, IsCalibrating

LEMMA UntiedIsConfig == SavingTypeOK => /\ UntiedConfig \in [tie : Ties, experts : Nat]
                                        /\ UntiedConfig.tie["top"] = FALSE
BY DEF SavingTypeOK, UntiedConfig, Ties

LEMMA WriteKeepsDescription ==
  ASSUME SavedInv, NEW r \in SavingRanks, Write(r), place[0] \in Places
  PROVE  SavedInv'
<1>1. /\ writing \in {"nothing", "structure", "config", "quantization"}
           /\ writing' = Steps[NextStep]
      /\ place[0] = "body" /\ UNCHANGED <<modelVars, place>>
  BY WrittenMeansRecipe DEF Write, Source, SavedInv, SavingTypeOK
<1>2. SavingTypeOK /\ TextLevel = "top"
  BY DEF SavedInv, SavingTypeOK, TextLevel
<1>3. ModelTiesAreTrue' /\ place'[0] # "calibrating"
  BY <1>1 DEF SavedInv, ModelTiesAreTrue, modelVars
<1>4. CASE writing = "nothing"
  <2>1. /\ writing' = "structure"
        /\ saved' = [config |-> Serialized, tables |-> IF isShared THEN {"in"} ELSE {"in", "out"}]
    BY <1>1, <1>4, FilesInOrder DEF Write
  <2>2. Serialized \in ConfigFiles
    BY <1>2 DEF Serialized, ConfigFiles, SavingTypeOK
  <2> QED
    BY <1>1, <1>2, <1>3, <2>1, <2>2
       DEF SavedInv, SavingTypeOK, FilesDescribeModel, Serialized, modelVars
<1>5. CASE writing = "structure"
  <2>1. writing' = "config" /\ saved' = [saved EXCEPT !.config = Resaved]
    BY <1>1, <1>5, FilesInOrder DEF Write
  <2>2. saved.config \in ConfigFiles /\ saved.config.tie = modelConfig.tie
        /\ saved.config.experts = modelConfig.experts
    BY <1>5 DEF SavedInv, SavingTypeOK, FilesDescribeModel
  <2>3. [original.tie EXCEPT !["top"] = modelConfig.tie["top"]] = modelConfig.tie
    BY <1>2 DEF SavingTypeOK, Ties
  <2>4. Resaved \in ConfigFiles /\ Resaved.tie = modelConfig.tie
        /\ Resaved.experts = modelConfig.experts
    <3>1. CASE ~ original.readable
      BY <3>1, <2>2 DEF Resaved
    <3>2. CASE original.readable
      BY <3>2, <1>2, <2>3 DEF Resaved, SavingTypeOK, ConfigFiles
    <3> QED
      BY <3>1, <3>2
  <2>5. /\ saved' \in [config : ConfigFiles, tables : SUBSET {"in", "out"}]
        /\ saved'.config = Resaved /\ saved'.tables = saved.tables
    BY <1>2, <2>1, <2>4 DEF SavingTypeOK
  <2>6. SavingTypeOK'
    BY <1>1, <1>2, <2>1, <2>5 DEF SavingTypeOK, modelVars
  <2>7. FilesDescribeModel'
    BY <1>1, <1>5, <2>1, <2>4, <2>5 DEF SavedInv, FilesDescribeModel, modelVars
  <2> QED
    BY <1>3, <2>6, <2>7 DEF SavedInv
<1>6. CASE writing = "config"
  <2>1. writing' = "quantization" /\ saved' = [saved EXCEPT !.config.quantized = isQuantized]
    BY <1>1, <1>6, FilesInOrder DEF Write
  <2>2. /\ saved' \in [config : ConfigFiles, tables : SUBSET {"in", "out"}]
        /\ saved'.config.tie = saved.config.tie /\ saved'.config.experts = saved.config.experts
        /\ saved'.config.quantized = isQuantized /\ saved'.tables = saved.tables
    BY <1>2, <2>1 DEF SavingTypeOK, ConfigFiles
  <2>3. SavingTypeOK'
    BY <1>1, <1>2, <2>1, <2>2 DEF SavingTypeOK, modelVars
  <2>4. FilesDescribeModel'
    BY <1>1, <1>6, <2>1, <2>2 DEF SavedInv, FilesDescribeModel, modelVars
  <2> QED
    BY <1>3, <2>3, <2>4 DEF SavedInv
<1>7. CASE writing = "quantization"
  <2>1. writing' = "recipe" /\ saved' = saved
    BY <1>1, <1>7, FilesInOrder DEF Write
  <2> QED
    BY <1>1, <1>2, <1>3, <1>7, <2>1 DEF SavedInv, SavingTypeOK, FilesDescribeModel, modelVars
<1> QED
  BY <1>1, <1>4, <1>5, <1>6, <1>7

LEMMA SavedStep == BarriersInv /\ SavedInv /\ [SavingNext]_savingVars => SavedInv'
<1> SUFFICES ASSUME BarriersInv, SavedInv, [SavingNext]_savingVars PROVE SavedInv'
  OBVIOUS
<1>0. 0 \in SavingRanks /\ place \in [SavingRanks -> Places]
  BY SavingAssumption DEF BarriersInv
<1>1. SavingTypeOK
  BY DEF SavedInv
<1>2. CASE UntieEmbeddings
  <2>1. writing = "nothing" /\ writing' = writing /\ saved' = saved /\ modelConfig' = UntiedConfig
        /\ isShared' = FALSE /\ UNCHANGED <<original, isQuantized>>
    BY <1>2, CalibratingMeansUnwritten DEF UntieEmbeddings
  <2> QED
    BY <1>1, <2>1, UntiedIsConfig DEF SavedInv, SavingTypeOK, ModelTiesAreTrue, FilesDescribeModel
<1>3. ASSUME NEW S \in SUBSET {"in", "out"}, NEW scheme, QuantizeEmbeddings(S, scheme)
      PROVE SavedInv'
  <2>1. /\ writing = "nothing" /\ writing' = writing /\ saved' = saved
        /\ isQuantized' = TRUE /\ original' = original
    BY <1>3, CalibratingMeansUnwritten DEF QuantizeEmbeddings
  <2>2. CASE S = {}
    <3>1. embeddings'["in"] = embeddings["in"] /\ embeddings'["out"] = embeddings["out"]
          /\ UNCHANGED <<isShared, modelConfig>>
      BY <1>3, <2>2 DEF QuantizeEmbeddings
    <3> QED
      BY <1>1, <2>1, <3>1 DEF SavedInv, SavingTypeOK, ModelTiesAreTrue, FilesDescribeModel
  <2>3. CASE S # {}
    <3>1. isShared' = FALSE /\ modelConfig' = UntiedConfig
      BY <1>3, <2>3 DEF QuantizeEmbeddings
    <3> QED
      BY <1>1, <2>1, <3>1, UntiedIsConfig
         DEF SavedInv, SavingTypeOK, ModelTiesAreTrue, FilesDescribeModel
  <2> QED
    BY <2>2, <2>3
<1>4. CASE PruneExperts
  <2>1. /\ writing = "nothing" /\ writing' = writing /\ saved' = saved
        /\ UNCHANGED <<original, embeddings, isShared, isQuantized>>
        /\ modelConfig' = [modelConfig EXCEPT !.experts = 1]
    BY <1>4, CalibratingMeansUnwritten DEF PruneExperts
  <2>2. modelConfig' \in [tie : Ties, experts : Nat] /\ modelConfig'.tie = modelConfig.tie
    BY <1>1, <2>1 DEF SavingTypeOK
  <2> QED
    BY <1>1, <2>1, <2>2 DEF SavedInv, SavingTypeOK, ModelTiesAreTrue, FilesDescribeModel
<1>5. CASE CompressAndRetie
  <2>1. /\ writing = "nothing" /\ writing' = writing /\ saved' = saved
        /\ UNCHANGED <<original, embeddings, isQuantized>>
    BY <1>5, CalibratingMeansUnwritten DEF CompressAndRetie
  <2>2. CASE embeddings["in"] = embeddings["out"] /\ ~ isShared
    <3>1. isShared' = TRUE /\ modelConfig' = [modelConfig EXCEPT !.tie["top"] = TRUE]
      BY <1>1, <1>5, <2>2 DEF CompressAndRetie, TextLevel, SavingTypeOK
    <3>2. modelConfig' \in [tie : Ties, experts : Nat] /\ modelConfig'.tie["top"] = TRUE
      BY <1>1, <3>1 DEF SavingTypeOK, Ties
    <3> QED
      BY <1>1, <2>1, <2>2, <3>1, <3>2
         DEF SavedInv, SavingTypeOK, ModelTiesAreTrue, FilesDescribeModel
  <2>3. CASE ~ (embeddings["in"] = embeddings["out"] /\ ~ isShared)
    <3>1. UNCHANGED <<isShared, modelConfig>>
      BY <1>5, <2>3 DEF CompressAndRetie
    <3> QED
      BY <1>1, <2>1, <3>1 DEF SavedInv, SavingTypeOK, ModelTiesAreTrue, FilesDescribeModel
  <2> QED
    BY <2>2, <2>3
<1>6. ASSUME NEW r \in SavingRanks, Write(r) PROVE SavedInv'
  BY <1>0, <1>6, WriteKeepsDescription
<1>7. ASSUME NEW r \in SavingRanks, RaiseWriting(r) PROVE SavedInv'
  <2>1. writing' = "raised" /\ place[0] = "body" /\ UNCHANGED <<modelVars, place, saved>>
    BY <1>7 DEF RaiseWriting, Source
  <2> QED
    BY <1>1, <2>1 DEF SavedInv, SavingTypeOK, ModelTiesAreTrue, FilesDescribeModel, modelVars
<1>8. ASSUME NEW r \in SavingRanks, EnterSave(r) \/ Leave(r) \/ AwaitOthers(r) PROVE SavedInv'
  <2>1. UNCHANGED <<modelVars, writing, saved>>
    BY <1>8 DEF EnterSave, Leave, AwaitOthers
  <2>2. place[r] # "calibrating" /\ (place'
        = place \/ \E p \in Places \ {"calibrating", "outside"} :
                                       place' = [place EXCEPT ![r] = p])
    BY <1>8 DEF EnterSave, Leave, AwaitOthers, Places
  <2>3. place[0] # "calibrating" => place'[0] # "calibrating"
    BY <1>0, <2>2
  <2> QED
    BY <1>1, <2>1, <2>3 DEF SavedInv, SavingTypeOK, ModelTiesAreTrue, FilesDescribeModel, modelVars
<1>9. CASE UNCHANGED savingVars
  BY <1>1, <1>9 DEF SavedInv, SavingTypeOK, ModelTiesAreTrue, FilesDescribeModel, savingVars,
     modelVars
<1> QED
  BY <1>2, <1>3, <1>4, <1>5, <1>6, <1>7, <1>8, <1>9 DEF SavingNext, RankStep

(* A saved config describes the model whose weights are saved with it: tables that are tied
   in the config are equal, a table that was not written is tied, and the number of experts
   and the quantization are those of the model, whatever the modifiers have done before
   and for any number of ranks (save_pretrained_wrapper, _retie_embeddings, resave_config).
   Configs with a text_config are excluded, since theirs are wrong. *)
THEOREM SavedConfigAlwaysDescribes == FlatConfigs /\ SavingSpec => []SavedConfigDescribesModel
<1>1. FlatConfigs /\ SavingSpec => [](BarriersInv /\ SavedInv)
  BY BarriersInit, BarriersStep, SavedInitOK, SavedStep, PTL DEF SavingSpec
<1> QED
  BY <1>1, SavedMeansDescribed, PTL
=============================================================================
