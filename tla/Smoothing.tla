------------------------------ MODULE Smoothing ------------------------------
(***************************************************************************)
(* The modifiers that smooth activations: AWQ and SmoothQuant              *)
(* (modifiers/transform/awq/base.py, modifiers/transform/smoothquant/      *)
(* base.py), at work in the sequential pipeline on one rank or on several. *)
(*                                                                         *)
(* Hooks collect statistics of the activations in the calibrating pass.    *)
(* At the end of an epoch the output of a smooth layer is divided by a     *)
(* factor and the weights of its balance layers are multiplied by it.  AWQ *)
(* searches the factor by running the parent of the balance layers on its  *)
(* cached arguments with quantized weights.  The factors themselves are    *)
(* abstracted to what they are computed from.                              *)
(***************************************************************************)
EXTENDS Naturals, Sequences, SequencesExt, FiniteSets

CONSTANTS
  World,       \* processes that may take part
  Layers,      \* smooth and balance layers
  Parents,     \* common ancestors of balance layers
  Inside,      \* the layers in each parent
  Matched,     \* sequences of matched mappings, one of which the recipe gives
  Layouts,     \* how targets divide the model: [subgraph, calls]
  Reaches,     \* the layers that data reaches, in forward order
  Grid         \* number of points of the search

(* A mapping as it is matched: hook is activation_hook_target or the first
   balance layer. *)
MatchedMappings ==
  {m \in [smooth : Layers, balance : SUBSET Layers, parent : Parents, hook : Layers,
          compatible : BOOLEAN, targeted : BOOLEAN] : m.smooth \notin m.balance}

(* A layer runs in one subgraph.  A parent runs in one, too, or it is traced
   through and its forward is never called. *)
IsLayout(d) ==
  /\ d.subgraph \in [Layers -> Nat \ {0}]
  /\ d.calls \in [Parents -> Nat]

SmoothingAssumption ==
  /\ IsFiniteSet(World) /\ World # {} /\ IsFiniteSet(Layers)
  /\ Inside \in [Parents -> SUBSET Layers]
  /\ Matched \subseteq Seq(MatchedMappings)
  /\ \A d \in Layouts : IsLayout(d)
  /\ Reaches \subseteq Seq(Layers)
  /\ Grid \in Nat \ {0}

VARIABLES
  algorithm,   \* "awq" or "smoothquant"
  world,       \* the processes that take part
  mappings,    \* _resolved_mappings
  layout,
  reach,       \* the layers that the data of a rank reaches
  propagate,   \* dataset_args.propagate_error
  bad,         \* mappings whose outputs or losses are not finite on a rank
  place,       \* where a rank is in its epoch
  subgraph,    \* the subgraph a rank runs, its epoch
  todo,        \* mappings_to_smooth, without those that are done
  point,       \* points of the search that are done
  collected,   \* how often its data is in the statistics of a layer
  arguments,   \* _parent_args_cache: "none", "empty" or "cached"
  divided,     \* divided[r][l]: factors the output of a layer is divided by
  multiplied,  \* multiplied[r][l]: factors its weight is multiplied by
  quantized,   \* layers that hold the quantized weight of a search
  embedded,    \* embedded[r][l]: factors in the cached output of a layer
  reductions,  \* collectives of a rank, in order
  error        \* what a rank raised

smoothSetup == <<algorithm, world, mappings, layout, reach, propagate, bad>>
weights == <<divided, multiplied, quantized>>
smoothVars == <<smoothSetup, place, subgraph, todo, point, collected, arguments,
                weights, embedded, reductions, error>>

-----------------------------------------------------------------------------
(* Mappings *)

(* The numbers of a set in increasing order. *)
Ordered(S) ==
  [k \in 1 .. Cardinality(S) |->
     CHOOSE i \in S : Cardinality({j \in S : j <= i}) = k]

(* _set_resolved_mappings and _resolve_mappings leave out what cannot or need
   not be smoothed; only AWQ compares shapes. *)
Resolved(matched, alg) ==
  LET kept == Ordered({i \in DOMAIN matched :
                /\ matched[i].targeted /\ matched[i].balance # {}
                /\ alg = "awq" => matched[i].compatible})
  IN [k \in DOMAIN kept |-> matched[kept[k]]]

Indices == DOMAIN mappings
Subgraphs == 1 .. Max({1} \cup {layout.subgraph[l] : l \in Layers})
ReachedLayers(r) == ToSet(reach[r])
Runs(r) == {l \in ReachedLayers(r) : layout.subgraph[l] = subgraph[r]}
Called(r) ==
  {p \in Parents : layout.calls[p] = subgraph[r] /\ Inside[p] \cap ReachedLayers(r) # {}}

(* SmoothQuant observes the output of the smooth layer, AWQ the input of the
   hooked one. *)
Hooked(i) ==
  IF algorithm = "awq" THEN mappings[i].hook ELSE mappings[i].smooth

SeveralRanks == Cardinality(world) > 1

(* What can go wrong with at most one mapping.  SmoothQuant runs nothing that
   could have outputs that are not finite. *)
Troubles(indices, alg) ==
  {b \in [indices -> {"no", "outputs", "losses"}] :
     Cardinality({i \in indices : b[i] # "no"}) <= IF alg = "awq" THEN 1 ELSE 0}

SmoothingInit ==
  /\ algorithm \in {"awq", "smoothquant"}
  /\ world \in (SUBSET World) \ {{}}
  /\ \E matched \in Matched : mappings = Resolved(matched, algorithm)
  /\ layout \in Layouts /\ reach \in [world -> Reaches]
  /\ propagate \in BOOLEAN
  /\ bad \in [world -> Troubles(DOMAIN mappings, algorithm)]
  /\ \A r, q \in world : \A i, j \in DOMAIN mappings :
       bad[r][i] # "no" /\ bad[q][j] # "no" => i = j
  /\ place = [r \in World |-> IF r \in world THEN "calibrate" ELSE "done"]
  /\ subgraph = [r \in World |-> 1]
  /\ todo = [r \in World |-> {}] /\ point = [r \in World |-> 0]
  /\ collected = [r \in World |-> [l \in Layers |-> 0]]
  /\ arguments = [r \in World |-> [p \in Parents |->
       IF \E i \in DOMAIN mappings : mappings[i].parent = p THEN "empty" ELSE "none"]]
  /\ divided = [r \in World |-> [l \in Layers |-> {}]]
  /\ multiplied = [r \in World |-> [l \in Layers |-> {}]]
  /\ quantized = [r \in World |-> {}]
  /\ embedded = [r \in World |-> [l \in Layers |-> {}]]
  /\ reductions = [r \in World |-> <<>>]
  /\ error = [r \in World |-> "none"]

-----------------------------------------------------------------------------
(* Collectives: all of them are sums, minima or maxima over all ranks. *)

AllReduce(r, ops) ==
  reductions' = IF SeveralRanks THEN [reductions EXCEPT ![r] = @ \o ops] ELSE reductions

Reduction(kind, l, data) == [kind |-> kind, layer |-> l, data |-> data]

(* wait_for_comms *)
AllReduced(r) == \A q \in world : Len(reductions[q]) >= Len(reductions[r])

(* What a reduction of the last one of this kind and layer has summed up: how
   often the data of each rank is in it. *)
SummedUp(r, kind, l, own) ==
  IF ~SeveralRanks THEN [q \in world |-> own]
  ELSE LET i == Max({j \in DOMAIN reductions[r] :
                       reductions[r][j].kind = kind /\ reductions[r][j].layer = l})
       IN [q \in world |-> reductions[q][i].data]

-----------------------------------------------------------------------------
(* The passes of the pipeline *)

Fail(r, e) ==
  /\ place' = [place EXCEPT ![r] = "failed"]
  /\ error' = [error EXCEPT ![r] = e]
  /\ UNCHANGED <<smoothSetup, subgraph, todo, point, collected, arguments, weights,
                 embedded, reductions>>

(* The outputs of the layers that run go to the intermediates cache. *)
Embedded(r) ==
  [embedded EXCEPT ![r] = [l \in Layers |->
     IF layout.subgraph[l] = subgraph[r] THEN divided[r][l] ELSE @[l]]]

(* The calibrating pass: the statistics hooks and, for AWQ, the hooks that
   cache the arguments of the parents. *)
Calibrate(r) ==
  /\ place[r] = "calibrate"
  /\ collected' = [collected EXCEPT ![r] = [l \in Layers |->
       @[l] + Cardinality({i \in Indices : /\ mappings[i].smooth = l
                                           /\ Hooked(i) \in Runs(r)})]]
  /\ arguments' = [arguments EXCEPT ![r] = [p \in Parents |->
       IF @[p] # "none" /\ p \in Called(r) THEN "cached" ELSE @[p]]]
  /\ embedded' = IF propagate THEN embedded ELSE Embedded(r)
  /\ place' = [place EXCEPT ![r] = IF algorithm = "awq" THEN "select" ELSE "reduce"]
  /\ UNCHANGED <<smoothSetup, subgraph, todo, point, weights, reductions, error>>

AfterEpoch(r) == IF subgraph[r] + 1 \in Subgraphs THEN "calibrate" ELSE "end"

Following(r) == IF AfterEpoch(r) = "end" THEN subgraph[r] ELSE subgraph[r] + 1

(* The propagating pass, if there is one, runs with hooks disabled. *)
FinishEpoch(r) ==
  /\ place[r] = "propagate"
  /\ embedded' = IF propagate THEN Embedded(r) ELSE embedded
  /\ place' = [place EXCEPT ![r] = AfterEpoch(r)]
  /\ subgraph' = [subgraph EXCEPT ![r] = Following(r)]
  /\ UNCHANGED <<smoothSetup, todo, point, collected, arguments, weights, reductions, error>>

(* on_calibration_end of AWQ and on_finalize of SmoothQuant raise for statistics
   that nobody used. *)
CalibrationEnd(r) ==
  /\ place[r] = "end"
  /\ IF \E l \in Layers : collected[r][l] > 0
     THEN Fail(r, "unused")
     ELSE /\ place' = [place EXCEPT ![r] = "done"]
          /\ UNCHANGED <<smoothSetup, subgraph, todo, point, collected, arguments,
                         weights, embedded, reductions, error>>

-----------------------------------------------------------------------------
(* Smoothing *)

Factor(i, data, losses) == [mapping |-> i, data |-> data, losses |-> losses]

(* Mutant: the smooth layer keeps its output. *)
BalanceOnly(r, F) ==
  /\ divided' = divided
  /\ multiplied' = [multiplied EXCEPT ![r] = [l \in Layers |->
       @[l] \cup {f \in F : l \in mappings[f.mapping].balance}]]

(* _smooth, for the smooth layers and the balance layers of mappings. *)
Smooth(r, F) ==
  /\ divided' = [divided EXCEPT ![r] = [l \in Layers |->
       @[l] \cup {f \in F : l = mappings[f.mapping].smooth}]]
  /\ multiplied' = [multiplied EXCEPT ![r] = [l \in Layers |->
       @[l] \cup {f \in F : l \in mappings[f.mapping].balance}]]

(* _reduce_activation_scales of SmoothQuant: every entry of scales_ in the order
   in which the hooks have made it; a minimum and a maximum count as one. *)
ReduceScales(r) ==
  /\ place[r] = "reduce"
  /\ LET entries == Ordered({k \in DOMAIN reach[r] : collected[r][reach[r][k]] > 0})
     IN AllReduce(r, [n \in DOMAIN entries |->
          LET l == reach[r][entries[n]] IN Reduction("scales", l, collected[r][l])])
  /\ place' = [place EXCEPT ![r] = "smooth"]
  /\ UNCHANGED <<smoothSetup, subgraph, todo, point, collected, arguments, weights,
                 embedded, error>>

(* The loop over all resolved mappings; the first mapping of a smooth layer
   takes its statistics away. *)
HasScales(r, i) ==
  /\ collected[r][mappings[i].smooth] > 0
  /\ \A j \in Indices : j < i => mappings[j].smooth # mappings[i].smooth

ScalesOf(r, i) ==
  SummedUp(r, "scales", mappings[i].smooth, collected[r][mappings[i].smooth])

ApplyScales(r) ==
  /\ place[r] = "smooth"
  /\ AllReduced(r)
  /\ Smooth(r, {Factor(i, ScalesOf(r, i), {}) : i \in {j \in Indices : HasScales(r, j)}})
  /\ collected' = [collected EXCEPT ![r] = [l \in Layers |->
       IF \E i \in Indices : mappings[i].smooth = l THEN 0 ELSE @[l]]]
  /\ place' = [place EXCEPT ![r] = "propagate"]
  /\ UNCHANGED <<smoothSetup, subgraph, todo, point, arguments, quantized, embedded,
                 reductions, error>>

(* mappings_to_smooth: those that have statistics. *)
MappingsToSmooth(r) ==
  {i \in Indices : collected[r][mappings[i].smooth] > 0}

(* _apply_smoothing of AWQ *)
SelectMappings(r) ==
  /\ place[r] = "select"
  /\ todo' = [todo EXCEPT ![r] = MappingsToSmooth(r)]
  /\ place' = [place EXCEPT ![r] = "reference"]
  /\ UNCHANGED <<smoothSetup, subgraph, point, collected, arguments, weights, embedded,
                 reductions, error>>

(* They are smoothed in the order of _resolved_mappings. *)
Current(r) == Min(todo[r])

(* A mapping whose parent has no outputs, or not finite ones, is left as it is. *)
SkipMapping(r) ==
  /\ collected' = [collected EXCEPT ![r][mappings[Current(r)].smooth] = 0]
  /\ todo' = [todo EXCEPT ![r] = @ \ {Current(r)}]
  /\ UNCHANGED <<smoothSetup, place, subgraph, point, arguments, weights, embedded,
                 reductions, error>>

(* The outputs of the parent with the weights it has, and the mean of the
   activations.  A parent without a cache is a KeyError, and so are statistics
   that another mapping of the smooth layer has used. *)
Reference(r) ==
  /\ place[r] = "reference" /\ todo[r] # {}
  /\ LET m == mappings[Current(r)] IN
     IF arguments[r][m.parent] = "none" \/ collected[r][m.smooth] = 0 THEN Fail(r, "key")
     ELSE IF arguments[r][m.parent] = "empty" \/ bad[r][Current(r)] = "outputs"
     THEN SkipMapping(r)
     ELSE /\ AllReduce(r, << Reduction("mean", m.smooth, collected[r][m.smooth]) >>)
          /\ point' = [point EXCEPT ![r] = 0]
          /\ place' = [place EXCEPT ![r] = "search"]
          /\ UNCHANGED <<smoothSetup, subgraph, todo, collected, arguments, weights,
                         embedded, error>>

(* A loss is 1 when it is finite, 0 when it is not. *)
Loss(r) == IF bad[r][Current(r)] = "losses" THEN 0 ELSE 1

(* Mutant: the runs of a search pass through the statistics hooks. *)
SearchPointHooked(r) ==
  /\ place[r] = "search" /\ AllReduced(r) /\ point[r] < Grid
  /\ quantized' = [quantized EXCEPT ![r] = @ \cup mappings[Current(r)].balance]
  /\ collected' = [collected EXCEPT ![r] = [l \in Layers |->
       @[l] + Cardinality({i \in Indices : /\ mappings[i].smooth = l
                             /\ Hooked(i) \in Inside[mappings[Current(r)].parent]})]]
  /\ AllReduce(r, << Reduction("loss", mappings[Current(r)].smooth, Loss(r)) >>)
  /\ point' = [point EXCEPT ![r] = @ + 1]
  /\ UNCHANGED <<smoothSetup, place, subgraph, todo, arguments, divided, multiplied,
                 embedded, error>>

(* A point of the search leaves quantized weights in the balance layers and
   reduces the loss. *)
SearchPoint(r) ==
  /\ place[r] = "search" /\ AllReduced(r) /\ point[r] < Grid
  /\ quantized' = [quantized EXCEPT ![r] = @ \cup mappings[Current(r)].balance]
  /\ AllReduce(r, << Reduction("loss", mappings[Current(r)].smooth, Loss(r)) >>)
  /\ point' = [point EXCEPT ![r] = @ + 1]
  /\ UNCHANGED <<smoothSetup, place, subgraph, todo, collected, arguments, divided,
                 multiplied, embedded, error>>

(* The ranks whose finite losses are in the sum.  A sum is finite when all are. *)
LossOf(r) ==
  {q \in world : SummedUp(r, "loss", mappings[Current(r)].smooth, Loss(r))[q] > 0}

NoFiniteLoss(r) ==
  /\ place[r] = "search" /\ AllReduced(r) /\ point[r] = Grid
  /\ LossOf(r) # world
  /\ Fail(r, "losses")

(* The balance layers get their original weights times the factor. *)
StillQuantized(r, i) == quantized[r] \ mappings[i].balance

Dropped(r, i) == [arguments EXCEPT ![r][mappings[i].parent] = "none"]

MeanOf(r, l) == SummedUp(r, "mean", l, collected[r][l])

ApplyBest(r) ==
  /\ place[r] = "search" /\ AllReduced(r) /\ point[r] = Grid
  /\ LossOf(r) = world
  /\ LET i == Current(r)
         l == mappings[i].smooth
     IN /\ Smooth(r, {Factor(i, MeanOf(r, l), LossOf(r))})
        /\ quantized' = [quantized EXCEPT ![r] = StillQuantized(r, i)]
        /\ collected' = [collected EXCEPT ![r][l] = 0]
        /\ arguments' = Dropped(r, i)
  /\ todo' = [todo EXCEPT ![r] = @ \ {Current(r)}]
  /\ place' = [place EXCEPT ![r] = "reference"]
  /\ UNCHANGED <<smoothSetup, subgraph, point, embedded, reductions, error>>

(* _assert_all_activations_consumed *)
EndSmoothing(r) ==
  /\ place[r] = "reference" /\ todo[r] = {}
  /\ IF \E l \in Layers : collected[r][l] > 0
     THEN Fail(r, "unused")
     ELSE /\ place' = [place EXCEPT ![r] = "propagate"]
          /\ UNCHANGED <<smoothSetup, subgraph, todo, point, collected, arguments,
                         weights, embedded, reductions, error>>

SmoothStep(r) ==
  \/ Calibrate(r) \/ FinishEpoch(r) \/ CalibrationEnd(r)
  \/ ReduceScales(r) \/ ApplyScales(r)
  \/ SelectMappings(r) \/ Reference(r)
  \/ SearchPoint(r) \/ NoFiniteLoss(r) \/ ApplyBest(r)
  \/ EndSmoothing(r)

SmoothingNext == \E r \in world : SmoothStep(r)

(* Every process runs until it has to wait for another. *)
SmoothingSpec ==
  /\ SmoothingInit /\ [][SmoothingNext]_smoothVars
  /\ \A r \in World : WF_smoothVars(r \in world /\ SmoothStep(r))
-----------------------------------------------------------------------------
(* Properties *)

(* What the code relies on in the mappings it resolves, and those of its tables
   fulfil: a layer is smoothed by one mapping, a parent has the balance layers of
   one, and it is called when its hooked layer runs unless it is traced through. *)
MappingsSupported ==
  \A matched \in Matched, alg \in {"awq", "smoothquant"}, d \in Layouts :
    LET m == Resolved(matched, alg) IN
    \A i \in DOMAIN m :
      /\ \A j \in DOMAIN m : j # i => /\ m[j].smooth # m[i].smooth
                                      /\ alg = "awq" => m[j].parent # m[i].parent
      /\ m[i].hook \in Inside[m[i].parent]
      /\ d.calls[m[i].parent] \in {0, d.subgraph[m[i].hook]}

(* The data of all ranks reaches the same layers, as it does when all experts are
   calibrated, and is finite on all or on none.  The reductions rely on it. *)
SameReach == \A r, q \in world : reach[r] = reach[q] /\ bad[r] = bad[q]

(* All ranks issue the same reductions in the same order: no rank adds the loss
   of one mapping to the statistics of another, and none waits for a reduction
   that another leaves out because it skips a mapping. *)
ReductionsMatch ==
  SameReach => \A r, q \in world :
    \A i \in DOMAIN reductions[r] \cap DOMAIN reductions[q] :
      /\ reductions[r][i].kind = reductions[q][i].kind
      /\ reductions[r][i].layer = reductions[q][i].layer

(* The division that the input of a layer carries: that of the forward pass
   under way, or of the pass that wrote it to the cache. *)
InputFactors(r, l) ==
  UNION {LET s == mappings[i].smooth IN
         IF layout.subgraph[s] = subgraph[r] THEN divided[r][s] ELSE embedded[r][s] :
         i \in {j \in Indices : l \in mappings[j].balance}}

(* The factor of a mapping is computed in the epoch in which its smooth layer runs,
   and its balance layers run in this epoch, too, or in a later one if what the
   epoch has divided is propagated.  Targets that are decoder layers see to it. *)
SmoothedBeforeRead ==
  \A i \in Indices : LET s == layout.subgraph[mappings[i].smooth] IN
    /\ layout.subgraph[Hooked(i)] = s
    /\ \A l \in mappings[i].balance :
         layout.subgraph[l] = s \/ (propagate /\ layout.subgraph[l] > s)

(* In every pass over a subgraph the inputs of the balance layers are divided by
   exactly the factors their weights are multiplied by, so smoothing changes
   nothing of what the model computes while it is calibrated. *)
InputsMatchWeights ==
  SmoothedBeforeRead => \A r \in world : place[r] \in {"calibrate", "propagate"} =>
    \A l \in Runs(r) : multiplied[r][l] = InputFactors(r, l)

(* The quantized weights of a search are gone when the pipeline goes on. *)
SearchLeavesNothing ==
  \A r \in world : place[r] \in {"calibrate", "propagate", "end", "done"} =>
    quantized[r] = {}

(* Smoothing is not visible in what the model computes while it is calibrated. *)
SmoothingIsInvisible == InputsMatchWeights /\ SearchLeavesNothing

(* A factor is computed from the data of every rank, each counted once, although
   the search runs the same data through the same modules again and again. *)
EveryRankCountsOnce ==
  SameReach => \A r \in world, l \in Layers : \A f \in multiplied[r][l] :
    /\ \A q \in world : f.data[q] = 1
    /\ f.losses = IF algorithm = "awq" THEN world ELSE {}

(* Whether nothing speaks against smoothing a mapping. *)
Smoothable(r, i) ==
  /\ Hooked(i) \in ReachedLayers(r)
  /\ algorithm = "awq" => /\ bad[r][i] = "no"
                          /\ layout.calls[mappings[i].parent] # 0
  /\ \A j \in Indices : j < i => mappings[j].smooth # mappings[i].smooth

(* A calibration that ends has applied every mapping that data reached once, in
   whichever epoch its layers were, and no other. *)
EachMappingOnce ==
  \A r \in world : place[r] = "done" =>
    \A i \in Indices :
      Cardinality({f \in divided[r][mappings[i].smooth] : f.mapping = i})
        = IF Smoothable(r, i) THEN 1 ELSE 0

(* base.py, _assert_all_activations_consumed: "If not, something has gone
   wrong".  Only a search without a finite loss stops a calibration. *)
NothingIsUnused == \A r \in world : error[r] \in {"none", "losses"}

(* A calibration applies what it has resolved and uses what it has cached, and each
   factor has the data of each rank, once. *)
EverythingCountsOnce ==
  ReductionsMatch /\ EveryRankCountsOnce /\ EachMappingOnce /\ NothingIsUnused

(* No rank waits forever. *)
SmoothingTerminates ==
  SameReach => <>(\A r \in World : place[r] \in {"done", "failed"})

-----------------------------------------------------------------------------
(* What comments of the code say, and the code does not do *)

(* awq/base.py: "same parent may appear multiple times in resolved mappings". *)
ParentsMayRepeat == \A r \in world : error[r] # "key"
=============================================================================
