-------------------------------- MODULE Reap --------------------------------
(***************************************************************************)
(* REAPPruningModifier (modifiers/pruning/reap): experts of mixture of     *)
(* experts layers are removed by their saliency, on one rank or on several *)
(* that calibrate with different data.                                     *)
(*                                                                         *)
(* Each rank sums up saliencies in hooks.  At the end of an epoch of the   *)
(* sequential pipeline the sums of each layer that has collected any are   *)
(* reduced to the source rank, which decides and broadcasts what to keep.  *)
(***************************************************************************)
EXTENDS Naturals, Sequences, SequencesExt, FiniteSets

CONSTANTS
  Ranks, Source,
  LayerOrder,   \* names of the layers of experts, sorted
  Plans,        \* how subgraphs divide the model: sequences of sets of layers
  NumExperts,
  Routers,      \* [topK, nGroup, topKGroup], nGroup = 0 without groups
  Drops,        \* int(num_experts * sparsity), for sparsities in (0, 1)
  Found,        \* layers that can be pruned and are not ignored
  Reaches,      \* the layers that the samples of each rank reach
  Routes,       \* the experts of a layer that samples are routed to
  Batches,      \* batches of a rank
  MaxNorm       \* weighted norms of an expert's output are 1 .. MaxNorm

Layers == ToSet(LayerOrder)
Experts == 0 .. NumExperts - 1

ASSUME ReapAssumption ==
  /\ IsFiniteSet(Ranks) /\ Source \in Ranks
  /\ LayerOrder \in Seq(Layers) /\ IsInjective(LayerOrder)
  /\ NumExperts \in Nat \ {0} /\ Batches \in Nat \ {0} /\ MaxNorm \in Nat \ {0}
  /\ Drops \subseteq 0 .. NumExperts - 1
  /\ \A p \in Plans : p \in Seq(SUBSET Layers) /\ p # <<>>
  /\ \A g \in Routers : {g.topK, g.nGroup, g.topKGroup} \subseteq Nat /\ g.topK > 0
  /\ Found \subseteq SUBSET Layers /\ Reaches \subseteq [Ranks -> SUBSET Layers]
  /\ Routes \in [Layers -> SUBSET Experts]

(* All ranks collect samples of the same layers.  Nothing in the code sees to it: ranks
   whose samples reach different layers would issue different collectives. *)
ReachesAgree == \A f \in Reaches : \A r, q \in Ranks : f[r] = f[q]

VARIABLES
  router,      \* what the config of the model says of its router
  plan, reach,
  names,       \* moe_layer_names
  drop,        \* _n_experts_to_drop
  dropInGroup, \* _n_experts_to_drop_per_group
  pc,          \* where a rank is
  epoch, batch,
  todo,        \* layers that the end of an epoch has still to prune
  tracker,     \* _saliency_trackers of a rank: layers with sums and counts
  experts,     \* experts of a layer on a rank, by their original index
  gate,        \* rows of its router
  config,      \* number of experts in the config of the rank's model
  sent,        \* collectives of a rank, in order
  seen         \* what the samples of a rank have added up to before it prunes

reapSetup == <<router, plan, reach, names, drop, dropInGroup>>
model == <<experts, gate, config>>
reapVars == <<reapSetup, pc, epoch, batch, todo, tracker, model, sent, seen>>

Zero == [e \in Experts |-> [sum |-> 0, count |-> 0]]
Unpruned == [i \in 1 .. NumExperts |-> i - 1]
Distributed == Cardinality(Ranks) > 1
GroupSize == NumExperts \div router.nGroup

ReapInit ==
  /\ router \in Routers /\ plan \in Plans /\ reach \in Reaches
  /\ names \in Found
  /\ drop \in Drops /\ dropInGroup = 0
  /\ pc = [r \in Ranks |-> "initialize"]
  /\ epoch = [r \in Ranks |-> 1] /\ batch = [r \in Ranks |-> 0]
  /\ todo = [r \in Ranks |-> {}]
  /\ tracker = [r \in Ranks |-> <<>>]
  /\ experts = [r \in Ranks |-> [l \in Layers |-> Unpruned]]
  /\ gate = [r \in Ranks |-> [l \in Layers |-> Unpruned]]
  /\ config = [r \in Ranks |-> NumExperts]
  /\ sent = [r \in Ranks |-> <<>>]
  /\ seen = [r \in Ranks |-> [l \in Layers |-> Zero]]

-----------------------------------------------------------------------------
(* on_initialize *)

(* round of Python: halves go to the even neighbour. *)
Round(a, b) ==
  LET q == a \div b
      rest == 2 * (a % b)
  IN CASE rest < b -> q [] rest > b -> q + 1 [] OTHER -> q + (q % 2)

InGroup == IF router.nGroup = 0 THEN 0 ELSE Round(drop, router.nGroup)

(* Experts that the router can still reach. *)
Available(n, inGroup) ==
  IF router.nGroup = 0 THEN NumExperts - n
  ELSE router.topKGroup * (GroupSize - inGroup)

(* get_moe_attrs finds layers of experts in the model that it can prune and whose
   groups have one size; groups lose some of their experts, and what they keep is
   enough for the router. *)
Accepted ==
  /\ names # {} /\ drop > 0
  /\ router.nGroup # 0 => NumExperts % router.nGroup = 0 /\ InGroup > 0
  /\ router.nGroup # 0 => InGroup <= GroupSize
  /\ router.topK <= Available(drop, InGroup)

(* All ranks come to one result.  Groups lose equally many experts. *)
Initialize ==
  /\ \A r \in Ranks : pc[r] = "initialize"
  /\ IF Accepted
     THEN /\ pc' = [r \in Ranks |-> "calibrate"]
          /\ dropInGroup' = InGroup
          /\ drop' = IF router.nGroup = 0 THEN drop ELSE InGroup * router.nGroup
          /\ tracker' = [r \in Ranks |-> [l \in names |-> Zero]]
     ELSE /\ pc' = [r \in Ranks |-> "rejected"]
          /\ UNCHANGED <<drop, dropInGroup, tracker>>
  /\ UNCHANGED <<router, plan, reach, names, epoch, batch, todo, model, sent, seen>>

-----------------------------------------------------------------------------
(* Calibration *)

(* What the tokens of a batch add: each is routed to topK experts. *)
Tokens(l) ==
  {[e \in Experts |-> IF e \in S THEN [sum |-> n, count |-> 1] ELSE Zero[e]] :
     S \in kSubset(router.topK, Routes[l]), n \in 1 .. MaxNorm}

Plus(a, b) ==
  [e \in Experts |-> [sum |-> a[e].sum + b[e].sum, count |-> a[e].count + b[e].count]]

Called(r) == plan[epoch[r]] \cap reach[r]

(* A batch runs through a subgraph.  The hooks of the experts fill the buffer of
   norms and the one of their block empties it into the tracker; a layer that has
   been pruned has neither buffer nor tracker. *)
RunBatch(r) ==
  /\ pc[r] = "calibrate" /\ batch[r] < Batches
  /\ LET counted == Called(r) \cap DOMAIN tracker[r] IN
     \E t \in [counted -> UNION {Tokens(l) : l \in counted}] :
       /\ \A l \in counted : t[l] \in Tokens(l)
       /\ tracker' = [tracker EXCEPT ![r] = [l \in DOMAIN @ |->
            IF l \in counted THEN Plus(@[l], t[l]) ELSE @[l]]]
       /\ seen' = [seen EXCEPT ![r] = [l \in Layers |->
            IF l \in counted THEN Plus(@[l], t[l]) ELSE @[l]]]
  /\ batch' = [batch EXCEPT ![r] = @ + 1]
  /\ UNCHANGED <<reapSetup, pc, epoch, todo, model, sent>>

(* total_count, a sum of counts, is positive. *)
HasSamples(t) == \E e \in Experts : t[e].count > 0

-----------------------------------------------------------------------------
(* on_sequential_epoch_end *)

(* The layers that have collected samples; they are pruned in the order of their
   names. *)
StartEpochEnd(r) ==
  /\ pc[r] = "calibrate" /\ batch[r] = Batches
  /\ todo' = [todo EXCEPT ![r] = {l \in DOMAIN tracker[r] : HasSamples(tracker[r][l])}]
  /\ pc' = [pc EXCEPT ![r] = "reduce"]
  /\ UNCHANGED <<reapSetup, epoch, batch, tracker, model, sent, seen>>

First(S) == LayerOrder[Min({i \in DOMAIN LayerOrder : LayerOrder[i] \in S})]
Present(r) == First(todo[r])

Issue(r, kind, data) ==
  sent' = [sent EXCEPT ![r] =
             IF Distributed THEN Append(@, [kind |-> kind, layer |-> Present(r),
                                            data |-> data])
             ELSE @]

(* Mutant: nothing is reduced, the source decides by its own samples. *)
ReduceNothing(r) ==
  /\ pc[r] = "reduce" /\ todo[r] # {}
  /\ Issue(r, "reduce", IF r = Source THEN tracker[r][Present(r)] ELSE Zero)
  /\ pc' = [pc EXCEPT ![r] = "decide"]
  /\ UNCHANGED <<reapSetup, epoch, batch, todo, tracker, model, seen>>

(* Mutant: only the source takes part in the reduction. *)
ReduceOnSource(r) ==
  /\ pc[r] = "reduce" /\ todo[r] # {}
  /\ IF r = Source THEN Issue(r, "reduce", tracker[r][Present(r)])
     ELSE UNCHANGED sent
  /\ pc' = [pc EXCEPT ![r] = "decide"]
  /\ UNCHANGED <<reapSetup, epoch, batch, todo, tracker, model, seen>>

(* reduce_saliency_stats *)
Reduce(r) ==
  /\ pc[r] = "reduce" /\ todo[r] # {}
  /\ Issue(r, "reduce", tracker[r][Present(r)])
  /\ pc' = [pc EXCEPT ![r] = "decide"]
  /\ UNCHANGED <<reapSetup, epoch, batch, todo, tracker, model, seen>>

(* The sums of what the ranks have, by expert. *)
Total(t) ==
  [e \in Experts |-> [sum |-> MapThenSumSet(LAMBDA r : t[r][e].sum, Ranks),
                     count |-> MapThenSumSet(LAMBDA r : t[r][e].count, Ranks)]]

(* What arrives at the source: collectives are matched by their order.  Only the
   source has to wait for the others. *)
Reduced ==
  IF Distributed THEN Total([r \in Ranks |-> sent[r][Len(sent[Source])].data])
  ELSE tracker[Source][Present(Source)]

(* mean_saliency(a) <= mean_saliency(b), where a mean over nothing is 0 *)
LessSalient(t, a, b) ==
  t[a].sum * Max({1, t[b].count}) <= t[b].sum * Max({1, t[a].count})

(* D are n least salient experts of a set; ties may be decided in any way. *)
AreLowest(t, S, n, D) ==
  Cardinality(D) = n /\ \A d \in D, e \in S \ D : LessSalient(t, d, e)

Group(g) == g * GroupSize .. (g + 1) * GroupSize - 1

(* compute_retained_experts *)
MayDrop(t, D) ==
  IF router.nGroup = 0 THEN AreLowest(t, Experts, drop, D)
  ELSE \A g \in 0 .. router.nGroup - 1 :
         AreLowest(t, Group(g), dropInGroup, D \cap Group(g))

Below(S, e) == {f \in S : f < e}

(* The elements of a set of numbers in their order. *)
Sorted(S) ==
  [i \in 1 .. Cardinality(S) |-> CHOOSE e \in S : Cardinality(Below(S, e)) = i - 1]

Retained(t) == {Sorted(Experts \ D) : D \in {C \in SUBSET Experts : MayDrop(t, C)}}

Keep(seq, retained) == [i \in DOMAIN retained |-> seq[retained[i] + 1]]

(* prune_moe_layer, and what the modifier holds for the layer is freed *)
Prune(r, retained) ==
  LET l == Present(r) IN
  /\ experts' = [experts EXCEPT ![r][l] = Keep(@, retained)]
  /\ gate' = [gate EXCEPT ![r][l] = Keep(@, retained)]
  /\ tracker' = [tracker EXCEPT ![r] = Restrict(@, DOMAIN @ \ {l})]
  /\ todo' = [todo EXCEPT ![r] = @ \ {l}]
  /\ pc' = [pc EXCEPT ![r] = "reduce"]

(* The source waits for the reduction, decides and broadcasts. *)
Decide ==
  /\ pc[Source] = "decide"
  /\ \A r \in Ranks : Len(sent[r]) >= Len(sent[Source])
  /\ \E retained \in Retained(Reduced) :
       Issue(Source, "broadcast", retained) /\ Prune(Source, retained)
  /\ UNCHANGED <<reapSetup, epoch, batch, config, seen>>

(* The others wait for the broadcast. *)
Receive(r) ==
  LET n == Len(sent[r]) + 1 IN
  /\ r # Source /\ pc[r] = "decide"
  /\ Len(sent[Source]) >= n /\ sent[Source][n].kind = "broadcast"
  /\ Issue(r, "broadcast", <<>>)
  /\ Prune(r, sent[Source][n].data)
  /\ UNCHANGED <<reapSetup, epoch, batch, config, seen>>

EndEpoch(r) ==
  /\ pc[r] = "reduce" /\ todo[r] = {}
  /\ IF epoch[r] < Len(plan)
     THEN /\ epoch' = [epoch EXCEPT ![r] = @ + 1]
          /\ batch' = [batch EXCEPT ![r] = 0]
          /\ pc' = [pc EXCEPT ![r] = "calibrate"]
     ELSE /\ pc' = [pc EXCEPT ![r] = "finalize"]
          /\ UNCHANGED <<epoch, batch>>
  /\ UNCHANGED <<reapSetup, todo, tracker, model, sent, seen>>

(* on_finalize *)
Finalize(r) ==
  /\ pc[r] = "finalize"
  /\ config' = [config EXCEPT ![r] = NumExperts - drop]
  /\ tracker' = [tracker EXCEPT ![r] = <<>>]
  /\ pc' = [pc EXCEPT ![r] = "done"]
  /\ UNCHANGED <<reapSetup, epoch, batch, todo, experts, gate, sent, seen>>

RankStep(r) ==
  \/ RunBatch(r) \/ StartEpochEnd(r) \/ Reduce(r) \/ Receive(r)
  \/ EndEpoch(r) \/ Finalize(r)

ReapNext == Initialize \/ Decide \/ \E r \in Ranks : RankStep(r)

ReapSpec == /\ ReapInit /\ [][ReapNext]_reapVars
            /\ WF_reapVars(Initialize) /\ WF_reapVars(Decide)
            /\ \A r \in Ranks : WF_reapVars(RankStep(r))

-----------------------------------------------------------------------------
(* Properties *)

(* What all ranks have seen of a layer before it was pruned. *)
AllSeen(l) == Total([r \in Ranks |-> seen[r][l]])

(* A layer loses the experts that are least salient by the samples of all ranks,
   and the same ones on each rank, whenever a rank prunes it. *)
PrunedByAllSamples ==
  \A l \in Layers :
    LET pruned == {experts[r][l] : r \in Ranks} \ {Unpruned} IN
    /\ Cardinality(pruned) <= 1
    /\ \A kept \in pruned : MayDrop(AllSeen(l), Experts \ Range(kept))

(* The rows of a router belong to the experts in their places, and enough experts
   stay for its top k: its groups, which are slices of equal size, lose equally
   many. *)
RouterFitsExperts ==
  \A r \in Ranks : \A l \in Layers :
    LET kept == experts[r][l]
        size == Len(kept) \div router.nGroup
    IN /\ gate[r][l] = kept
       /\ pc[r] \notin {"initialize", "rejected"} =>
            IF router.nGroup = 0 THEN router.topK <= Len(kept)
            ELSE /\ router.topK <= router.topKGroup * size
                 /\ \A i \in DOMAIN kept :
                      (i - 1) \div size = kept[i] \div GroupSize

(* A model that is done has pruned each layer that its samples have reached, and
   its config has their number of experts. *)
ConfigFitsLayers ==
  \A r \in Ranks : pc[r] = "done" =>
    \A l \in names \cap UNION {plan[i] \cap reach[r] : i \in DOMAIN plan} :
      Len(experts[r][l]) = config[r] /\ config[r] < NumExperts

(* All ranks prune alike, by what all of them have seen, and what they make is a model. *)
PruningIsConsistent == PrunedByAllSamples /\ RouterFitsExperts /\ ConfigFitsLayers

(* No rank waits forever for the others, and either all of them prune or none. *)
RanksFinish ==
  <>(\/ \A r \in Ranks : pc[r] = "done"
     \/ \A r \in Ranks : pc[r] = "rejected")

=============================================================================
