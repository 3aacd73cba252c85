-------------------------- MODULE WeightCalibration --------------------------
(***************************************************************************)
(* Calibration of weights at the end of every sequential epoch, by the     *)
(* QuantizationModifier and the GPTQModifier, on one rank or on several    *)
(* (modifiers/quantization, modifiers/gptq, utils/dist.py), with the       *)
(* observers whose statistics a fused group shares (observers/fusion.py).  *)
(*                                                                         *)
(* Ranks see different data.  The weights of an epoch are divided among    *)
(* them, each rank works on its own, and collectives, which each rank      *)
(* issues without waiting and awaits at the end of a phase, bring the      *)
(* results together.                                                       *)
(***************************************************************************)
EXTENDS Naturals, Sequences, SequencesExt, FiniteSets

CONSTANTS
  Ranks,        \* processes that may take part
  Modules,      \* modules with a quantized weight
  FusedGroups,  \* groups of modules that share a global scale
  Schedules,    \* sequences of epochs, each a sequence of modules
  Coverages,    \* for each rank the modules its data reaches, in order
  Homes,        \* results of the bin packing
  None

ASSUME WeightAssumption ==
  /\ IsFiniteSet(Ranks) /\ Ranks # {}
  /\ \A G \in FusedGroups : G \subseteq Modules
  /\ \A G, H \in FusedGroups : G # H => G \cap H = {}
  /\ Schedules \subseteq Seq(Seq(Modules))
  /\ Coverages \subseteq [Ranks -> Seq(Modules)]
  /\ Homes \subseteq [Modules -> Ranks]
  /\ \A S \in SUBSET Ranks : None # S

(* What the theorems about calibration assume of schedules and data.  A module belongs to
   one subgraph, so to one epoch; and the data of all ranks reaches the same modules in the
   same order, as in a dense model or when all experts are calibrated. *)
SchedulesAreSound ==
  \A s \in Schedules :
    /\ s # <<>>
    /\ \A m \in Modules : \E e \in DOMAIN s : m \in ToSet(s[e])
    /\ \A d, e \in DOMAIN s : d # e => ToSet(s[d]) \cap ToSet(s[e]) = {}

DataIsBalanced == \A c \in Coverages : \A r, q \in Ranks : c[r] = c[q]

VARIABLES
  ranks,        \* the processes that do
  modifier,     \* "quantization" or "gptq"
  schedule,
  coverage,
  home,         \* module_to_rank
  pc,           \* where a rank is in its epoch
  epoch,        \* the epoch of a rank
  weight,       \* {}, or the ranks whose data a compressed weight is based on
  stats,        \* statistics of the weight observer: None or the observed weight
  deletion,     \* _deletion_called
  scale,        \* scale and zero point: None or the statistics they are from
  globalScale,  \* None or the statistics of the group it is from
  hessian,      \* ranks whose data is in the Hessian; {} for no entry
  act,          \* ranks whose data is in the activation statistics
  actScale,     \* ranks whose data the activation scales are from
  sent          \* collectives of a rank, in order

setup == <<ranks, modifier, schedule, coverage, home>>
weightVars == <<setup, pc, epoch, weight, stats, deletion, scale, globalScale,
                hessian, act, actScale, sent>>

-----------------------------------------------------------------------------

Distributed == Cardinality(ranks) > 1

(* The elements of a list that are in S, in their order. *)
Select(list, S) ==
  LET chosen[i \in 0 .. Len(list)] ==
        IF i = 0 THEN <<>>
        ELSE IF list[i] \in S THEN Append(chosen[i - 1], list[i]) ELSE chosen[i - 1]
  IN chosen[Len(list)]

(* Modules of the epoch, and those of them whose hooks have run. *)
Epoch(r) == schedule[epoch[r]]
Reached(r) == Select(coverage[r], ToSet(Epoch(r)))

Group(m) == {m} \cup UNION {G \in FusedGroups : m \in G}

(* What the ranks divide: the keys of _hessians, or the modules of the epoch. *)
Divided(r) == IF modifier = "gptq" THEN Reached(r) ELSE Epoch(r)
Own(r) ==
  Select(IF modifier = "gptq" THEN coverage[r] ELSE Epoch(r),
         {m \in ToSet(Epoch(r)) : ~Distributed \/ home[m] = r})

WeightInit ==
  /\ ranks \in (SUBSET Ranks) \ {{}}
  /\ modifier \in {"quantization", "gptq"}
  /\ schedule \in Schedules /\ coverage \in Coverages
  /\ home \in {h \in Homes : \A m \in Modules : h[m] \in ranks}
  /\ pc = [r \in Ranks |-> IF r \in ranks THEN "forward" ELSE "done"]
  /\ epoch = [r \in Ranks |-> 1]
  /\ weight = [r \in Ranks |-> [m \in Modules |-> {}]]
  /\ stats = [r \in Ranks |-> [m \in Modules |-> None]]
  /\ deletion = [r \in Ranks |-> [m \in Modules |-> FALSE]]
  /\ scale = [r \in Ranks |-> [m \in Modules |-> None]]
  /\ globalScale = [r \in Ranks |-> [m \in Modules |-> None]]
  /\ hessian = [r \in Ranks |-> [m \in Modules |-> {}]]
  /\ act = [r \in Ranks |-> [m \in Modules |-> {}]]
  /\ actScale = [r \in Ranks |-> [m \in Modules |-> {}]]
  /\ sent = [r \in Ranks |-> <<>>]

-----------------------------------------------------------------------------
(* Observers *)

(* Mutant: the fused observers look at their weights, the observed one does not. *)
ObservedByOthers(r, S) ==
  [m \in Modules |->
     IF stats[r][m] = None /\ Group(m) \cap (S \ {m}) # {} THEN weight[r][m]
     ELSE stats[r][m]]

(* observe: an observer with statistics keeps them, and the observers fused
   with the observed one look at their weights, too. *)
Observed(r, S) ==
  [m \in Modules |->
     IF stats[r][m] = None /\ Group(m) \cap S # {} THEN weight[r][m] ELSE stats[r][m]]

(* Mutant: an observer deletes its statistics without asking the others. *)
DeleteStatisticsAtOnce(obs, m) == [obs EXCEPT !.stats[m] = None]

(* maybe_delete_statistics: the last observer of a group to ask deletes the
   statistics of all. *)
DeleteStatistics(obs, m) ==
  IF \A k \in Group(m) \ {m} : obs.deletion[k]
  THEN [obs EXCEPT
          !.stats = [k \in Modules |-> IF k \in Group(m) THEN None ELSE @[k]],
          !.deletion = [k \in Modules |-> @[k] /\ k \notin Group(m)]]
  ELSE [obs EXCEPT !.deletion[m] = TRUE]

Statistics(r, obs, m) == obs.stats[m]

(* get_qparams *)
Quantized(r, obs, m) ==
  [DeleteStatistics(obs, m) EXCEPT
     !.scale[m] = Statistics(r, obs, m),
     !.globalScale[m] = IF m \in UNION FusedGroups
                        THEN [k \in Group(m) |-> Statistics(r, obs, k)] ELSE None]

Observers(r) == [stats |-> stats[r], deletion |-> deletion[r],
                 scale |-> scale[r], globalScale |-> globalScale[r]]

(* update_qparams and the cleanup of a module; an observer without statistics is skipped. *)
Update(r, obs, m) == IF obs.stats[m] = None THEN obs ELSE Quantized(r, obs, m)
Delete(obs, m) == IF obs.stats[m] = None THEN obs ELSE DeleteStatistics(obs, m)

(* The same for a list of modules, in order. *)
UpdateParameters(r, list) ==
  LET updated[i \in 0 .. Len(list)] ==
        IF i = 0 THEN Observers(r) ELSE Update(r, updated[i - 1], list[i])
  IN updated[Len(list)]

DeleteAll(r, list) ==
  LET deleted[i \in 0 .. Len(list)] ==
        IF i = 0 THEN Observers(r) ELSE Delete(deleted[i - 1], list[i])
  IN deleted[Len(list)]

SetObservers(r, obs) ==
  /\ stats' = [stats EXCEPT ![r] = obs.stats]
  /\ deletion' = [deletion EXCEPT ![r] = obs.deletion]
  /\ scale' = [scale EXCEPT ![r] = obs.scale]
  /\ globalScale' = [globalScale EXCEPT ![r] = obs.globalScale]

-----------------------------------------------------------------------------
(* Collectives *)

Collective(kind, m, root, data) ==
  [kind |-> kind, module |-> m, root |-> root, data |-> data]

Issue(r, ops) == sent' = [sent EXCEPT ![r] = @ \o ops]

(* The i-th collective of a rank is complete for it when the ranks it receives
   data from have issued theirs. *)
Complete(r, i) ==
  LET op == sent[r][i] IN
  CASE op.kind = "all_reduce" -> \A q \in ranks : Len(sent[q]) >= i
    [] op.kind = "reduce" -> r = op.root => \A q \in ranks : Len(sent[q]) >= i
    [] op.kind = "broadcast" -> Len(sent[op.root]) >= i

(* wait_for_comms *)
AllComplete(r) == \A i \in DOMAIN sent[r] : Complete(r, i)

(* The position of the last collective of a kind on a module, 0 if none. *)
Position(r, kind, m) ==
  Max({0} \cup {i \in DOMAIN sent[r] : /\ sent[r][i].kind = kind
                                       /\ sent[r][i].module = m})

Contributions(i) ==
  UNION {sent[q][i].data : q \in {p \in ranks : i \in DOMAIN sent[p]}}

-----------------------------------------------------------------------------
(* The end of an epoch on rank r *)

(* The calibrating pass: the hooks of GPTQ and of the observers. *)
Forward(r) ==
  /\ pc[r] = "forward"
  /\ LET reached == ToSet(Reached(r)) IN
     /\ hessian' = [hessian EXCEPT ![r] = [m \in Modules |->
          IF modifier = "gptq" /\ m \in reached THEN {r} ELSE @[m]]]
     /\ act' = [act EXCEPT ![r] = [m \in Modules |-> IF m \in reached THEN {r} ELSE @[m]]]
  /\ pc' = [pc EXCEPT ![r] = "sync"]
  /\ UNCHANGED <<setup, epoch, weight, stats, deletion, scale, globalScale,
                 actScale, sent>>

(* sync_obs_act_stats; GPTQ observes the weights before it. *)
SyncActivations(r) ==
  /\ pc[r] = "sync"
  /\ stats' = IF modifier = "gptq"
              THEN [stats EXCEPT ![r] = Observed(r, ToSet(Epoch(r)))] ELSE stats
  /\ Issue(r, IF ~Distributed THEN <<>>
              ELSE LET S == Select(Epoch(r), {m \in Modules : act[r][m] # {}})
                   IN [i \in DOMAIN S |->
                         Collective("all_reduce", S[i], None, act[r][S[i]])])
  /\ pc' = [pc EXCEPT ![r] = "activations"]
  /\ UNCHANGED <<setup, epoch, weight, deletion, scale, globalScale, hessian,
                 act, actScale>>

(* update_qparams of the activations, from the synced statistics. *)
UpdateActivations(r) ==
  /\ pc[r] = "activations"
  /\ AllComplete(r)
  /\ actScale' = [actScale EXCEPT ![r] = [m \in Modules |->
       IF act[r][m] = {} THEN @[m]
       ELSE IF Distributed THEN Contributions(Position(r, "all_reduce", m))
       ELSE act[r][m]]]
  /\ act' = [act EXCEPT ![r] = [m \in Modules |-> {}]]
  /\ pc' = [pc EXCEPT ![r] = IF modifier = "gptq" THEN "reduce" ELSE "observe"]
  /\ UNCHANGED <<setup, epoch, weight, stats, deletion, scale, globalScale,
                 hessian, sent>>

(* QuantizationModifier: each rank observes the weights it is assigned. *)
ObserveOwn(r) ==
  /\ pc[r] = "observe"
  /\ stats' = [stats EXCEPT ![r] = Observed(r, ToSet(Own(r)))]
  /\ pc' = [pc EXCEPT ![r] = "compress"]
  /\ UNCHANGED <<setup, epoch, weight, deletion, scale, globalScale, hessian,
                 act, actScale, sent>>

(* The entries of the modules that another rank compresses. *)
Sent(r) == {m \in ToSet(Reached(r)) : home[m] # r}

(* Mutant: a rank takes part in the reductions it sends data to only. *)
ReducedBy(r) == Select(Reached(r), {m \in Modules : home[m] # r})

ReducedModules(r) == Reached(r)

(* _reduce_hessian_to_target_rank *)
ReduceHessians(r) ==
  /\ pc[r] = "reduce"
  /\ IF Distributed
     THEN LET S == ReducedModules(r) away == Sent(r) IN
          /\ Issue(r, [i \in DOMAIN S |->
               Collective("reduce", S[i], home[S[i]], hessian[r][S[i]])])
          /\ hessian' = [hessian EXCEPT ![r] = [m \in Modules |->
               IF m \in away THEN {} ELSE @[m]]]
     ELSE UNCHANGED <<hessian, sent>>
  /\ pc' = [pc EXCEPT ![r] = "compress"]
  /\ UNCHANGED <<setup, epoch, weight, stats, deletion, scale, globalScale, act,
                 actScale>>

Reduced(r, m) ==
  IF Distributed THEN Contributions(Position(r, "reduce", m)) ELSE hessian[r][m]

(* get_qparams and, for GPTQ, quantize_weight, of the weights of the rank.  GPTQ
   raises without statistics and the rank stops. *)
CompressOwn(r) ==
  /\ pc[r] = "compress"
  /\ AllComplete(r)
  /\ LET own == ToSet(Own(r)) IN
     /\ modifier = "gptq" => \A m \in own : stats[r][m] # None
     /\ weight' = [weight EXCEPT ![r] = [m \in Modules |->
          IF modifier = "gptq" /\ m \in own THEN Reduced(r, m) ELSE @[m]]]
     /\ hessian' = [hessian EXCEPT ![r] = [m \in Modules |-> IF m \in own THEN {} ELSE @[m]]]
  /\ \E obs \in {UpdateParameters(r, Own(r))} : SetObservers(r, obs)
  /\ pc' = [pc EXCEPT ![r] = "broadcast"]
  /\ UNCHANGED <<setup, epoch, act, actScale, sent>>

Parameters(r, m) == [weight |-> weight[r][m], scale |-> scale[r][m],
                     globalScale |-> globalScale[r][m]]

(* Mutant: only statistics of the rank's own modules are cleaned up. *)
CleanUpOwn(r) == DeleteAll(r, Own(r))

CleanUp(r) == DeleteAll(r, Divided(r))

(* broadcast_qparams_and_cleanup, of modules that run on an accelerator: those that run on
   the CPU are cleaned up, but skipped by the broadcasts (skip_cpu), on every rank. *)
BroadcastParameters(r) ==
  /\ pc[r] = "broadcast"
  /\ IF Distributed
     THEN LET S == Divided(r) IN
          /\ Issue(r, [i \in DOMAIN S |->
               Collective("broadcast", S[i], home[S[i]], Parameters(r, S[i]))])
          /\ \E obs \in {CleanUp(r)} : SetObservers(r, obs)
     ELSE UNCHANGED <<sent, stats, deletion, scale, globalScale>>
  /\ pc' = [pc EXCEPT ![r] = "receive"]
  /\ UNCHANGED <<setup, epoch, weight, hessian, act, actScale>>

Received(r, m) ==
  IF Distributed /\ m \in ToSet(Divided(r))
  THEN sent[home[m]][Position(r, "broadcast", m)].data ELSE Parameters(r, m)

NextEpoch(r) == IF epoch[r] < Len(schedule) THEN epoch[r] + 1 ELSE epoch[r]

(* GPTQ does not broadcast the global scale. *)
ReceiveParameters(r) ==
  /\ pc[r] = "receive"
  /\ AllComplete(r)
  /\ LET received == [m \in Modules |-> Received(r, m)] IN
     /\ weight' = [weight EXCEPT ![r] = [m \in Modules |-> received[m].weight]]
     /\ scale' = [scale EXCEPT ![r] = [m \in Modules |-> received[m].scale]]
     /\ globalScale' = IF modifier = "gptq" THEN globalScale
          ELSE [globalScale EXCEPT ![r] = [m \in Modules |-> received[m].globalScale]]
  /\ pc' = [pc EXCEPT ![r] = IF epoch[r] < Len(schedule) THEN "forward" ELSE "done"]
  /\ epoch' = [epoch EXCEPT ![r] = NextEpoch(r)]
  /\ UNCHANGED <<setup, stats, deletion, hessian, act, actScale, sent>>

Step(r) ==
  \/ Forward(r)
  \/ SyncActivations(r) \/ UpdateActivations(r)
  \/ ObserveOwn(r) \/ ReduceHessians(r) \/ CompressOwn(r)
  \/ BroadcastParameters(r) \/ ReceiveParameters(r)

WeightNext == \E r \in ranks : Step(r)

(* Every process runs until it has to wait for another. *)
WeightSpec ==
  /\ WeightInit /\ [][WeightNext]_weightVars
  /\ \A r \in Ranks : WF_weightVars(r \in ranks /\ Step(r))

-----------------------------------------------------------------------------
(* Properties *)

(* All ranks issue the same collectives in the same order, so none waits for a
   call that another never makes or receives data meant for another module. *)
CollectivesMatch ==
  \A r, q \in ranks : \A i \in DOMAIN sent[r] \cap DOMAIN sent[q] :
    LET a == sent[r][i] b == sent[q][i] IN
    a.kind = b.kind /\ a.module = b.module /\ a.root = b.root

(* Between epochs, which is when ranks compare. *)
Settled == \A r, q \in ranks : /\ pc[r] \in {"forward", "done"}
                               /\ epoch[r] = epoch[q] /\ pc[r] = pc[q]

(* At the end of an epoch all ranks hold the same weights and scales. *)
RanksAgree ==
  Settled => \A r, q \in ranks :
    /\ weight[r] = weight[q] /\ scale[r] = scale[q] /\ actScale[r] = actScale[q]
    /\ modifier = "quantization" => globalScale[r] = globalScale[q]

(* The ranks stay together: they issue the same collectives and hold the same model. *)
RanksStayTogether == CollectivesMatch /\ RanksAgree

(* The same for the global scales of every modifier. *)
RanksShareGlobalScale ==
  Settled => \A r, q \in ranks : globalScale[r] = globalScale[q]

(* A compressed weight and an activation scale are based on the data of all
   ranks that saw the module. *)
AllDataIsUsed ==
  \A r \in Ranks, m \in Modules :
    LET reaching == {q \in ranks : m \in ToSet(coverage[q])} IN
    weight[r][m] \in {{}, reaching} /\ actScale[r][m] \in {{}, reaching}

(* The members of a fused group have one global scale, even when they are
   compressed in different epochs, by different ranks, in between of which the
   weights of the others change. *)
FusedShareScale ==
  \A G \in FusedGroups : \A m, k \in G :
    LET a == globalScale[home[m]][m] b == globalScale[home[k]][k] IN
    a # None /\ b # None => a = b

(* No scale is computed from a weight that is quantized already. *)
ScalesAreOriginal ==
  \A r \in Ranks, m \in Modules :
    /\ scale[r][m] \in {None, {}}
    /\ globalScale[r][m] # None => \A k \in Group(m) : globalScale[r][m][k] = {}

(* The scales of a group agree, and are those of the original weights. *)
ScalesAreConsistent == FusedShareScale /\ ScalesAreOriginal

(* When a rank is done it keeps no statistics of a group it has compressed. *)
NoneLeft(r, m) == pc[r] = "done" => stats[r][m] = None /\ ~deletion[r][m]

(* Statistics of weights do not outlive the last epoch of their group.  A group
   of the QuantizationModifier has to be in one epoch for that. *)
StatisticsAreFreed ==
  \A r \in Ranks, m \in Modules :
    \/ modifier = "gptq" /\ Group(m) \subseteq ToSet(coverage[r])
    \/ modifier = "quantization"
       /\ (Distributed => \E e \in DOMAIN schedule : Group(m) \subseteq ToSet(schedule[e]))
    => NoneLeft(r, m)

(* Every Hessian has been used when the modifier is finalized, which would raise
   otherwise. *)
HessiansAreUsed ==
  \A r \in Ranks : pc[r] = "done" => \A m \in Modules : hessian[r][m] = {}

(* Calibration leaves neither statistics nor Hessians behind. *)
NothingIsLeft == StatisticsAreFreed /\ HessiansAreUsed

(* What the data of the ranks has gone into is used, and used up. *)
DataIsUsedUp == AllDataIsUsed /\ NothingIsLeft

(* No rank waits forever. *)
AllRanksFinish == <>(\A r \in Ranks : pc[r] = "done")
=============================================================================
