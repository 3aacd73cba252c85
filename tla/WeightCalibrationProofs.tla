------------------------ MODULE WeightCalibrationProofs ------------------------
(***************************************************************************)
(* The calibration of weights on ranks: ranks stay together, scales are    *)
(* consistent and data is used up.                                         *)
(*                                                                         *)
(* The inductive invariant has two parts.  RanksInv says of each rank that *)
(* what it holds of a module is determined by the stage the rank is in and *)
(* the modules it has finished: nothing depends on how fast other ranks    *)
(* are.  PlanInv says that there is one plan of collectives, the same for  *)
(* all ranks, of which each rank has issued the part up to its stage.  So  *)
(* the collectives of two ranks match as far as both have come, and what a *)
(* rank receives from another one is what that rank has by then.           *)
(*                                                                         *)
(* The statistics of a fused group are the delicate part: a rank deletes   *)
(* them when all members have asked, so StatisticsAreSound and the rest of *)
(* ObserversInv say when they are still there for a member to use.         *)
(***************************************************************************)
EXTENDS WeightCalibration, Inductions, TLAPS

(* The modules of an epoch, those that data reaches, those that are divided among the ranks
   and the share of one. *)
EpochSet(e) == ToSet(schedule[e])
ReachedIn(r, e) == EpochSet(e) \cap ToSet(coverage[r])
DividedIn(r, e) == IF modifier = "gptq" THEN ReachedIn(r, e) ELSE EpochSet(e)
OwnIn(r, e) == {m \in DividedIn(r, e) : ~Distributed \/ home[m] = r}

(* The epochs a rank has completed. *)
Past(r) == {e \in DOMAIN schedule : e < epoch[r] \/ pc[r] = "done"}

(* Modules for which a rank has the final parameters, those whose observers have asked to
   delete their statistics, those whose observers have looked at them, and those with scales
   of activations. *)
Finished(r) ==
  (UNION {DividedIn(r, e) : e \in Past(r)})
    \cup IF pc[r] \in {"broadcast", "receive"} THEN OwnIn(r, epoch[r]) ELSE {}
Asked(r) ==
  (UNION {DividedIn(r, e) : e \in Past(r)})
    \cup IF pc[r] = "broadcast" THEN OwnIn(r, epoch[r])
         ELSE IF pc[r] = "receive" THEN DividedIn(r, epoch[r]) ELSE {}
HasObserved(r) ==
  \/ pc[r] \in {"compress", "broadcast", "receive"}
  \/ modifier = "gptq" /\ pc[r] \in {"activations", "reduce"}
Seen(r) ==
  (UNION {EpochSet(e) : e \in Past(r)}) \cup IF HasObserved(r) THEN EpochSet(epoch[r]) ELSE {}
Scaled(r) ==
  (UNION {ReachedIn(r, e) : e \in Past(r)})
    \cup IF pc[r] \in {"observe", "reduce", "compress", "broadcast", "receive"}
         THEN ReachedIn(r, epoch[r]) ELSE {}

Originals == {None, {}}
OriginalGroup(m) == [j \in Group(m) |-> {}]
GlobalScales == {None} \cup UNION {[Group(m) -> Originals] : m \in Modules}

(* The parameters of a module that is finished. *)
FinalWeight == IF modifier = "gptq" THEN ranks ELSE {}
FinalGlobalScale(m) == IF m \in UNION FusedGroups THEN OriginalGroup(m) ELSE None

Kinds == {"all_reduce", "reduce", "broadcast"}
Bundles == [weight : SUBSET Ranks, scale : Originals, globalScale : GlobalScales]
Collectives ==
  [kind : Kinds, module : Modules, root : Ranks \cup {None}, data : (SUBSET Ranks) \cup Bundles]

(* What rank q brings into a collective. *)
CarriesData(q, op) ==
  /\ op.kind \in {"all_reduce", "reduce"} => op.data = {q}
  /\ op.kind \in {"reduce", "broadcast"} => op.root = home[op.module]
  /\ op.kind = "broadcast" /\ op.root = q =>
       /\ op.data.weight = FinalWeight /\ op.data.scale = {}
       /\ modifier = "quantization" => op.data.globalScale = FinalGlobalScale(op.module)

WeightTypes ==
  /\ ranks \in (SUBSET Ranks) \ {{}} /\ modifier \in {"quantization", "gptq"}
  /\ schedule \in Schedules /\ coverage \in Coverages
  /\ home \in [Modules -> ranks]
  /\ pc \in [Ranks -> {"forward", "sync", "activations", "observe", "reduce", "compress",
                       "broadcast", "receive", "done"}]
  /\ epoch \in [Ranks -> Nat]
  /\ weight \in [Ranks -> [Modules -> SUBSET Ranks]]
  /\ stats \in [Ranks -> [Modules -> Originals]]
  /\ deletion \in [Ranks -> [Modules -> BOOLEAN]]
  /\ scale \in [Ranks -> [Modules -> Originals]]
  /\ globalScale \in [Ranks -> [Modules -> GlobalScales]]
  /\ hessian \in [Ranks -> [Modules -> SUBSET Ranks]]
  /\ act \in [Ranks -> [Modules -> SUBSET Ranks]]
  /\ actScale \in [Ranks -> [Modules -> SUBSET Ranks]]
  /\ sent \in [Ranks -> Seq(Collectives)]

IdleInv(r) ==
  /\ pc[r] = "done"
  /\ \A m \in Modules :
       /\ weight[r][m] = {} /\ actScale[r][m] = {} /\ hessian[r][m] = {}
       /\ stats[r][m] = None /\ ~deletion[r][m]
       /\ scale[r][m] = None /\ globalScale[r][m] = None

PlaceInv(r) ==
  /\ epoch[r] \in DOMAIN schedule
  /\ pc[r] = "done" => epoch[r] = Len(schedule)
  /\ pc[r] = "reduce" => modifier = "gptq"
  /\ pc[r] = "observe" => modifier = "quantization"

ParametersInv(r) ==
  \A m \in Modules :
    /\ weight[r][m] = IF m \in Finished(r) THEN FinalWeight ELSE {}
    /\ scale[r][m] = IF m \in Finished(r) THEN {} ELSE None
    /\ globalScale[r][m] \in {None, OriginalGroup(m)}
    /\ modifier = "quantization" =>
         globalScale[r][m] = IF m \in Finished(r) THEN FinalGlobalScale(m) ELSE None

DataInv(r) ==
  \A m \in Modules :
    /\ actScale[r][m] = IF m \in Scaled(r) THEN ranks ELSE {}
    /\ act[r][m] = IF pc[r] \in {"sync", "activations"} /\ m \in ReachedIn(r, epoch[r])
                   THEN {r} ELSE {}
    /\ hessian[r][m] = IF modifier = "gptq" /\ m \in ReachedIn(r, epoch[r])
                          /\ (\/ pc[r] \in {"sync", "activations", "reduce"}
                              \/ pc[r] = "compress" /\ m \in OwnIn(r, epoch[r]))
                       THEN {r} ELSE {}

(* The statistics obs of the observers after those of the modules in asked have asked to
   delete them: members of a group have them together, and until all of them have asked. *)
StatisticsAreSound(obs, asked) ==
  \A m \in Modules :
    /\ \A j \in Group(m) : obs.stats[j] = obs.stats[m]
    /\ obs.stats[m] = None => ~obs.deletion[m]
    /\ obs.deletion[m] => m \in asked
    /\ obs.stats[m] # None => \E j \in Group(m) : ~obs.deletion[j]

InOrder == modifier = "gptq" \/ ~Distributed

(* A group that is observed by one rank, or in one epoch. *)
IsWhole(m) == InOrder \/ \E e \in DOMAIN schedule : Group(m) \subseteq EpochSet(e)

ObserversInv(r) ==
  /\ StatisticsAreSound(Observers(r), Asked(r))
  /\ InOrder => \A m \in Modules :
       Group(m) \cap Seen(r) # {} /\ ~(Group(m) \subseteq Asked(r)) => stats[r][m] # None
  /\ \A m \in Modules :
       IsWhole(m) /\ m \in Asked(r) /\ stats[r][m] # None => deletion[r][m]
  /\ pc[r] = "compress" => \A m \in OwnIn(r, epoch[r]) : stats[r][m] # None

RankInv(r) ==
  /\ PlaceInv(r) /\ ParametersInv(r) /\ DataInv(r) /\ ObserversInv(r)
  /\ \A i \in DOMAIN sent[r] : CarriesData(r, sent[r][i])

RanksInv ==
  /\ WeightTypes
  /\ \A r \in ranks : RankInv(r)
  /\ \A r \in Ranks \ ranks : IdleInv(r)

-----------------------------------------------------------------------------
(* Lists and groups of modules *)

LEMMA AppendedSet ==
  ASSUME NEW M, NEW s \in Seq(M), NEW x \in M
  PROVE  Append(s, x) \in Seq(M) /\ ToSet(Append(s, x)) = ToSet(s) \cup {x}
<1> DEFINE t == Append(s, x)
<1>1. /\ t \in Seq(M) /\ Len(s) \in Nat /\ Len(t) = Len(s) + 1 /\ t[Len(s) + 1] = x
      /\ \A i \in 1 .. Len(s) : t[i] = s[i]
      /\ DOMAIN s = 1 .. Len(s) /\ DOMAIN t = 1 .. Len(t)
  OBVIOUS
<1> HIDE DEF t
<1>2. ASSUME NEW i \in 1 .. Len(t) PROVE t[i] \in ToSet(s) \cup {x}
  <2>1. i \in 1 .. Len(s) \/ i = Len(s) + 1
    BY <1>1
  <2> QED
    BY <1>1, <2>1 DEF ToSet
<1>3. ASSUME NEW i \in 1 .. Len(s) PROVE s[i] \in ToSet(t)
  <2>1. i \in 1 .. Len(t) /\ t[i] = s[i]
    BY <1>1
  <2> QED
    BY <1>1, <2>1 DEF ToSet
<1>4. x \in ToSet(t)
  <2>1. Len(s) + 1 \in 1 .. Len(t)
    BY <1>1
  <2> QED
    BY <1>1, <2>1 DEF ToSet
<1>5. ToSet(t) = ToSet(s) \cup {x}
  BY <1>1, <1>2, <1>3, <1>4 DEF ToSet
<1> QED
  BY <1>1, <1>5 DEF t

(* Select keeps the elements in S. *)
LEMMA SelectFacts ==
  ASSUME NEW M, NEW s \in Seq(M), NEW S
  PROVE  /\ Select(s, S) \in Seq(M)
         /\ ToSet(Select(s, S)) = ToSet(s) \cap S
<1> DEFINE n == Len(s)
           D(f) == [i \in 0 .. n |-> IF i = 0 THEN <<>>
                      ELSE IF s[i] \in S THEN Append(f[i - 1], s[i]) ELSE f[i - 1]]
           h == CHOOSE f : f = D(f)
           step == [p \in (1 .. n) \X Seq(M) |-> IF s[p[1]] \in S
                                               THEN Append(p[2], s[p[1]]) ELSE p[2]]
<1>1. n \in Nat /\ <<>> \in Seq(M) /\ \A i \in 1 .. n : s[i] \in M
  OBVIOUS
<1>2. Select(s, S) = h[n]
  BY DEF Select
<1>3. step \in [(1 .. n) \X Seq(M) -> Seq(M)]
  <2> HIDE DEF n
  <2> QED
    BY <1>1
<1>4. \E f : f = D(f)
  <2> HIDE DEF n
  <2>1. \A i \in 1 .. n : \A l \in Seq(M) : step[<<i, l>>]
        = IF s[i] \in S THEN Append(l, s[i]) ELSE l
    OBVIOUS
  <2> HIDE DEF step
  <2>2. PICK f : f \in [0 .. n -> Seq(M)] /\ f[0] = <<>>
             /\ \A i \in 1 .. n : f[i] = step[<<i, f[i - 1]>>]
    <3>1. \E f : IsRecursiveUpTo(n, f, Seq(M), <<>>, step)
      BY <1>1, <1>3, BoundedRecursion
    <3> QED
      BY <3>1 DEF IsRecursiveUpTo
  <2>3. ASSUME NEW i \in 0 .. n
        PROVE  f[i] = IF i = 0 THEN <<>> ELSE IF s[i] \in S THEN Append(f[i - 1], s[i])
               ELSE f[i - 1]
    <3>1. CASE i = 0
      BY <2>2, <3>1
    <3>2. CASE i # 0
      <4>1. i \in 1 .. n /\ i - 1 \in 0 .. n
        BY <1>1, <3>2
      <4> QED
        BY <2>1, <2>2, <3>2, <4>1
    <3> QED
      BY <3>1, <3>2
  <2>4. f = D(f)
    BY <2>2, <2>3
  <2> QED
    BY <2>4
<1>5. h = D(h)
  <2> HIDE DEF D
  <2> QED
    BY <1>4, Zenon
<1> HIDE DEF h, n, step
<1>6. \A i \in 0 .. n : h[i] = IF i = 0 THEN <<>>
                              ELSE IF s[i] \in S THEN Append(h[i - 1], s[i]) ELSE h[i - 1]
  <2> DEFINE d == D(h)
  <2>1. \A i \in 0 .. n : d[i] = IF i = 0 THEN <<>>
                               ELSE IF s[i] \in S THEN Append(h[i - 1], s[i]) ELSE h[i - 1]
    OBVIOUS
  <2>2. h = d
    BY <1>5
  <2> HIDE DEF d
  <2> QED
    BY <2>1, <2>2
<1>7. h[0] = <<>> /\ \A i \in 1 .. n : h[i] = IF s[i] \in S THEN Append(h[i - 1], s[i])
      ELSE h[i - 1]
  BY <1>1, <1>6
<1> HIDE DEF D
<1> DEFINE T == {k \in Nat : k <= n => h[k] \in Seq(M)
                /\ ToSet(h[k]) = {s[j] : j \in 1 .. k} \cap S}
<1>8. 0 \in T
  <2>1. ToSet(<<>>) = {}
    BY DEF ToSet
  <2>2. {s[j] : j \in 1 .. 0} = {}
    OBVIOUS
  <2>3. h[0] \in Seq(M) /\ ToSet(h[0]) = {s[j] : j \in 1 .. 0} \cap S
    BY <1>1, <1>7, <2>1, <2>2
  <2> QED
    BY <2>3
<1>9. ASSUME NEW k \in Nat, k \in T PROVE k + 1 \in T
  <2> SUFFICES ASSUME k + 1 <= n
               PROVE  h[k + 1] \in Seq(M) /\ ToSet(h[k + 1]) = {s[j] : j \in 1 .. k + 1} \cap S
    OBVIOUS
  <2>1. h[k] \in Seq(M) /\ ToSet(h[k]) = {s[j] : j \in 1 .. k} \cap S /\ s[k + 1] \in M
        /\ k + 1 \in 1 .. n
    BY <1>1, <1>9
  <2>2. h[k + 1] = IF s[k + 1] \in S THEN Append(h[k], s[k + 1]) ELSE h[k]
    <3>1. (k + 1) - 1 = k
      OBVIOUS
    <3> QED
      BY <1>7, <2>1, <3>1
  <2>3. {s[j] : j \in 1 .. k + 1} = {s[j] : j \in 1 .. k} \cup {s[k + 1]}
    <3>1. 1 .. k + 1 = (1 .. k) \cup {k + 1}
      OBVIOUS
    <3> QED
      BY <3>1
  <2> HIDE DEF T
  <2>4. CASE s[k + 1] \in S
    <3>1. h[k + 1] = Append(h[k], s[k + 1])
      BY <2>2, <2>4
    <3>2. Append(h[k], s[k + 1]) \in Seq(M)
          /\ ToSet(Append(h[k], s[k + 1])) = ToSet(h[k]) \cup {s[k + 1]}
      BY <2>1, AppendedSet
    <3> QED
      BY <2>1, <2>3, <2>4, <3>1, <3>2
  <2>5. CASE s[k + 1] \notin S
    <3>1. h[k + 1] = h[k]
      BY <2>2, <2>5
    <3> QED
      BY <2>1, <2>3, <2>5, <3>1
  <2> QED
    BY <2>4, <2>5
<1>10. \A k \in Nat : k \in T
  <2> HIDE DEF T
  <2> QED
    BY <1>8, <1>9, NumberInduction
<1>11. h[n] \in Seq(M) /\ ToSet(h[n]) = {s[j] : j \in 1 .. n} \cap S
  BY <1>1, <1>10
<1>12. ToSet(s) = {s[j] : j \in 1 .. n}
  BY DEF ToSet, n
<1> QED
  BY <1>2, <1>11, <1>12

(* Groups are disjoint: a module is in its own, which is that of each of its members. *)
LEMMA GroupFacts ==
  ASSUME NEW m \in Modules
  PROVE  m \in Group(m) /\ Group(m) \subseteq Modules /\ \A j \in Group(m) : Group(j) = Group(m)
<1>1. m \in Group(m) /\ Group(m) \subseteq Modules
  BY WeightAssumption DEF Group
<1>2. ASSUME NEW j \in Group(m) PROVE Group(j) = Group(m)
  <2>1. CASE j = m
    BY <2>1
  <2>2. CASE j # m
    <3>1. PICK G \in FusedGroups : m \in G /\ j \in G
      BY <1>2, <2>2 DEF Group
    <3>2. \A H \in FusedGroups : (m \in H \/ j \in H) => H = G
      BY <3>1, WeightAssumption
    <3>3. Group(m) = G /\ Group(j) = G
      BY <3>1, <3>2 DEF Group
    <3> QED
      BY <3>3
  <2> QED
    BY <2>1, <2>2
<1> QED
  BY <1>1, <1>2

-----------------------------------------------------------------------------
(* The statistics of the observers of a rank *)

ObserverStates ==
  [stats : [Modules -> Originals], deletion : [Modules -> BOOLEAN],
   scale : [Modules -> Originals], globalScale : [Modules -> GlobalScales]]

(* The observers after those of the modules in A have asked, too. *)
Follows(old, obs, B, A) ==
  /\ StatisticsAreSound(obs, B \cup A)
  /\ \A m \in Modules :
       /\ old.stats[m] = None => obs.stats[m] = None
       /\ old.stats[m] # None /\ ~(Group(m) \subseteq B \cup A) => obs.stats[m] # None
       /\ obs.stats[m] # None /\ (m \in A \/ old.deletion[m]) => obs.deletion[m]

(* The scales after the parameters of the modules in A have been updated. *)
Rescaled(old, obs, B, A) ==
  \A m \in Modules :
    /\ m \notin A => obs.scale[m] = old.scale[m] /\ obs.globalScale[m] = old.globalScale[m]
    /\ m \in A \ B /\ old.stats[m] # None =>
         obs.scale[m] = {} /\ obs.globalScale[m] = FinalGlobalScale(m)
    /\ obs.globalScale[m] \in {old.globalScale[m], FinalGlobalScale(m)}

LEMMA DeleteFacts ==
  ASSUME NEW o \in ObserverStates, NEW m \in Modules
  PROVE  /\ DeleteStatistics(o, m) \in ObserverStates
         /\ DeleteStatistics(o, m).scale = o.scale
         /\ DeleteStatistics(o, m).globalScale = o.globalScale
         /\ (\A j \in Group(m) \ {m} : o.deletion[j]) =>
              \A j \in Modules :
                /\ DeleteStatistics(o, m).stats[j] = IF j \in Group(m) THEN None ELSE o.stats[j]
                /\ DeleteStatistics(o, m).deletion[j] = (o.deletion[j] /\ j \notin Group(m))
         /\ ~ (\A j \in Group(m) \ {m} : o.deletion[j]) =>
              \A j \in Modules :
                /\ DeleteStatistics(o, m).stats[j] = o.stats[j]
                /\ DeleteStatistics(o, m).deletion[j] = (o.deletion[j] \/ j = m)
<1> USE DEF ObserverStates
<1>1. CASE \A j \in Group(m) \ {m} : o.deletion[j]
  <2> DEFINE d == [stats |-> [j \in Modules |-> IF j \in Group(m) THEN None ELSE o.stats[j]],
                   deletion |-> [j \in Modules |-> o.deletion[j] /\ j \notin Group(m)],
                   scale |-> o.scale, globalScale |-> o.globalScale]
  <2>1. DeleteStatistics(o, m) = d
    BY <1>1 DEF DeleteStatistics
  <2>2. /\ d.scale = o.scale /\ d.globalScale = o.globalScale
        /\ d.stats = [j \in Modules |-> IF j \in Group(m) THEN None ELSE o.stats[j]]
        /\ d.deletion = [j \in Modules |-> o.deletion[j] /\ j \notin Group(m)]
        /\ d = [stats |-> d.stats, deletion |-> d.deletion, scale |-> d.scale,
                globalScale |-> d.globalScale]
    OBVIOUS
  <2> HIDE DEF d
  <2>3. d.stats \in [Modules -> Originals]
    BY <2>2 DEF Originals
  <2>4. d.deletion \in [Modules -> BOOLEAN]
    BY <2>2
  <2>5. d \in ObserverStates
    BY <2>2, <2>3, <2>4
  <2> QED
    BY <1>1, <2>1, <2>2, <2>5
<1>2. CASE ~ (\A j \in Group(m) \ {m} : o.deletion[j])
  <2> DEFINE d == [stats |-> o.stats, deletion |-> [o.deletion EXCEPT ![m] = TRUE],
                   scale |-> o.scale, globalScale |-> o.globalScale]
  <2>1. DeleteStatistics(o, m) = d
    BY <1>2 DEF DeleteStatistics
  <2>2. /\ d.scale = o.scale /\ d.globalScale = o.globalScale /\ d.stats = o.stats
        /\ d.deletion = [o.deletion EXCEPT ![m] = TRUE]
        /\ d = [stats |-> d.stats, deletion |-> d.deletion, scale |-> d.scale,
                globalScale |-> d.globalScale]
    OBVIOUS
  <2> HIDE DEF d
  <2>3. d \in ObserverStates
    BY <2>2
  <2>4. \A j \in Modules : d.deletion[j] = (o.deletion[j] \/ j = m)
    BY <2>2
  <2> QED
    BY <1>2, <2>1, <2>2, <2>3, <2>4
<1> QED
  BY <1>1, <1>2

(* Asking has no effect on a group whose statistics are gone. *)
LEMMA FollowsSkip ==
  ASSUME NEW o, NEW p, NEW B, NEW A, Follows(o, p, B, A), NEW m \in Modules, p.stats[m] = None
  PROVE  Follows(o, p, B, A \cup {m})
<1>1. StatisticsAreSound(p, B \cup (A \cup {m}))
  BY DEF Follows, StatisticsAreSound
<1> QED
  BY <1>1 DEF Follows

(* When one more module asks, its group loses the statistics or remembers it. *)
LEMMA FollowsDelete ==
  ASSUME NEW o, NEW p \in ObserverStates, NEW B, NEW A, Follows(o, p, B, A),
         NEW m \in Modules, p.stats[m] # None
  PROVE  Follows(o, DeleteStatistics(p, m), B, A \cup {m})
<1> DEFINE d == DeleteStatistics(p, m)
           C == B \cup (A \cup {m})
<1>1. \A j \in Modules : j \in Group(j) /\ Group(j) \subseteq Modules
      /\ \A l \in Group(j) : Group(l) = Group(j)
  BY GroupFacts
<1>2. \A j \in Modules : /\ \A l \in Group(j) : p.stats[l] = p.stats[j]
                         /\ p.stats[j] = None => ~p.deletion[j]
                         /\ p.deletion[j] => j \in B \cup A
                         /\ p.stats[j] # None => \E l \in Group(j) : ~p.deletion[l]
  BY DEF Follows, StatisticsAreSound
<1>3. CASE \A j \in Group(m) \ {m} : p.deletion[j]
  <2>1. \A j \in Modules : /\ d.stats[j] = IF j \in Group(m) THEN None ELSE p.stats[j]
                           /\ d.deletion[j] = (p.deletion[j] /\ j \notin Group(m))
    BY <1>3, DeleteFacts
  <2> HIDE DEF d
  <2>2. \A j \in Modules : \A l \in Group(j) : l \in Group(m) <=> j \in Group(m)
    BY <1>1
  <2>3. ASSUME NEW j \in Modules
        PROVE  /\ \A l \in Group(j) : d.stats[l] = d.stats[j]
               /\ d.stats[j] = None => ~d.deletion[j]
               /\ d.deletion[j] => j \in C
               /\ d.stats[j] # None => \E l \in Group(j) : ~d.deletion[l]
    BY <1>1, <1>2, <2>1, <2>2
  <2>4. StatisticsAreSound(d, C)
    BY <2>3 DEF StatisticsAreSound
  <2>5. Group(m) \subseteq C
    BY <1>1, <1>2, <1>3
  <2>6. ASSUME NEW j \in Modules
        PROVE  /\ o.stats[j] = None => d.stats[j] = None
               /\ o.stats[j] # None /\ ~(Group(j) \subseteq C) => d.stats[j] # None
               /\ d.stats[j] # None /\ (j \in A \cup {m} \/ o.deletion[j]) => d.deletion[j]
    <3>1. m \in Group(m)
      BY <1>1
    <3>2. CASE j \in Group(m)
      BY <1>1, <2>1, <2>5, <3>2 DEF Follows
    <3>3. CASE j \notin Group(m)
      BY <2>1, <3>1, <3>3 DEF Follows
    <3> QED
      BY <3>2, <3>3
  <2> QED
    BY <2>4, <2>6 DEF Follows, d
<1>4. CASE ~ (\A j \in Group(m) \ {m} : p.deletion[j])
  <2>1. \A j \in Modules : /\ d.stats[j] = p.stats[j]
                           /\ d.deletion[j] = (p.deletion[j] \/ j = m)
    BY <1>4, DeleteFacts
  <2> HIDE DEF d
  <2>2. PICK l \in Group(m) : l # m /\ ~p.deletion[l]
    BY <1>4
  <2>3. ASSUME NEW j \in Modules
        PROVE  /\ \A i \in Group(j) : d.stats[i] = d.stats[j]
               /\ d.stats[j] = None => ~d.deletion[j]
               /\ d.deletion[j] => j \in C
               /\ d.stats[j] # None => \E i \in Group(j) : ~d.deletion[i]
    <3>1. \A i \in Group(j) : d.stats[i] = d.stats[j]
      BY <1>1, <1>2, <2>1
    <3>2. d.stats[j] = None => ~d.deletion[j]
      BY <1>2, <2>1
    <3>3. d.deletion[j] => j \in C
      BY <1>2, <2>1
    <3>4. ASSUME d.stats[j] # None PROVE \E i \in Group(j) : ~d.deletion[i]
      <4>1. PICK i \in Group(j) : ~p.deletion[i]
        BY <1>2, <2>1, <3>4
      <4>2. CASE i # m
        BY <1>1, <2>1, <4>1, <4>2
      <4>3. CASE i = m
        <5>1. l \in Group(j) /\ l \in Modules
          BY <1>1, <2>2, <4>1, <4>3
        <5> QED
          BY <2>1, <2>2, <5>1
      <4> QED
        BY <4>2, <4>3
    <3> QED
      BY <3>1, <3>2, <3>3, <3>4
  <2>4. StatisticsAreSound(d, C)
    BY <2>3 DEF StatisticsAreSound
  <2>5. ASSUME NEW j \in Modules
        PROVE  /\ o.stats[j] = None => d.stats[j] = None
               /\ o.stats[j] # None /\ ~(Group(j) \subseteq C) => d.stats[j] # None
               /\ d.stats[j] # None /\ (j \in A \cup {m} \/ o.deletion[j]) => d.deletion[j]
    BY <2>1 DEF Follows
  <2> QED
    BY <2>4, <2>5 DEF Follows, d
<1> QED
  BY <1>3, <1>4

(* Observers follow themselves. *)
LEMMA FollowsStart ==
  ASSUME NEW o, NEW B, StatisticsAreSound(o, B)
  PROVE  Follows(o, o, B, {})
<1>1. B \cup {} = B
  OBVIOUS
<1> QED
  BY <1>1 DEF Follows

(* Only statistics and requests to delete them matter. *)
LEMMA FollowsSame ==
  ASSUME NEW o, NEW p, NEW B, NEW A, Follows(o, p, B, A), NEW d,
         d.stats = p.stats, d.deletion = p.deletion
  PROVE  Follows(o, d, B, A)
BY DEF Follows, StatisticsAreSound

(* Deleting the statistics of one more module. *)
LEMMA DeleteStep ==
  ASSUME NEW o, NEW p \in ObserverStates, NEW B, NEW A, Follows(o, p, B, A), NEW m \in Modules
  PROVE  /\ Delete(p, m) \in ObserverStates
         /\ Follows(o, Delete(p, m), B, A \cup {m})
         /\ Delete(p, m).scale = p.scale /\ Delete(p, m).globalScale = p.globalScale
<1>1. CASE p.stats[m] = None
  BY <1>1, FollowsSkip DEF Delete
<1>2. CASE p.stats[m] # None
  BY <1>2, FollowsDelete, DeleteFacts DEF Delete
<1> QED
  BY <1>1, <1>2

(* Updating the parameters of one more module. *)
LEMMA UpdateStep ==
  ASSUME NEW r, NEW o \in ObserverStates, NEW p \in ObserverStates, NEW B, NEW A,
         Follows(o, p, B, A), Rescaled(o, p, B, A), NEW m \in Modules
  PROVE  /\ Update(r, p, m) \in ObserverStates
         /\ Follows(o, Update(r, p, m), B, A \cup {m})
         /\ Rescaled(o, Update(r, p, m), B, A \cup {m})
<1>1. m \in Group(m) /\ Group(m) \subseteq Modules
  BY GroupFacts
<1>2. CASE p.stats[m] = None
  <2>1. Update(r, p, m) = p
    BY <1>2 DEF Update
  <2>2. Follows(o, p, B, A \cup {m})
    BY <1>2, FollowsSkip
  <2>3. m \notin B \cup A => o.stats[m] = None
    BY <1>1, <1>2 DEF Follows
  <2>4. Rescaled(o, p, B, A \cup {m})
    BY <2>3 DEF Rescaled
  <2> QED
    BY <2>1, <2>2, <2>4
<1>3. CASE p.stats[m] # None
  <2> DEFINE d == DeleteStatistics(p, m)
             g == IF m \in UNION FusedGroups THEN [k \in Group(m) |-> p.stats[k]] ELSE None
             u == [stats |-> d.stats, deletion |-> d.deletion,
                   scale |-> [p.scale EXCEPT ![m] = p.stats[m]],
                   globalScale |-> [p.globalScale EXCEPT ![m] = g]]
  <2>1. d \in ObserverStates /\ d.scale = p.scale /\ d.globalScale = p.globalScale
    BY DeleteFacts
  <2>2. Follows(o, d, B, A \cup {m})
    BY <1>3, FollowsDelete
  <2>3. Update(r, p, m) = u
    <3>1. Update(r, p, m) = [d EXCEPT !.scale[m] = p.stats[m], !.globalScale[m] = g]
      BY <1>3 DEF Update, Quantized, Statistics
    <3> HIDE DEF d, g
    <3> QED
      BY <2>1, <3>1 DEF ObserverStates
  <2>4. p.stats[m] = {}
    BY <1>3 DEF ObserverStates, Originals
  <2>5. \A k \in Group(m) : p.stats[k] = {}
    BY <2>4 DEF Follows, StatisticsAreSound
  <2>6. g = FinalGlobalScale(m)
    BY <2>5 DEF FinalGlobalScale, OriginalGroup
  <2>7. FinalGlobalScale(m) \in GlobalScales
    <3>1. OriginalGroup(m) \in [Group(m) -> Originals]
      BY DEF OriginalGroup, Originals
    <3> QED
      BY <3>1 DEF FinalGlobalScale, GlobalScales
  <2> HIDE DEF d, g
  <2>8. u.stats = d.stats /\ u.deletion = d.deletion
        /\ u.scale = [p.scale EXCEPT ![m] = p.stats[m]]
        /\ u.globalScale = [p.globalScale EXCEPT ![m] = g]
    OBVIOUS
  <2>9. u \in ObserverStates
    <3>1. u.scale \in [Modules -> Originals] /\ u.globalScale \in [Modules -> GlobalScales]
      BY <2>6, <2>7, <2>8 DEF ObserverStates
    <3> QED
      BY <2>1, <3>1 DEF ObserverStates
  <2>10. /\ u.scale[m] = {} /\ u.globalScale[m] = FinalGlobalScale(m)
         /\ \A j \in Modules \ {m} : u.scale[j] = p.scale[j] /\ u.globalScale[j] = p.globalScale[j]
    BY <2>4, <2>6, <2>8 DEF ObserverStates
  <2> HIDE DEF u
  <2>11. Follows(o, u, B, A \cup {m})
    BY <2>2, <2>8, FollowsSame
  <2>12. Rescaled(o, u, B, A \cup {m})
    BY <2>10 DEF Rescaled
  <2> QED
    BY <2>3, <2>9, <2>11, <2>12
<1> QED
  BY <1>2, <1>3

(* Deletions and updates of parameters keep the types of observers. *)
LEMMA ObserverStatesKept ==
  ASSUME NEW r, NEW p \in ObserverStates, NEW m \in Modules
  PROVE  Delete(p, m) \in ObserverStates /\ Update(r, p, m) \in ObserverStates
<1>1. DeleteStatistics(p, m) \in ObserverStates
  BY DeleteFacts
<1> DEFINE g == IF m \in UNION FusedGroups THEN [k \in Group(m) |-> p.stats[k]] ELSE None
           d == DeleteStatistics(p, m)
           u == [stats |-> d.stats, deletion |-> d.deletion,
                 scale |-> [d.scale EXCEPT ![m] = p.stats[m]],
                 globalScale |-> [d.globalScale EXCEPT ![m] = g]]
<1>2. Quantized(r, p, m) = [d EXCEPT !.scale[m] = p.stats[m], !.globalScale[m] = g]
  BY DEF Quantized, Statistics
<1>3. g \in GlobalScales /\ p.stats[m] \in Originals
  <2>1. Group(m) \subseteq Modules
    BY GroupFacts
  <2>2. \A k \in Group(m) : p.stats[k] \in Originals
    BY <2>1 DEF ObserverStates
  <2>3. [k \in Group(m) |-> p.stats[k]] \in [Group(m) -> Originals]
    BY <2>2
  <2> QED
    BY <2>3 DEF GlobalScales, ObserverStates
<1> HIDE DEF g, d
<1>4. Quantized(r, p, m) = u
  BY <1>1, <1>2 DEF ObserverStates, d
<1>5. d \in ObserverStates
  BY <1>1 DEF d
<1>6. u.scale \in [Modules -> Originals] /\ u.globalScale \in [Modules -> GlobalScales]
  BY <1>3, <1>5 DEF ObserverStates
<1>7. u \in ObserverStates
  BY <1>5, <1>6 DEF ObserverStates
<1> QED
  BY <1>1, <1>4, <1>7 DEF Delete, Update

(* Updating the parameters of a list of modules. *)
LEMMA UpdateFacts ==
  ASSUME NEW r, NEW list \in Seq(Modules), NEW B,
         Observers(r) \in ObserverStates, StatisticsAreSound(Observers(r), B)
  PROVE  /\ UpdateParameters(r, list) \in ObserverStates
         /\ Follows(Observers(r), UpdateParameters(r, list), B, ToSet(list))
         /\ Rescaled(Observers(r), UpdateParameters(r, list), B, ToSet(list))
<1> DEFINE n == Len(list)
           o == Observers(r)
           D(f) == [i \in 0 .. n |-> IF i = 0 THEN o ELSE Update(r, f[i - 1], list[i])]
           h == CHOOSE f : f = D(f)
           step == [p \in (1 .. n) \X ObserverStates |-> Update(r, p[2], list[p[1]])]
<1>1. n \in Nat /\ \A i \in 1 .. n : list[i] \in Modules
  OBVIOUS
<1>2. UpdateParameters(r, list) = h[n]
  BY DEF UpdateParameters
<1>3. Follows(o, o, B, {})
  BY FollowsStart
<1> HIDE DEF o, n
<1>4. o \in ObserverStates
  BY DEF o
<1>5. ASSUME NEW i \in 1 .. n, NEW p \in ObserverStates
      PROVE Update(r, p, list[i]) \in ObserverStates
  <2>1. list[i] \in Modules
    BY <1>1
  <2> QED
    BY <2>1, ObserverStatesKept
<1>6. step \in [(1 .. n) \X ObserverStates -> ObserverStates]
  BY <1>5
<1>7. \A i \in 1 .. n : \A p \in ObserverStates : step[<<i, p>>] = Update(r, p, list[i])
  OBVIOUS
<1> HIDE DEF step
<1>8. \E f : f = D(f)
  <2>1. PICK f : f \in [0 .. n -> ObserverStates] /\ f[0] = o
             /\ \A i \in 1 .. n : f[i] = step[<<i, f[i - 1]>>]
    <3>1. \E f : IsRecursiveUpTo(n, f, ObserverStates, o, step)
      BY <1>1, <1>4, <1>6, BoundedRecursion
    <3> QED
      BY <3>1 DEF IsRecursiveUpTo
  <2>2. ASSUME NEW i \in 0 .. n
        PROVE  f[i] = IF i = 0 THEN o ELSE Update(r, f[i - 1], list[i])
    <3>1. CASE i = 0
      BY <2>1, <3>1
    <3>2. CASE i # 0
      <4>1. i \in 1 .. n /\ i - 1 \in 0 .. n
        BY <1>1, <3>2
      <4> QED
        BY <1>7, <2>1, <3>2, <4>1
    <3> QED
      BY <3>1, <3>2
  <2>3. f = D(f)
    BY <2>1, <2>2
  <2> QED
    BY <2>3
<1>9. h = D(h)
  <2> HIDE DEF D
  <2> QED
    BY <1>8, Zenon
<1> HIDE DEF h
<1>10. \A i \in 0 .. n : h[i] = IF i = 0 THEN o ELSE Update(r, h[i - 1], list[i])
  <2> DEFINE d == D(h)
  <2>1. \A i \in 0 .. n : d[i] = IF i = 0 THEN o ELSE Update(r, h[i - 1], list[i])
    OBVIOUS
  <2>2. h = d
    BY <1>9
  <2> HIDE DEF d
  <2> QED
    BY <2>1, <2>2
<1>11. h[0] = o /\ \A i \in 1 .. n : h[i] = Update(r, h[i - 1], list[i])
  BY <1>1, <1>10
<1> HIDE DEF D
<1> DEFINE Before(k) == {list[j] : j \in 1 .. k}
           T == {k \in Nat : k <= n => /\ h[k] \in ObserverStates
                                     /\ Follows(o, h[k], B, Before(k))
                                     /\ Rescaled(o, h[k], B, Before(k))}
<1>12. 0 \in T
  <2>1. Before(0) = {}
    OBVIOUS
  <2> HIDE DEF Before
  <2>2. Rescaled(o, o, B, {})
    BY DEF Rescaled
  <2> QED
    BY <1>3, <1>4, <1>11, <2>1, <2>2
<1>13. ASSUME NEW k \in Nat, k \in T PROVE k + 1 \in T
  <2> DEFINE m == list[k + 1]
  <2> SUFFICES ASSUME k + 1 <= n
               PROVE  /\ h[k + 1] \in ObserverStates
                      /\ Follows(o, h[k + 1], B, Before(k + 1))
                      /\ Rescaled(o, h[k + 1], B, Before(k + 1))
    OBVIOUS
  <2>1. /\ h[k] \in ObserverStates /\ Follows(o, h[k], B, Before(k))
        /\ Rescaled(o, h[k], B, Before(k))
        /\ m \in Modules /\ k + 1 \in 1 .. n
    BY <1>1, <1>13
  <2>2. h[k + 1] = Update(r, h[k], m)
    <3>1. (k + 1) - 1 = k
      OBVIOUS
    <3> QED
      BY <1>11, <2>1, <3>1
  <2>3. Before(k + 1) = Before(k) \cup {m}
    <3>1. 1 .. k + 1 = (1 .. k) \cup {k + 1}
      OBVIOUS
    <3> QED
      BY <3>1
  <2> HIDE DEF T, Before, m
  <2>4. /\ Update(r, h[k], m) \in ObserverStates
        /\ Follows(o, Update(r, h[k], m), B, Before(k) \cup {m})
        /\ Rescaled(o, Update(r, h[k], m), B, Before(k) \cup {m})
    BY <1>4, <2>1, UpdateStep
  <2> QED
    BY <2>2, <2>3, <2>4
<1>14. \A k \in Nat : k \in T
  <2> HIDE DEF T
  <2> QED
    BY <1>12, <1>13, NumberInduction
<1>15. h[n] \in ObserverStates /\ Follows(o, h[n], B, Before(n)) /\ Rescaled(o, h[n], B, Before(n))
  <2> HIDE DEF Before
  <2>1. n \in T /\ n <= n
    BY <1>1, <1>14
  <2> QED
    BY <2>1
<1>16. ToSet(list) = Before(n)
  BY DEF ToSet, n
<1> QED
  BY <1>2, <1>15, <1>16 DEF o

(* Deleting the statistics of a list of modules. *)
LEMMA DeleteAllFacts ==
  ASSUME NEW r, NEW list \in Seq(Modules), NEW B,
         Observers(r) \in ObserverStates, StatisticsAreSound(Observers(r), B)
  PROVE  /\ DeleteAll(r, list) \in ObserverStates
         /\ Follows(Observers(r), DeleteAll(r, list), B, ToSet(list))
         /\ DeleteAll(r, list).scale = Observers(r).scale
              /\ DeleteAll(r, list).globalScale = Observers(r).globalScale
<1> DEFINE n == Len(list)
           o == Observers(r)
           D(f) == [i \in 0 .. n |-> IF i = 0 THEN o ELSE Delete(f[i - 1], list[i])]
           h == CHOOSE f : f = D(f)
           step == [p \in (1 .. n) \X ObserverStates |-> Delete(p[2], list[p[1]])]
<1>1. n \in Nat /\ \A i \in 1 .. n : list[i] \in Modules
  OBVIOUS
<1>2. DeleteAll(r, list) = h[n]
  BY DEF DeleteAll
<1>3. Follows(o, o, B, {})
  BY FollowsStart
<1> HIDE DEF o, n
<1>4. o \in ObserverStates
  BY DEF o
<1>5. ASSUME NEW i \in 1 .. n, NEW p \in ObserverStates PROVE Delete(p, list[i]) \in ObserverStates
  <2>1. list[i] \in Modules
    BY <1>1
  <2> QED
    BY <2>1, ObserverStatesKept
<1>6. step \in [(1 .. n) \X ObserverStates -> ObserverStates]
  BY <1>5
<1>7. \A i \in 1 .. n : \A p \in ObserverStates : step[<<i, p>>] = Delete(p, list[i])
  OBVIOUS
<1> HIDE DEF step
<1>8. \E f : f = D(f)
  <2>1. PICK f : f \in [0 .. n -> ObserverStates] /\ f[0] = o
             /\ \A i \in 1 .. n : f[i] = step[<<i, f[i - 1]>>]
    <3>1. \E f : IsRecursiveUpTo(n, f, ObserverStates, o, step)
      BY <1>1, <1>4, <1>6, BoundedRecursion
    <3> QED
      BY <3>1 DEF IsRecursiveUpTo
  <2>2. ASSUME NEW i \in 0 .. n
        PROVE  f[i] = IF i = 0 THEN o ELSE Delete(f[i - 1], list[i])
    <3>1. CASE i = 0
      BY <2>1, <3>1
    <3>2. CASE i # 0
      <4>1. i \in 1 .. n /\ i - 1 \in 0 .. n
        BY <1>1, <3>2
      <4> QED
        BY <1>7, <2>1, <3>2, <4>1
    <3> QED
      BY <3>1, <3>2
  <2>3. f = D(f)
    BY <2>1, <2>2
  <2> QED
    BY <2>3
<1>9. h = D(h)
  <2> HIDE DEF D
  <2> QED
    BY <1>8, Zenon
<1> HIDE DEF h
<1>10. \A i \in 0 .. n : h[i] = IF i = 0 THEN o ELSE Delete(h[i - 1], list[i])
  <2> DEFINE d == D(h)
  <2>1. \A i \in 0 .. n : d[i] = IF i = 0 THEN o ELSE Delete(h[i - 1], list[i])
    OBVIOUS
  <2>2. h = d
    BY <1>9
  <2> HIDE DEF d
  <2> QED
    BY <2>1, <2>2
<1>11. h[0] = o /\ \A i \in 1 .. n : h[i] = Delete(h[i - 1], list[i])
  BY <1>1, <1>10
<1> HIDE DEF D
<1> DEFINE Before(k) == {list[j] : j \in 1 .. k}
           T == {k \in Nat : k <= n => /\ h[k] \in ObserverStates
                                     /\ Follows(o, h[k], B, Before(k))
                                     /\ h[k].scale = o.scale /\ h[k].globalScale = o.globalScale}
<1>12. 0 \in T
  <2>1. Before(0) = {}
    OBVIOUS
  <2> HIDE DEF Before
  <2>2. o.scale = o.scale /\ o.globalScale = o.globalScale
    OBVIOUS
  <2> QED
    BY <1>3, <1>4, <1>11, <2>1, <2>2
<1>13. ASSUME NEW k \in Nat, k \in T PROVE k + 1 \in T
  <2> DEFINE m == list[k + 1]
  <2> SUFFICES ASSUME k + 1 <= n
               PROVE  /\ h[k + 1] \in ObserverStates
                      /\ Follows(o, h[k + 1], B, Before(k + 1))
                      /\ h[k + 1].scale = o.scale /\ h[k + 1].globalScale = o.globalScale
    OBVIOUS
  <2>1. /\ h[k] \in ObserverStates /\ Follows(o, h[k], B, Before(k))
        /\ h[k].scale = o.scale /\ h[k].globalScale = o.globalScale
        /\ m \in Modules /\ k + 1 \in 1 .. n
    BY <1>1, <1>13
  <2>2. h[k + 1] = Delete(h[k], m)
    <3>1. (k + 1) - 1 = k
      OBVIOUS
    <3> QED
      BY <1>11, <2>1, <3>1
  <2>3. Before(k + 1) = Before(k) \cup {m}
    <3>1. 1 .. k + 1 = (1 .. k) \cup {k + 1}
      OBVIOUS
    <3> QED
      BY <3>1
  <2> HIDE DEF T, Before, m
  <2>4. /\ Delete(h[k], m) \in ObserverStates
        /\ Follows(o, Delete(h[k], m), B, Before(k) \cup {m})
        /\ Delete(h[k], m).scale = o.scale /\ Delete(h[k], m).globalScale = o.globalScale
    <3>1. Delete(h[k], m) \in ObserverStates
      BY <1>4, <2>1, DeleteStep
    <3>2. Follows(o, Delete(h[k], m), B, Before(k) \cup {m})
      BY <1>4, <2>1, DeleteStep
    <3>3. Delete(h[k], m).scale = h[k].scale /\ Delete(h[k], m).globalScale = h[k].globalScale
      BY <1>4, <2>1, DeleteStep
    <3> QED
      BY <2>1, <3>1, <3>2, <3>3
  <2> QED
    BY <2>2, <2>3, <2>4
<1>14. \A k \in Nat : k \in T
  <2> HIDE DEF T
  <2> QED
    BY <1>12, <1>13, NumberInduction
<1>15. h[n] \in ObserverStates /\ Follows(o, h[n], B, Before(n)) /\ h[n].scale = o.scale
       /\ h[n].globalScale = o.globalScale
  <2> HIDE DEF Before
  <2>1. n \in T /\ n <= n
    BY <1>1, <1>14
  <2> QED
    BY <2>1
<1>16. ToSet(list) = Before(n)
  BY DEF ToSet, n
<1> QED
  BY <1>2, <1>15, <1>16 DEF o

-----------------------------------------------------------------------------
(* Epochs and stages *)

(* Epochs are lists of modules, disjoint, that together hold all modules. *)
LEMMA EpochFacts ==
  ASSUME WeightTypes, SchedulesAreSound, DataIsBalanced
  PROVE  /\ schedule \in Seq(Seq(Modules)) /\ schedule # <<>>
         /\ Len(schedule) \in Nat \ {0} /\ DOMAIN schedule = 1 .. Len(schedule)
         /\ \A e \in DOMAIN schedule : schedule[e] \in Seq(Modules) /\ EpochSet(e) \subseteq Modules
         /\ \A d, e \in DOMAIN schedule : d # e => EpochSet(d) \cap EpochSet(e) = {}
         /\ \A m \in Modules : \E e \in DOMAIN schedule : m \in EpochSet(e)
         /\ \A r \in Ranks : coverage[r] \in Seq(Modules)
         /\ \A r, q \in Ranks : coverage[r] = coverage[q]
<1>1. schedule \in Seq(Seq(Modules)) /\ schedule # <<>>
  BY WeightAssumption DEF WeightTypes, SchedulesAreSound
<1>2. Len(schedule) \in Nat \ {0} /\ DOMAIN schedule = 1 .. Len(schedule)
  BY <1>1
<1>3. ASSUME NEW e \in DOMAIN schedule
      PROVE  schedule[e] \in Seq(Modules) /\ EpochSet(e) \subseteq Modules
  <2>1. schedule[e] \in Seq(Modules)
    BY <1>1, <1>2
  <2>2. \A i \in DOMAIN schedule[e] : schedule[e][i] \in Modules
    BY <2>1
  <2> QED
    BY <2>1, <2>2 DEF EpochSet, ToSet
<1>4. /\ \A d, e \in DOMAIN schedule : d # e => EpochSet(d) \cap EpochSet(e) = {}
      /\ \A m \in Modules : \E e \in DOMAIN schedule : m \in EpochSet(e)
  BY DEF WeightTypes, SchedulesAreSound, EpochSet
<1>5. coverage \in [Ranks -> Seq(Modules)] /\ \A r, q \in Ranks : coverage[r] = coverage[q]
  BY WeightAssumption DEF WeightTypes, DataIsBalanced
<1> QED
  BY <1>1, <1>2, <1>3, <1>4, <1>5

(* The lists of a rank in its epoch. *)
LEMMA ListFacts ==
  ASSUME WeightTypes, SchedulesAreSound, DataIsBalanced, NEW r \in ranks, PlaceInv(r)
  PROVE  /\ Epoch(r) \in Seq(Modules) /\ ToSet(Epoch(r)) = EpochSet(epoch[r])
         /\ Reached(r) \in Seq(Modules) /\ ToSet(Reached(r)) = ReachedIn(r, epoch[r])
         /\ Divided(r) \in Seq(Modules) /\ ToSet(Divided(r)) = DividedIn(r, epoch[r])
         /\ Own(r) \in Seq(Modules) /\ ToSet(Own(r)) = OwnIn(r, epoch[r])
<1> DEFINE e == epoch[r]
<1>1. e \in DOMAIN schedule /\ schedule[e] \in Seq(Modules) /\ coverage[r] \in Seq(Modules)
  BY EpochFacts DEF PlaceInv, WeightTypes
<1>2. Epoch(r) \in Seq(Modules) /\ ToSet(Epoch(r)) = EpochSet(e)
  BY <1>1 DEF Epoch, EpochSet
<1>3. Reached(r) \in Seq(Modules) /\ ToSet(Reached(r)) = ReachedIn(r, e)
  BY <1>1, <1>2, SelectFacts DEF Reached, ReachedIn
<1>4. Divided(r) \in Seq(Modules) /\ ToSet(Divided(r)) = DividedIn(r, e)
  BY <1>2, <1>3 DEF Divided, DividedIn
<1> DEFINE list == IF modifier = "gptq" THEN coverage[r] ELSE Epoch(r)
           S == {m \in ToSet(Epoch(r)) : ~Distributed \/ home[m] = r}
<1>5. list \in Seq(Modules)
  BY <1>1, <1>2
<1>6. Own(r) = Select(list, S)
  BY DEF Own
<1>7. ToSet(list) \cap S = OwnIn(r, e)
  BY <1>2 DEF OwnIn, DividedIn, ReachedIn
<1> HIDE DEF list, S
<1>8. Own(r) \in Seq(Modules) /\ ToSet(Own(r)) = OwnIn(r, e)
  <2>1. Select(list, S) \in Seq(Modules) /\ ToSet(Select(list, S)) = ToSet(list) \cap S
    BY <1>5, SelectFacts
  <2> QED
    BY <1>6, <1>7, <2>1
<1> QED
  BY <1>2, <1>3, <1>4, <1>8

(* What a rank has done before its epoch is about other modules. *)
LEMMA PastFacts ==
  ASSUME WeightTypes, SchedulesAreSound, DataIsBalanced, NEW r \in ranks, PlaceInv(r)
  PROVE  /\ pc[r] # "done" =>
              /\ \A e \in Past(r) : EpochSet(e) \cap EpochSet(epoch[r]) = {}
              /\ Past(r) = {e \in DOMAIN schedule : e < epoch[r]}
         /\ \A e : /\ ReachedIn(r, e) \subseteq EpochSet(e) /\ DividedIn(r, e) \subseteq EpochSet(e)
                   /\ OwnIn(r, e) \subseteq DividedIn(r, e)
                   /\ ~Distributed => OwnIn(r, e) = DividedIn(r, e)
         /\ \A q \in ranks, e \in DOMAIN schedule :
              ReachedIn(q, e) = ReachedIn(r, e) /\ DividedIn(q, e) = DividedIn(r, e)
<1>1. epoch[r] \in DOMAIN schedule /\ DOMAIN schedule = 1 .. Len(schedule) /\ Len(schedule) \in Nat
  BY EpochFacts DEF PlaceInv
<1>2. ASSUME pc[r] # "done"
      PROVE  /\ \A e \in Past(r) : EpochSet(e) \cap EpochSet(epoch[r]) = {}
             /\ Past(r) = {e \in DOMAIN schedule : e < epoch[r]}
  <2>1. Past(r) = {e \in DOMAIN schedule : e < epoch[r]}
    BY <1>2 DEF Past
  <2>2. \A e \in Past(r) : e \in DOMAIN schedule /\ e # epoch[r]
    BY <1>1, <2>1
  <2> QED
    BY <1>1, <2>1, <2>2, EpochFacts
<1>3. \A e : /\ ReachedIn(r, e) \subseteq EpochSet(e) /\ DividedIn(r, e) \subseteq EpochSet(e)
             /\ OwnIn(r, e) \subseteq DividedIn(r, e)
             /\ ~Distributed => OwnIn(r, e) = DividedIn(r, e)
  BY DEF ReachedIn, DividedIn, OwnIn
<1>4. ASSUME NEW q \in ranks, NEW e \in DOMAIN schedule
      PROVE  ReachedIn(q, e) = ReachedIn(r, e) /\ DividedIn(q, e) = DividedIn(r, e)
  <2>1. coverage[q] = coverage[r]
    BY EpochFacts DEF WeightTypes
  <2> QED
    BY <2>1 DEF ReachedIn, DividedIn
<1> QED
  BY <1>2, <1>3, <1>4

(* What is derived from the setup stays with it. *)
LEMMA SetupKept ==
  ASSUME UNCHANGED setup
  PROVE  /\ (Distributed' <=> Distributed) /\ (InOrder' <=> InOrder)
         /\ FinalWeight' = FinalWeight
         /\ \A e : EpochSet(e)' = EpochSet(e)
         /\ \A q, e : /\ ReachedIn(q, e)' = ReachedIn(q, e) /\ DividedIn(q, e)' = DividedIn(q, e)
                      /\ OwnIn(q, e)' = OwnIn(q, e)
         /\ \A m : IsWhole(m)' <=> IsWhole(m)
<1>1. /\ ranks' = ranks /\ modifier' = modifier /\ schedule' = schedule /\ coverage' = coverage
      /\ home' = home
  BY DEF setup
<1>2. (Distributed' <=> Distributed)
  BY <1>1 DEF Distributed
<1>3. (InOrder' <=> InOrder) /\ FinalWeight' = FinalWeight
  BY <1>1, <1>2 DEF InOrder, FinalWeight
<1>4. \A e : EpochSet(e)' = EpochSet(e)
  BY <1>1 DEF EpochSet
<1>5. \A q, e : ReachedIn(q, e)' = ReachedIn(q, e)
  BY <1>1, <1>4 DEF ReachedIn
<1>6. \A q, e : DividedIn(q, e)' = DividedIn(q, e)
  BY <1>1, <1>4, <1>5 DEF DividedIn
<1>7. \A q, e : OwnIn(q, e)' = OwnIn(q, e)
  BY <1>1, <1>2, <1>6 DEF OwnIn
<1>8. \A m : IsWhole(m)' <=> IsWhole(m)
  BY <1>1, <1>3, <1>4 DEF IsWhole
<1> QED
  BY <1>2, <1>3, <1>4, <1>5, <1>6, <1>7, <1>8

(* The sets of modules a rank has dealt with stay while it does not move. *)
LEMMA StageKept ==
  ASSUME UNCHANGED setup, NEW q, pc'[q] = pc[q], epoch'[q] = epoch[q]
  PROVE  /\ Past(q)' = Past(q) /\ Finished(q)' = Finished(q) /\ Asked(q)' = Asked(q)
         /\ Seen(q)' = Seen(q) /\ Scaled(q)' = Scaled(q)
<1>1. modifier' = modifier /\ schedule' = schedule
  BY DEF setup
<1>2. Past(q)' = Past(q)
  BY <1>1 DEF Past
<1>3. (HasObserved(q)' <=> HasObserved(q))
  BY <1>1 DEF HasObserved
<1>4. Finished(q)' = Finished(q)
  BY <1>2, SetupKept DEF Finished
<1>5. Asked(q)' = Asked(q)
  BY <1>2, SetupKept DEF Asked
<1>6. Seen(q)' = Seen(q)
  BY <1>2, <1>3, SetupKept DEF Seen
<1>7. Scaled(q)' = Scaled(q)
  BY <1>2, SetupKept DEF Scaled
<1> QED
  BY <1>2, <1>4, <1>5, <1>6, <1>7

(* The state of a rank is the same. *)
Same(q) ==
  /\ pc'[q] = pc[q] /\ epoch'[q] = epoch[q] /\ weight'[q] = weight[q] /\ stats'[q] = stats[q]
  /\ deletion'[q] = deletion[q] /\ scale'[q] = scale[q] /\ globalScale'[q] = globalScale[q]
  /\ hessian'[q] = hessian[q] /\ act'[q] = act[q] /\ actScale'[q] = actScale[q]
  /\ sent'[q] = sent[q]

(* A rank keeps its invariant while another one moves. *)
LEMMA RankKept ==
  ASSUME UNCHANGED setup, NEW q, Same(q), RankInv(q)
  PROVE  RankInv(q)'
<1>1. /\ ranks' = ranks /\ modifier' = modifier /\ schedule' = schedule /\ coverage' = coverage
      /\ home' = home
  BY DEF setup
<1>2. PlaceInv(q)'
  BY <1>1 DEF RankInv, PlaceInv, Same
<1>3. ParametersInv(q)'
  <2>1. Finished(q)' = Finished(q) /\ FinalWeight' = FinalWeight
    BY StageKept, SetupKept DEF Same
  <2>2. ParametersInv(q)
    BY DEF RankInv
  <2> QED
    BY <1>1, <2>1, <2>2 DEF ParametersInv, Same
<1>4. DataInv(q)'
  <2>1. Scaled(q)' = Scaled(q)
    BY StageKept DEF Same
  <2>2. \A e : ReachedIn(q, e)' = ReachedIn(q, e) /\ OwnIn(q, e)' = OwnIn(q, e)
    BY SetupKept
  <2>3. ReachedIn(q, epoch[q])' = ReachedIn(q, epoch[q]) /\ OwnIn(q, epoch[q])' = OwnIn(q, epoch[q])
    <3>1. epoch'[q] = epoch[q]
      BY DEF Same
    <3> QED
      BY <1>1, <3>1 DEF ReachedIn, OwnIn, DividedIn, EpochSet, Distributed
  <2>4. DataInv(q)
    BY DEF RankInv
  <2> QED
    BY <1>1, <2>1, <2>3, <2>4 DEF DataInv, Same
<1>5. ObserversInv(q)'
  <2>1. Asked(q)' = Asked(q) /\ Seen(q)' = Seen(q)
    BY StageKept DEF Same
  <2>2. Observers(q)' = Observers(q)
    BY DEF Observers, Same
  <2>3. (InOrder' <=> InOrder) /\ \A m : IsWhole(m)' <=> IsWhole(m)
    BY SetupKept
  <2>4. OwnIn(q, epoch[q])' = OwnIn(q, epoch[q])
    <3>1. epoch'[q] = epoch[q]
      BY DEF Same
    <3> QED
      BY <1>1, <3>1 DEF ReachedIn, OwnIn, DividedIn, EpochSet, Distributed
  <2>5. ObserversInv(q)
    BY DEF RankInv
  <2>6. StatisticsAreSound(Observers(q), Asked(q))'
    <3>1. StatisticsAreSound(Observers(q), Asked(q))
      BY <2>5 DEF ObserversInv
    <3> QED
      BY <2>1, <2>2, <3>1 DEF StatisticsAreSound
  <2> QED
    BY <2>1, <2>3, <2>4, <2>5, <2>6 DEF ObserversInv, Same
<1>6. \A i \in DOMAIN sent'[q] : CarriesData(q, sent[q][i])'
  <2>1. \A i \in DOMAIN sent[q] : CarriesData(q, sent[q][i])
    BY DEF RankInv
  <2>2. FinalWeight' = FinalWeight
    BY SetupKept
  <2> QED
    BY <1>1, <2>1, <2>2 DEF CarriesData, Same
<1> QED
  BY <1>2, <1>3, <1>4, <1>5, <1>6 DEF RankInv

(* A step of one rank that keeps its part of the invariant keeps all of it. *)
LEMMA OneRankSteps ==
  ASSUME RanksInv, UNCHANGED setup, NEW r \in ranks, \A q \in Ranks \ {r} : Same(q),
         WeightTypes', RankInv(r)'
  PROVE  RanksInv'
<1>1. ranks' = ranks /\ ranks \subseteq Ranks
  BY DEF setup, RanksInv, WeightTypes
<1>2. ASSUME NEW q \in ranks PROVE RankInv(q)'
  <2>1. CASE q = r
    BY <2>1
  <2>2. CASE q # r
    BY <1>1, <2>2, RankKept DEF RanksInv
  <2> QED
    BY <2>1, <2>2
<1>3. ASSUME NEW q \in Ranks \ ranks PROVE IdleInv(q)'
  <2>1. Same(q) /\ IdleInv(q)
    BY <1>1, <1>3 DEF RanksInv
  <2> QED
    BY <2>1 DEF Same, IdleInv
<1> QED
  BY <1>1, <1>2, <1>3 DEF RanksInv

-----------------------------------------------------------------------------
(* The plan of collectives *)

(* Collectives without their data, those for a list of modules, and those a rank issues in
   the stages of an epoch. *)
Signatures == [kind : Kinds, module : Modules, root : Ranks \cup {None}]

Calls(kind, list) ==
  [i \in DOMAIN list |-> [kind |-> kind, module |-> list[i],
                          root |-> IF kind = "all_reduce" THEN None ELSE home[list[i]]]]

(* The calls of an epoch. *)
ReachedList(r, e) == Select(coverage[r], EpochSet(e))
DividedList(r, e) == IF modifier = "gptq" THEN ReachedList(r, e) ELSE schedule[e]
SyncCalls(r, e) ==
  IF Distributed THEN Calls("all_reduce", Select(schedule[e], ReachedIn(r, e))) ELSE <<>>
ReduceCalls(r, e) ==
  IF Distributed /\ modifier = "gptq" THEN Calls("reduce", ReachedList(r, e)) ELSE <<>>
BroadcastCalls(r, e) ==
  IF Distributed THEN Calls("broadcast", DividedList(r, e)) ELSE <<>>

(* E[e] are the calls of the first e epochs, on any rank. *)
IsPlan(E) ==
  /\ E \in [Nat -> Seq(Signatures)] /\ E[0] = <<>>
  /\ \A r \in ranks, e \in DOMAIN schedule :
       E[e] = ((E[e - 1] \o SyncCalls(r, e)) \o ReduceCalls(r, e)) \o BroadcastCalls(r, e)

Planned(r, E) ==
  IF pc[r] \in {"forward", "sync"} THEN E[epoch[r] - 1]
  ELSE IF pc[r] \in {"activations", "observe", "reduce"}
       THEN E[epoch[r] - 1] \o SyncCalls(r, epoch[r])
  ELSE IF pc[r] \in {"compress", "broadcast"}
       THEN (E[epoch[r] - 1] \o SyncCalls(r, epoch[r])) \o ReduceCalls(r, epoch[r])
  ELSE E[epoch[r]]

Matches(ops, plan) ==
  /\ Len(ops) = Len(plan)
  /\ \A i \in 1 .. Len(plan) : /\ ops[i].kind = plan[i].kind
                               /\ ops[i].module = plan[i].module
                               /\ ops[i].root = plan[i].root

PlanInv == \E E : IsPlan(E) /\ \A r \in ranks : Matches(sent[r], Planned(r, E))

(* The elements of a concatenation. *)
LEMMA Concatenated ==
  ASSUME NEW M, NEW a \in Seq(M), NEW b \in Seq(M), NEW c, c = a \o b
  PROVE  /\ c \in Seq(M) /\ Len(c) = Len(a) + Len(b)
         /\ Len(a) \in Nat /\ Len(b) \in Nat /\ DOMAIN c = 1 .. Len(c)
         /\ \A i \in 1 .. Len(a) : c[i] = a[i]
         /\ \A j \in 1 .. Len(b) : c[Len(a) + j] = b[j]
         /\ \A i \in 1 .. Len(c) :
              i \in 1 .. Len(a) \/ (i - Len(a) \in 1 .. Len(b) /\ c[i] = b[i - Len(a)])
<1>1. /\ c \in Seq(M) /\ Len(c) = Len(a) + Len(b)
      /\ Len(a) \in Nat /\ Len(b) \in Nat /\ DOMAIN c = 1 .. Len(c)
  OBVIOUS
<1>2. \A i \in 1 .. Len(a) : c[i] = a[i]
  OBVIOUS
<1>3. \A j \in 1 .. Len(b) : c[Len(a) + j] = b[j]
  OBVIOUS
<1>4. ASSUME NEW i \in 1 .. Len(c)
      PROVE  i \in 1 .. Len(a) \/ (i - Len(a) \in 1 .. Len(b) /\ c[i] = b[i - Len(a)])
  <2>1. CASE i <= Len(a)
    BY <1>1, <2>1
  <2>2. CASE i > Len(a)
    <3>1. i - Len(a) \in 1 .. Len(b) /\ i = Len(a) + (i - Len(a))
      BY <1>1, <2>2
    <3>2. c[Len(a) + (i - Len(a))] = b[i - Len(a)]
      BY <1>3, <3>1
    <3> QED
      BY <3>1, <3>2
  <2> QED
    BY <1>1, <2>1, <2>2
<1> QED
  BY <1>1, <1>2, <1>3, <1>4

(* Collectives that match a plan, and more that match more calls, match both together. *)
LEMMA MatchesAppend ==
  ASSUME NEW ops \in Seq(Collectives), NEW plan \in Seq(Signatures), Matches(ops, plan),
         NEW more \in Seq(Collectives), NEW calls \in Seq(Signatures), Matches(more, calls)
  PROVE  Matches(ops \o more, plan \o calls)
<1> DEFINE a == ops \o more
           p == plan \o calls
<1>1. /\ Len(a) = Len(ops) + Len(more) /\ Len(ops) \in Nat /\ Len(more) \in Nat
      /\ \A i \in 1 .. Len(ops) : a[i] = ops[i]
      /\ \A j \in 1 .. Len(more) : a[Len(ops) + j] = more[j]
  BY Concatenated
<1>2. /\ Len(p) = Len(plan) + Len(calls)
      /\ \A i \in 1 .. Len(plan) : p[i] = plan[i]
      /\ \A j \in 1 .. Len(calls) : p[Len(plan) + j] = calls[j]
      /\ \A i \in 1 .. Len(p) :
           i \in 1 .. Len(plan) \/ (i - Len(plan) \in 1 .. Len(calls)
           /\ p[i] = calls[i - Len(plan)])
  <2>1. p = plan \o calls
    OBVIOUS
  <2> HIDE DEF p
  <2> QED
    BY <2>1, Concatenated
<1> HIDE DEF a, p
<1>3. Len(a) = Len(p)
  BY <1>1, <1>2 DEF Matches
<1>4. ASSUME NEW i \in 1 .. Len(p)
      PROVE  a[i].kind = p[i].kind /\ a[i].module = p[i].module /\ a[i].root = p[i].root
  <2>1. CASE i \in 1 .. Len(plan)
    BY <1>1, <1>2, <2>1 DEF Matches
  <2>2. CASE i \notin 1 .. Len(plan)
    <3> DEFINE j == i - Len(plan)
    <3>1. j \in 1 .. Len(calls) /\ p[i] = calls[j]
      BY <1>2, <2>2
    <3>2. i = Len(ops) + j
      BY <1>1, <1>2 DEF Matches
    <3> HIDE DEF j
    <3>3. a[i] = more[j]
      BY <1>1, <3>1, <3>2 DEF Matches
    <3> QED
      BY <3>1, <3>3 DEF Matches
  <2> QED
    BY <2>1, <2>2
<1>5. Matches(a, p)
  BY <1>3, <1>4 DEF Matches
<1> QED
  BY <1>5 DEF a, p

(* The calls for a list are one for each of its modules. *)
LEMMA CallsFacts ==
  ASSUME WeightTypes, NEW kind \in Kinds, NEW list \in Seq(Modules)
  PROVE  /\ Calls(kind, list) \in Seq(Signatures) /\ Len(Calls(kind, list)) = Len(list)
         /\ \A i \in 1 .. Len(list) :
              /\ Calls(kind, list)[i].kind = kind /\ Calls(kind, list)[i].module = list[i]
              /\ Calls(kind, list)[i].root = IF kind = "all_reduce" THEN None ELSE home[list[i]]
<1> DEFINE c == Calls(kind, list)
<1>1. Len(list) \in Nat /\ DOMAIN list = 1 .. Len(list)
      /\ \A i \in 1 .. Len(list) : list[i] \in Modules
  OBVIOUS
<1>2. c = [i \in 1 .. Len(list) |->
             [kind |-> kind, module |-> list[i],
              root |-> IF kind = "all_reduce" THEN None ELSE home[list[i]]]]
  BY <1>1 DEF Calls
<1>3. \A i \in 1 .. Len(list) : home[list[i]] \in Ranks
  BY <1>1 DEF WeightTypes
<1> HIDE DEF c
<1>4. c \in [1 .. Len(list) -> Signatures]
  BY <1>1, <1>2, <1>3 DEF Signatures
<1>5. c \in Seq(Signatures) /\ Len(c) = Len(list)
  BY <1>1, <1>4
<1>6. \A i \in 1 .. Len(list) :
        /\ c[i].kind = kind /\ c[i].module = list[i]
        /\ c[i].root = IF kind = "all_reduce" THEN None ELSE home[list[i]]
  BY <1>2
<1> QED
  BY <1>5, <1>6 DEF c

(* What a rank issues in an epoch, and the modules it is about. *)
LEMMA EpochCallsFacts ==
  ASSUME WeightTypes, SchedulesAreSound, DataIsBalanced, NEW r \in ranks,
         NEW e \in DOMAIN schedule
  PROVE  /\ SyncCalls(r, e) \in Seq(Signatures) /\ ReduceCalls(r, e) \in Seq(Signatures)
         /\ BroadcastCalls(r, e) \in Seq(Signatures)
         /\ ReachedList(r, e) \in Seq(Modules) /\ DividedList(r, e) \in Seq(Modules)
         /\ Select(schedule[e], ReachedIn(r, e)) \in Seq(Modules)
         /\ ToSet(ReachedList(r, e)) = ReachedIn(r, e)
         /\ ToSet(DividedList(r, e)) = DividedIn(r, e)
         /\ ToSet(Select(schedule[e], ReachedIn(r, e))) = ReachedIn(r, e)
<1>1. schedule[e] \in Seq(Modules) /\ coverage[r] \in Seq(Modules)
  BY EpochFacts DEF WeightTypes
<1>2. ReachedList(r, e) \in Seq(Modules) /\ ToSet(ReachedList(r, e)) = ReachedIn(r, e)
  BY <1>1, SelectFacts DEF ReachedList, ReachedIn
<1>3. DividedList(r, e) \in Seq(Modules) /\ ToSet(DividedList(r, e)) = DividedIn(r, e)
  BY <1>1, <1>2 DEF DividedList, DividedIn, EpochSet
<1>4. /\ Select(schedule[e], ReachedIn(r, e)) \in Seq(Modules)
      /\ ToSet(Select(schedule[e], ReachedIn(r, e))) = ReachedIn(r, e)
  <2>1. /\ Select(schedule[e], ReachedIn(r, e)) \in Seq(Modules)
        /\ ToSet(Select(schedule[e], ReachedIn(r, e))) = ToSet(schedule[e]) \cap ReachedIn(r, e)
    BY <1>1, SelectFacts
  <2> QED
    BY <2>1 DEF ReachedIn, EpochSet
<1>5. <<>> \in Seq(Signatures) /\ {"all_reduce", "reduce", "broadcast"} \subseteq Kinds
  BY DEF Kinds
<1>6. SyncCalls(r, e) \in Seq(Signatures)
  BY <1>4, <1>5, CallsFacts DEF SyncCalls
<1>7. ReduceCalls(r, e) \in Seq(Signatures)
  BY <1>2, <1>5, CallsFacts DEF ReduceCalls
<1>8. BroadcastCalls(r, e) \in Seq(Signatures)
  BY <1>3, <1>5, CallsFacts DEF BroadcastCalls
<1> QED
  BY <1>2, <1>3, <1>4, <1>6, <1>7, <1>8

(* All ranks have the same calls in an epoch. *)
LEMMA SameCalls ==
  ASSUME WeightTypes, SchedulesAreSound, DataIsBalanced, NEW r \in ranks, NEW q \in ranks, NEW e
  PROVE  /\ SyncCalls(q, e) = SyncCalls(r, e) /\ ReduceCalls(q, e) = ReduceCalls(r, e)
         /\ BroadcastCalls(q, e) = BroadcastCalls(r, e)
<1>1. coverage[q] = coverage[r]
  BY EpochFacts DEF WeightTypes
<1>2. ReachedIn(q, e) = ReachedIn(r, e) /\ ReachedList(q, e) = ReachedList(r, e)
  BY <1>1 DEF ReachedIn, ReachedList
<1>3. DividedList(q, e) = DividedList(r, e)
  BY <1>2 DEF DividedList
<1> QED
  BY <1>2, <1>3 DEF SyncCalls, ReduceCalls, BroadcastCalls

(* There is a plan: that of an epoch continues the one of the epoch before it. *)
LEMMA PlanExists ==
  ASSUME WeightTypes, SchedulesAreSound, DataIsBalanced
  PROVE  \E E : IsPlan(E)
<1>1. PICK r \in ranks : TRUE
  <2>1. ranks # {}
    BY DEF WeightTypes
  <2> QED
    BY <2>1
<1> DEFINE V == Seq(Signatures)
           After(s, e) == ((s \o SyncCalls(r, e)) \o ReduceCalls(r, e)) \o BroadcastCalls(r, e)
           step == [p \in Nat \X V |->
                      IF p[1] + 1 \in DOMAIN schedule THEN After(p[2], p[1] + 1) ELSE p[2]]
<1>2. ASSUME NEW s \in V, NEW e \in DOMAIN schedule PROVE After(s, e) \in V
  <2>1. SyncCalls(r, e) \in V /\ ReduceCalls(r, e) \in V /\ BroadcastCalls(r, e) \in V
    BY <1>1, EpochCallsFacts
  <2> QED
    BY <2>1
<1> HIDE DEF After, V
<1>3. step \in [Nat \X V -> V]
  BY <1>2
<1>4. \A n \in Nat : \A s \in V : n + 1 \in DOMAIN schedule => step[<<n, s>>] = After(s, n + 1)
  OBVIOUS
<1> HIDE DEF step
<1>5. <<>> \in V
  BY DEF V
<1>6. PICK E : E \in [Nat -> V] /\ E[0] = <<>> /\ \A n \in Nat : E[n + 1] = step[<<n, E[n]>>]
  <2>1. \E E : IsRecursive(E, V, <<>>, step)
    BY <1>3, <1>5, RecursionExists
  <2> QED
    BY <2>1 DEF IsRecursive
<1>7. ASSUME NEW q \in ranks, NEW e \in DOMAIN schedule
      PROVE  E[e] = ((E[e - 1] \o SyncCalls(q, e)) \o ReduceCalls(q, e)) \o BroadcastCalls(q, e)
  <2>1. e \in Nat \ {0} /\ e - 1 \in Nat /\ (e - 1) + 1 = e
    BY EpochFacts
  <2>2. E[e] = After(E[e - 1], e)
    BY <1>4, <1>6, <2>1
  <2>3. /\ SyncCalls(q, e) = SyncCalls(r, e) /\ ReduceCalls(q, e) = ReduceCalls(r, e)
        /\ BroadcastCalls(q, e) = BroadcastCalls(r, e)
    BY <1>1, SameCalls
  <2> QED
    BY <2>2, <2>3 DEF After
<1>8. IsPlan(E)
  BY <1>6, <1>7 DEF IsPlan, V
<1> QED
  BY <1>8

(* s is the beginning of t. *)
Begins(s, t) == Len(s) <= Len(t) /\ \A i \in 1 .. Len(s) : s[i] = t[i]

(* The beginning of a beginning is one. *)
LEMMA BeginsTransitive ==
  ASSUME NEW M, NEW a \in Seq(M), NEW b \in Seq(M), NEW c \in Seq(M), Begins(a, b), Begins(b, c)
  PROVE  Begins(a, c)
<1>1. Len(a) \in Nat /\ Len(b) \in Nat /\ Len(c) \in Nat
  OBVIOUS
<1> QED
  BY <1>1 DEF Begins

(* A sequence begins what it is continued to. *)
LEMMA BeginsAppended ==
  ASSUME NEW M, NEW a \in Seq(M), NEW b \in Seq(M), NEW c, c = a \o b
  PROVE  c \in Seq(M) /\ Begins(a, c)
<1>1. /\ c \in Seq(M) /\ Len(c) = Len(a) + Len(b) /\ Len(a) \in Nat /\ Len(b) \in Nat
      /\ \A i \in 1 .. Len(a) : c[i] = a[i]
  BY Concatenated
<1> QED
  BY <1>1 DEF Begins

(* The calls of a stage are the first ones of those of the epoch. *)
LEMMA StageOfPlan ==
  ASSUME WeightTypes, SchedulesAreSound, DataIsBalanced, NEW r \in ranks,
         NEW E, IsPlan(E), NEW e \in DOMAIN schedule,
         NEW a, a = E[e - 1] \o SyncCalls(r, e), NEW b, b = a \o ReduceCalls(r, e)
  PROVE  /\ E[e - 1] \in Seq(Signatures) /\ a \in Seq(Signatures) /\ b \in Seq(Signatures)
         /\ E[e] \in Seq(Signatures) /\ E[e] = b \o BroadcastCalls(r, e)
         /\ Begins(E[e - 1], a) /\ Begins(a, b) /\ Begins(b, E[e]) /\ Begins(a, E[e])
         /\ Begins(E[e - 1], E[e])
<1>1. e \in Nat /\ e - 1 \in Nat
  BY EpochFacts
<1>2. E[e - 1] \in Seq(Signatures) /\ E[e] \in Seq(Signatures)
  BY <1>1 DEF IsPlan
<1>3. /\ SyncCalls(r, e) \in Seq(Signatures) /\ ReduceCalls(r, e) \in Seq(Signatures)
      /\ BroadcastCalls(r, e) \in Seq(Signatures)
  BY EpochCallsFacts
<1>4. a \in Seq(Signatures) /\ Begins(E[e - 1], a)
  BY <1>2, <1>3, BeginsAppended
<1>5. b \in Seq(Signatures) /\ Begins(a, b)
  BY <1>3, <1>4, BeginsAppended
<1>6. E[e] = b \o BroadcastCalls(r, e)
  BY DEF IsPlan
<1>7. Begins(b, E[e])
  BY <1>3, <1>5, <1>6, BeginsAppended
<1>8. Begins(a, E[e])
  BY <1>2, <1>4, <1>5, <1>7, BeginsTransitive
<1>9. Begins(E[e - 1], E[e])
  BY <1>2, <1>4, <1>8, BeginsTransitive
<1> QED
  BY <1>2, <1>4, <1>5, <1>6, <1>7, <1>8, <1>9

(* The plan up to an epoch is the beginning of the whole plan. *)
LEMMA PlanGrows ==
  ASSUME WeightTypes, SchedulesAreSound, DataIsBalanced, NEW E, IsPlan(E),
         NEW e \in DOMAIN schedule
  PROVE  Begins(E[e], E[Len(schedule)])
<1>1. Len(schedule) \in Nat /\ DOMAIN schedule = 1 .. Len(schedule)
  BY EpochFacts
<1>2. PICK r \in ranks : TRUE
  <2>1. ranks # {}
    BY DEF WeightTypes
  <2> QED
    BY <2>1
<1>3. \A n \in Nat : E[n] \in Seq(Signatures)
  BY DEF IsPlan
<1> DEFINE T == {k \in Nat : e + k <= Len(schedule) => Begins(E[e], E[e + k])}
<1>4. 0 \in T
  <2>1. e + 0 = e /\ Len(E[e]) \in Nat
    BY <1>1, <1>3
  <2> QED
    BY <2>1 DEF Begins
<1>5. ASSUME NEW k \in Nat, k \in T PROVE k + 1 \in T
  <2> SUFFICES ASSUME e + (k + 1) <= Len(schedule) PROVE Begins(E[e], E[e + (k + 1)])
    OBVIOUS
  <2> DEFINE d == e + (k + 1)
  <2>1. d \in DOMAIN schedule /\ d - 1 = e + k /\ d \in Nat /\ e + k \in Nat /\ e \in Nat
    BY <1>1
  <2>2. Begins(E[e], E[e + k])
    BY <1>1, <1>5
  <2> HIDE DEF d, T
  <2>3. Begins(E[d - 1], E[d])
    BY <1>2, <2>1, StageOfPlan
  <2>4. E[e] \in Seq(Signatures) /\ E[d - 1] \in Seq(Signatures) /\ E[d] \in Seq(Signatures)
    BY <1>3, <2>1
  <2>5. Begins(E[e], E[d])
    BY <2>1, <2>2, <2>3, <2>4, BeginsTransitive
  <2> QED
    BY <2>5 DEF d
<1>6. \A k \in Nat : k \in T
  <2> HIDE DEF T
  <2> QED
    BY <1>4, <1>5, NumberInduction
<1>7. Len(schedule) - e \in Nat /\ e + (Len(schedule) - e) = Len(schedule)
  BY <1>1
<1> QED
  BY <1>1, <1>6, <1>7

(* What a rank has issued is the beginning of the whole plan. *)
LEMMA PlannedBegins ==
  ASSUME WeightTypes, SchedulesAreSound, DataIsBalanced, NEW r \in ranks, PlaceInv(r),
         NEW E, IsPlan(E)
  PROVE  Planned(r, E) \in Seq(Signatures) /\ Begins(Planned(r, E), E[Len(schedule)])
<1> DEFINE e == epoch[r]
           a == E[e - 1] \o SyncCalls(r, e)
           b == a \o ReduceCalls(r, e)
<1>1. e \in DOMAIN schedule
  BY DEF PlaceInv
<1> HIDE DEF e
<1>2. /\ E[e - 1] \in Seq(Signatures) /\ a \in Seq(Signatures) /\ b \in Seq(Signatures)
      /\ E[e] \in Seq(Signatures)
      /\ Begins(b, E[e]) /\ Begins(a, E[e]) /\ Begins(E[e - 1], E[e])
  BY <1>1, StageOfPlan
<1>3. Len(schedule) \in Nat /\ DOMAIN schedule = 1 .. Len(schedule)
  BY EpochFacts
<1>4. E[Len(schedule)] \in Seq(Signatures) /\ Begins(E[e], E[Len(schedule)])
  BY <1>1, <1>3, PlanGrows DEF IsPlan
<1>5. Planned(r, E) \in {E[e - 1], a, b, E[e]}
  BY DEF Planned, e
<1>6. ASSUME NEW x \in {E[e - 1], a, b, E[e]}
      PROVE  x \in Seq(Signatures) /\ Begins(x, E[Len(schedule)])
  <2>1. x \in Seq(Signatures) /\ (x = E[e] \/ Begins(x, E[e]))
    BY <1>2
  <2> QED
    BY <1>2, <1>4, <2>1, BeginsTransitive
<1> QED
  BY <1>5, <1>6

(* The collectives of two ranks match, as both follow the plan. *)
LEMMA CollectivesFollowPlan ==
  ASSUME RanksInv, PlanInv, SchedulesAreSound, DataIsBalanced
  PROVE  CollectivesMatch
<1> USE DEF RanksInv
<1>1. PICK E : IsPlan(E) /\ \A r \in ranks : Matches(sent[r], Planned(r, E))
  BY DEF PlanInv
<1> DEFINE N == Len(schedule)
<1>2. ASSUME NEW r \in ranks, NEW i \in DOMAIN sent[r]
      PROVE  /\ sent[r][i].kind = E[N][i].kind /\ sent[r][i].module = E[N][i].module
             /\ sent[r][i].root = E[N][i].root
  <2>1. /\ Planned(r, E) \in Seq(Signatures) /\ Begins(Planned(r, E), E[N])
    BY <1>1, PlannedBegins DEF RankInv
  <2>2. sent[r] \in Seq(Collectives)
    BY DEF WeightTypes
  <2>3. i \in 1 .. Len(Planned(r, E))
    BY <1>1, <2>2 DEF Matches
  <2>4. Planned(r, E)[i] = E[N][i]
    BY <2>1, <2>3 DEF Begins
  <2> QED
    BY <1>1, <2>3, <2>4 DEF Matches
<1> QED
  BY <1>2 DEF CollectivesMatch

-----------------------------------------------------------------------------
(* Collectives that are complete *)

(* A nonempty set of numbers up to n has a largest one. *)
LEMMA LargestExists ==
  ASSUME NEW n \in Nat, NEW S, S \subseteq 0 .. n, S # {}
  PROVE  Max(S) \in S /\ \A x \in S : x <= Max(S)
<1> DEFINE T == {n - x : x \in S}
<1>1. T \subseteq Nat /\ T # {}
  <2>1. \A x \in S : n - x \in Nat
    OBVIOUS
  <2>2. PICK x \in S : TRUE
    OBVIOUS
  <2>3. n - x \in T
    OBVIOUS
  <2> QED
    BY <2>1, <2>3
<1>2. PICK t \in T : \A y \in T : t <= y
  BY <1>1, LeastNumber
<1>3. PICK x \in S : t = n - x
  BY <1>2
<1>4. ASSUME NEW y \in S PROVE x >= y
  <2>1. t <= n - y
    BY <1>2
  <2> QED
    BY <1>3, <2>1
<1>5. \E z \in S : \A y \in S : z >= y
  BY <1>4
<1>6. Max(S) \in S /\ \A y \in S : Max(S) >= y
  BY <1>5 DEF Max
<1> QED
  BY <1>6

(* The last collective of a kind on a module, if there is one. *)
LEMMA PositionFacts ==
  ASSUME NEW r, sent[r] \in Seq(Collectives), NEW kind, NEW m, NEW i \in DOMAIN sent[r],
         sent[r][i].kind = kind, sent[r][i].module = m
  PROVE  /\ Position(r, kind, m) \in DOMAIN sent[r]
         /\ sent[r][Position(r, kind, m)].kind = kind
         /\ sent[r][Position(r, kind, m)].module = m
<1> DEFINE I == {j \in DOMAIN sent[r] : /\ sent[r][j].kind = kind /\ sent[r][j].module = m}
           S == {0} \cup I
           n == Len(sent[r])
<1>1. n \in Nat /\ DOMAIN sent[r] = 1 .. n
  OBVIOUS
<1>2. Position(r, kind, m) = Max(S)
  BY DEF Position
<1>3. S \subseteq 0 .. n /\ S # {} /\ i \in S
  BY <1>1
<1> HIDE DEF S
<1>4. Max(S) \in S /\ i <= Max(S)
  BY <1>1, <1>3, LargestExists
<1>5. Max(S) # 0
  BY <1>1, <1>4
<1> QED
  BY <1>2, <1>4, <1>5 DEF S

(* What all ranks bring into a complete collective. *)
LEMMA ContributionsFacts ==
  ASSUME RanksInv, CollectivesMatch, NEW r \in ranks, NEW i \in DOMAIN sent[r],
         sent[r][i].kind \in {"all_reduce", "reduce"}, Complete(r, i),
         sent[r][i].kind = "reduce" => home[sent[r][i].module] = r
  PROVE  Contributions(i) = ranks
<1> DEFINE op == sent[r][i]
<1>1. \A q \in ranks : sent[q] \in Seq(Collectives) /\ Len(sent[q]) \in Nat
      /\ DOMAIN sent[q] = 1 .. Len(sent[q])
  <2>1. \A q \in ranks : sent[q] \in Seq(Collectives)
    BY DEF RanksInv, WeightTypes
  <2> QED
    BY <2>1
<1>2. \A q \in ranks : \A j \in DOMAIN sent[q] : CarriesData(q, sent[q][j])
  BY DEF RanksInv, RankInv
<1>3. op.kind = "reduce" => op.root = r
  BY <1>2 DEF CarriesData
<1>4. \A q \in ranks : Len(sent[q]) >= i
  <2>1. CASE op.kind = "all_reduce"
    BY <2>1 DEF Complete
  <2>2. CASE op.kind = "reduce"
    BY <1>3, <2>2 DEF Complete
  <2> QED
    BY <2>1, <2>2
<1>5. \A q \in ranks : i \in DOMAIN sent[q]
  BY <1>1, <1>4
<1>6. \A q \in ranks : sent[q][i].data = {q}
  BY <1>2, <1>5 DEF CollectivesMatch, CarriesData
<1>7. Contributions(i) = UNION {sent[q][i].data : q \in ranks}
  BY <1>5 DEF Contributions
<1>8. UNION {sent[q][i].data : q \in ranks} = ranks
  BY <1>6
<1> QED
  BY <1>7, <1>8

(* The parameters that a complete broadcast brings. *)
LEMMA BroadcastFacts ==
  ASSUME RanksInv, CollectivesMatch, NEW r \in ranks, NEW i \in DOMAIN sent[r],
         sent[r][i].kind = "broadcast", Complete(r, i)
  PROVE  LET m == sent[r][i].module d == sent[home[m]][i].data IN
         /\ d.weight = FinalWeight /\ d.scale = {}
         /\ modifier = "quantization" => d.globalScale = FinalGlobalScale(m)
<1> DEFINE m == sent[r][i].module
           q == home[m]
<1>1. sent[r] \in Seq(Collectives) /\ sent[r][i] \in Collectives
  BY DEF RanksInv, WeightTypes
<1>2. m \in Modules /\ q \in ranks
  BY <1>1 DEF RanksInv, WeightTypes, Collectives
<1>3. CarriesData(r, sent[r][i])
  BY DEF RanksInv, RankInv
<1>4. sent[r][i].root = q
  BY <1>3 DEF CarriesData
<1>5. Len(sent[q]) >= i
  BY <1>4 DEF Complete
<1>6. sent[q] \in Seq(Collectives)
  BY <1>2 DEF RanksInv, WeightTypes
<1>7. i \in DOMAIN sent[q]
  BY <1>1, <1>5, <1>6
<1>8. sent[q][i].kind = "broadcast" /\ sent[q][i].module = m /\ sent[q][i].root = q
  BY <1>2, <1>4, <1>7 DEF CollectivesMatch
<1>9. CarriesData(q, sent[q][i])
  BY <1>2, <1>7 DEF RanksInv, RankInv
<1> HIDE DEF m, q
<1> QED
  BY <1>8, <1>9 DEF CarriesData, m, q

(* Collectives ops hold one of a kind for module m. *)
HasCall(ops, kind, m) == \E i \in DOMAIN ops : ops[i].kind = kind /\ ops[i].module = m

(* The calls at the end of a plan have been issued by who matches it. *)
LEMMA LastCalls ==
  ASSUME WeightTypes, NEW plan \in Seq(Signatures), NEW kind \in Kinds, NEW list \in Seq(Modules),
         NEW ops \in Seq(Collectives), Matches(ops, plan \o Calls(kind, list)),
         NEW m \in ToSet(list)
  PROVE  HasCall(ops, kind, m)
<1> DEFINE c == Calls(kind, list)
           p == plan \o c
<1>1. /\ c \in Seq(Signatures) /\ Len(c) = Len(list)
      /\ \A j \in 1 .. Len(list) : c[j].kind = kind /\ c[j].module = list[j]
  BY CallsFacts
<1> HIDE DEF c
<1>2. /\ Len(p) = Len(plan) + Len(c) /\ Len(plan) \in Nat /\ Len(c) \in Nat
      /\ \A j \in 1 .. Len(c) : p[Len(plan) + j] = c[j]
  <2>1. p = plan \o c
    OBVIOUS
  <2>2. c \in Seq(Signatures)
    BY <1>1
  <2> HIDE DEF p
  <2>3. /\ Len(p) = Len(plan) + Len(c) /\ Len(plan) \in Nat /\ Len(c) \in Nat
        /\ \A j \in 1 .. Len(c) : p[Len(plan) + j] = c[j]
    BY <2>1, <2>2, Concatenated
  <2> QED
    BY <2>3
<1>3. PICK j \in 1 .. Len(list) : list[j] = m
  BY DEF ToSet
<1>4. Matches(ops, p)
  BY DEF c
<1> HIDE DEF p
<1> DEFINE i == Len(plan) + j
<1>5. i \in 1 .. Len(p)
  BY <1>1, <1>2, <1>3
<1>6. p[i].kind = kind /\ p[i].module = m
  BY <1>1, <1>2, <1>3
<1>7. i \in DOMAIN ops
  BY <1>4, <1>5 DEF Matches
<1> QED
  BY <1>4, <1>5, <1>6, <1>7 DEF Matches, HasCall

(* The collectives a rank has issued in its epoch. *)
LEMMA IssuedFacts ==
  ASSUME WeightTypes, PlanInv, SchedulesAreSound, DataIsBalanced, NEW r \in ranks, PlaceInv(r),
         Distributed, NEW m
  PROVE  /\ pc[r] = "activations" /\ m \in ReachedIn(r, epoch[r]) =>
              HasCall(sent[r], "all_reduce", m)
         /\ pc[r] = "compress" /\ modifier = "gptq" /\ m \in ReachedIn(r, epoch[r]) =>
              HasCall(sent[r], "reduce", m)
         /\ pc[r] = "receive" /\ m \in DividedIn(r, epoch[r]) =>
              HasCall(sent[r], "broadcast", m)
<1>1. PICK E : IsPlan(E) /\ \A q \in ranks : Matches(sent[q], Planned(q, E))
  BY DEF PlanInv
<1> DEFINE e == epoch[r]
           a == E[e - 1] \o SyncCalls(r, e)
           b == a \o ReduceCalls(r, e)
<1>2. e \in DOMAIN schedule
  BY DEF PlaceInv
<1>3. sent[r] \in Seq(Collectives) /\ Matches(sent[r], Planned(r, E))
  BY <1>1 DEF WeightTypes
<1>4. Planned(r, E) = IF pc[r] \in {"forward", "sync"} THEN E[e - 1]
                      ELSE IF pc[r] \in {"activations", "observe", "reduce"} THEN a
                      ELSE IF pc[r] \in {"compress", "broadcast"} THEN b ELSE E[e]
  BY DEF Planned
<1> HIDE DEF e
<1>5. /\ E[e - 1] \in Seq(Signatures) /\ a \in Seq(Signatures) /\ b \in Seq(Signatures)
      /\ E[e] = b \o BroadcastCalls(r, e)
  BY <1>1, <1>2, StageOfPlan
<1>6. /\ ReachedList(r, e) \in Seq(Modules) /\ DividedList(r, e) \in Seq(Modules)
      /\ Select(schedule[e], ReachedIn(r, e)) \in Seq(Modules)
      /\ ToSet(ReachedList(r, e)) = ReachedIn(r, e)
      /\ ToSet(DividedList(r, e)) = DividedIn(r, e)
      /\ ToSet(Select(schedule[e], ReachedIn(r, e))) = ReachedIn(r, e)
  BY <1>2, EpochCallsFacts
<1>7. {"all_reduce", "reduce", "broadcast"} \subseteq Kinds
  BY DEF Kinds
<1>8. ASSUME pc[r] = "activations", m \in ReachedIn(r, e)
      PROVE  HasCall(sent[r], "all_reduce", m)
  <2>1. Matches(sent[r], E[e - 1] \o Calls("all_reduce", Select(schedule[e], ReachedIn(r, e))))
    BY <1>3, <1>4, <1>8 DEF SyncCalls
  <2> QED
    BY <1>3, <1>5, <1>6, <1>7, <1>8, <2>1, LastCalls
<1>9. ASSUME pc[r] = "compress", modifier = "gptq", m \in ReachedIn(r, e)
      PROVE  HasCall(sent[r], "reduce", m)
  <2>1. Matches(sent[r], a \o Calls("reduce", ReachedList(r, e)))
    BY <1>3, <1>4, <1>9 DEF ReduceCalls
  <2> HIDE DEF a
  <2> QED
    BY <1>3, <1>5, <1>6, <1>7, <1>9, <2>1, LastCalls
<1>10. ASSUME pc[r] = "receive", m \in DividedIn(r, e)
       PROVE  HasCall(sent[r], "broadcast", m)
  <2>1. Matches(sent[r], b \o Calls("broadcast", DividedList(r, e)))
    BY <1>3, <1>4, <1>5, <1>10 DEF BroadcastCalls
  <2> HIDE DEF b
  <2> QED
    BY <1>3, <1>5, <1>6, <1>7, <1>10, <2>1, LastCalls
<1> QED
  BY <1>8, <1>9, <1>10 DEF e

-----------------------------------------------------------------------------
(* What a step leaves alone *)

(* The three parts of the invariant of a rank stay with the state they are about. *)
LEMMA ParametersKept ==
  ASSUME UNCHANGED setup, NEW r, weight'[r] = weight[r], scale'[r] = scale[r],
         globalScale'[r] = globalScale[r], Finished(r)' = Finished(r), ParametersInv(r)
  PROVE  ParametersInv(r)'
<1>1. modifier' = modifier /\ FinalWeight' = FinalWeight
  BY SetupKept DEF setup
<1> QED
  BY <1>1 DEF ParametersInv

(* Observers that are left alone, also when the rank is about to compress. *)
LEMMA ObserversKept ==
  ASSUME UNCHANGED setup, NEW r, stats'[r] = stats[r], deletion'[r] = deletion[r],
         Asked(r)' = Asked(r), Seen(r)' = Seen(r), ObserversInv(r), epoch'[r] = epoch[r],
         pc'[r] = "compress" => \A m \in OwnIn(r, epoch[r]) : stats[r][m] # None
  PROVE  ObserversInv(r)'
<1>1. (InOrder' <=> InOrder) /\ \A m : IsWhole(m)' <=> IsWhole(m)
  BY SetupKept
<1>2. OwnIn(r, epoch[r])' = OwnIn(r, epoch[r])
  BY DEF setup, ReachedIn, OwnIn, DividedIn, EpochSet, Distributed
<1>3. StatisticsAreSound(Observers(r), Asked(r))'
  <2>1. StatisticsAreSound(Observers(r), Asked(r))
    BY DEF ObserversInv
  <2>2. Observers(r).stats' = Observers(r).stats /\ Observers(r).deletion' = Observers(r).deletion
    BY DEF Observers
  <2> QED
    BY <2>1, <2>2 DEF StatisticsAreSound
<1> QED
  BY <1>1, <1>2, <1>3 DEF ObserversInv

(* Collectives that are left alone. *)
LEMMA CallsKept ==
  ASSUME UNCHANGED setup, NEW r, sent'[r] = sent[r],
         \A i \in DOMAIN sent[r] : CarriesData(r, sent[r][i])
  PROVE  \A i \in DOMAIN sent'[r] : CarriesData(r, sent[r][i])'
<1>1. FinalWeight' = FinalWeight
  BY SetupKept
<1> QED
  BY <1>1 DEF setup, CarriesData

(* Collectives carry the data of the rank when the new ones do. *)
LEMMA CallsIssued ==
  ASSUME UNCHANGED setup, NEW r, sent[r] \in Seq(Collectives), NEW ops \in Seq(Collectives),
         sent'[r] = sent[r] \o ops, \A i \in DOMAIN sent[r] : CarriesData(r, sent[r][i]),
         \A i \in DOMAIN ops : CarriesData(r, ops[i])
  PROVE  /\ sent'[r] \in Seq(Collectives)
         /\ \A i \in DOMAIN sent'[r] : CarriesData(r, sent[r][i])'
<1> DEFINE old == sent[r]
           new == sent'[r]
<1>1. FinalWeight' = FinalWeight
  BY SetupKept
<1>2. new = old \o ops
  OBVIOUS
<1>3. old \in Seq(Collectives)
  OBVIOUS
<1> HIDE DEF old, new
<1>4. /\ new \in Seq(Collectives) /\ DOMAIN new = 1 .. Len(new)
      /\ \A i \in 1 .. Len(old) : new[i] = old[i]
      /\ \A i \in 1 .. Len(new) :
           i \in 1 .. Len(old) \/ (i - Len(old) \in 1 .. Len(ops) /\ new[i] = ops[i - Len(old)])
  BY <1>2, <1>3, Concatenated
<1>5. DOMAIN old = 1 .. Len(old) /\ DOMAIN ops = 1 .. Len(ops)
  BY <1>3
<1>6. \A i \in DOMAIN old : CarriesData(r, old[i])
  BY DEF old
<1>7. ASSUME NEW i \in DOMAIN new PROVE CarriesData(r, new[i])
  <2>1. CASE i \in 1 .. Len(old)
    BY <1>4, <1>5, <1>6, <2>1
  <2>2. CASE i \notin 1 .. Len(old)
    BY <1>4, <1>5, <2>2
  <2> QED
    BY <2>1, <2>2
<1>8. ASSUME NEW i \in DOMAIN new PROVE CarriesData(r, sent[r][i])'
  BY <1>1, <1>7 DEF setup, CarriesData, new
<1> QED
  BY <1>4, <1>8 DEF new

(* A rank that stays in its epoch. *)
LEMMA PastKept ==
  ASSUME UNCHANGED setup, NEW r, epoch'[r] = epoch[r], pc[r] # "done", pc'[r] # "done"
  PROVE  Past(r)' = Past(r)
BY DEF setup, Past

-----------------------------------------------------------------------------
(* The steps *)

(* Forward: Hessians and activation statistics hold the data of the rank. *)
LEMMA ForwardKeeps ==
  ASSUME RanksInv, SchedulesAreSound, DataIsBalanced, NEW r \in ranks, Forward(r)
  PROVE  RanksInv'
<1>1. WeightTypes /\ RankInv(r) /\ r \in Ranks
  BY DEF RanksInv, WeightTypes
<1>2. /\ UNCHANGED setup /\ pc[r] = "forward"
      /\ ranks' = ranks /\ modifier' = modifier /\ schedule' = schedule /\ coverage' = coverage
      /\ home' = home
  BY DEF Forward, setup
<1>3. /\ pc' = [pc EXCEPT ![r] = "sync"]
      /\ UNCHANGED <<epoch, weight, stats, deletion, scale, globalScale, actScale, sent>>
  BY DEF Forward
<1>4. ToSet(Reached(r)) = ReachedIn(r, epoch[r])
  BY <1>1, ListFacts DEF RankInv
<1> DEFINE hess == [m \in Modules |-> IF modifier = "gptq" /\ m \in ReachedIn(r, epoch[r]) THEN {r}
                                      ELSE hessian[r][m]]
           acts == [m \in Modules |-> IF m \in ReachedIn(r, epoch[r]) THEN {r} ELSE act[r][m]]
<1>5. hessian' = [hessian EXCEPT ![r] = hess] /\ act' = [act EXCEPT ![r] = acts]
  BY <1>1, <1>4 DEF Forward, WeightTypes
<1>6. hess \in [Modules -> SUBSET Ranks] /\ acts \in [Modules -> SUBSET Ranks]
  BY <1>1 DEF WeightTypes
<1>7. pc'[r] = "sync" /\ hessian'[r] = hess /\ act'[r] = acts
  BY <1>1, <1>3, <1>5 DEF WeightTypes
<1>8. WeightTypes'
  <2> HIDE DEF hess, acts
  <2>1. pc' \in [Ranks -> {"forward", "sync", "activations", "observe", "reduce", "compress",
                           "broadcast", "receive", "done"}]
    BY <1>1, <1>3 DEF WeightTypes
  <2>2. hessian' \in [Ranks -> [Modules -> SUBSET Ranks]]
        /\ act' \in [Ranks -> [Modules -> SUBSET Ranks]]
    BY <1>1, <1>5, <1>6 DEF WeightTypes
  <2> QED
    BY <1>1, <1>2, <1>3, <2>1, <2>2 DEF WeightTypes
<1>9. \A q \in Ranks \ {r} : Same(q)
  <2> HIDE DEF hess, acts
  <2> QED
    BY <1>1, <1>3, <1>5 DEF WeightTypes, Same
<1>10. Past(r)' = Past(r)
  BY <1>2, <1>3, <1>7, PastKept
<1>11. /\ Finished(r)' = Finished(r) /\ Asked(r)' = Asked(r) /\ Seen(r)' = Seen(r)
       /\ Scaled(r)' = Scaled(r)
  BY <1>2, <1>7, <1>10, SetupKept DEF Finished, Asked, Seen, Scaled, HasObserved
<1>12. PlaceInv(r)'
  BY <1>1, <1>2, <1>3, <1>7 DEF RankInv, PlaceInv
<1>13. ParametersInv(r)'
  BY <1>1, <1>2, <1>3, <1>11, ParametersKept DEF RankInv
<1>14. DataInv(r)'
  <2>1. ReachedIn(r, epoch[r])' = ReachedIn(r, epoch[r])
    BY <1>2, <1>3 DEF ReachedIn, EpochSet
  <2>2. DataInv(r)
    BY <1>1 DEF RankInv
  <2> QED
    BY <1>2, <1>3, <1>7, <1>11, <2>1, <2>2 DEF DataInv
<1>15. ObserversInv(r)'
  BY <1>1, <1>2, <1>3, <1>7, <1>11, ObserversKept DEF RankInv
<1>16. \A i \in DOMAIN sent'[r] : CarriesData(r, sent[r][i])'
  BY <1>1, <1>2, <1>3, CallsKept DEF RankInv
<1>17. RankInv(r)'
  BY <1>12, <1>13, <1>14, <1>15, <1>16 DEF RankInv
<1> QED
  BY <1>2, <1>8, <1>9, <1>17, OneRankSteps

(* A calibration that is not distributed has one rank. *)
LEMMA SingleRank ==
  ASSUME WeightTypes, NEW r \in ranks, ~Distributed
  PROVE  ranks = {r}
<1>1. IsFiniteSet(ranks) /\ ranks \in SUBSET Ranks
  BY WeightAssumption, FS_Subset DEF WeightTypes
<1>2. Cardinality(ranks) \in Nat
  BY <1>1, FS_CardinalityType
<1>3. ASSUME NEW q \in ranks, q # r PROVE FALSE
  <2>1. IsFiniteSet({q, r}) /\ Cardinality({q, r}) = 2
    <3>1. IsFiniteSet({r}) /\ Cardinality({r}) = 1
      BY FS_Singleton
    <3>2. IsFiniteSet({r} \cup {q}) /\ Cardinality({r} \cup {q}) = 2
      <4>1. q \notin {r}
        BY <1>3
      <4>2. /\ IsFiniteSet({r} \cup {q})
            /\ Cardinality({r} \cup {q}) = Cardinality({r}) + 1
        BY <3>1, <4>1, FS_AddElement
      <4> QED
        BY <3>1, <4>2
    <3>3. {r} \cup {q} = {q, r}
      OBVIOUS
    <3> QED
      BY <3>2, <3>3
  <2>2. {q, r} \subseteq ranks
    OBVIOUS
  <2>3. Cardinality({q, r}) <= Cardinality(ranks)
    BY <1>1, <2>2, FS_Subset
  <2> QED
    BY <1>2, <2>1, <2>3 DEF Distributed
<1> QED
  BY <1>3

(* The collectives for a list of modules. *)
LEMMA OpsFacts ==
  ASSUME WeightTypes, NEW kind \in Kinds, NEW list \in Seq(Modules), NEW data,
         \A i \in 1 .. Len(list) : data[i] \in (SUBSET Ranks) \cup Bundles, NEW ops,
         ops = [i \in DOMAIN list |->
                  Collective(kind, list[i], IF kind = "all_reduce" THEN None ELSE home[list[i]],
                             data[i])]
  PROVE  /\ ops \in Seq(Collectives) /\ DOMAIN ops = 1 .. Len(list)
         /\ Matches(ops, Calls(kind, list))
         /\ \A i \in 1 .. Len(list) :
              /\ list[i] \in Modules /\ list[i] \in ToSet(list)
              /\ ops[i].kind = kind /\ ops[i].module = list[i] /\ ops[i].data = data[i]
              /\ ops[i].root = IF kind = "all_reduce" THEN None ELSE home[list[i]]
<1>1. /\ Len(list) \in Nat /\ DOMAIN list = 1 .. Len(list)
      /\ \A i \in 1 .. Len(list) : list[i] \in Modules /\ list[i] \in ToSet(list)
  <2>1. /\ Len(list) \in Nat /\ DOMAIN list = 1 .. Len(list)
        /\ \A i \in 1 .. Len(list) : list[i] \in Modules
    OBVIOUS
  <2> QED
    BY <2>1 DEF ToSet
<1>2. \A i \in 1 .. Len(list) : home[list[i]] \in Ranks
  BY <1>1 DEF WeightTypes
<1>3. ops = [i \in 1 .. Len(list) |->
               [kind |-> kind, module |-> list[i],
                root |-> IF kind = "all_reduce" THEN None ELSE home[list[i]], data |-> data[i]]]
  BY <1>1 DEF Collective
<1>4. ops \in [1 .. Len(list) -> Collectives]
  <2>1. ASSUME NEW i \in 1 .. Len(list)
        PROVE  [kind |-> kind, module |-> list[i],
                root |-> IF kind = "all_reduce" THEN None ELSE home[list[i]], data |-> data[i]]
                  \in Collectives
    <3> DEFINE root == IF kind = "all_reduce" THEN None ELSE home[list[i]]
    <3>1. list[i] \in Modules /\ root \in Ranks \cup {None}
          /\ data[i] \in (SUBSET Ranks) \cup Bundles
      BY <1>1, <1>2
    <3> HIDE DEF root
    <3>2. [kind |-> kind, module |-> list[i], root |-> root, data |-> data[i]] \in Collectives
      BY <3>1 DEF Collectives
    <3> QED
      BY <3>2 DEF root
  <2> QED
    BY <1>3, <2>1
<1>5. ops \in Seq(Collectives) /\ DOMAIN ops = 1 .. Len(list) /\ Len(ops) = Len(list)
  BY <1>1, <1>4
<1>6. \A i \in 1 .. Len(list) :
        /\ ops[i].kind = kind /\ ops[i].module = list[i] /\ ops[i].data = data[i]
        /\ ops[i].root = IF kind = "all_reduce" THEN None ELSE home[list[i]]
  BY <1>3
<1>7. Matches(ops, Calls(kind, list))
  BY <1>5, <1>6, CallsFacts DEF Matches
<1> QED
  BY <1>1, <1>5, <1>6, <1>7

(* Weights that are observed are the original ones. *)
LEMMA ObservedFacts ==
  ASSUME RanksInv, SchedulesAreSound, DataIsBalanced, NEW r \in ranks,
         \/ pc[r] = "sync" /\ modifier = "gptq"
         \/ pc[r] = "observe",
         NEW S, S \subseteq EpochSet(epoch[r]), InOrder => S = EpochSet(epoch[r])
  PROVE  /\ Observed(r, S) \in [Modules -> Originals]
         /\ \A m \in S : Observed(r, S)[m] # None
         /\ \A m \in Modules :
              /\ \A j \in Group(m) : Observed(r, S)[j] = Observed(r, S)[m]
              /\ Observed(r, S)[m] = None => ~deletion[r][m]
              /\ Observed(r, S)[m] # None => \E j \in Group(m) : ~deletion[r][j]
              /\ InOrder /\ Group(m) \cap (Seen(r) \cup S) # {} /\ ~(Group(m) \subseteq Asked(r)) =>
                   Observed(r, S)[m] # None
              /\ IsWhole(m) /\ m \in Asked(r) /\ Observed(r, S)[m] # None => deletion[r][m]
<1> DEFINE s == Observed(r, S)
           e == epoch[r]
<1>1. WeightTypes /\ RankInv(r) /\ r \in Ranks
  BY DEF RanksInv, WeightTypes
<1>2. s = [m \in Modules |-> IF stats[r][m] = None /\ Group(m) \cap S # {} THEN weight[r][m]
                             ELSE stats[r][m]]
  BY DEF Observed
<1>3. e \in DOMAIN schedule /\ EpochSet(e) \subseteq Modules /\ PlaceInv(r)
  BY <1>1, EpochFacts DEF RankInv, PlaceInv
<1>4. Asked(r) = UNION {DividedIn(r, d) : d \in Past(r)}
  BY DEF Asked
<1>5. Finished(r) = Asked(r)
  BY DEF Finished, Asked
<1>6. Seen(r) = UNION {EpochSet(d) : d \in Past(r)}
  BY <1>1 DEF Seen, HasObserved, RankInv, PlaceInv
<1>7. \A d \in Past(r) : DividedIn(r, d) \subseteq EpochSet(d) /\ EpochSet(d) \cap EpochSet(e) = {}
  BY <1>1, <1>3, PastFacts
<1>8. Asked(r) \subseteq Seen(r) /\ Asked(r) \cap S = {}
  BY <1>4, <1>6, <1>7
<1>9. \A m \in Modules : m \in Group(m) /\ Group(m) \subseteq Modules
      /\ \A j \in Group(m) : Group(j) = Group(m)
  BY GroupFacts
<1>10. /\ StatisticsAreSound(Observers(r), Asked(r))
       /\ InOrder => \A m \in Modules :
            Group(m) \cap Seen(r) # {} /\ ~(Group(m) \subseteq Asked(r)) => stats[r][m] # None
       /\ \A m \in Modules :
            IsWhole(m) /\ m \in Asked(r) /\ stats[r][m] # None => deletion[r][m]
  BY <1>1 DEF RankInv, ObserversInv
<1>11. \A m \in Modules :
         /\ \A j \in Group(m) : stats[r][j] = stats[r][m]
         /\ stats[r][m] = None => ~deletion[r][m]
         /\ deletion[r][m] => m \in Asked(r)
         /\ stats[r][m] # None => \E j \in Group(m) : ~deletion[r][j]
  BY <1>10 DEF StatisticsAreSound, Observers
<1>12. ASSUME NEW m \in Modules, stats[r][m] = None, Group(m) \cap S # {}
       PROVE  weight[r][m] = {}
  <2>1. CASE modifier = "gptq"
    <3>1. ~(Group(m) \subseteq Asked(r))
      BY <1>8, <1>12
    <3>2. m \notin Seen(r)
      BY <1>9, <1>10, <1>12, <2>1, <3>1 DEF InOrder
    <3>3. m \notin Finished(r)
      BY <1>5, <1>8, <3>2
    <3> QED
      BY <1>1, <3>3 DEF RankInv, ParametersInv
  <2>2. CASE modifier # "gptq"
    BY <1>1, <2>2 DEF RankInv, ParametersInv, FinalWeight
  <2> QED
    BY <2>1, <2>2
<1>13. None # {}
  BY WeightAssumption
<1> HIDE DEF s
<1>14. \A m \in Modules :
         s[m] = IF stats[r][m] = None /\ Group(m) \cap S # {} THEN {} ELSE stats[r][m]
  BY <1>2, <1>12
<1>15. s \in [Modules -> Originals]
  BY <1>1, <1>2, <1>14 DEF WeightTypes, Originals
<1>16. \A m \in S : s[m] # None
  BY <1>3, <1>9, <1>13, <1>14
<1>17. ASSUME NEW m \in Modules
       PROVE  /\ \A j \in Group(m) : s[j] = s[m]
              /\ s[m] = None => ~deletion[r][m]
              /\ s[m] # None => \E j \in Group(m) : ~deletion[r][j]
  <2>1. \A j \in Group(m) : s[j] = s[m]
    BY <1>9, <1>11, <1>14
  <2>2. s[m] = None => ~deletion[r][m]
    BY <1>11, <1>13, <1>14
  <2>3. s[m] # None => \E j \in Group(m) : ~deletion[r][j]
    BY <1>9, <1>11, <1>14
  <2> QED
    BY <2>1, <2>2, <2>3
<1>18. ASSUME NEW m \in Modules, InOrder, Group(m) \cap (Seen(r) \cup S) # {},
              ~(Group(m) \subseteq Asked(r))
       PROVE  s[m] # None
  BY <1>10, <1>13, <1>14, <1>18
<1>19. ASSUME NEW m \in Modules, IsWhole(m), m \in Asked(r), s[m] # None
       PROVE  deletion[r][m]
  <2>1. CASE stats[r][m] # None
    BY <1>10, <1>19, <2>1
  <2>2. CASE stats[r][m] = None
    <3>1. PICK j \in Group(m) : j \in S
      BY <1>14, <1>19, <2>2
    <3>2. CASE InOrder
      <4>1. Group(m) \subseteq Asked(r)
        BY <1>8, <1>9, <1>10, <1>19, <2>2, <3>2
      <4> QED
        BY <1>8, <3>1, <4>1
    <3>3. CASE ~InOrder
      <4>1. PICK d \in DOMAIN schedule : Group(m) \subseteq EpochSet(d)
        BY <1>19, <3>3 DEF IsWhole
      <4>2. PICK c \in Past(r) : m \in EpochSet(c)
        BY <1>4, <1>7, <1>19
      <4>3. c \in DOMAIN schedule
        BY DEF Past
      <4>4. c = d
        BY <1>1, <1>9, <4>1, <4>2, <4>3, EpochFacts
      <4> QED
        BY <1>7, <3>1, <4>1, <4>4
    <3> QED
      BY <3>2, <3>3
  <2> QED
    BY <2>1, <2>2
<1> QED
  BY <1>15, <1>16, <1>17, <1>18, <1>19 DEF s

(* Observation by a rank of modules of its epoch: statistics that were deleted come back
   only for groups of which a member is still to ask. *)
LEMMA ObservingKeeps ==
  ASSUME RanksInv, SchedulesAreSound, DataIsBalanced, NEW r \in ranks,
         \/ pc[r] = "sync" /\ modifier = "gptq"
         \/ pc[r] = "observe",
         NEW S, S \subseteq EpochSet(epoch[r]), InOrder => S = EpochSet(epoch[r]),
         UNCHANGED setup, stats'[r] = Observed(r, S), deletion'[r] = deletion[r],
         epoch'[r] = epoch[r], Asked(r)' = Asked(r), Seen(r)' = Seen(r) \cup EpochSet(epoch[r]),
         pc'[r] = "compress" => S = OwnIn(r, epoch[r])
  PROVE  ObserversInv(r)'
<1> DEFINE s == Observed(r, S)
<1>1. /\ \A m \in S : s[m] # None
      /\ \A m \in Modules :
           /\ \A j \in Group(m) : s[j] = s[m]
           /\ s[m] = None => ~deletion[r][m]
           /\ s[m] # None => \E j \in Group(m) : ~deletion[r][j]
           /\ InOrder /\ Group(m) \cap (Seen(r) \cup S) # {} /\ ~(Group(m) \subseteq Asked(r)) =>
                s[m] # None
           /\ IsWhole(m) /\ m \in Asked(r) /\ s[m] # None => deletion[r][m]
  BY ObservedFacts
<1>2. stats'[r] = s
  OBVIOUS
<1> HIDE DEF s
<1>3. (InOrder' <=> InOrder) /\ \A m : IsWhole(m)' <=> IsWhole(m)
  BY SetupKept
<1>4. OwnIn(r, epoch[r])' = OwnIn(r, epoch[r])
  BY DEF setup, ReachedIn, OwnIn, DividedIn, EpochSet, Distributed
<1>5. \A m \in Modules : deletion[r][m] => m \in Asked(r)
  BY DEF RanksInv, RankInv, ObserversInv, StatisticsAreSound, Observers
<1>6. StatisticsAreSound(Observers(r), Asked(r))'
  <2>1. Observers(r).stats' = s /\ Observers(r).deletion' = deletion[r]
    BY <1>2 DEF Observers
  <2> QED
    BY <1>1, <1>5, <2>1 DEF StatisticsAreSound
<1>7. InOrder => \A m \in Modules :
        Group(m) \cap Seen(r)' # {} /\ ~(Group(m) \subseteq Asked(r)') => s[m] # None
  BY <1>1
<1> QED
  BY <1>1, <1>2, <1>3, <1>4, <1>6, <1>7 DEF ObserversInv

(* SyncActivations: a rank issues the all-reduces of the plan. *)
LEMMA SyncKeeps ==
  ASSUME RanksInv, SchedulesAreSound, DataIsBalanced, NEW r \in ranks, SyncActivations(r)
  PROVE  /\ RanksInv'
         /\ \E ops \in Seq(Collectives) :
              sent'[r] = sent[r] \o ops /\ Matches(ops, SyncCalls(r, epoch[r]))
<1>1. WeightTypes /\ RankInv(r) /\ r \in Ranks
  BY DEF RanksInv, WeightTypes
<1>2. /\ UNCHANGED setup /\ pc[r] = "sync"
      /\ ranks' = ranks /\ modifier' = modifier /\ schedule' = schedule /\ coverage' = coverage
      /\ home' = home
  BY DEF SyncActivations, setup
<1>3. /\ pc' = [pc EXCEPT ![r] = "activations"]
      /\ UNCHANGED <<epoch, weight, deletion, scale, globalScale, hessian, act, actScale>>
  BY DEF SyncActivations
<1> DEFINE e == epoch[r]
           S == Select(Epoch(r), {m \in Modules : act[r][m] # {}})
           ops == IF ~Distributed THEN <<>>
                  ELSE [i \in DOMAIN S |-> Collective("all_reduce", S[i], None, act[r][S[i]])]
           st == IF modifier = "gptq" THEN Observed(r, ToSet(Epoch(r))) ELSE stats[r]
<1>4. e \in DOMAIN schedule /\ EpochSet(e) \subseteq Modules /\ ToSet(Epoch(r)) = EpochSet(e)
      /\ Epoch(r) \in Seq(Modules)
  BY <1>1, EpochFacts, ListFacts DEF RankInv, PlaceInv
<1>5. {m \in Modules : act[r][m] # {}} = ReachedIn(r, e)
  <2>1. ReachedIn(r, e) \subseteq Modules
    BY <1>4 DEF ReachedIn
  <2> QED
    BY <1>1, <1>2, <2>1 DEF RankInv, DataInv
<1>6. S = Select(schedule[e], ReachedIn(r, e))
  BY <1>5 DEF Epoch
<1>7. S \in Seq(Modules) /\ ToSet(S) = ReachedIn(r, e)
  BY <1>1, <1>4, <1>6, EpochCallsFacts
<1>8. sent' = [sent EXCEPT ![r] = @ \o ops] /\ stats' = [stats EXCEPT ![r] = st]
  BY <1>1 DEF SyncActivations, Issue, WeightTypes
<1>9. ops \in Seq(Collectives) /\ (\A i \in DOMAIN ops : CarriesData(r, ops[i]))
      /\ Matches(ops, SyncCalls(r, e))
  <2>1. CASE ~Distributed
    <3>1. ops = <<>> /\ SyncCalls(r, e) = <<>>
      BY <2>1 DEF SyncCalls
    <3> HIDE DEF ops
    <3> QED
      BY <3>1 DEF Matches
  <2>2. CASE Distributed
    <3> DEFINE data == [i \in DOMAIN S |-> act[r][S[i]]]
    <3>1. ops = [i \in DOMAIN S |-> Collective("all_reduce", S[i], None, data[i])]
      BY <2>2
    <3>2. \A i \in 1 .. Len(S) : S[i] \in ReachedIn(r, e) /\ i \in DOMAIN S
      <4> HIDE DEF S
      <4>1. DOMAIN S = 1 .. Len(S)
        BY <1>7
      <4> QED
        BY <1>7, <4>1 DEF ToSet
    <3>3. \A i \in 1 .. Len(S) : data[i] = {r}
      <4>1. \A m \in ReachedIn(r, e) : act[r][m] = {r}
        BY <1>1, <1>2, <1>5 DEF RankInv, DataInv
      <4> QED
        BY <3>2, <4>1
    <3>4. SyncCalls(r, e) = Calls("all_reduce", S)
      BY <1>6, <2>2 DEF SyncCalls
    <3>5. "all_reduce" \in Kinds
      BY DEF Kinds
    <3> HIDE DEF S, ops, data
    <3>6. \A i \in 1 .. Len(S) : data[i] \in (SUBSET Ranks) \cup Bundles
      BY <1>1, <3>3
    <3>7. /\ ops \in Seq(Collectives) /\ DOMAIN ops = 1 .. Len(S)
          /\ Matches(ops, Calls("all_reduce", S))
          /\ \A i \in 1 .. Len(S) : ops[i].kind = "all_reduce" /\ ops[i].data = data[i]
      BY <1>1, <1>7, <3>1, <3>5, <3>6, OpsFacts
    <3> QED
      BY <3>3, <3>4, <3>7 DEF CarriesData
  <2> QED
    BY <2>1, <2>2
<1>10. modifier = "gptq" => st = Observed(r, EpochSet(e))
  BY <1>4
<1>11. st \in [Modules -> Originals]
  <2>1. CASE modifier = "gptq"
    <3>1. Observed(r, EpochSet(e)) \in [Modules -> Originals]
      BY <1>2, <2>1, ObservedFacts
    <3> QED
      BY <1>10, <2>1, <3>1
  <2>2. CASE modifier # "gptq"
    BY <1>1, <2>2 DEF WeightTypes
  <2> QED
    BY <2>1, <2>2
<1> HIDE DEF ops, S, st
<1>12. pc'[r] = "activations" /\ sent'[r] = sent[r] \o ops /\ stats'[r] = st
  BY <1>1, <1>3, <1>8 DEF WeightTypes
<1>13. sent'[r] \in Seq(Collectives) /\ \A i \in DOMAIN sent'[r] : CarriesData(r, sent[r][i])'
  <2>1. sent[r] \in Seq(Collectives) /\ \A i \in DOMAIN sent[r] : CarriesData(r, sent[r][i])
    BY <1>1 DEF RankInv, WeightTypes
  <2> QED
    BY <1>2, <1>9, <1>12, <2>1, CallsIssued
<1>14. WeightTypes'
  <2>1. pc' \in [Ranks -> {"forward", "sync", "activations", "observe", "reduce", "compress",
                           "broadcast", "receive", "done"}]
    BY <1>1, <1>3 DEF WeightTypes
  <2>2. stats' \in [Ranks -> [Modules -> Originals]]
    BY <1>1, <1>8, <1>11 DEF WeightTypes
  <2>3. sent' \in [Ranks -> Seq(Collectives)]
    BY <1>1, <1>8, <1>12, <1>13 DEF WeightTypes
  <2> QED
    BY <1>1, <1>2, <1>3, <2>1, <2>2, <2>3 DEF WeightTypes
<1>15. \A q \in Ranks \ {r} : Same(q)
  BY <1>1, <1>3, <1>8 DEF WeightTypes, Same
<1>16. Past(r)' = Past(r)
  BY <1>2, <1>3, <1>12, PastKept
<1>17. /\ Finished(r)' = Finished(r) /\ Asked(r)' = Asked(r) /\ Scaled(r)' = Scaled(r)
  BY <1>2, <1>12, <1>16, SetupKept DEF Finished, Asked, Scaled
<1>18. PlaceInv(r)'
  BY <1>1, <1>2, <1>3, <1>12 DEF RankInv, PlaceInv
<1>19. ParametersInv(r)'
  BY <1>1, <1>2, <1>3, <1>17, ParametersKept DEF RankInv
<1>20. DataInv(r)'
  <2>1. ReachedIn(r, epoch[r])' = ReachedIn(r, epoch[r])
    BY <1>2, <1>3 DEF ReachedIn, EpochSet
  <2>2. DataInv(r)
    BY <1>1 DEF RankInv
  <2> QED
    BY <1>2, <1>3, <1>12, <1>17, <2>1, <2>2 DEF DataInv
<1>21. ObserversInv(r)'
  <2>1. CASE modifier = "gptq"
    <3>1. Seen(r)' = Seen(r) \cup EpochSet(e)
      <4>1. Seen(r) = UNION {EpochSet(d) : d \in Past(r)}
        BY <1>2, <2>1 DEF Seen, HasObserved
      <4>2. Seen(r)' = (UNION {EpochSet(d) : d \in Past(r)}) \cup EpochSet(e)
        <5>1. EpochSet(epoch[r])' = EpochSet(e)
          BY <1>2, <1>3 DEF EpochSet
        <5>2. HasObserved(r)'
          BY <1>2, <1>12, <2>1 DEF HasObserved
        <5>3. (UNION {EpochSet(d) : d \in Past(r)})' = UNION {EpochSet(d) : d \in Past(r)}
          BY <1>2, <1>16, SetupKept
        <5> QED
          BY <5>1, <5>2, <5>3 DEF Seen
      <4> QED
        BY <4>1, <4>2
    <3>2. stats'[r] = Observed(r, EpochSet(e)) /\ deletion'[r] = deletion[r] /\ epoch'[r] = epoch[r]
      BY <1>3, <1>10, <1>12, <2>1
    <3> QED
      BY <1>2, <1>12, <1>17, <2>1, <3>1, <3>2, ObservingKeeps
  <2>2. CASE modifier # "gptq"
    <3>1. stats'[r] = stats[r] /\ deletion'[r] = deletion[r] /\ epoch'[r] = epoch[r]
      BY <1>3, <1>12, <2>2 DEF st
    <3>2. Seen(r)' = Seen(r)
      BY <1>2, <1>12, <1>16, <2>2, SetupKept DEF Seen, HasObserved
    <3> QED
      BY <1>1, <1>2, <1>12, <1>17, <3>1, <3>2, ObserversKept DEF RankInv
  <2> QED
    BY <2>1, <2>2
<1>22. RankInv(r)'
  BY <1>13, <1>18, <1>19, <1>20, <1>21 DEF RankInv
<1>23. RanksInv'
  BY <1>2, <1>14, <1>15, <1>22, OneRankSteps
<1> QED
  BY <1>9, <1>12, <1>23

(* UpdateActivations: scales of activations are from the data of all ranks. *)
LEMMA UpdateActivationsKeeps ==
  ASSUME RanksInv, PlanInv, SchedulesAreSound, DataIsBalanced, NEW r \in ranks,
         UpdateActivations(r)
  PROVE  RanksInv'
<1>1. WeightTypes /\ RankInv(r) /\ r \in Ranks
  BY DEF RanksInv, WeightTypes
<1>2. /\ UNCHANGED setup /\ pc[r] = "activations"
      /\ ranks' = ranks /\ modifier' = modifier /\ schedule' = schedule /\ coverage' = coverage
      /\ home' = home
  BY DEF UpdateActivations, setup
<1>3. /\ pc' = [pc EXCEPT ![r] = IF modifier = "gptq" THEN "reduce" ELSE "observe"]
      /\ UNCHANGED <<epoch, weight, stats, deletion, scale, globalScale, hessian, sent>>
  BY DEF UpdateActivations
<1> DEFINE e == epoch[r]
           scales == [m \in Modules |->
                        IF act[r][m] = {} THEN actScale[r][m]
                        ELSE IF Distributed THEN Contributions(Position(r, "all_reduce", m))
                        ELSE act[r][m]]
           new == [m \in Modules |-> IF m \in ReachedIn(r, e) THEN ranks ELSE actScale[r][m]]
           none == [m \in Modules |-> {}]
<1>4. e \in DOMAIN schedule /\ EpochSet(e) \subseteq Modules /\ PlaceInv(r)
  BY <1>1, EpochFacts DEF RankInv, PlaceInv
<1>5. actScale' = [actScale EXCEPT ![r] = scales] /\ act' = [act EXCEPT ![r] = none]
  BY <1>1 DEF UpdateActivations, WeightTypes
<1>6. \A m \in Modules : act[r][m] = IF m \in ReachedIn(r, e) THEN {r} ELSE {}
  BY <1>1, <1>2 DEF RankInv, DataInv
<1>7. ASSUME Distributed, NEW m \in ReachedIn(r, e)
      PROVE  Contributions(Position(r, "all_reduce", m)) = ranks
  <2> DEFINE p == Position(r, "all_reduce", m)
  <2>1. sent[r] \in Seq(Collectives)
    BY <1>1 DEF WeightTypes
  <2>2. HasCall(sent[r], "all_reduce", m)
    BY <1>1, <1>2, <1>4, <1>7, IssuedFacts
  <2>3. p \in DOMAIN sent[r] /\ sent[r][p].kind = "all_reduce"
    <3>1. PICK i \in DOMAIN sent[r] : sent[r][i].kind = "all_reduce" /\ sent[r][i].module = m
      BY <2>2 DEF HasCall
    <3> QED
      BY <2>1, <3>1, PositionFacts
  <2> HIDE DEF p
  <2>4. Complete(r, p)
    BY <2>3 DEF UpdateActivations, AllComplete
  <2>5. CollectivesMatch
    BY CollectivesFollowPlan
  <2>6. Contributions(p) = ranks
    BY <2>3, <2>4, <2>5, ContributionsFacts
  <2> QED
    BY <2>6 DEF p
<1>8. scales = new
  <2>1. ASSUME NEW m \in Modules, m \in ReachedIn(r, e) PROVE scales[m] = ranks
    <3>1. CASE Distributed
      BY <1>6, <1>7, <2>1, <3>1
    <3>2. CASE ~Distributed
      BY <1>1, <1>6, <2>1, <3>2, SingleRank
    <3> QED
      BY <3>1, <3>2
  <2>2. ASSUME NEW m \in Modules, m \notin ReachedIn(r, e) PROVE scales[m] = actScale[r][m]
    BY <1>6, <2>2
  <2> QED
    BY <2>1, <2>2
<1>9. new \in [Modules -> SUBSET Ranks] /\ none \in [Modules -> SUBSET Ranks]
  BY <1>1 DEF WeightTypes
<1> HIDE DEF scales, new, none
<1>10. /\ pc'[r] = IF modifier = "gptq" THEN "reduce" ELSE "observe"
       /\ actScale'[r] = new /\ act'[r] = none
  BY <1>1, <1>3, <1>5, <1>8 DEF WeightTypes
<1>11. WeightTypes'
  <2>1. pc' \in [Ranks -> {"forward", "sync", "activations", "observe", "reduce", "compress",
                           "broadcast", "receive", "done"}]
    BY <1>1, <1>3 DEF WeightTypes
  <2>2. actScale' \in [Ranks -> [Modules -> SUBSET Ranks]]
        /\ act' \in [Ranks -> [Modules -> SUBSET Ranks]]
    BY <1>1, <1>5, <1>8, <1>9 DEF WeightTypes
  <2> QED
    BY <1>1, <1>2, <1>3, <2>1, <2>2 DEF WeightTypes
<1>12. \A q \in Ranks \ {r} : Same(q)
  BY <1>1, <1>3, <1>5 DEF WeightTypes, Same
<1>13. Past(r)' = Past(r)
  BY <1>2, <1>3, <1>10, PastKept
<1>14. /\ Finished(r)' = Finished(r) /\ Asked(r)' = Asked(r)
  BY <1>2, <1>10, <1>13, SetupKept DEF Finished, Asked
<1>15. ReachedIn(r, epoch[r])' = ReachedIn(r, e)
  BY <1>2, <1>3 DEF ReachedIn, EpochSet
<1>16. Seen(r)' = Seen(r)
  <2>1. EpochSet(epoch[r])' = EpochSet(e)
    BY <1>2, <1>3 DEF EpochSet
  <2>2. (HasObserved(r)' <=> HasObserved(r))
    BY <1>2, <1>10 DEF HasObserved
  <2> QED
    BY <1>2, <1>13, <2>1, <2>2, SetupKept DEF Seen
<1>17. Scaled(r)' = Scaled(r) \cup ReachedIn(r, e)
  <2>1. Scaled(r) = UNION {ReachedIn(r, d) : d \in Past(r)}
    BY <1>2 DEF Scaled
  <2>2. (UNION {ReachedIn(r, d) : d \in Past(r)})' = UNION {ReachedIn(r, d) : d \in Past(r)}
    BY <1>2, <1>13, SetupKept
  <2>3. Scaled(r)' = (UNION {ReachedIn(r, d) : d \in Past(r)}) \cup ReachedIn(r, e)
    BY <1>10, <1>15, <2>2 DEF Scaled
  <2> QED
    BY <2>1, <2>3
<1>18. PlaceInv(r)'
  <2>1. modifier \in {"quantization", "gptq"}
    BY <1>1 DEF WeightTypes
  <2> QED
    BY <1>2, <1>3, <1>4, <1>10, <2>1 DEF PlaceInv
<1>19. ParametersInv(r)'
  BY <1>1, <1>2, <1>3, <1>14, ParametersKept DEF RankInv
<1>20. DataInv(r)'
  <2>1. DataInv(r)
    BY <1>1 DEF RankInv
  <2>2. \A m \in Modules : new[m] = IF m \in Scaled(r)' THEN ranks ELSE {}
    BY <1>17, <2>1 DEF DataInv, new
  <2>3. \A m \in Modules : none[m] = {}
    BY DEF none
  <2>4. \A m \in Modules :
          hessian[r][m] = IF modifier = "gptq" /\ m \in ReachedIn(r, e) THEN {r} ELSE {}
    BY <1>2, <2>1 DEF DataInv
  <2> QED
    BY <1>2, <1>3, <1>10, <1>15, <2>2, <2>3, <2>4 DEF DataInv
<1>21. ObserversInv(r)'
  BY <1>1, <1>2, <1>3, <1>10, <1>14, <1>16, ObserversKept DEF RankInv
<1>22. \A i \in DOMAIN sent'[r] : CarriesData(r, sent[r][i])'
  BY <1>1, <1>2, <1>3, CallsKept DEF RankInv
<1>23. RankInv(r)'
  BY <1>18, <1>19, <1>20, <1>21, <1>22 DEF RankInv
<1> QED
  BY <1>2, <1>11, <1>12, <1>23, OneRankSteps

(* ObserveOwn: a rank that compresses modules has their statistics. *)
LEMMA ObserveOwnKeeps ==
  ASSUME RanksInv, SchedulesAreSound, DataIsBalanced, NEW r \in ranks, ObserveOwn(r)
  PROVE  RanksInv'
<1>1. WeightTypes /\ RankInv(r) /\ r \in Ranks
  BY DEF RanksInv, WeightTypes
<1>2. /\ UNCHANGED setup /\ pc[r] = "observe"
      /\ ranks' = ranks /\ modifier' = modifier /\ schedule' = schedule /\ coverage' = coverage
      /\ home' = home
  BY DEF ObserveOwn, setup
<1>3. /\ pc' = [pc EXCEPT ![r] = "compress"]
      /\ UNCHANGED <<epoch, weight, deletion, scale, globalScale, hessian, act, actScale, sent>>
  BY DEF ObserveOwn
<1> DEFINE e == epoch[r]
           own == OwnIn(r, e)
           st == Observed(r, own)
<1>4. e \in DOMAIN schedule /\ EpochSet(e) \subseteq Modules /\ PlaceInv(r) /\ ToSet(Own(r)) = own
  BY <1>1, EpochFacts, ListFacts DEF RankInv, PlaceInv
<1>5. modifier = "quantization"
  BY <1>2, <1>4 DEF PlaceInv
<1>6. own \subseteq EpochSet(e) /\ (InOrder => own = EpochSet(e))
  BY <1>5 DEF OwnIn, DividedIn, InOrder
<1>7. stats' = [stats EXCEPT ![r] = st]
  BY <1>4 DEF ObserveOwn
<1>8. st \in [Modules -> Originals]
  BY <1>2, <1>6, ObservedFacts
<1> HIDE DEF st
<1>9. pc'[r] = "compress" /\ stats'[r] = st
  BY <1>1, <1>3, <1>7 DEF WeightTypes
<1>10. WeightTypes'
  <2>1. pc' \in [Ranks -> {"forward", "sync", "activations", "observe", "reduce", "compress",
                           "broadcast", "receive", "done"}]
    BY <1>1, <1>3 DEF WeightTypes
  <2>2. stats' \in [Ranks -> [Modules -> Originals]]
    BY <1>1, <1>7, <1>8 DEF WeightTypes
  <2> QED
    BY <1>1, <1>2, <1>3, <2>1, <2>2 DEF WeightTypes
<1>11. \A q \in Ranks \ {r} : Same(q)
  BY <1>1, <1>3, <1>7 DEF WeightTypes, Same
<1>12. Past(r)' = Past(r)
  BY <1>2, <1>3, <1>9, PastKept
<1>13. /\ Finished(r)' = Finished(r) /\ Asked(r)' = Asked(r)
  BY <1>2, <1>9, <1>12, SetupKept DEF Finished, Asked
<1>14. ReachedIn(r, epoch[r])' = ReachedIn(r, e)
  BY <1>2, <1>3 DEF ReachedIn, EpochSet
<1>15. Scaled(r)' = Scaled(r)
  <2>1. (UNION {ReachedIn(r, d) : d \in Past(r)})' = UNION {ReachedIn(r, d) : d \in Past(r)}
    BY <1>2, <1>12, SetupKept
  <2> QED
    BY <1>2, <1>9, <1>14, <2>1 DEF Scaled
<1>16. Seen(r)' = Seen(r) \cup EpochSet(e)
  <2>1. Seen(r) = UNION {EpochSet(d) : d \in Past(r)}
    BY <1>2, <1>5 DEF Seen, HasObserved
  <2>2. EpochSet(epoch[r])' = EpochSet(e)
    BY <1>2, <1>3 DEF EpochSet
  <2>3. HasObserved(r)'
    BY <1>9 DEF HasObserved
  <2>4. (UNION {EpochSet(d) : d \in Past(r)})' = UNION {EpochSet(d) : d \in Past(r)}
    BY <1>2, <1>12, SetupKept
  <2> QED
    BY <2>1, <2>2, <2>3, <2>4 DEF Seen
<1>17. PlaceInv(r)'
  BY <1>2, <1>3, <1>4, <1>9 DEF PlaceInv
<1>18. ParametersInv(r)'
  BY <1>1, <1>2, <1>3, <1>13, ParametersKept DEF RankInv
<1>19. DataInv(r)'
  <2>1. DataInv(r)
    BY <1>1 DEF RankInv
  <2> QED
    BY <1>2, <1>3, <1>5, <1>9, <1>14, <1>15, <2>1 DEF DataInv
<1>20. ObserversInv(r)'
  <2>1. stats'[r] = Observed(r, own) /\ deletion'[r] = deletion[r] /\ epoch'[r] = epoch[r]
    BY <1>3, <1>9 DEF st
  <2> QED
    BY <1>2, <1>6, <1>13, <1>16, <2>1, ObservingKeeps
<1>21. \A i \in DOMAIN sent'[r] : CarriesData(r, sent[r][i])'
  BY <1>1, <1>2, <1>3, CallsKept DEF RankInv
<1>22. RankInv(r)'
  BY <1>17, <1>18, <1>19, <1>20, <1>21 DEF RankInv
<1> QED
  BY <1>2, <1>10, <1>11, <1>22, OneRankSteps

(* ReduceHessians: a rank keeps the Hessians of its own modules only. *)
LEMMA ReduceKeeps ==
  ASSUME RanksInv, SchedulesAreSound, DataIsBalanced, NEW r \in ranks, ReduceHessians(r)
  PROVE  /\ RanksInv'
         /\ \E ops \in Seq(Collectives) :
              sent'[r] = sent[r] \o ops /\ Matches(ops, ReduceCalls(r, epoch[r]))
<1>1. WeightTypes /\ RankInv(r) /\ r \in Ranks
  BY DEF RanksInv, WeightTypes
<1>2. /\ UNCHANGED setup /\ pc[r] = "reduce"
      /\ ranks' = ranks /\ modifier' = modifier /\ schedule' = schedule /\ coverage' = coverage
      /\ home' = home
  BY DEF ReduceHessians, setup
<1>3. /\ pc' = [pc EXCEPT ![r] = "compress"]
      /\ UNCHANGED <<epoch, weight, stats, deletion, scale, globalScale, act, actScale>>
  BY DEF ReduceHessians
<1> DEFINE e == epoch[r]
           S == Reached(r)
           ops == IF ~Distributed THEN <<>>
                  ELSE [i \in DOMAIN S |-> Collective("reduce", S[i], home[S[i]], hessian[r][S[i]])]
           hess == IF ~Distributed THEN hessian[r]
                   ELSE [m \in Modules |-> IF m \in Sent(r) THEN {} ELSE hessian[r][m]]
<1>4. e \in DOMAIN schedule /\ EpochSet(e) \subseteq Modules /\ PlaceInv(r)
      /\ ToSet(Epoch(r)) = EpochSet(e) /\ S \in Seq(Modules) /\ ToSet(S) = ReachedIn(r, e)
  BY <1>1, EpochFacts, ListFacts DEF RankInv, PlaceInv
<1>5. modifier = "gptq"
  BY <1>2, <1>4 DEF PlaceInv
<1>6. \A m \in Modules : hessian[r][m] = IF m \in ReachedIn(r, e) THEN {r} ELSE {}
  BY <1>1, <1>2, <1>5 DEF RankInv, DataInv
<1>7. sent' = [sent EXCEPT ![r] = @ \o ops] /\ hessian' = [hessian EXCEPT ![r] = hess]
  <2>1. CASE Distributed
    <3>1. \E T \in {S} : sent' = [sent EXCEPT ![r] = @ \o
            [i \in DOMAIN T |-> Collective("reduce", T[i], home[T[i]], hessian[r][T[i]])]]
      BY <2>1 DEF ReduceHessians, ReducedModules, Issue
    <3>2. hessian' = [hessian EXCEPT ![r] = hess]
      BY <1>1, <2>1 DEF ReduceHessians, WeightTypes
    <3> QED
      BY <2>1, <3>1, <3>2
  <2>2. CASE ~Distributed
    <3>1. hessian' = hessian /\ sent' = sent
      BY <2>2 DEF ReduceHessians
    <3>2. sent[r] \in Seq(Collectives) /\ sent \in [Ranks -> Seq(Collectives)]
          /\ hessian \in [Ranks -> [Modules -> SUBSET Ranks]]
      BY <1>1 DEF WeightTypes
    <3>3. sent[r] \o <<>> = sent[r]
      BY <3>2
    <3> QED
      BY <2>2, <3>1, <3>2, <3>3
  <2> QED
    BY <2>1, <2>2
<1>8. ops \in Seq(Collectives) /\ (\A i \in DOMAIN ops : CarriesData(r, ops[i]))
      /\ Matches(ops, ReduceCalls(r, e))
  <2>1. CASE ~Distributed
    <3>1. ops = <<>> /\ ReduceCalls(r, e) = <<>>
      BY <2>1 DEF ReduceCalls
    <3> HIDE DEF ops
    <3> QED
      BY <3>1 DEF Matches
  <2>2. CASE Distributed
    <3> DEFINE data == [i \in DOMAIN S |-> hessian[r][S[i]]]
    <3>1. ops = [i \in DOMAIN S |-> Collective("reduce", S[i], home[S[i]], data[i])]
      BY <2>2
    <3>2. \A i \in 1 .. Len(S) : S[i] \in ReachedIn(r, e) /\ S[i] \in Modules /\ i \in DOMAIN S
      <4> HIDE DEF S
      <4>1. DOMAIN S = 1 .. Len(S) /\ \A i \in 1 .. Len(S) : S[i] \in Modules
        BY <1>4
      <4> QED
        BY <1>4, <4>1 DEF ToSet
    <3>3. \A i \in 1 .. Len(S) : data[i] = {r}
      BY <1>6, <3>2
    <3>4. ReduceCalls(r, e) = Calls("reduce", S)
      BY <1>4, <1>5, <2>2 DEF ReduceCalls, ReachedList, Reached
    <3>5. "reduce" \in Kinds
      BY DEF Kinds
    <3> HIDE DEF S, ops, data
    <3>6. \A i \in 1 .. Len(S) : data[i] \in (SUBSET Ranks) \cup Bundles
      BY <1>1, <3>3
    <3>7. /\ ops \in Seq(Collectives) /\ DOMAIN ops = 1 .. Len(S)
          /\ Matches(ops, Calls("reduce", S))
          /\ \A i \in 1 .. Len(S) : /\ ops[i].kind = "reduce" /\ ops[i].module = S[i]
                                    /\ ops[i].data = data[i] /\ ops[i].root = home[S[i]]
      BY <1>1, <1>4, <3>1, <3>5, <3>6, OpsFacts
    <3> QED
      BY <3>3, <3>4, <3>7 DEF CarriesData
  <2> QED
    BY <2>1, <2>2
<1>9. \A m \in Modules : hess[m] = IF m \in OwnIn(r, e) THEN {r} ELSE {}
  <2>1. CASE ~Distributed
    BY <1>5, <1>6, <2>1 DEF OwnIn, DividedIn
  <2>2. CASE Distributed
    <3>1. Sent(r) = {m \in ReachedIn(r, e) : home[m] # r}
      BY <1>4 DEF Sent
    <3> QED
      BY <1>5, <1>6, <2>2, <3>1 DEF OwnIn, DividedIn
  <2> QED
    BY <2>1, <2>2
<1>10. hess \in [Modules -> SUBSET Ranks]
  BY <1>1 DEF WeightTypes
<1> HIDE DEF ops, S, hess
<1>11. pc'[r] = "compress" /\ sent'[r] = sent[r] \o ops /\ hessian'[r] = hess
  BY <1>1, <1>3, <1>7 DEF WeightTypes
<1>12. sent'[r] \in Seq(Collectives) /\ \A i \in DOMAIN sent'[r] : CarriesData(r, sent[r][i])'
  <2>1. sent[r] \in Seq(Collectives) /\ \A i \in DOMAIN sent[r] : CarriesData(r, sent[r][i])
    BY <1>1 DEF RankInv, WeightTypes
  <2> QED
    BY <1>2, <1>8, <1>11, <2>1, CallsIssued
<1>13. WeightTypes'
  <2>1. pc' \in [Ranks -> {"forward", "sync", "activations", "observe", "reduce", "compress",
                           "broadcast", "receive", "done"}]
    BY <1>1, <1>3 DEF WeightTypes
  <2>2. hessian' \in [Ranks -> [Modules -> SUBSET Ranks]]
    BY <1>1, <1>7, <1>10 DEF WeightTypes
  <2>3. sent' \in [Ranks -> Seq(Collectives)]
    BY <1>1, <1>7, <1>11, <1>12 DEF WeightTypes
  <2> QED
    BY <1>1, <1>2, <1>3, <2>1, <2>2, <2>3 DEF WeightTypes
<1>14. \A q \in Ranks \ {r} : Same(q)
  BY <1>1, <1>3, <1>7 DEF WeightTypes, Same
<1>15. Past(r)' = Past(r)
  BY <1>2, <1>3, <1>11, PastKept
<1>16. /\ Finished(r)' = Finished(r) /\ Asked(r)' = Asked(r)
  BY <1>2, <1>11, <1>15, SetupKept DEF Finished, Asked
<1>17. ReachedIn(r, epoch[r])' = ReachedIn(r, e) /\ OwnIn(r, epoch[r])' = OwnIn(r, e)
       /\ EpochSet(epoch[r])' = EpochSet(e)
  BY <1>2, <1>3 DEF ReachedIn, EpochSet, OwnIn, DividedIn, Distributed
<1>18. Seen(r)' = Seen(r)
  <2>1. HasObserved(r)' /\ HasObserved(r)
    BY <1>2, <1>5, <1>11 DEF HasObserved
  <2> QED
    BY <1>2, <1>15, <1>17, <2>1, SetupKept DEF Seen
<1>19. Scaled(r)' = Scaled(r)
  <2>1. (UNION {ReachedIn(r, d) : d \in Past(r)})' = UNION {ReachedIn(r, d) : d \in Past(r)}
    BY <1>2, <1>15, SetupKept
  <2> QED
    BY <1>2, <1>11, <1>17, <2>1 DEF Scaled
<1>20. PlaceInv(r)'
  BY <1>2, <1>3, <1>4, <1>11 DEF PlaceInv
<1>21. ParametersInv(r)'
  BY <1>1, <1>2, <1>3, <1>16, ParametersKept DEF RankInv
<1>22. DataInv(r)'
  <2>1. DataInv(r)
    BY <1>1 DEF RankInv
  <2>2. \A m \in OwnIn(r, e) : m \in ReachedIn(r, e)
    BY <1>5 DEF OwnIn, DividedIn
  <2> QED
    BY <1>2, <1>3, <1>5, <1>9, <1>11, <1>17, <1>19, <2>1, <2>2 DEF DataInv
<1>23. ObserversInv(r)'
  <2>1. ObserversInv(r)
    BY <1>1 DEF RankInv
  <2>2. ASSUME NEW m \in OwnIn(r, e) PROVE stats[r][m] # None
    <3>1. m \in EpochSet(e) /\ m \in Modules
      BY <1>4 DEF OwnIn, DividedIn, ReachedIn
    <3>2. m \in Group(m) /\ m \in Seen(r)
      BY <1>2, <1>5, <3>1, GroupFacts DEF Seen, HasObserved
    <3>3. m \notin Asked(r)
      <4>1. Asked(r) = UNION {DividedIn(r, d) : d \in Past(r)}
        BY <1>2 DEF Asked
      <4>2. \A d \in Past(r) : DividedIn(r, d) \subseteq EpochSet(d)
            /\ EpochSet(d) \cap EpochSet(e) = {}
        BY <1>1, <1>2, <1>4, PastFacts
      <4> QED
        BY <3>1, <4>1, <4>2
    <3> QED
      BY <1>5, <2>1, <3>1, <3>2, <3>3 DEF ObserversInv, InOrder
  <2>3. stats'[r] = stats[r] /\ deletion'[r] = deletion[r] /\ epoch'[r] = epoch[r]
    BY <1>3
  <2> QED
    BY <1>2, <1>11, <1>16, <1>18, <2>1, <2>2, <2>3, ObserversKept
<1>24. RankInv(r)'
  BY <1>12, <1>20, <1>21, <1>22, <1>23 DEF RankInv
<1>25. RanksInv'
  BY <1>2, <1>13, <1>14, <1>24, OneRankSteps
<1> QED
  BY <1>8, <1>11, <1>25

(* The observers of a rank after those of the modules in A have asked. *)
LEMMA FollowingKeeps ==
  ASSUME UNCHANGED setup, NEW r, ObserversInv(r), NEW obs, NEW A,
         Follows(Observers(r), obs, Asked(r), A),
         stats'[r] = obs.stats, deletion'[r] = obs.deletion,
         Asked(r)' = Asked(r) \cup A, Seen(r)' = Seen(r), pc'[r] # "compress"
  PROVE  ObserversInv(r)'
<1>1. (InOrder' <=> InOrder) /\ \A m : IsWhole(m)' <=> IsWhole(m)
  BY SetupKept
<1>2. Observers(r).stats = stats[r] /\ Observers(r).deletion = deletion[r]
  BY DEF Observers
<1>3. /\ StatisticsAreSound(obs, Asked(r) \cup A)
      /\ \A m \in Modules :
           /\ stats[r][m] = None => obs.stats[m] = None
           /\ stats[r][m] # None /\ ~(Group(m) \subseteq Asked(r) \cup A) => obs.stats[m] # None
           /\ obs.stats[m] # None /\ (m \in A \/ deletion[r][m]) => obs.deletion[m]
  BY <1>2 DEF Follows
<1>4. StatisticsAreSound(Observers(r), Asked(r))'
  <2>1. Observers(r).stats' = obs.stats /\ Observers(r).deletion' = obs.deletion
    BY DEF Observers
  <2> QED
    BY <1>3, <2>1 DEF StatisticsAreSound
<1>5. ASSUME InOrder, NEW m \in Modules, Group(m) \cap Seen(r) # {},
             ~(Group(m) \subseteq Asked(r) \cup A)
      PROVE  obs.stats[m] # None
  <2>1. ~(Group(m) \subseteq Asked(r))
    BY <1>5
  <2> QED
    BY <1>3, <1>5, <2>1 DEF ObserversInv
<1>6. ASSUME NEW m \in Modules, IsWhole(m), m \in Asked(r) \cup A, obs.stats[m] # None
      PROVE  obs.deletion[m]
  BY <1>3, <1>6 DEF ObserversInv
<1> QED
  BY <1>1, <1>4, <1>5, <1>6 DEF ObserversInv

(* CompressOwn: weights from the Hessians of all ranks, scales from original weights. *)
LEMMA CompressKeeps ==
  ASSUME RanksInv, PlanInv, SchedulesAreSound, DataIsBalanced, NEW r \in ranks, CompressOwn(r)
  PROVE  RanksInv'
<1>1. WeightTypes /\ RankInv(r) /\ r \in Ranks
  BY DEF RanksInv, WeightTypes
<1>2. /\ UNCHANGED setup /\ pc[r] = "compress" /\ AllComplete(r)
      /\ ranks' = ranks /\ modifier' = modifier /\ schedule' = schedule /\ coverage' = coverage
      /\ home' = home
  BY DEF CompressOwn, setup
<1>3. /\ pc' = [pc EXCEPT ![r] = "broadcast"]
      /\ UNCHANGED <<epoch, act, actScale, sent>>
  BY DEF CompressOwn
<1> DEFINE e == epoch[r]
           own == OwnIn(r, e)
           obs == UpdateParameters(r, Own(r))
           weights == [m \in Modules |-> IF modifier = "gptq" /\ m \in own THEN Reduced(r, m)
                                         ELSE weight[r][m]]
           hess == [m \in Modules |-> IF m \in own THEN {} ELSE hessian[r][m]]
<1>4. /\ e \in DOMAIN schedule /\ EpochSet(e) \subseteq Modules /\ PlaceInv(r)
      /\ Own(r) \in Seq(Modules) /\ ToSet(Own(r)) = own
      /\ own \subseteq DividedIn(r, e) /\ DividedIn(r, e) \subseteq EpochSet(e)
  BY <1>1, EpochFacts, ListFacts, PastFacts DEF RankInv, PlaceInv
<1>5. /\ weight' = [weight EXCEPT ![r] = weights] /\ hessian' = [hessian EXCEPT ![r] = hess]
      /\ stats' = [stats EXCEPT ![r] = obs.stats]
      /\ deletion' = [deletion EXCEPT ![r] = obs.deletion]
      /\ scale' = [scale EXCEPT ![r] = obs.scale]
      /\ globalScale' = [globalScale EXCEPT ![r] = obs.globalScale]
  BY <1>1, <1>4 DEF CompressOwn, SetObservers, WeightTypes
<1>6. /\ ParametersInv(r) /\ DataInv(r) /\ ObserversInv(r)
      /\ \A i \in DOMAIN sent[r] : CarriesData(r, sent[r][i])
  BY <1>1 DEF RankInv
<1>7. /\ Observers(r).stats = stats[r] /\ Observers(r).scale = scale[r]
      /\ Observers(r).globalScale = globalScale[r] /\ Observers(r) \in ObserverStates
  BY <1>1 DEF Observers, ObserverStates, WeightTypes
<1>8. /\ obs \in ObserverStates /\ Follows(Observers(r), obs, Asked(r), own)
      /\ Rescaled(Observers(r), obs, Asked(r), own)
  <2>1. StatisticsAreSound(Observers(r), Asked(r))
    BY <1>6 DEF ObserversInv
  <2> QED
    BY <1>4, <1>7, <2>1, UpdateFacts
<1>9. ASSUME modifier = "gptq", NEW m \in own PROVE Reduced(r, m) = ranks
  <2>1. m \in ReachedIn(r, e) /\ m \in Modules
    BY <1>4, <1>9 DEF DividedIn
  <2>2. CASE ~Distributed
    BY <1>1, <1>2, <1>6, <1>9, <2>1, <2>2, SingleRank DEF Reduced, DataInv
  <2>3. CASE Distributed
    <3> DEFINE p == Position(r, "reduce", m)
    <3>1. sent[r] \in Seq(Collectives)
      BY <1>1 DEF WeightTypes
    <3>2. HasCall(sent[r], "reduce", m)
      BY <1>1, <1>2, <1>4, <1>9, <2>1, <2>3, IssuedFacts
    <3>3. p \in DOMAIN sent[r] /\ sent[r][p].kind = "reduce" /\ sent[r][p].module = m
      <4>1. PICK i \in DOMAIN sent[r] : sent[r][i].kind = "reduce" /\ sent[r][i].module = m
        BY <3>2 DEF HasCall
      <4> QED
        BY <3>1, <4>1, PositionFacts
    <3>4. Reduced(r, m) = Contributions(p)
      BY <2>3 DEF Reduced
    <3> HIDE DEF p
    <3>5. Complete(r, p)
      BY <1>2, <3>3 DEF AllComplete
    <3>6. home[m] = r
      BY <2>3 DEF OwnIn
    <3>7. CollectivesMatch
      BY CollectivesFollowPlan
    <3>8. Contributions(p) = ranks
      BY <3>3, <3>5, <3>6, <3>7, ContributionsFacts
    <3> QED
      BY <3>4, <3>8
  <2> QED
    BY <2>2, <2>3
<1>10. \A m \in Modules :
         weights[m] = IF m \in own THEN FinalWeight ELSE weight[r][m]
  <2>1. ASSUME NEW m \in Modules, m \in own PROVE weights[m] = FinalWeight
    <3>1. CASE modifier = "gptq"
      BY <1>9, <2>1, <3>1 DEF FinalWeight
    <3>2. CASE modifier # "gptq"
      BY <1>6, <2>1, <3>2 DEF FinalWeight, ParametersInv
    <3> QED
      BY <3>1, <3>2
  <2> QED
    BY <2>1
<1>11. weights \in [Modules -> SUBSET Ranks] /\ hess \in [Modules -> SUBSET Ranks]
  <2>1. FinalWeight \in SUBSET Ranks
    BY <1>1 DEF FinalWeight, WeightTypes
  <2>2. \A m \in Modules : weights[m] \in SUBSET Ranks
    BY <1>1, <1>10, <2>1 DEF WeightTypes
  <2> QED
    BY <1>1, <2>2 DEF WeightTypes
<1>12. \A m \in Modules : hess[m] = {}
  BY <1>2, <1>6 DEF DataInv
<1> HIDE DEF weights, hess, obs
<1>13. /\ pc'[r] = "broadcast" /\ weight'[r] = weights /\ hessian'[r] = hess
       /\ stats'[r] = obs.stats /\ deletion'[r] = obs.deletion /\ scale'[r] = obs.scale
       /\ globalScale'[r] = obs.globalScale
  BY <1>1, <1>3, <1>5 DEF WeightTypes
<1>14. WeightTypes'
  <2>1. pc' \in [Ranks -> {"forward", "sync", "activations", "observe", "reduce", "compress",
                           "broadcast", "receive", "done"}]
    BY <1>1, <1>3 DEF WeightTypes
  <2>2. weight' \in [Ranks -> [Modules -> SUBSET Ranks]]
        /\ hessian' \in [Ranks -> [Modules -> SUBSET Ranks]]
    BY <1>1, <1>5, <1>11 DEF WeightTypes
  <2>3. /\ obs.stats \in [Modules -> Originals] /\ obs.deletion \in [Modules -> BOOLEAN]
        /\ obs.scale \in [Modules -> Originals] /\ obs.globalScale \in [Modules -> GlobalScales]
    BY <1>8 DEF ObserverStates
  <2>4. /\ stats' \in [Ranks -> [Modules -> Originals]]
        /\ deletion' \in [Ranks -> [Modules -> BOOLEAN]]
        /\ scale' \in [Ranks -> [Modules -> Originals]]
        /\ globalScale' \in [Ranks -> [Modules -> GlobalScales]]
    BY <1>1, <1>5, <2>3 DEF WeightTypes
  <2> QED
    BY <1>1, <1>2, <1>3, <2>1, <2>2, <2>4 DEF WeightTypes
<1>15. \A q \in Ranks \ {r} : Same(q)
  BY <1>1, <1>3, <1>5 DEF WeightTypes, Same
<1>16. Past(r)' = Past(r)
  BY <1>2, <1>3, <1>13, PastKept
<1>17. ReachedIn(r, epoch[r])' = ReachedIn(r, e) /\ OwnIn(r, epoch[r])' = own
       /\ EpochSet(epoch[r])' = EpochSet(e)
  BY <1>2, <1>3 DEF ReachedIn, EpochSet, OwnIn, DividedIn, Distributed
<1>18. /\ Finished(r)' = Finished(r) \cup own /\ Asked(r)' = Asked(r) \cup own
       /\ Finished(r) = Asked(r) /\ Asked(r) \cap own = {}
  <2> DEFINE past == UNION {DividedIn(r, d) : d \in Past(r)}
  <2>1. Finished(r) = past /\ Asked(r) = past
    BY <1>2 DEF Finished, Asked
  <2>2. past' = past
    BY <1>2, <1>16, SetupKept
  <2>3. \A d \in Past(r) : DividedIn(r, d) \subseteq EpochSet(d)
        /\ EpochSet(d) \cap EpochSet(e) = {}
    BY <1>1, <1>2, <1>4, PastFacts
  <2>4. past \cap own = {}
    BY <1>4, <2>3
  <2> HIDE DEF past
  <2>5. Finished(r)' = past \cup own /\ Asked(r)' = past \cup own
    <3>1. Finished(r) = past \cup IF pc[r] \in {"broadcast", "receive"}
                             THEN OwnIn(r, epoch[r]) ELSE {}
      BY DEF Finished, past
    <3>2. Finished(r)' = (UNION {DividedIn(r, d) : d \in Past(r)})' \cup own
      BY <1>13, <1>17 DEF Finished
    <3>3. Asked(r)' = (UNION {DividedIn(r, d) : d \in Past(r)})' \cup own
      BY <1>13, <1>17 DEF Asked
    <3> QED
      BY <2>2, <3>2, <3>3 DEF past
  <2> QED
    BY <2>1, <2>4, <2>5
<1>19. Seen(r)' = Seen(r)
  <2>1. HasObserved(r)' /\ HasObserved(r)
    BY <1>2, <1>13 DEF HasObserved
  <2> QED
    BY <1>2, <1>16, <1>17, <2>1, SetupKept DEF Seen
<1>20. Scaled(r)' = Scaled(r)
  <2>1. (UNION {ReachedIn(r, d) : d \in Past(r)})' = UNION {ReachedIn(r, d) : d \in Past(r)}
    BY <1>2, <1>16, SetupKept
  <2> QED
    BY <1>2, <1>13, <1>17, <2>1 DEF Scaled
<1>21. PlaceInv(r)'
  BY <1>2, <1>3, <1>4, <1>13 DEF PlaceInv
<1>22. ParametersInv(r)'
  <2>1. FinalWeight' = FinalWeight
    BY <1>2, SetupKept
  <2>2. ASSUME NEW m \in Modules
        PROVE  /\ weights[m] = IF m \in Finished(r) \cup own THEN FinalWeight ELSE {}
               /\ obs.scale[m] = IF m \in Finished(r) \cup own THEN {} ELSE None
               /\ obs.globalScale[m] \in {None, OriginalGroup(m)}
               /\ modifier = "quantization" =>
                    obs.globalScale[m] = IF m \in Finished(r) \cup own THEN FinalGlobalScale(m)
                                         ELSE None
    <3>1. weights[m] = IF m \in Finished(r) \cup own THEN FinalWeight ELSE {}
      BY <1>6, <1>10 DEF ParametersInv
    <3>2. CASE m \in own
      <4>1. stats[r][m] # None
        BY <1>2, <1>6, <3>2 DEF ObserversInv
      <4>2. obs.scale[m] = {} /\ obs.globalScale[m] = FinalGlobalScale(m)
        BY <1>7, <1>8, <1>18, <3>2, <4>1 DEF Rescaled
      <4> QED
        BY <3>1, <3>2, <4>2 DEF FinalGlobalScale
    <3>3. CASE m \notin own
      <4>1. obs.scale[m] = scale[r][m] /\ obs.globalScale[m] = globalScale[r][m]
        BY <1>7, <1>8, <3>3 DEF Rescaled
      <4> QED
        BY <1>6, <3>1, <3>3, <4>1 DEF ParametersInv
    <3> QED
      BY <3>2, <3>3
  <2> QED
    BY <1>2, <1>13, <1>18, <2>1, <2>2 DEF ParametersInv
<1>23. DataInv(r)'
  BY <1>2, <1>3, <1>6, <1>12, <1>13, <1>20 DEF DataInv
<1>24. ObserversInv(r)'
  BY <1>2, <1>6, <1>8, <1>13, <1>18, <1>19, FollowingKeeps
<1>25. \A i \in DOMAIN sent'[r] : CarriesData(r, sent[r][i])'
  BY <1>2, <1>3, <1>6, CallsKept
<1>26. RankInv(r)'
  BY <1>21, <1>22, <1>23, <1>24, <1>25 DEF RankInv
<1> QED
  BY <1>2, <1>14, <1>15, <1>26, OneRankSteps

(* BroadcastParameters: what a rank sends is final. *)
LEMMA BroadcastKeeps ==
  ASSUME RanksInv, SchedulesAreSound, DataIsBalanced, NEW r \in ranks, BroadcastParameters(r)
  PROVE  /\ RanksInv'
         /\ \E ops \in Seq(Collectives) :
              sent'[r] = sent[r] \o ops /\ Matches(ops, BroadcastCalls(r, epoch[r]))
<1>1. WeightTypes /\ RankInv(r) /\ r \in Ranks
  BY DEF RanksInv, WeightTypes
<1>2. /\ UNCHANGED setup /\ pc[r] = "broadcast"
      /\ ranks' = ranks /\ modifier' = modifier /\ schedule' = schedule /\ coverage' = coverage
      /\ home' = home
  BY DEF BroadcastParameters, setup
<1>3. /\ pc' = [pc EXCEPT ![r] = "receive"]
      /\ UNCHANGED <<epoch, weight, hessian, act, actScale>>
  BY DEF BroadcastParameters
<1> DEFINE e == epoch[r]
           own == OwnIn(r, e)
           S == Divided(r)
           divided == DividedIn(r, e)
           ops == IF ~Distributed THEN <<>>
                  ELSE [i \in DOMAIN S |->
                          Collective("broadcast", S[i], home[S[i]], Parameters(r, S[i]))]
           obs == IF ~Distributed THEN Observers(r) ELSE DeleteAll(r, S)
<1>4. /\ e \in DOMAIN schedule /\ EpochSet(e) \subseteq Modules /\ PlaceInv(r)
      /\ ToSet(Epoch(r)) = EpochSet(e) /\ S \in Seq(Modules) /\ ToSet(S) = divided
      /\ own \subseteq divided /\ divided \subseteq EpochSet(e)
      /\ (~Distributed => own = divided)
  BY <1>1, EpochFacts, ListFacts, PastFacts DEF RankInv, PlaceInv
<1>5. /\ ParametersInv(r) /\ DataInv(r) /\ ObserversInv(r)
      /\ \A i \in DOMAIN sent[r] : CarriesData(r, sent[r][i])
  BY <1>1 DEF RankInv
<1>6. /\ Observers(r).stats = stats[r] /\ Observers(r).deletion = deletion[r]
      /\ Observers(r).scale = scale[r]
      /\ Observers(r).globalScale = globalScale[r] /\ Observers(r) \in ObserverStates
  BY <1>1 DEF Observers, ObserverStates, WeightTypes
<1>7. StatisticsAreSound(Observers(r), Asked(r))
  BY <1>5 DEF ObserversInv
<1>8. /\ Finished(r) = (UNION {DividedIn(r, d) : d \in Past(r)}) \cup own
      /\ Asked(r) = (UNION {DividedIn(r, d) : d \in Past(r)}) \cup own
  BY <1>2 DEF Finished, Asked
<1>9. /\ sent' = [sent EXCEPT ![r] = @ \o ops]
      /\ stats' = [stats EXCEPT ![r] = obs.stats]
      /\ deletion' = [deletion EXCEPT ![r] = obs.deletion]
      /\ scale' = [scale EXCEPT ![r] = obs.scale]
      /\ globalScale' = [globalScale EXCEPT ![r] = obs.globalScale]
  <2>1. CASE Distributed
    <3>1. \E T \in {S} : sent' = [sent EXCEPT ![r] = @ \o
            [i \in DOMAIN T |-> Collective("broadcast", T[i], home[T[i]], Parameters(r, T[i]))]]
      BY <2>1 DEF BroadcastParameters, Issue
    <3>2. SetObservers(r, DeleteAll(r, S))
      BY <2>1 DEF BroadcastParameters, CleanUp
    <3>3. obs = DeleteAll(r, S)
      BY <2>1
    <3>4. sent' = [sent EXCEPT ![r] = @ \o ops]
      BY <2>1, <3>1
    <3> HIDE DEF obs, ops
    <3> QED
      BY <3>2, <3>3, <3>4 DEF SetObservers
  <2>2. CASE ~Distributed
    <3>1. UNCHANGED <<sent, stats, deletion, scale, globalScale>>
      BY <2>2 DEF BroadcastParameters
    <3>2. sent[r] \in Seq(Collectives) /\ sent \in [Ranks -> Seq(Collectives)]
      BY <1>1 DEF WeightTypes
    <3>3. sent[r] \o <<>> = sent[r]
      BY <3>2
    <3>4. ops = <<>> /\ obs = Observers(r)
      BY <2>2
    <3> HIDE DEF ops, obs
    <3>5. sent' = [sent EXCEPT ![r] = @ \o ops]
      BY <1>1, <3>1, <3>2, <3>3, <3>4
    <3> QED
      BY <1>1, <1>6, <3>1, <3>4, <3>5 DEF WeightTypes
  <2> QED
    BY <2>1, <2>2
<1>10. /\ obs \in ObserverStates /\ obs.scale = scale[r] /\ obs.globalScale = globalScale[r]
       /\ Follows(Observers(r), obs, Asked(r), divided)
  <2>1. CASE Distributed
    <3>1. /\ DeleteAll(r, S) \in ObserverStates
          /\ Follows(Observers(r), DeleteAll(r, S), Asked(r), ToSet(S))
          /\ DeleteAll(r, S).scale = Observers(r).scale
          /\ DeleteAll(r, S).globalScale = Observers(r).globalScale
      BY <1>4, <1>6, <1>7, DeleteAllFacts
    <3> QED
      BY <1>4, <1>6, <2>1, <3>1
  <2>2. CASE ~Distributed
    <3>1. Asked(r) \cup divided = Asked(r)
      BY <1>4, <1>8, <2>2
    <3>2. \A m \in Modules :
            m \in divided /\ stats[r][m] # None => m \in Asked(r)
      BY <3>1
    <3>3. InOrder
      BY <2>2 DEF InOrder
    <3>4. \A m \in Modules :
            m \in divided /\ stats[r][m] # None => deletion[r][m]
      BY <1>5, <3>2, <3>3 DEF ObserversInv, IsWhole
    <3>5. Follows(Observers(r), Observers(r), Asked(r), divided)
      BY <1>6, <1>7, <3>1, <3>4 DEF Follows
    <3>6. obs = Observers(r)
      BY <2>2
    <3> QED
      BY <1>6, <3>5, <3>6
  <2> QED
    BY <2>1, <2>2
<1>11. ops \in Seq(Collectives) /\ (\A i \in DOMAIN ops : CarriesData(r, ops[i]))
      /\ Matches(ops, BroadcastCalls(r, e))
  <2>1. CASE ~Distributed
    <3>1. ops = <<>> /\ BroadcastCalls(r, e) = <<>>
      BY <2>1 DEF BroadcastCalls
    <3> HIDE DEF ops
    <3> QED
      BY <3>1 DEF Matches
  <2>2. CASE Distributed
    <3> DEFINE data == [i \in DOMAIN S |-> Parameters(r, S[i])]
    <3>1. ops = [i \in DOMAIN S |-> Collective("broadcast", S[i], home[S[i]], data[i])]
      BY <2>2
    <3>2. \A i \in 1 .. Len(S) : S[i] \in divided /\ S[i] \in Modules /\ i \in DOMAIN S
      <4> HIDE DEF S, divided
      <4>1. DOMAIN S = 1 .. Len(S) /\ \A i \in 1 .. Len(S) : S[i] \in Modules
        BY <1>4
      <4> QED
        BY <1>4, <4>1 DEF ToSet
    <3>3. \A i \in 1 .. Len(S) : data[i] = Parameters(r, S[i])
      BY <3>2
    <3>4. BroadcastCalls(r, e) = Calls("broadcast", S)
      BY <1>4, <2>2 DEF BroadcastCalls, DividedList, ReachedList, Reached, Divided, Epoch
    <3>5. "broadcast" \in Kinds
      BY DEF Kinds
    <3>6. ASSUME NEW m \in Modules
          PROVE  /\ Parameters(r, m) \in Bundles
                 /\ m \in divided /\ home[m] = r =>
                      /\ Parameters(r, m).weight = FinalWeight /\ Parameters(r, m).scale = {}
                      /\ modifier = "quantization" =>
                           Parameters(r, m).globalScale = FinalGlobalScale(m)
      <4>1. Parameters(r, m) \in Bundles
        BY <1>1 DEF Parameters, Bundles, WeightTypes
      <4>2. m \in divided /\ home[m] = r => m \in Finished(r)
        BY <1>8 DEF OwnIn
      <4> QED
        BY <1>5, <4>1, <4>2 DEF ParametersInv, Parameters
    <3> HIDE DEF S, ops, data
    <3>7. \A i \in 1 .. Len(S) : data[i] \in (SUBSET Ranks) \cup Bundles
      BY <3>2, <3>3, <3>6
    <3>8. /\ ops \in Seq(Collectives) /\ DOMAIN ops = 1 .. Len(S)
          /\ Matches(ops, Calls("broadcast", S))
          /\ \A i \in 1 .. Len(S) : /\ ops[i].kind = "broadcast" /\ ops[i].module = S[i]
                                    /\ ops[i].data = data[i] /\ ops[i].root = home[S[i]]
      BY <1>1, <1>4, <3>1, <3>5, <3>7, OpsFacts
    <3>9. ASSUME NEW i \in DOMAIN ops PROVE CarriesData(r, ops[i])
      <4>1. i \in 1 .. Len(S) /\ S[i] \in Modules /\ S[i] \in divided
        BY <3>2, <3>8
      <4>2. ops[i].data = Parameters(r, S[i])
        BY <3>3, <3>8, <4>1
      <4> QED
        BY <3>6, <3>8, <4>1, <4>2 DEF CarriesData
    <3> QED
      BY <3>4, <3>8, <3>9
  <2> QED
    BY <2>1, <2>2
<1> HIDE DEF ops, S, obs
<1>12. /\ pc'[r] = "receive" /\ sent'[r] = sent[r] \o ops /\ stats'[r] = obs.stats
       /\ deletion'[r] = obs.deletion /\ scale'[r] = scale[r] /\ globalScale'[r] = globalScale[r]
  BY <1>1, <1>3, <1>9, <1>10 DEF WeightTypes
<1>13. sent'[r] \in Seq(Collectives) /\ \A i \in DOMAIN sent'[r] : CarriesData(r, sent[r][i])'
  <2>1. sent[r] \in Seq(Collectives)
    BY <1>1 DEF WeightTypes
  <2> QED
    BY <1>2, <1>5, <1>11, <1>12, <2>1, CallsIssued
<1>14. WeightTypes'
  <2>1. pc' \in [Ranks -> {"forward", "sync", "activations", "observe", "reduce", "compress",
                           "broadcast", "receive", "done"}]
    BY <1>1, <1>3 DEF WeightTypes
  <2>2. /\ obs.stats \in [Modules -> Originals] /\ obs.deletion \in [Modules -> BOOLEAN]
        /\ obs.scale \in [Modules -> Originals] /\ obs.globalScale \in [Modules -> GlobalScales]
    BY <1>10 DEF ObserverStates
  <2>3. /\ stats' \in [Ranks -> [Modules -> Originals]]
        /\ deletion' \in [Ranks -> [Modules -> BOOLEAN]]
        /\ scale' \in [Ranks -> [Modules -> Originals]]
        /\ globalScale' \in [Ranks -> [Modules -> GlobalScales]]
    BY <1>1, <1>9, <2>2 DEF WeightTypes
  <2>4. sent' \in [Ranks -> Seq(Collectives)]
    BY <1>1, <1>9, <1>12, <1>13 DEF WeightTypes
  <2> QED
    BY <1>1, <1>2, <1>3, <2>1, <2>3, <2>4 DEF WeightTypes
<1>15. \A q \in Ranks \ {r} : Same(q)
  BY <1>1, <1>3, <1>9 DEF WeightTypes, Same
<1>16. Past(r)' = Past(r)
  BY <1>2, <1>3, <1>12, PastKept
<1>17. /\ ReachedIn(r, epoch[r])' = ReachedIn(r, e) /\ OwnIn(r, epoch[r])' = own
       /\ DividedIn(r, epoch[r])' = divided /\ EpochSet(epoch[r])' = EpochSet(e)
  BY <1>2, <1>3 DEF ReachedIn, EpochSet, OwnIn, DividedIn, Distributed
<1>18. Finished(r)' = Finished(r) /\ Asked(r)' = Asked(r) \cup divided
  <2>1. (UNION {DividedIn(r, d) : d \in Past(r)})' = UNION {DividedIn(r, d) : d \in Past(r)}
    BY <1>2, <1>16, SetupKept
  <2>2. Finished(r)' = (UNION {DividedIn(r, d) : d \in Past(r)})' \cup own
    BY <1>12, <1>17 DEF Finished
  <2>3. Asked(r)' = (UNION {DividedIn(r, d) : d \in Past(r)})' \cup divided
    BY <1>12, <1>17 DEF Asked
  <2> QED
    BY <1>4, <1>8, <2>1, <2>2, <2>3
<1>19. Seen(r)' = Seen(r)
  <2>1. HasObserved(r)' /\ HasObserved(r)
    BY <1>2, <1>12 DEF HasObserved
  <2> QED
    BY <1>2, <1>16, <1>17, <2>1, SetupKept DEF Seen
<1>20. Scaled(r)' = Scaled(r)
  <2>1. (UNION {ReachedIn(r, d) : d \in Past(r)})' = UNION {ReachedIn(r, d) : d \in Past(r)}
    BY <1>2, <1>16, SetupKept
  <2> QED
    BY <1>2, <1>12, <1>17, <2>1 DEF Scaled
<1>21. PlaceInv(r)'
  BY <1>2, <1>3, <1>4, <1>12 DEF PlaceInv
<1>22. ParametersInv(r)'
  BY <1>2, <1>3, <1>5, <1>12, <1>18, ParametersKept
<1>23. DataInv(r)'
  BY <1>2, <1>3, <1>5, <1>12, <1>20 DEF DataInv
<1>24. ObserversInv(r)'
  BY <1>2, <1>5, <1>10, <1>12, <1>18, <1>19, FollowingKeeps
<1>25. RankInv(r)'
  BY <1>13, <1>21, <1>22, <1>23, <1>24 DEF RankInv
<1>26. RanksInv'
  BY <1>2, <1>14, <1>15, <1>25, OneRankSteps
<1> QED
  BY <1>11, <1>12, <1>26

(* ReceiveParameters: what a rank receives is final, so the whole epoch is. *)
LEMMA ReceiveKeeps ==
  ASSUME RanksInv, PlanInv, SchedulesAreSound, DataIsBalanced, NEW r \in ranks,
         ReceiveParameters(r)
  PROVE  RanksInv'
<1>1. WeightTypes /\ RankInv(r) /\ r \in Ranks
  BY DEF RanksInv, WeightTypes
<1>2. /\ UNCHANGED setup /\ pc[r] = "receive" /\ AllComplete(r)
      /\ ranks' = ranks /\ modifier' = modifier /\ schedule' = schedule /\ coverage' = coverage
      /\ home' = home
  BY DEF ReceiveParameters, setup
<1> DEFINE e == epoch[r]
           own == OwnIn(r, e)
           divided == DividedIn(r, e)
           received == [m \in Modules |-> Received(r, m)]
           weights == [m \in Modules |-> received[m].weight]
           scales == [m \in Modules |-> received[m].scale]
           globals == IF modifier = "gptq" THEN globalScale[r]
                      ELSE [m \in Modules |-> received[m].globalScale]
           last == IF e < Len(schedule) THEN "forward" ELSE "done"
           next == IF e < Len(schedule) THEN e + 1 ELSE e
<1>3. /\ pc' = [pc EXCEPT ![r] = last] /\ epoch' = [epoch EXCEPT ![r] = next]
      /\ UNCHANGED <<stats, deletion, hessian, act, actScale, sent>>
  BY DEF ReceiveParameters, NextEpoch
<1>4. /\ e \in DOMAIN schedule /\ EpochSet(e) \subseteq Modules /\ PlaceInv(r)
      /\ ToSet(Divided(r)) = divided
      /\ own \subseteq divided /\ divided \subseteq EpochSet(e)
      /\ (~Distributed => own = divided)
      /\ DOMAIN schedule = 1 .. Len(schedule) /\ Len(schedule) \in Nat
  BY <1>1, EpochFacts, ListFacts, PastFacts DEF RankInv, PlaceInv
<1>5. /\ ParametersInv(r) /\ DataInv(r) /\ ObserversInv(r)
      /\ \A i \in DOMAIN sent[r] : CarriesData(r, sent[r][i])
  BY <1>1 DEF RankInv
<1>6. /\ weight' = [weight EXCEPT ![r] = weights] /\ scale' = [scale EXCEPT ![r] = scales]
      /\ globalScale' = [globalScale EXCEPT ![r] = globals]
  <2>1. weight' = [weight EXCEPT ![r] = weights] /\ scale' = [scale EXCEPT ![r] = scales]
    BY DEF ReceiveParameters
  <2>2. CASE modifier = "gptq"
    BY <1>1, <2>2 DEF ReceiveParameters, WeightTypes
  <2>3. CASE modifier # "gptq"
    BY <2>3 DEF ReceiveParameters
  <2> QED
    BY <2>1, <2>2, <2>3
<1>7. /\ Finished(r) = (UNION {DividedIn(r, d) : d \in Past(r)}) \cup own
      /\ Asked(r) = (UNION {DividedIn(r, d) : d \in Past(r)}) \cup divided
      /\ Scaled(r) = (UNION {ReachedIn(r, d) : d \in Past(r)}) \cup ReachedIn(r, e)
      /\ Seen(r) = (UNION {EpochSet(d) : d \in Past(r)}) \cup EpochSet(e)
  BY <1>2 DEF Finished, Asked, Scaled, Seen, HasObserved
<1>8. ASSUME Distributed, NEW m \in divided
      PROVE  /\ Received(r, m).weight = FinalWeight /\ Received(r, m).scale = {}
             /\ modifier = "quantization" => Received(r, m).globalScale = FinalGlobalScale(m)
  <2> DEFINE p == Position(r, "broadcast", m)
  <2>1. sent[r] \in Seq(Collectives)
    BY <1>1 DEF WeightTypes
  <2>2. HasCall(sent[r], "broadcast", m)
    BY <1>1, <1>2, <1>4, <1>8, IssuedFacts
  <2>3. p \in DOMAIN sent[r] /\ sent[r][p].kind = "broadcast" /\ sent[r][p].module = m
    <3>1. PICK i \in DOMAIN sent[r] : sent[r][i].kind = "broadcast" /\ sent[r][i].module = m
      BY <2>2 DEF HasCall
    <3> QED
      BY <2>1, <3>1, PositionFacts
  <2>4. Received(r, m) = sent[home[m]][p].data
    BY <1>4, <1>8 DEF Received
  <2> HIDE DEF p
  <2>5. Complete(r, p) /\ CollectivesMatch
    BY <1>2, <2>3, CollectivesFollowPlan DEF AllComplete
  <2>6. LET k == sent[r][p].module d == sent[home[k]][p].data IN
        /\ d.weight = FinalWeight /\ d.scale = {}
        /\ modifier = "quantization" => d.globalScale = FinalGlobalScale(k)
    BY <2>3, <2>5, BroadcastFacts
  <2> QED
    BY <2>3, <2>4, <2>6
<1>9. ASSUME NEW m \in Modules
      PROVE  /\ weights[m] = IF m \in Finished(r) \cup divided THEN FinalWeight ELSE {}
             /\ scales[m] = IF m \in Finished(r) \cup divided THEN {} ELSE None
             /\ globals[m] \in {None, OriginalGroup(m)}
             /\ modifier = "quantization" =>
                  globals[m] = IF m \in Finished(r) \cup divided THEN FinalGlobalScale(m) ELSE None
  <2>1. modifier \in {"quantization", "gptq"}
    BY <1>1 DEF WeightTypes
  <2>2. globalScale[r][m] \in {None, OriginalGroup(m)}
    BY <1>5 DEF ParametersInv
  <2>3. CASE Distributed /\ m \in divided
    <3>1. /\ Received(r, m).weight = FinalWeight /\ Received(r, m).scale = {}
          /\ modifier = "quantization" => Received(r, m).globalScale = FinalGlobalScale(m)
      BY <1>8, <2>3
    <3>2. weights[m] = FinalWeight /\ scales[m] = {}
      BY <3>1
    <3>3. modifier = "quantization" => globals[m] = FinalGlobalScale(m)
      BY <3>1
    <3>4. globals[m] \in {None, OriginalGroup(m)}
      BY <2>1, <2>2, <3>3 DEF FinalGlobalScale
    <3> QED
      BY <2>3, <3>2, <3>3, <3>4
  <2>4. CASE ~(Distributed /\ m \in divided)
    <3>1. Received(r, m) = Parameters(r, m)
      BY <1>4, <2>4 DEF Received
    <3>2. m \in Finished(r) \cup divided <=> m \in Finished(r)
      BY <1>4, <1>7, <2>4
    <3>3. weights[m] = weight[r][m] /\ scales[m] = scale[r][m]
      BY <3>1 DEF Parameters
    <3>4. globals[m] = globalScale[r][m]
      BY <3>1 DEF Parameters
    <3> HIDE DEF weights, scales, globals
    <3> QED
      BY <1>5, <2>2, <3>2, <3>3, <3>4 DEF ParametersInv
  <2> QED
    BY <2>3, <2>4
<1>10. /\ weights \in [Modules -> SUBSET Ranks] /\ scales \in [Modules -> Originals]
       /\ globals \in [Modules -> GlobalScales]
  <2>1. FinalWeight \in SUBSET Ranks /\ {None, {}} = Originals
    BY <1>1 DEF FinalWeight, WeightTypes, Originals
  <2>2. \A m \in Modules : weights[m] \in SUBSET Ranks /\ scales[m] \in Originals
    BY <1>9, <2>1
  <2>3. \A m \in Modules : globals[m] \in GlobalScales
    <3>1. \A m \in Modules : OriginalGroup(m) \in [Group(m) -> Originals]
      BY DEF OriginalGroup, Originals
    <3> QED
      BY <1>9, <3>1 DEF GlobalScales
  <2>4. globals = [m \in Modules |-> globals[m]]
    BY <1>1 DEF WeightTypes
  <2> HIDE DEF globals
  <2> QED
    BY <2>2, <2>3, <2>4
<1> HIDE DEF weights, scales, globals, last, next, received
<1>11. /\ pc'[r] = last /\ epoch'[r] = next /\ weight'[r] = weights /\ scale'[r] = scales
       /\ globalScale'[r] = globals
  BY <1>1, <1>3, <1>6 DEF WeightTypes
<1>12. next \in DOMAIN schedule /\ next \in Nat /\ last \in {"forward", "done"}
       /\ (last = "done" => next = Len(schedule))
  BY <1>4 DEF next, last
<1>13. WeightTypes'
  <2>1. pc' \in [Ranks -> {"forward", "sync", "activations", "observe", "reduce", "compress",
                           "broadcast", "receive", "done"}]
    BY <1>1, <1>3, <1>12 DEF WeightTypes
  <2>2. epoch' \in [Ranks -> Nat]
    BY <1>1, <1>3, <1>12 DEF WeightTypes
  <2>3. /\ weight' \in [Ranks -> [Modules -> SUBSET Ranks]]
        /\ scale' \in [Ranks -> [Modules -> Originals]]
        /\ globalScale' \in [Ranks -> [Modules -> GlobalScales]]
    BY <1>1, <1>6, <1>10 DEF WeightTypes
  <2> QED
    BY <1>1, <1>2, <1>3, <2>1, <2>2, <2>3 DEF WeightTypes
<1>14. \A q \in Ranks \ {r} : Same(q)
  BY <1>1, <1>3, <1>6 DEF WeightTypes, Same
<1>15. Past(r)' = Past(r) \cup {e}
  <2>1. Past(r) = {d \in DOMAIN schedule : d < e}
    BY <1>2 DEF Past
  <2>2. Past(r)' = {d \in DOMAIN schedule : d < next \/ last = "done"}
    BY <1>2, <1>11 DEF Past
  <2>3. CASE e < Len(schedule)
    <3>1. next = e + 1 /\ last = "forward"
      BY <2>3 DEF next, last
    <3>2. \A d \in DOMAIN schedule : d < e + 1 <=> d < e \/ d = e
      BY <1>4
    <3> QED
      BY <1>4, <2>1, <2>2, <3>1, <3>2
  <2>4. CASE ~(e < Len(schedule))
    <3>1. last = "done"
      BY <2>4 DEF last
    <3>2. \A d \in DOMAIN schedule : d < e \/ d = e
      BY <1>4, <2>4
    <3> QED
      BY <1>4, <2>1, <2>2, <3>1, <3>2
  <2> QED
    BY <2>3, <2>4
<1>16. /\ Finished(r)' = Finished(r) \cup divided /\ Asked(r)' = Asked(r) \cup {}
       /\ Scaled(r)' = Scaled(r) /\ Seen(r)' = Seen(r)
  <2>1. Finished(r)' = (UNION {DividedIn(r, d) : d \in Past(r)}) \cup divided
    <3>1. Finished(r)' = (UNION {DividedIn(r, d) : d \in Past(r)})'
      BY <1>11, <1>12 DEF Finished
    <3>2. (UNION {DividedIn(r, d) : d \in Past(r)})'
            = UNION {DividedIn(r, d) : d \in Past(r) \cup {e}}
      BY <1>2, <1>15, SetupKept
    <3> QED
      BY <3>1, <3>2
  <2>2. Asked(r)' = Finished(r)'
    BY <1>11, <1>12 DEF Asked, Finished
  <2>3. Scaled(r)' = (UNION {ReachedIn(r, d) : d \in Past(r)}) \cup ReachedIn(r, e)
    <3>1. Scaled(r)' = (UNION {ReachedIn(r, d) : d \in Past(r)})'
      BY <1>11, <1>12 DEF Scaled
    <3>2. (UNION {ReachedIn(r, d) : d \in Past(r)})'
            = UNION {ReachedIn(r, d) : d \in Past(r) \cup {e}}
      BY <1>2, <1>15, SetupKept
    <3> QED
      BY <3>1, <3>2
  <2>4. Seen(r)' = (UNION {EpochSet(d) : d \in Past(r)}) \cup EpochSet(e)
    <3>1. Seen(r)' = (UNION {EpochSet(d) : d \in Past(r)})'
      BY <1>11, <1>12 DEF Seen, HasObserved
    <3>2. (UNION {EpochSet(d) : d \in Past(r)})' = UNION {EpochSet(d) : d \in Past(r) \cup {e}}
      BY <1>2, <1>15, SetupKept
    <3> QED
      BY <3>1, <3>2
  <2> QED
    BY <1>4, <1>7, <2>1, <2>2, <2>3, <2>4
<1>17. PlaceInv(r)'
  BY <1>2, <1>11, <1>12 DEF PlaceInv
<1>18. ParametersInv(r)'
  <2>1. FinalWeight' = FinalWeight
    BY <1>2, SetupKept
  <2> QED
    BY <1>2, <1>9, <1>11, <1>16, <2>1 DEF ParametersInv
<1>19. DataInv(r)'
  BY <1>2, <1>3, <1>5, <1>11, <1>12, <1>16 DEF DataInv
<1>20. ObserversInv(r)'
  <2>1. Follows(Observers(r), Observers(r), Asked(r), {})
    BY <1>5, FollowsStart DEF ObserversInv
  <2>2. stats'[r] = Observers(r).stats /\ deletion'[r] = Observers(r).deletion
    BY <1>3 DEF Observers
  <2>3. pc'[r] # "compress"
    BY <1>11, <1>12
  <2> QED
    BY <1>2, <1>5, <1>16, <2>1, <2>2, <2>3, FollowingKeeps
<1>21. \A i \in DOMAIN sent'[r] : CarriesData(r, sent[r][i])'
  BY <1>2, <1>3, <1>5, CallsKept
<1>22. RankInv(r)'
  BY <1>17, <1>18, <1>19, <1>20, <1>21 DEF RankInv
<1> QED
  BY <1>2, <1>13, <1>14, <1>22, OneRankSteps

(* Nothing has been observed, computed or sent at first. *)
LEMMA InitialRanks ==
  ASSUME WeightInit, SchedulesAreSound, DataIsBalanced
  PROVE  RanksInv /\ PlanInv
<1>1. ranks \subseteq Ranks /\ ranks # {} /\ modifier \in {"quantization", "gptq"}
      /\ schedule \in Schedules /\ coverage \in Coverages
  BY DEF WeightInit
<1>2. home \in [Modules -> ranks]
  <2>1. home \in [Modules -> Ranks] /\ \A m \in Modules : home[m] \in ranks
    BY WeightAssumption DEF WeightInit
  <2> QED
    BY <2>1
<1>3. None \in Originals /\ {} \in Originals /\ None \in GlobalScales
  BY DEF Originals, GlobalScales
<1>4. \A r \in Ranks : \A m \in Modules :
        /\ weight[r][m] = {} /\ stats[r][m] = None /\ ~deletion[r][m] /\ scale[r][m] = None
        /\ globalScale[r][m] = None /\ hessian[r][m] = {} /\ act[r][m] = {} /\ actScale[r][m] = {}
  BY DEF WeightInit
<1>5. \A r \in Ranks : epoch[r] = 1 /\ sent[r] = <<>>
                       /\ pc[r] = IF r \in ranks THEN "forward" ELSE "done"
  BY DEF WeightInit
<1>6. WeightTypes
  <2>1. /\ weight \in [Ranks -> [Modules -> SUBSET Ranks]]
             /\ stats \in [Ranks -> [Modules -> Originals]]
        /\ deletion \in [Ranks -> [Modules -> BOOLEAN]]
             /\ scale \in [Ranks -> [Modules -> Originals]]
        /\ globalScale \in [Ranks -> [Modules -> GlobalScales]]
    BY <1>3 DEF WeightInit
  <2>2. /\ hessian \in [Ranks -> [Modules -> SUBSET Ranks]]
             /\ act \in [Ranks -> [Modules -> SUBSET Ranks]]
        /\ actScale \in [Ranks -> [Modules -> SUBSET Ranks]]
    BY DEF WeightInit
  <2>3. sent \in [Ranks -> Seq(Collectives)] /\ epoch \in [Ranks -> Nat]
    <3>1. <<>> \in Seq(Collectives)
      OBVIOUS
    <3> QED
      BY <3>1 DEF WeightInit
  <2>4. pc \in [Ranks -> {"forward", "sync", "activations", "observe", "reduce", "compress",
                          "broadcast", "receive", "done"}]
    BY DEF WeightInit
  <2> QED
    BY <1>1, <1>2, <2>1, <2>2, <2>3, <2>4 DEF WeightTypes
<1>7. /\ DOMAIN schedule = 1 .. Len(schedule) /\ Len(schedule) \in Nat \ {0}
  BY <1>6, EpochFacts
<1>8. ASSUME NEW r \in ranks PROVE RankInv(r)
  <2>1. pc[r] = "forward" /\ epoch[r] = 1 /\ sent[r] = <<>> /\ r \in Ranks
    BY <1>1, <1>5
  <2>2. Past(r) = {}
    BY <1>7, <2>1 DEF Past
  <2>3. Finished(r) = {} /\ Asked(r) = {} /\ Seen(r) = {} /\ Scaled(r) = {}
    BY <2>1, <2>2 DEF Finished, Asked, Seen, Scaled, HasObserved
  <2>4. PlaceInv(r)
    BY <1>7, <2>1 DEF PlaceInv
  <2>5. ParametersInv(r)
    BY <1>4, <2>1, <2>3 DEF ParametersInv
  <2>6. DataInv(r)
    BY <1>4, <2>1, <2>3 DEF DataInv
  <2>7. ObserversInv(r)
    <3>1. StatisticsAreSound(Observers(r), Asked(r))
      <4>1. \A m \in Modules : Group(m) \subseteq Modules
        BY GroupFacts
      <4>2. Observers(r).stats = stats[r] /\ Observers(r).deletion = deletion[r]
        BY DEF Observers
      <4> QED
        BY <1>4, <2>1, <4>1, <4>2 DEF StatisticsAreSound
    <3> QED
      BY <2>1, <2>3, <3>1 DEF ObserversInv
  <2> QED
    BY <2>1, <2>4, <2>5, <2>6, <2>7 DEF RankInv
<1>9. ASSUME NEW r \in Ranks \ ranks PROVE IdleInv(r)
  BY <1>4, <1>5 DEF IdleInv
<1>10. RanksInv
  BY <1>6, <1>8, <1>9 DEF RanksInv
<1>11. PlanInv
  <2>1. PICK E : IsPlan(E)
    BY <1>6, PlanExists
  <2>2. ASSUME NEW r \in ranks PROVE Matches(sent[r], Planned(r, E))
    <3>1. pc[r] = "forward" /\ epoch[r] - 1 = 0 /\ sent[r] = <<>>
      BY <1>1, <1>5
    <3>2. Planned(r, E) = <<>>
      BY <2>1, <3>1 DEF Planned, IsPlan
    <3> QED
      BY <3>1, <3>2 DEF Matches
  <2> QED
    BY <2>1, <2>2 DEF PlanInv
<1> QED
  BY <1>10, <1>11

(* The plan does not change. *)
LEMMA PlanStays ==
  ASSUME UNCHANGED setup, NEW E, IsPlan(E)
  PROVE  /\ IsPlan(E)'
         /\ \A q, e : SyncCalls(q, e)' = SyncCalls(q, e) /\ ReduceCalls(q, e)' = ReduceCalls(q, e)
                      /\ BroadcastCalls(q, e)' = BroadcastCalls(q, e)
<1>1. /\ ranks' = ranks /\ modifier' = modifier /\ schedule' = schedule /\ coverage' = coverage
      /\ home' = home
  BY DEF setup
<1>2. \A kind, list : Calls(kind, list)' = Calls(kind, list)
  BY <1>1 DEF Calls
<1>3. \A q, e : /\ ReachedList(q, e)' = ReachedList(q, e) /\ ReachedIn(q, e)' = ReachedIn(q, e)
  BY <1>1, SetupKept DEF ReachedList
<1>4. \A q, e : DividedList(q, e)' = DividedList(q, e)
  BY <1>1, <1>3 DEF DividedList
<1>5. Distributed' <=> Distributed
  BY SetupKept
<1>6. \A q, e : SyncCalls(q, e)' = SyncCalls(q, e)
  BY <1>1, <1>2, <1>3, <1>5 DEF SyncCalls
<1>7. \A q, e : ReduceCalls(q, e)' = ReduceCalls(q, e)
  BY <1>1, <1>2, <1>3, <1>5 DEF ReduceCalls
<1>8. \A q, e : BroadcastCalls(q, e)' = BroadcastCalls(q, e)
  BY <1>1, <1>2, <1>4, <1>5 DEF BroadcastCalls
<1>9. ASSUME Signatures' = Signatures PROVE IsPlan(E)'
  BY <1>1, <1>6, <1>7, <1>8, <1>9 DEF IsPlan
<1> QED
  BY <1>6, <1>7, <1>8, <1>9 DEF Signatures

(* A step is one of one rank. *)
LEMMA StepFrame ==
  ASSUME RanksInv, NEW r \in ranks, Step(r)
  PROVE  /\ UNCHANGED setup
         /\ \A q \in Ranks \ {r} : pc'[q] = pc[q] /\ epoch'[q] = epoch[q] /\ sent'[q] = sent[q]
<1>1. WeightTypes
  BY DEF RanksInv
<1>2. CASE Forward(r)
  BY <1>1, <1>2 DEF Forward, WeightTypes
<1>3. CASE SyncActivations(r)
  BY <1>1, <1>3 DEF SyncActivations, Issue, WeightTypes
<1>4. CASE UpdateActivations(r)
  BY <1>1, <1>4 DEF UpdateActivations, WeightTypes
<1>5. CASE ObserveOwn(r)
  BY <1>1, <1>5 DEF ObserveOwn, WeightTypes
<1>6. CASE ReduceHessians(r)
  BY <1>1, <1>6 DEF ReduceHessians, Issue, WeightTypes
<1>7. CASE CompressOwn(r)
  BY <1>1, <1>7 DEF CompressOwn, WeightTypes
<1>8. CASE BroadcastParameters(r)
  BY <1>1, <1>8 DEF BroadcastParameters, Issue, WeightTypes
<1>9. CASE ReceiveParameters(r)
  BY <1>1, <1>9 DEF ReceiveParameters, WeightTypes
<1> QED
  BY <1>2, <1>3, <1>4, <1>5, <1>6, <1>7, <1>8, <1>9 DEF Step

(* A step issues what the plan has next. *)
LEMMA PlanKept ==
  ASSUME RanksInv, PlanInv, SchedulesAreSound, DataIsBalanced, NEW r \in ranks, Step(r)
  PROVE  PlanInv'
<1>1. WeightTypes /\ RankInv(r) /\ PlaceInv(r) /\ r \in Ranks /\ ranks \subseteq Ranks
  BY DEF RanksInv, RankInv, WeightTypes
<1>2. /\ UNCHANGED setup
      /\ \A q \in Ranks \ {r} : pc'[q] = pc[q] /\ epoch'[q] = epoch[q] /\ sent'[q] = sent[q]
  BY StepFrame
<1>3. ranks' = ranks /\ schedule' = schedule
  BY <1>2 DEF setup
<1>4. PICK E : IsPlan(E) /\ \A q \in ranks : Matches(sent[q], Planned(q, E))
  BY DEF PlanInv
<1>5. /\ IsPlan(E)'
      /\ \A q, e : SyncCalls(q, e)' = SyncCalls(q, e) /\ ReduceCalls(q, e)' = ReduceCalls(q, e)
                   /\ BroadcastCalls(q, e)' = BroadcastCalls(q, e)
  BY <1>2, <1>4, PlanStays
<1> DEFINE e == epoch[r]
           a == E[e - 1] \o SyncCalls(r, e)
           b == a \o ReduceCalls(r, e)
<1>6. e \in DOMAIN schedule /\ e \in Nat /\ DOMAIN schedule = 1 .. Len(schedule)
      /\ Len(schedule) \in Nat
  BY <1>1, EpochFacts DEF PlaceInv
<1>7. /\ E[e - 1] \in Seq(Signatures) /\ a \in Seq(Signatures) /\ b \in Seq(Signatures)
      /\ E[e] = b \o BroadcastCalls(r, e)
      /\ SyncCalls(r, e) \in Seq(Signatures) /\ ReduceCalls(r, e) \in Seq(Signatures)
      /\ BroadcastCalls(r, e) \in Seq(Signatures)
  <2> HIDE DEF e
  <2>1. /\ E[e - 1] \in Seq(Signatures) /\ a \in Seq(Signatures) /\ b \in Seq(Signatures)
        /\ E[e] = b \o BroadcastCalls(r, e)
    BY <1>1, <1>4, <1>6, StageOfPlan
  <2>2. /\ SyncCalls(r, e) \in Seq(Signatures) /\ ReduceCalls(r, e) \in Seq(Signatures)
        /\ BroadcastCalls(r, e) \in Seq(Signatures)
    BY <1>1, <1>6, EpochCallsFacts
  <2> QED
    BY <2>1, <2>2
<1>8. sent[r] \in Seq(Collectives) /\ Matches(sent[r], Planned(r, E))
  BY <1>1, <1>4 DEF WeightTypes
<1>9. Planned(r, E) = IF pc[r] \in {"forward", "sync"} THEN E[e - 1]
                      ELSE IF pc[r] \in {"activations", "observe", "reduce"} THEN a
                      ELSE IF pc[r] \in {"compress", "broadcast"} THEN b ELSE E[e]
  BY DEF Planned
<1>10. ASSUME epoch'[r] = e
       PROVE  Planned(r, E)' = IF pc'[r] \in {"forward", "sync"} THEN E[e - 1]
                               ELSE IF pc'[r] \in {"activations", "observe", "reduce"} THEN a
                               ELSE IF pc'[r] \in {"compress", "broadcast"} THEN b ELSE E[e]
  <2>1. /\ SyncCalls(r, epoch[r])' = SyncCalls(r, e)
             /\ ReduceCalls(r, epoch[r])' = ReduceCalls(r, e)
    BY <1>2, <1>10, <1>5 DEF setup, SyncCalls, ReduceCalls, Calls, Distributed, ReachedIn,
       ReachedList, EpochSet
  <2> QED
    BY <1>10, <2>1 DEF Planned
<1> HIDE DEF e, a, b
<1>11. ASSUME Forward(r) PROVE Matches(sent'[r], Planned(r, E)')
  <2>1. pc[r] = "forward" /\ pc'[r] = "sync" /\ epoch'[r] = e /\ sent'[r] = sent[r]
    BY <1>1, <1>11 DEF Forward, WeightTypes, e
  <2> QED
    BY <1>8, <1>9, <1>10, <2>1
<1>12. ASSUME SyncActivations(r) PROVE Matches(sent'[r], Planned(r, E)')
  <2>1. pc[r] = "sync" /\ pc'[r] = "activations" /\ epoch'[r] = e
    BY <1>1, <1>12 DEF SyncActivations, WeightTypes, e
  <2>2. PICK ops \in Seq(Collectives) :
          sent'[r] = sent[r] \o ops /\ Matches(ops, SyncCalls(r, e))
    BY <1>12, SyncKeeps DEF e
  <2>3. Matches(sent[r], E[e - 1])
    BY <1>8, <1>9, <2>1
  <2>4. Matches(sent[r] \o ops, E[e - 1] \o SyncCalls(r, e))
    BY <1>7, <1>8, <2>2, <2>3, MatchesAppend
  <2>5. Planned(r, E)' = a
    BY <1>10, <2>1
  <2> QED
    BY <2>2, <2>4, <2>5 DEF a
<1>13. ASSUME UpdateActivations(r) PROVE Matches(sent'[r], Planned(r, E)')
  <2>1. pc[r] = "activations" /\ pc'[r] \in {"reduce", "observe"} /\ epoch'[r] = e
        /\ sent'[r] = sent[r]
    BY <1>1, <1>13 DEF UpdateActivations, WeightTypes, e
  <2> QED
    BY <1>8, <1>9, <1>10, <2>1
<1>14. ASSUME ObserveOwn(r) PROVE Matches(sent'[r], Planned(r, E)')
  <2>1. pc[r] = "observe" /\ pc'[r] = "compress" /\ epoch'[r] = e /\ sent'[r] = sent[r]
    BY <1>1, <1>14 DEF ObserveOwn, WeightTypes, e
  <2>2. modifier = "quantization"
    BY <1>1, <2>1 DEF PlaceInv
  <2>3. b = a
    <3>1. ReduceCalls(r, e) = <<>>
      BY <2>2 DEF ReduceCalls
    <3>2. a \o <<>> = a
      BY <1>7
    <3> QED
      BY <3>1, <3>2 DEF b
  <2> QED
    BY <1>8, <1>9, <1>10, <2>1, <2>3
<1>15. ASSUME ReduceHessians(r) PROVE Matches(sent'[r], Planned(r, E)')
  <2>1. pc[r] = "reduce" /\ pc'[r] = "compress" /\ epoch'[r] = e
    BY <1>1, <1>15 DEF ReduceHessians, WeightTypes, e
  <2>2. PICK ops \in Seq(Collectives) :
          sent'[r] = sent[r] \o ops /\ Matches(ops, ReduceCalls(r, e))
    BY <1>15, ReduceKeeps DEF e
  <2>3. Matches(sent[r], a)
    BY <1>8, <1>9, <2>1
  <2>4. Matches(sent[r] \o ops, a \o ReduceCalls(r, e))
    BY <1>7, <1>8, <2>2, <2>3, MatchesAppend
  <2>5. Planned(r, E)' = b
    BY <1>10, <2>1
  <2> QED
    BY <2>2, <2>4, <2>5 DEF b
<1>16. ASSUME CompressOwn(r) PROVE Matches(sent'[r], Planned(r, E)')
  <2>1. pc[r] = "compress" /\ pc'[r] = "broadcast" /\ epoch'[r] = e /\ sent'[r] = sent[r]
    BY <1>1, <1>16 DEF CompressOwn, WeightTypes, e
  <2> QED
    BY <1>8, <1>9, <1>10, <2>1
<1>17. ASSUME BroadcastParameters(r) PROVE Matches(sent'[r], Planned(r, E)')
  <2>1. pc[r] = "broadcast" /\ pc'[r] = "receive" /\ epoch'[r] = e
    BY <1>1, <1>17 DEF BroadcastParameters, WeightTypes, e
  <2>2. PICK ops \in Seq(Collectives) :
          sent'[r] = sent[r] \o ops /\ Matches(ops, BroadcastCalls(r, e))
    BY <1>17, BroadcastKeeps DEF e
  <2>3. Matches(sent[r], b)
    BY <1>8, <1>9, <2>1
  <2>4. Matches(sent[r] \o ops, b \o BroadcastCalls(r, e))
    BY <1>7, <1>8, <2>2, <2>3, MatchesAppend
  <2>5. Planned(r, E)' = E[e]
    BY <1>10, <2>1
  <2> QED
    BY <1>7, <2>2, <2>4, <2>5
<1>18. ASSUME ReceiveParameters(r) PROVE Matches(sent'[r], Planned(r, E)')
  <2>1. pc[r] = "receive" /\ sent'[r] = sent[r]
    BY <1>18 DEF ReceiveParameters
  <2>2. /\ pc'[r] = IF e < Len(schedule) THEN "forward" ELSE "done"
        /\ epoch'[r] = IF e < Len(schedule) THEN e + 1 ELSE e
    BY <1>1, <1>18 DEF ReceiveParameters, NextEpoch, WeightTypes, e
  <2>3. Matches(sent[r], E[e])
    BY <1>8, <1>9, <2>1
  <2>4. Planned(r, E)' = E[e]
    <3>1. CASE e < Len(schedule)
      <4>1. pc'[r] = "forward" /\ epoch'[r] = e + 1 /\ (e + 1) - 1 = e
        BY <1>6, <2>2, <3>1
      <4> QED
        BY <4>1 DEF Planned
    <3>2. CASE ~(e < Len(schedule))
      BY <1>10, <2>2, <3>2
    <3> QED
      BY <3>1, <3>2
  <2> QED
    BY <2>1, <2>3, <2>4
<1>19. Matches(sent'[r], Planned(r, E)')
  BY <1>11, <1>12, <1>13, <1>14, <1>15, <1>16, <1>17, <1>18 DEF Step
<1>20. ASSUME NEW q \in ranks, q # r PROVE Matches(sent'[q], Planned(q, E)')
  <2>1. pc'[q] = pc[q] /\ epoch'[q] = epoch[q] /\ sent'[q] = sent[q]
    BY <1>1, <1>2, <1>20
  <2>2. Planned(q, E)' = Planned(q, E)
    BY <1>5, <2>1 DEF Planned
  <2> QED
    BY <1>4, <2>1, <2>2
<1>21. \A q \in ranks' : Matches(sent'[q], Planned(q, E)')
  BY <1>3, <1>19, <1>20
<1> QED
  BY <1>5, <1>21 DEF PlanInv

-----------------------------------------------------------------------------
(* What the invariant says *)

(* The inductive invariant. *)
WeightInv == RanksInv /\ PlanInv

(* The steps of ranks keep it. *)
LEMMA StepKeeps ==
  ASSUME WeightInv, SchedulesAreSound, DataIsBalanced, NEW r \in ranks, Step(r)
  PROVE  WeightInv'
<1>1. RanksInv'
  BY ForwardKeeps, SyncKeeps, UpdateActivationsKeeps, ObserveOwnKeeps, ReduceKeeps, CompressKeeps,
     BroadcastKeeps, ReceiveKeeps DEF WeightInv, Step
<1> QED
  BY <1>1, PlanKept DEF WeightInv

(* Steps that change nothing keep it. *)
LEMMA StutterKeeps ==
  ASSUME WeightInv, UNCHANGED weightVars
  PROVE  WeightInv'
<1>1. /\ UNCHANGED setup /\ ranks' = ranks /\ schedule' = schedule /\ modifier' = modifier
      /\ coverage' = coverage /\ home' = home
      /\ \A q : Same(q)
  BY DEF weightVars, setup, Same
<1>2. WeightTypes'
  BY <1>1 DEF WeightInv, RanksInv, WeightTypes, weightVars
<1>3. RanksInv'
  <2>1. \A q \in ranks' : RankInv(q)'
    BY <1>1, RankKept DEF WeightInv, RanksInv
  <2>2. \A q \in Ranks \ ranks' : IdleInv(q)'
    BY <1>1 DEF WeightInv, RanksInv, IdleInv, Same
  <2> QED
    BY <1>2, <2>1, <2>2 DEF RanksInv
<1>4. PlanInv'
  <2>1. PICK E : IsPlan(E) /\ \A q \in ranks : Matches(sent[q], Planned(q, E))
    BY DEF PlanInv, WeightInv
  <2>2. /\ IsPlan(E)'
        /\ \A q, e : SyncCalls(q, e)' = SyncCalls(q, e) /\ ReduceCalls(q, e)' = ReduceCalls(q, e)
    BY <1>1, <2>1, PlanStays
  <2>3. ASSUME NEW q \in ranks PROVE Matches(sent'[q], Planned(q, E)')
    <3>1. pc'[q] = pc[q] /\ epoch'[q] = epoch[q] /\ sent'[q] = sent[q]
      BY <1>1 DEF Same
    <3>2. Planned(q, E)' = Planned(q, E)
      BY <2>2, <3>1 DEF Planned
    <3> QED
      BY <2>1, <3>1, <3>2
  <2>4. \A q \in ranks' : Matches(sent'[q], Planned(q, E)')
    BY <1>1, <2>3
  <2> QED
    BY <2>2, <2>4 DEF PlanInv
<1> QED
  BY <1>3, <1>4 DEF WeightInv

(* A rank that is done has finished what it was asked to. *)
LEMMA DoneFacts ==
  ASSUME RanksInv, SchedulesAreSound, DataIsBalanced, NEW r \in ranks, pc[r] = "done"
  PROVE  /\ Past(r) = DOMAIN schedule
         /\ Finished(r) = Asked(r)
         /\ \A m \in Modules :
              m \in Asked(r) <=> (modifier = "gptq" => m \in ToSet(coverage[r]))
<1>1. WeightTypes /\ Past(r) = DOMAIN schedule
  BY DEF Past, RanksInv
<1>2. Finished(r) = Asked(r) /\ Asked(r) = UNION {DividedIn(r, e) : e \in DOMAIN schedule}
  BY <1>1 DEF Finished, Asked
<1>3. ASSUME NEW m \in Modules
      PROVE  m \in Asked(r) <=> (modifier = "gptq" => m \in ToSet(coverage[r]))
  <2>1. PICK e \in DOMAIN schedule : m \in EpochSet(e)
    BY <1>1, EpochFacts
  <2>2. CASE modifier = "gptq"
    <3>1. \A d : m \in DividedIn(r, d) <=> m \in EpochSet(d) /\ m \in ToSet(coverage[r])
      BY <2>2 DEF DividedIn, ReachedIn
    <3> QED
      BY <1>2, <2>1, <2>2, <3>1
  <2>3. CASE modifier # "gptq"
    <3>1. m \in DividedIn(r, e)
      BY <2>1, <2>3 DEF DividedIn
    <3> QED
      BY <1>2, <2>3, <3>1
  <2> QED
    BY <2>2, <2>3
<1> QED
  BY <1>1, <1>2, <1>3

(* Ranks that have completed the same epochs have the same model. *)
LEMMA RanksAgreeFacts ==
  ASSUME RanksInv, SchedulesAreSound, DataIsBalanced
  PROVE  RanksAgree
<1>1. WeightTypes
  BY DEF RanksInv
<1> SUFFICES ASSUME NEW r \in ranks, NEW q \in ranks,
                    pc[r] \in {"forward", "done"}, pc[q] = pc[r], epoch[q] = epoch[r]
             PROVE  /\ weight[r] = weight[q] /\ scale[r] = scale[q] /\ actScale[r] = actScale[q]
                    /\ modifier = "quantization" => globalScale[r] = globalScale[q]
  BY DEF RanksAgree, Settled
<1>2. r \in Ranks /\ q \in Ranks /\ RankInv(r) /\ RankInv(q) /\ PlaceInv(r)
  BY <1>1 DEF WeightTypes, RanksInv, RankInv
<1>3. Past(q) = Past(r) /\ \A e \in Past(r) : e \in DOMAIN schedule
  BY DEF Past
<1>4. \A e \in Past(r) : DividedIn(q, e) = DividedIn(r, e) /\ ReachedIn(q, e) = ReachedIn(r, e)
  BY <1>1, <1>2, <1>3, PastFacts
<1>5. Finished(q) = Finished(r)
  BY <1>3, <1>4 DEF Finished
<1>6. Scaled(q) = Scaled(r)
  BY <1>3, <1>4 DEF Scaled
<1>7. \A m \in Modules : /\ weight[r][m] = weight[q][m] /\ scale[r][m] = scale[q][m]
                         /\ actScale[r][m] = actScale[q][m]
                         /\ modifier = "quantization" => globalScale[r][m] = globalScale[q][m]
  BY <1>2, <1>5, <1>6 DEF RankInv, ParametersInv, DataInv
<1>8. /\ weight[r] \in [Modules -> SUBSET Ranks] /\ weight[q] \in [Modules -> SUBSET Ranks]
      /\ scale[r] \in [Modules -> Originals] /\ scale[q] \in [Modules -> Originals]
      /\ actScale[r] \in [Modules -> SUBSET Ranks] /\ actScale[q] \in [Modules -> SUBSET Ranks]
      /\ globalScale[r] \in [Modules -> GlobalScales]
           /\ globalScale[q] \in [Modules -> GlobalScales]
  BY <1>1, <1>2 DEF WeightTypes
<1>9. weight[r] = weight[q]
  BY <1>7, <1>8
<1>10. scale[r] = scale[q]
  BY <1>7, <1>8
<1>11. actScale[r] = actScale[q]
  BY <1>7, <1>8
<1>12. modifier = "quantization" => globalScale[r] = globalScale[q]
  BY <1>7, <1>8
<1> QED
  BY <1>9, <1>10, <1>11, <1>12

(* Scales are of original weights, and those of a group are one. *)
LEMMA ScalesFacts ==
  ASSUME RanksInv
  PROVE  ScalesAreConsistent
<1>1. WeightTypes
  BY DEF RanksInv
<1>2. ASSUME NEW r \in Ranks, NEW m \in Modules
      PROVE  scale[r][m] \in {None, {}} /\ globalScale[r][m] \in {None, OriginalGroup(m)}
  <2>1. CASE r \in ranks
    BY <1>1, <2>1 DEF RanksInv, RankInv, ParametersInv, WeightTypes, Originals
  <2>2. CASE r \notin ranks
    BY <2>2 DEF RanksInv, IdleInv
  <2> QED
    BY <2>1, <2>2
<1>3. \A m \in Modules : home[m] \in Ranks
  BY <1>1 DEF WeightTypes
<1>4. ASSUME NEW G \in FusedGroups, NEW m \in G, NEW k \in G
      PROVE OriginalGroup(m) = OriginalGroup(k)
  <2>1. m \in Modules /\ k \in Group(m)
    BY WeightAssumption DEF Group
  <2>2. Group(k) = Group(m)
    BY <2>1, GroupFacts
  <2> QED
    BY <2>2 DEF OriginalGroup
<1>5. FusedShareScale
  BY <1>2, <1>3, <1>4, WeightAssumption DEF FusedShareScale
<1>6. ScalesAreOriginal
  BY <1>2 DEF ScalesAreOriginal, OriginalGroup
<1> QED
  BY <1>5, <1>6 DEF ScalesAreConsistent

(* A rank that is done has used the data of all ranks and kept none. *)
LEMMA UsedUpFacts ==
  ASSUME RanksInv, SchedulesAreSound, DataIsBalanced
  PROVE  DataIsUsedUp
<1>1. WeightTypes /\ ranks \subseteq Ranks
  BY DEF RanksInv, WeightTypes
<1>2. AllDataIsUsed
  <2> SUFFICES ASSUME NEW r \in Ranks, NEW m \in Modules
               PROVE  LET reaching == {q \in ranks : m \in ToSet(coverage[q])} IN
                      weight[r][m] \in {{}, reaching} /\ actScale[r][m] \in {{}, reaching}
    BY DEF AllDataIsUsed
  <2> DEFINE reaching == {q \in ranks : m \in ToSet(coverage[q])}
  <2>1. CASE r \notin ranks
    BY <2>1 DEF RanksInv, IdleInv
  <2>2. CASE r \in ranks
    <3>1. RankInv(r) /\ PlaceInv(r)
      BY <2>2 DEF RanksInv, RankInv
    <3>2. \A q \in ranks : coverage[q] = coverage[r]
      BY <1>1, EpochFacts
    <3>3. m \in ToSet(coverage[r]) => reaching = ranks
      BY <3>2
    <3>4. \A e : ReachedIn(r, e) \subseteq ToSet(coverage[r])
      BY DEF ReachedIn
    <3>5. m \in Scaled(r) => m \in ToSet(coverage[r])
      BY <3>4 DEF Scaled
    <3>6. modifier = "gptq" /\ m \in Finished(r) => m \in ToSet(coverage[r])
      BY <3>4 DEF Finished, OwnIn, DividedIn
    <3> HIDE DEF reaching
    <3>7. weight[r][m] \in {{}, reaching}
      BY <3>1, <3>3, <3>6 DEF RankInv, ParametersInv, FinalWeight
    <3>8. actScale[r][m] \in {{}, reaching}
      BY <3>1, <3>3, <3>5 DEF RankInv, DataInv
    <3> QED
      BY <3>7, <3>8 DEF reaching
  <2> QED
    BY <2>1, <2>2
<1>3. HessiansAreUsed
  <2> SUFFICES ASSUME NEW r \in Ranks, pc[r] = "done", NEW m \in Modules PROVE hessian[r][m] = {}
    BY DEF HessiansAreUsed
  <2>1. CASE r \notin ranks
    BY <2>1 DEF RanksInv, IdleInv
  <2>2. CASE r \in ranks
    BY <2>2 DEF RanksInv, RankInv, DataInv
  <2> QED
    BY <2>1, <2>2
<1>4. StatisticsAreFreed
  <2> SUFFICES ASSUME NEW r \in Ranks, NEW m \in Modules, pc[r] = "done",
                      \/ modifier = "gptq" /\ Group(m) \subseteq ToSet(coverage[r])
                      \/ modifier = "quantization"
                         /\ (Distributed =>
                                 \E e \in DOMAIN schedule : Group(m) \subseteq ToSet(schedule[e]))
               PROVE  stats[r][m] = None /\ ~deletion[r][m]
    BY DEF StatisticsAreFreed, NoneLeft
  <2>1. CASE r \notin ranks
    BY <2>1 DEF RanksInv, IdleInv
  <2>2. CASE r \in ranks
    <3>1. ObserversInv(r) /\ Observers(r).stats = stats[r] /\ Observers(r).deletion = deletion[r]
      BY <2>2 DEF RanksInv, RankInv, Observers
    <3>2. /\ \A j \in Group(m) : stats[r][j] = stats[r][m]
          /\ stats[r][m] = None => ~deletion[r][m]
          /\ stats[r][m] # None => \E j \in Group(m) : ~deletion[r][j]
      BY <3>1 DEF ObserversInv, StatisticsAreSound
    <3>3. Group(m) \subseteq Modules /\ \A j \in Group(m) : Group(j) = Group(m)
      BY GroupFacts
    <3>4. \A j \in Group(m) : IsWhole(j)
      BY <3>3 DEF IsWhole, InOrder, EpochSet
    <3>5. \A j \in Group(m) : j \in Asked(r)
      <4>1. \A j \in Modules :
              j \in Asked(r) <=> (modifier = "gptq" => j \in ToSet(coverage[r]))
        BY <2>2, DoneFacts
      <4>2. CASE modifier = "gptq"
        <5>1. Group(m) \subseteq ToSet(coverage[r])
          BY <4>2
        <5> QED
          BY <3>3, <4>1, <5>1
      <4>3. CASE modifier # "gptq"
        BY <3>3, <4>1, <4>3
      <4> QED
        BY <4>2, <4>3
    <3>6. ASSUME stats[r][m] # None PROVE FALSE
      <4>1. \A j \in Group(m) : deletion[r][j]
        BY <3>1, <3>2, <3>3, <3>4, <3>5, <3>6 DEF ObserversInv
      <4> QED
        BY <3>2, <3>6, <4>1
    <3> QED
      BY <3>2, <3>6
  <2> QED
    BY <2>1, <2>2
<1> QED
  BY <1>2, <1>3, <1>4 DEF DataIsUsedUp, NothingIsLeft

(* Ranks stay together when a module is in one epoch and the data of all ranks reaches the
   same modules: they issue the same collectives in the same order, and after an epoch have
   the same model. *)
THEOREM RanksAlwaysStayTogether ==
  SchedulesAreSound /\ DataIsBalanced /\ WeightSpec => []RanksStayTogether
<1> SUFFICES ASSUME SchedulesAreSound, DataIsBalanced PROVE WeightSpec => []RanksStayTogether
  OBVIOUS
<1>1. WeightInit => WeightInv
  BY InitialRanks DEF WeightInv
<1>2. WeightInv /\ [WeightNext]_weightVars => WeightInv'
  BY StepKeeps, StutterKeeps DEF WeightNext
<1>3. WeightInv => RanksStayTogether
  BY CollectivesFollowPlan, RanksAgreeFacts DEF WeightInv, RanksStayTogether
<1> QED
  BY <1>1, <1>2, <1>3, PTL DEF WeightSpec

(* Scales come from the original weights and, in a fused group, are one scale, whichever
   ranks and epochs compress its members. *)
THEOREM ScalesAreAlwaysConsistent ==
  SchedulesAreSound /\ DataIsBalanced /\ WeightSpec => []ScalesAreConsistent
<1> SUFFICES ASSUME SchedulesAreSound, DataIsBalanced PROVE WeightSpec => []ScalesAreConsistent
  OBVIOUS
<1>1. WeightInit => WeightInv
  BY InitialRanks DEF WeightInv
<1>2. WeightInv /\ [WeightNext]_weightVars => WeightInv'
  BY StepKeeps, StutterKeeps DEF WeightNext
<1>3. WeightInv => ScalesAreConsistent
  BY ScalesFacts DEF WeightInv
<1> QED
  BY <1>1, <1>2, <1>3, PTL DEF WeightSpec

(* Weights and activation scales use the data of every rank, and neither Hessians nor
   statistics of compressed groups outlive the calibration. *)
THEOREM DataIsAlwaysUsedUp ==
  SchedulesAreSound /\ DataIsBalanced /\ WeightSpec => []DataIsUsedUp
<1> SUFFICES ASSUME SchedulesAreSound, DataIsBalanced PROVE WeightSpec => []DataIsUsedUp
  OBVIOUS
<1>1. WeightInit => WeightInv
  BY InitialRanks DEF WeightInv
<1>2. WeightInv /\ [WeightNext]_weightVars => WeightInv'
  BY StepKeeps, StutterKeeps DEF WeightNext
<1>3. WeightInv => DataIsUsedUp
  BY UsedUpFacts DEF WeightInv
<1> QED
  BY <1>1, <1>2, <1>3, PTL DEF WeightSpec
=============================================================================
