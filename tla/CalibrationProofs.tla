-------------------------- MODULE CalibrationProofs --------------------------
(***************************************************************************)
(* What is calibrated with: the samples that each rank takes, the          *)
(* partitions of a traced model, and the inputs that AutoRound tunes on.   *)
(***************************************************************************)
EXTENDS Partition, Datasets, AutoRound, Inductions, SequenceTheorems, TLAPS

(***************************************************************************)
(* Ranks with the same dataset divide it: the bounds of the parts grow     *)
(* with the rank, from nothing to all that is asked for, wherever the      *)
(* division in floating point rounds an integer down.                      *)
(***************************************************************************)

(* Datasets are sequences of samples, and those with the same fingerprint are the same. *)
TablesAreKnown ==
  /\ Tokens \in [Tables -> Seq(Nat)]
  /\ \A t, u \in Tables : Fingerprint[t] = Fingerprint[u] => Tokens[t] = Tokens[u]

(* The quotients of neighbours differ by the even share, or by one more. *)
LEMMA EvenShare ==
  ASSUME NEW n \in Nat, NEW i \in Nat, NEW w \in Nat \ {0}
  PROVE  (n * (i + 1)) \div w - (n * i) \div w \in {n \div w, n \div w + 1}
<1> DEFINE e == n \div w
           q == (n * i) \div w
           r == (n * (i + 1)) \div w
           d == r - q - e
           me == n % w
           mq == (n * i) % w
           mr == (n * (i + 1)) % w
           p == n * i
           we == w * e
           wq == w * q
           wr == w * r
           wd == w * d
<1>1. n * i \in Nat /\ n * (i + 1) \in Nat /\ n * (i + 1) = p + n
  OBVIOUS
<1>2. /\ e \in Nat /\ q \in Nat /\ r \in Nat /\ d \in Int
      /\ we \in Int /\ wq \in Int /\ wr \in Int /\ wd \in Int /\ p \in Nat
      /\ n = we + me /\ me \in Nat /\ me < w
      /\ p = wq + mq /\ mq \in Nat /\ mq < w
      /\ p + n = wr + mr /\ mr \in Nat /\ mr < w
  BY <1>1, Division
<1>3. wd = wr - wq - we
  <2> HIDE DEF e, q, r
  <2> QED
    BY <1>2
<1>4. 0 - w < wd /\ wd < w + w
  <2> HIDE DEF e, q, r, d, me, mq, mr, p, we, wq, wr, wd
  <2> QED
    BY <1>2, <1>3
<1>5. ~ d <= 0 - 1
  <2> SUFFICES ASSUME d <= 0 - 1 PROVE FALSE
    OBVIOUS
  <2>1. wd <= w * (0 - 1)
    BY <1>2, ProductsGrow
  <2>2. w * (0 - 1) = 0 - w
    OBVIOUS
  <2> HIDE DEF d, wd
  <2> QED
    BY <1>2, <1>4, <2>1, <2>2
<1>6. ~ 2 <= d
  <2> SUFFICES ASSUME 2 <= d PROVE FALSE
    OBVIOUS
  <2>1. w * 2 <= wd
    BY <1>2, ProductsGrow
  <2>2. w * 2 = w + w
    OBVIOUS
  <2> HIDE DEF d, wd
  <2> QED
    BY <1>2, <1>4, <2>1, <2>2
<1>7. d = 0 \/ d = 1
  <2> HIDE DEF d
  <2> QED
    BY <1>2, <1>5, <1>6
<1>8. r - q \in {e, e + 1}
  <2> HIDE DEF e, q, r
  <2> QED
    BY <1>2, <1>7 DEF d
<1> QED
  BY <1>8

LEMMA BoundTypes ==
  ASSUME world \in Nat \ {0}, NEW n \in Nat, NEW i \in Nat
  PROVE  Bound(n, i) \in Int /\ (n * i) \div world \in Nat
<1>1. n * i \in Nat
  OBVIOUS
<1> QED
  BY <1>1, Division DEF Bound

(* Where a bound is rounded down, the product is a multiple, and not the first or last. *)
LEMMA RoundedBounds ==
  ASSUME NEW n, NEW i, <<n, i, world>> \in RoundsDown
  PROVE  n \in Nat \ {0} /\ i \in 1 .. (world - 1) /\ (n * i) % world = 0
<1> DEFINE t == <<n, i, world>>
<1>1. t[1] = n /\ t[2] = i /\ t[3] = world
  OBVIOUS
<1> QED
  BY <1>1, DatasetsAssumption

LEMMA BoundsGrow ==
  ASSUME world \in Nat \ {0}, NEW n \in Nat, NEW i \in 0 .. world, NEW j \in 0 .. world, i <= j
  PROVE  Bound(n, i) <= Bound(n, j)
<1>1. n * i \in Nat /\ n * j \in Nat /\ n * i <= n * j
  BY ProductsGrow
<1> DEFINE q == (n * i) \div world
           r == (n * j) \div world
<1>2. q \in Nat /\ r \in Nat /\ q <= r
  BY <1>1, Division, DivisionGrows
<1>3. CASE i = j
  BY <1>3, BoundTypes
<1>4. CASE <<n, j, world>> \notin RoundsDown
  <2> HIDE DEF q, r
  <2> QED
    BY <1>2, <1>4 DEF Bound, q, r
<1>5. CASE i < j /\ <<n, j, world>> \in RoundsDown
  <2>1. n * i < n * j
    <3>1. n * (i + 1) <= n * j /\ n * (i + 1) = n * i + n /\ n > 0
      BY <1>5, RoundedBounds, ProductsGrow
    <3> QED
      BY <1>1, <3>1
  <2>2. q < r
    BY <1>1, <1>5, <2>1, RoundedBounds, DivisionGrows
  <2>3. q <= r - 1
    <3> HIDE DEF q, r
    <3> QED
      BY <1>2, <2>2
  <2> HIDE DEF q, r
  <2> QED
    BY <1>2, <1>5, <2>3 DEF Bound, q, r
<1> QED
  BY <1>3, <1>4, <1>5

(* The first bound is 0 and the last one all that is asked for. *)
LEMMA FirstAndLastBound ==
  ASSUME world \in Nat \ {0}, NEW n \in Nat
  PROVE  Bound(n, 0) = 0 /\ Bound(n, world) = n
<1>1. <<n, 0, world>> \notin RoundsDown /\ <<n, world, world>> \notin RoundsDown
  BY RoundedBounds
<1>2. (n * 0) \div world = 0
  <2>1. n * 0 = 0 * world
    OBVIOUS
  <2> QED
    BY <2>1, DivisionOfMultiple
<1>3. (n * world) \div world = n
  BY DivisionOfMultiple
<1> QED
  BY <1>1, <1>2, <1>3 DEF Bound

(* The part of rank r of n samples. *)
Part(n, r) == {p \in 1 .. n : Bound(n, r) < p /\ p <= End(n, r)}

LEMMA PartIsInterval ==
  ASSUME world \in Nat \ {0}, NEW n \in Nat, NEW r \in Ranks
  PROVE  /\ Bound(n, r) \in 0 .. n /\ End(n, r) \in 0 .. n /\ Bound(n, r) <= End(n, r)
         /\ Part(n, r) = Bound(n, r) + 1 .. End(n, r)
         /\ IsFiniteSet(Part(n, r)) /\ Cardinality(Part(n, r)) = End(n, r) - Bound(n, r)
<1>1. 0 \in 0 .. world /\ world \in 0 .. world /\ r \in 0 .. world /\ r + 1 \in 0 .. world
      /\ 0 <= r /\ r <= r + 1 /\ r + 1 <= world /\ r \in Nat /\ r + 1 \in Nat
  BY DEF Ranks
<1>2. Bound(n, r) \in Int /\ Bound(n, r + 1) \in Int
  BY <1>1, BoundTypes
<1>3. Bound(n, 0) <= Bound(n, r) /\ Bound(n, r) <= Bound(n, r + 1)
      /\ Bound(n, r + 1) <= Bound(n, world)
  BY <1>1, BoundsGrow
<1>4. 0 <= Bound(n, r) /\ Bound(n, r) <= Bound(n, r + 1) /\ Bound(n, r + 1) <= n
  BY <1>3, FirstAndLastBound
<1>5. Part(n, r) = Bound(n, r) + 1 .. Bound(n, r + 1)
  BY <1>2, <1>4 DEF Part, End
<1>6. IsFiniteSet(Part(n, r)) /\ Cardinality(Part(n, r)) = Bound(n, r + 1) - Bound(n, r)
  <2> DEFINE a == Bound(n, r) + 1
             b == Bound(n, r + 1)
  <2>1. a \in Int /\ b \in Int /\ (a > b => b - a + 1 = 0) /\ b - a + 1 = b - Bound(n, r)
    BY <1>2, <1>4
  <2>2. IsFiniteSet(a .. b) /\ Cardinality(a .. b) = b - a + 1
    <3> HIDE DEF a, b
    <3> QED
      BY <2>1, FS_Interval
  <2> QED
    BY <1>5, <2>1, <2>2
<1> QED
  BY <1>2, <1>4, <1>5, <1>6 DEF End

(* The parts are apart, and have all samples together. *)
LEMMA PartsAreApart ==
  ASSUME world \in Nat \ {0}, NEW n \in Nat, NEW r \in Ranks, NEW s \in Ranks, r # s
  PROVE  Part(n, r) \cap Part(n, s) = {}
<1>1. ASSUME NEW a \in Ranks, NEW b \in Ranks, a < b PROVE Part(n, a) \cap Part(n, b) = {}
  <2>1. a + 1 \in 0 .. world /\ b \in 0 .. world /\ a + 1 <= b /\ a + 1 \in Nat /\ b \in Nat
    BY <1>1 DEF Ranks
  <2>2. Bound(n, a + 1) <= Bound(n, b) /\ Bound(n, a + 1) \in Int /\ Bound(n, b) \in Int
    BY <2>1, BoundsGrow, BoundTypes
  <2> QED
    BY <2>2 DEF Part, End
<1>2. r < s \/ s < r
  BY DEF Ranks
<1> QED
  BY <1>1, <1>2

LEMMA PartsAreAll ==
  ASSUME world \in Nat \ {0}, NEW n \in Nat, NEW p \in 1 .. n
  PROVE  \E r \in Ranks : p \in Part(n, r)
<1> DEFINE T == {i \in 0 .. world : p <= Bound(n, i)}
<1>1. world \in T /\ T \subseteq Nat
  BY FirstAndLastBound
<1>2. PICK i \in T : \A j \in T : i <= j
  BY <1>1, LeastNumber
<1>3. i \in 0 .. world /\ p <= Bound(n, i)
  BY <1>2
<1>4. i # 0
  BY <1>3, FirstAndLastBound
<1>5. i - 1 \in Ranks /\ i - 1 \in 0 .. world /\ (i - 1) + 1 = i /\ i - 1 \in Nat /\ ~ i <= i - 1
  BY <1>3, <1>4 DEF Ranks
<1>6. Bound(n, i - 1) < p
  <2>1. ~ p <= Bound(n, i - 1)
    BY <1>2, <1>5
  <2> QED
    BY <1>5, <2>1, BoundTypes
<1> QED
  BY <1>3, <1>5, <1>6 DEF Part, End

-----------------------------------------------------------------------------
(* The inductive invariant: what a rank samples from is its part if the datasets are the
   same, and all it has if not, and what it takes is what the sampler promises. *)

RankOK(r) ==
  /\ at[r] = "gather" => Distributed
  /\ at[r] = "divide" => Divided
  /\ at[r] = "own" => ~ Divided
  /\ at[r] \in {"sample", "done"} =>
       /\ Divided => /\ ~ End(Asked(r), r) > Size(data[r])
                     /\ share[r] = {p \in DOMAIN Tokens[data[r]] :
                                      Bound(Asked(r), r) < p /\ p <= End(Asked(r), r)}
       /\ ~ Divided => share[r] = DOMAIN Tokens[data[r]]
  /\ at[r] = "done" =>
       /\ taken[r] \subseteq SampleIndices(r) /\ Cardinality(taken[r]) = Count(r)
       /\ shuffle \/ LongestFirst(r, taken[r])

DatasetsInv ==
  /\ world \in Worlds /\ request \in Requests
  /\ data \in [Ranks -> Tables]
  /\ DOMAIN at = Ranks /\ DOMAIN share = Ranks /\ DOMAIN taken = Ranks
  /\ \A r \in Ranks : RankOK(r)

LEMMA DatasetsInitOK == DatasetsInit => DatasetsInv
BY DEF DatasetsInit, DatasetsInv, RankOK

(* What a step says of the rank that moves, and of the others. *)
LEMMA OtherRanksStay ==
  ASSUME DatasetsInv, UNCHANGED datasetsSetup, NEW r \in Ranks,
         DOMAIN at' = Ranks, DOMAIN share' = Ranks, DOMAIN taken' = Ranks,
         \A s \in Ranks \ {r} : at'[s] = at[s] /\ share'[s] = share[s] /\ taken'[s] = taken[s],
         RankOK(r)'
  PROVE  DatasetsInv'
<1>1. Ranks' = Ranks /\ Divided' = Divided
  BY DEF datasetsSetup, Ranks, Divided, Distributed, AllSame
<1>2. ASSUME NEW s \in Ranks \ {r} PROVE RankOK(s)'
  <2>1. RankOK(s)
    BY DEF DatasetsInv
  <2>2. /\ Asked(s)' = Asked(s) /\ Bound(Asked(s), s)' = Bound(Asked(s), s)
        /\ End(Asked(s), s)' = End(Asked(s), s) /\ Size(data[s])' = Size(data[s])
        /\ Count(s)' = Count(s)
    BY <1>2 DEF datasetsSetup, Asked, Bound, End, Size, Count
  <2>3. at'[s] = at[s] /\ share'[s] = share[s] /\ taken'[s] = taken[s] /\ data' = data
        /\ shuffle' = shuffle
    BY <1>2 DEF datasetsSetup
  <2>4. /\ SampleIndices(s)' = SampleIndices(s)
        /\ LongestFirst(s, taken[s])' = LongestFirst(s, taken[s])
    BY <1>1, <2>2, <2>3 DEF LongestFirst, Length, Start, SampleIndices
  <2>5. Distributed' = Distributed
    BY DEF datasetsSetup, Distributed
  <2> QED
    BY <1>1, <2>1, <2>2, <2>3, <2>4, <2>5 DEF RankOK
<1> QED
  BY <1>1, <1>2 DEF DatasetsInv, datasetsSetup

LEMMA DatasetsStep == DatasetsInv /\ [DatasetsNext]_datasetsVars => DatasetsInv'
<1> SUFFICES ASSUME DatasetsInv, [DatasetsNext]_datasetsVars PROVE DatasetsInv'
  OBVIOUS
<1>1. ASSUME UNCHANGED datasetsVars PROVE DatasetsInv'
  <2>1. UNCHANGED datasetsSetup /\ at' = at /\ share' = share /\ taken' = taken
    BY <1>1 DEF datasetsVars
  <2>2. world \in Nat \ {0} /\ 0 \in Ranks
    BY DatasetsAssumption DEF DatasetsInv, Ranks
  <2>3. RankOK(0)'
    <3>1. Divided' = Divided /\ Distributed' = Distributed
      BY <2>1 DEF datasetsSetup, Ranks, Divided, Distributed, AllSame
    <3>2. /\ Asked(0)' = Asked(0) /\ Bound(Asked(0), 0)' = Bound(Asked(0), 0)
          /\ End(Asked(0), 0)' = End(Asked(0), 0) /\ Size(data[0])' = Size(data[0])
          /\ Count(0)' = Count(0) /\ SampleIndices(0)' = SampleIndices(0)
          /\ LongestFirst(0, taken[0])' = LongestFirst(0, taken[0])
      BY <2>1, <3>1 DEF datasetsSetup, Asked, Bound, End, Size, Count, SampleIndices, LongestFirst,
         Length, Start
    <3>3. RankOK(0) /\ data' = data /\ shuffle' = shuffle
      BY <2>1, <2>2 DEF DatasetsInv, datasetsSetup
    <3> QED
      BY <2>1, <3>1, <3>2, <3>3 DEF RankOK
  <2> QED
    BY <2>1, <2>2, <2>3, OtherRanksStay DEF DatasetsInv
<1>2. ASSUME NEW r \in Ranks, Compare(r) PROVE DatasetsInv'
  <2>1. /\ UNCHANGED <<datasetsSetup, share, taken>>
        /\ at' = [at EXCEPT ![r] = IF ~ Distributed THEN "own"
             ELSE IF Size(data[r]) = 0 THEN "raised" ELSE "gather"]
    BY <1>2 DEF Compare
  <2>2. /\ at'[r] \in {"own", "raised", "gather"}
        /\ (at'[r] = "own" => ~ Distributed) /\ (at'[r] = "gather" => Distributed)
    BY <2>1 DEF DatasetsInv
  <2>3. Distributed' = Distributed
    BY <2>1 DEF datasetsSetup, Distributed
  <2>4. RankOK(r)'
    BY <2>2, <2>3 DEF RankOK, Divided
  <2> QED
    BY <2>1, <2>4, OtherRanksStay DEF DatasetsInv
<1>3. ASSUME NEW r \in Ranks, Gather(r) PROVE DatasetsInv'
  <2>1. /\ UNCHANGED <<datasetsSetup, share, taken>>
        /\ at' = [at EXCEPT ![r] = IF AllSame THEN "divide" ELSE "own"]
    BY <1>3 DEF Gather
  <2>2. Divided' = Divided
    BY <2>1 DEF datasetsSetup, Ranks, Divided, Distributed, AllSame
  <2>3. Distributed
    BY <1>3 DEF Gather, DatasetsInv, RankOK
  <2>4. at'[r] = IF AllSame THEN "divide" ELSE "own"
    BY <2>1 DEF DatasetsInv
  <2>5. RankOK(r)'
    BY <2>2, <2>3, <2>4 DEF RankOK, Divided
  <2> QED
    BY <2>1, <2>5, OtherRanksStay DEF DatasetsInv
<1>4. ASSUME NEW r \in Ranks, Divide(r) PROVE DatasetsInv'
  <2>1. /\ UNCHANGED <<datasetsSetup, taken>> /\ Divided
        /\ Divided' = Divided /\ Asked(r)' = Asked(r) /\ Size(data[r])' = Size(data[r])
        /\ Bound(Asked(r), r)' = Bound(Asked(r), r) /\ End(Asked(r), r)' = End(Asked(r), r)
    BY <1>4 DEF Divide, datasetsSetup, Ranks, Divided, Distributed, AllSame, Asked, Bound, End,
       Size,
                DatasetsInv, RankOK
  <2>2. CASE End(Asked(r), r) > Size(data[r])
    <3>1. at' = [at EXCEPT ![r] = "raised"] /\ share' = share
      BY <1>4, <2>2 DEF Divide
    <3>2. RankOK(r)'
      BY <3>1 DEF RankOK, DatasetsInv
    <3> QED
      BY <2>1, <3>1, <3>2, OtherRanksStay DEF DatasetsInv
  <2>3. CASE ~ End(Asked(r), r) > Size(data[r])
    <3>1. /\ share' = [share EXCEPT ![r] = {p \in DOMAIN Tokens[data[r]] :
                         Bound(Asked(r), r) < p /\ p <= End(Asked(r), r)}]
          /\ at' = [at EXCEPT ![r] = "sample"]
      BY <1>4, <2>3 DEF Divide
    <3>3. RankOK(r)'
      BY <2>1, <2>3, <3>1 DEF RankOK, DatasetsInv, datasetsSetup
    <3> QED
      BY <2>1, <3>1, <3>3, OtherRanksStay DEF DatasetsInv
  <2> QED
    BY <2>2, <2>3
<1>5. ASSUME NEW r \in Ranks, UseOwn(r) PROVE DatasetsInv'
  <2>1. /\ UNCHANGED <<datasetsSetup, taken>> /\ ~ Divided /\ Divided' = Divided
        /\ share' = [share EXCEPT ![r] = DOMAIN Tokens[data[r]]]
        /\ at' = [at EXCEPT ![r] = "sample"]
    BY <1>5 DEF UseOwn, datasetsSetup, Ranks, Divided, Distributed, AllSame, DatasetsInv, RankOK
  <2>2. RankOK(r)'
    BY <2>1 DEF RankOK, DatasetsInv, datasetsSetup
  <2> QED
    BY <2>1, <2>2, OtherRanksStay DEF DatasetsInv
<1>6. ASSUME NEW r \in Ranks, Sample(r) PROVE DatasetsInv'
  <2>1. /\ UNCHANGED <<datasetsSetup, share>> /\ at[r] = "sample"
        /\ Divided' = Divided /\ Asked(r)' = Asked(r) /\ Size(data[r])' = Size(data[r])
        /\ Bound(Asked(r), r)' = Bound(Asked(r), r) /\ End(Asked(r), r)' = End(Asked(r), r)
        /\ Count(r)' = Count(r)
    BY <1>6 DEF Sample, datasetsSetup, Ranks, Divided, Distributed, AllSame, Asked, Bound, End,
       Size, Count
  <2>2. CASE shuffle /\ Count(r) = 0
    <3>1. at' = [at EXCEPT ![r] = "raised"] /\ taken' = taken
      BY <1>6, <2>2 DEF Sample
    <3>2. RankOK(r)'
      BY <3>1 DEF RankOK, DatasetsInv
    <3> QED
      BY <2>1, <3>1, <3>2, OtherRanksStay DEF DatasetsInv
  <2>3. CASE ~ (shuffle /\ Count(r) = 0)
    <3>1. PICK S \in SUBSET SampleIndices(r) :
            /\ Cardinality(S) = Count(r)
            /\ shuffle \/ LongestFirst(r, S)
            /\ taken' = [taken EXCEPT ![r] = S]
      BY <1>6, <2>3 DEF Sample
    <3>2. at' = [at EXCEPT ![r] = "done"]
      BY <1>6, <2>3 DEF Sample
    <3>3. at'[r] = "done" /\ taken'[r] = S /\ share'[r] = share[r] /\ data' = data
          /\ shuffle' = shuffle
      BY <2>1, <3>1, <3>2 DEF DatasetsInv, datasetsSetup
    <3>4. /\ SampleIndices(r)' = SampleIndices(r)
          /\ LongestFirst(r, S) => LongestFirst(r, taken[r])'
      BY <2>1, <3>3 DEF LongestFirst, Length, Start, SampleIndices
    <3>5. RankOK(r)
      BY DEF DatasetsInv
    <3>6. /\ taken'[r] \subseteq SampleIndices(r)' /\ Cardinality(taken'[r]) = Count(r)'
          /\ (shuffle \/ LongestFirst(r, taken[r]))'
      <4>1. taken'[r] \subseteq SampleIndices(r)'
        BY <3>1, <3>3, <3>4
      <4>2. Cardinality(taken'[r]) = Count(r)'
        BY <2>1, <3>1, <3>3
      <4>3. (shuffle \/ LongestFirst(r, taken[r]))'
        BY <3>1, <3>3, <3>4
      <4> QED
        BY <4>1, <4>2, <4>3
    <3>7. RankOK(r)'
      BY <2>1, <3>3, <3>5, <3>6 DEF RankOK
    <3> QED
      BY <2>1, <3>1, <3>2, <3>7, OtherRanksStay DEF DatasetsInv
  <2> QED
    BY <2>2, <2>3
<1> QED
  BY <1>1, <1>2, <1>3, <1>4, <1>5, <1>6 DEF DatasetsNext

-----------------------------------------------------------------------------
(* The invariant is enough *)

LEMMA SameTables ==
  ASSUME TablesAreKnown, DatasetsInv, Divided, NEW r \in Ranks
  PROVE  /\ Tokens[data[r]] = Tokens[data[0]] /\ 0 \in Ranks
         /\ Size(data[r]) = Size(data[0]) /\ Asked(r) = Asked(0) /\ Asked(0) \in Nat
         /\ Size(data[0]) \in Nat /\ DOMAIN Tokens[data[r]] = 1 .. Size(data[0])
<1>1. world \in Nat \ {0} /\ 0 \in Ranks
  BY DatasetsAssumption DEF DatasetsInv, Ranks
<1>2. data[r] \in Tables /\ data[0] \in Tables /\ Fingerprint[data[r]] = Fingerprint[data[0]]
  BY <1>1 DEF DatasetsInv, Divided, AllSame
<1>3. Tokens[data[r]] = Tokens[data[0]] /\ Tokens[data[0]] \in Seq(Nat)
  BY <1>2 DEF TablesAreKnown
<1>4. Size(data[0]) = Len(Tokens[data[0]])
  <2>1. Len(Tokens[data[0]]) \in Nat /\ DOMAIN Tokens[data[0]] = 1 .. Len(Tokens[data[0]])
    BY <1>3
  <2>2. Cardinality(1 .. Len(Tokens[data[0]])) = Len(Tokens[data[0]])
    BY <2>1, FS_Interval
  <2> QED
    BY <2>1, <2>2 DEF Size
<1>5. request \in Nat
  BY DatasetsAssumption DEF DatasetsInv
<1> QED
  BY <1>1, <1>3, <1>4, <1>5 DEF Size, Asked

(* The sampler of a rank is built over its part of what is asked for, and takes all of it. *)
LEMMA ShareIsPart ==
  ASSUME TablesAreKnown, DatasetsInv, Divided, AllDone, NEW r \in Ranks
  PROVE  share[r] = Part(Asked(0), r) /\ Cardinality(taken[r]) = Cardinality(share[r])
<1> DEFINE n == Asked(0)
           last == world - 1
<1>1. world \in Nat \ {0} /\ last \in Ranks /\ last + 1 = world /\ at[r] = "done"
      /\ at[last] = "done"
  BY DatasetsAssumption DEF DatasetsInv, Ranks, AllDone
<1>2. /\ n \in Nat /\ Asked(r) = n /\ Asked(last) = n
      /\ Size(data[0]) \in Nat /\ Size(data[last]) = Size(data[0])
      /\ DOMAIN Tokens[data[r]] = 1 .. Size(data[0])
  BY <1>1, SameTables
<1>3. n <= Size(data[0])
  <2>1. ~ End(n, last) > Size(data[last])
    BY <1>1, <1>2 DEF DatasetsInv, RankOK
  <2>2. End(n, last) = n
    BY <1>1, <1>2, FirstAndLastBound DEF End
  <2> QED
    BY <1>2, <2>1, <2>2
<1>4. share[r] = Part(n, r)
  <2>1. share[r] = {p \in 1 .. Size(data[0]) : Bound(n, r) < p /\ p <= End(n, r)}
    BY <1>1, <1>2 DEF DatasetsInv, RankOK
  <2>2. End(n, r) \in 0 .. n
    BY <1>1, <1>2, PartIsInterval
  <2> QED
    BY <1>2, <1>3, <2>1, <2>2 DEF Part
<1>5. /\ IsFiniteSet(share[r]) /\ Cardinality(share[r]) = End(n, r) - Bound(n, r)
      /\ Bound(n, r) \in 0 .. n /\ End(n, r) \in 0 .. n
  BY <1>1, <1>2, <1>4, PartIsInterval
<1>6. Cardinality(taken[r]) = Count(r)
  BY <1>1 DEF DatasetsInv, RankOK
<1>7. Count(r) = Cardinality(share[r])
  <2> HIDE DEF n
  <2>1. CASE request = 0
    BY <2>1 DEF Count
  <2>2. CASE request # 0
    <3>1. n = request
      BY <2>2 DEF n, Asked
    <3>2. Cardinality(share[r]) <= request /\ Cardinality(share[r]) \in Int /\ request \in Nat
      BY <1>2, <1>5, <3>1
    <3> QED
      BY <3>2 DEF Count
  <2> QED
    BY <2>1, <2>2
<1> QED
  BY <1>4, <1>6, <1>7

LEMMA DivisionIsSound ==
  ASSUME TablesAreKnown, DatasetsInv PROVE SamplesAreDivided
<1>1. LongestAreTaken
  <2> SUFFICES ASSUME NEW r \in Ranks, at[r] = "done", ~ shuffle, ~ Divided,
                      NEW p \in taken[r], NEW q \in share[r] \ taken[r]
               PROVE  Tokens[data[r]][p] >= Tokens[data[r]][q]
    BY DEF LongestAreTaken
  <2>1. RankOK(r) /\ data[r] \in Tables
    BY DEF DatasetsInv
  <2>2. share[r] = DOMAIN Tokens[data[r]] /\ Tokens[data[r]] \in Seq(Nat)
    BY <2>1 DEF RankOK, TablesAreKnown
  <2>3. share[r] = 1 .. Len(Tokens[data[r]]) /\ Len(Tokens[data[r]]) \in Nat
    BY <2>2
  <2>4. SampleIndices(r) = share[r]
    <3>1. Cardinality(share[r]) = Len(Tokens[data[r]])
      BY <2>3, FS_Interval
    <3> QED
      BY <2>3, <3>1 DEF SampleIndices
  <2>5. p \in SampleIndices(r) /\ q \in SampleIndices(r) \ taken[r] /\ LongestFirst(r, taken[r])
    BY <2>1, <2>4 DEF RankOK
  <2>6. Length(r, p) >= Length(r, q)
    BY <2>5 DEF LongestFirst
  <2>7. Start(r) + p = p /\ Start(r) + q = q
    BY <2>3, <2>4, <2>5 DEF Start
  <2> QED
    BY <2>6, <2>7 DEF Length
<1>2. WorkIsDivided
  <2> SUFFICES ASSUME AllDone, Divided
               PROVE  /\ \A r, s \in Ranks : r # s => share[r] \cap share[s] = {}
                      /\ UNION {share[r] : r \in Ranks} = 1 .. Asked(0)
                      /\ \A r \in Ranks : Cardinality(share[r]) \in
                           (IF Asked(0) \div world = 0 THEN 0 ELSE Asked(0) \div world - 1)
                             .. Asked(0) \div world + 2
                      /\ \A r \in Ranks : Cardinality(taken[r]) = Cardinality(share[r])
    BY DEF WorkIsDivided
  <2> DEFINE n == Asked(0)
  <2>1. world \in Nat \ {0} /\ 0 \in Ranks
    BY DatasetsAssumption DEF DatasetsInv, Ranks
  <2>2. n \in Nat /\ \A r \in Ranks : share[r] = Part(n, r)
    BY <2>1, SameTables, ShareIsPart
  <2>3. \A r, s \in Ranks : r # s => share[r] \cap share[s] = {}
    BY <2>1, <2>2, PartsAreApart
  <2>4. UNION {share[r] : r \in Ranks} = 1 .. n
    BY <2>1, <2>2, PartsAreAll DEF Part
  <2>5. ASSUME NEW r \in Ranks
        PROVE  Cardinality(share[r]) \in (IF n \div world = 0 THEN 0
               ELSE n \div world - 1) .. n \div world + 2
    <3> DEFINE e == n \div world
               q == (n * r) \div world
               p == (n * (r + 1)) \div world
    <3>1. r \in Nat /\ e \in Nat /\ q \in Int /\ p \in Int
      <4>1. r \in Nat /\ r + 1 \in Nat
        BY <2>1 DEF Ranks
      <4>2. n * r \in Nat /\ n * (r + 1) \in Nat
        BY <2>2, <4>1
      <4> QED
        BY <2>1, <2>2, <4>1, <4>2, Division
    <3>2. p - q \in {e, e + 1}
      BY <2>1, <2>2, <3>1, EvenShare
    <3>3. /\ Cardinality(share[r]) = End(n, r) - Bound(n, r)
          /\ Bound(n, r) \in Int /\ End(n, r) \in Int /\ Bound(n, r) <= End(n, r)
      <4>1. share[r] = Part(n, r)
        BY <2>2
      <4>2. Bound(n, r) \in 0 .. n /\ End(n, r) \in 0 .. n
        BY <2>1, <2>2, PartIsInterval
      <4> HIDE DEF n
      <4> QED
        BY <2>1, <2>2, <4>1, <4>2, PartIsInterval
    <3>4. Bound(n, r) \in {q, q - 1} /\ End(n, r) \in {p, p - 1}
      <4> HIDE DEF n
      <4> QED
        BY <3>1 DEF Bound, End
    <3> HIDE DEF e, q, p, n
    <3>5. Cardinality(share[r]) \in e - 1 .. e + 2 /\ Cardinality(share[r]) >= 0
      BY <3>1, <3>2, <3>3, <3>4
    <3> QED
      BY <3>1, <3>5 DEF e
  <2>6. \A r \in Ranks : Cardinality(taken[r]) = Cardinality(share[r])
    BY ShareIsPart
  <2> QED
    BY <2>3, <2>4, <2>5, <2>6
<1> QED
  BY <1>1, <1>2 DEF SamplesAreDivided

(* Ranks with the same dataset build their samplers over parts that have every sample asked
   for exactly once, almost evenly, and read as many samples as their parts have; and a
   rank with a dataset of its own that drops samples drops its shortest: for every number of
   ranks, dataset and request, and wherever the division in floating point rounds an
   integer down (_make_sampler, _is_dist_and_same_ds, _get_partition_start_end). *)
THEOREM SamplesAreAlwaysDivided == TablesAreKnown /\ DatasetsSpec => []SamplesAreDivided
<1> SUFFICES ASSUME TablesAreKnown PROVE DatasetsSpec => []SamplesAreDivided
  OBVIOUS
<1>1. DatasetsSpec => []DatasetsInv
  BY DatasetsInitOK, DatasetsStep, PTL DEF DatasetsSpec
<1> QED
  BY <1>1, DivisionIsSound, PTL

-----------------------------------------------------------------------------
(***************************************************************************)
(* The partitions of every traced graph are sound: a node waits in the     *)
(* queue exactly when its inputs have been placed, each partition lists    *)
(* the nodes that were placed in it, and no partition is opened once an    *)
(* output has been placed, because no target is left by then.              *)
(***************************************************************************)

Computed == Nodes \ Attributes(graph)
Placed == {n \in Computed : part[n] # 0}

(* The inputs of a node that make it wait. *)
Awaited(n) == (InputsOf(graph, n) \ Attributes(graph)) \ Placed

(* P lists, for each partition, the nodes that q assigns to it, each once and in an order in
   which they can be computed. *)
ListsTyped(P, q) == P \in Seq(Seq(Nodes)) /\ Len(P) >= 1 /\ q \in [Nodes -> 0 .. Len(P)]
ListsAgree(P, q) == \A p \in 1 .. Len(P) : \A k \in 1 .. Len(P[p]) : q[P[p][k]] = p
ListsHave(P, q) == \A n \in Nodes : q[n] # 0 => \E k \in 1 .. Len(P[q[n]]) : P[q[n]][k] = n

IsOrdered(s) ==
  \A k, l \in 1 .. Len(s) : (s[k] = s[l] => k = l) /\ (<<s[k], s[l]>> \in graph.edges => k < l)
ListsOrdered(P) == \A p \in 1 .. Len(P) : IsOrdered(P[p])

ListsFit(P, q) == ListsTyped(P, q) /\ ListsAgree(P, q) /\ ListsHave(P, q) /\ ListsOrdered(P)

IsQueued(n) == \E k \in 1 .. Len(queue) : queue[k] = n

QueueInv ==
  /\ queue \in Seq(Nodes)
  /\ \A k, l \in 1 .. Len(queue) : queue[k] = queue[l] => k = l
  /\ \A n \in Nodes : IsQueued(n) <=> n \in Computed \ Placed /\ Awaited(n) = {}
  /\ \A n \in Placed : Awaited(n) = {}

CountsInv == remaining = [n \in Nodes |-> Cardinality(Awaited(n))]

OrderInv == \A e \in graph.edges : e[1] \in Placed /\ e[2] \in Placed => part[e[1]] <= part[e[2]]

AttributesInv ==
  /\ attrs \subseteq Attributes(graph)
  /\ \A a \in attrs : part[a] = 0
  /\ attrs # Attributes(graph) => queue = <<>>
  /\ \A a \in Attributes(graph) \ attrs : \A j \in UsersOf(a) : part[j] # 0
       => part[a] \in 1 .. part[j]

TargetsInv ==
  /\ \A p \in 1 .. Len(partitions) : Cardinality(Members(p) \cap Targets) <= limit
  /\ targetsSeen = Cardinality(Members(Len(partitions)) \cap Targets)

OutputsInv == \A o \in Nodes : graph.op[o] = "output" /\ part[o] # 0 => part[o] = Len(partitions)

PartitionInv ==
  /\ graph \in Graphs /\ limit \in Limits
  /\ ListsFit(partitions, part)
  /\ QueueInv /\ CountsInv /\ OrderInv /\ AttributesInv /\ TargetsInv /\ OutputsInv

-----------------------------------------------------------------------------
(* Lists of nodes *)

LEMMA GraphFacts ==
  ASSUME graph \in Graphs
  PROVE  /\ graph.edges \subseteq Nodes \X Nodes /\ IsFiniteSet(Nodes)
         /\ \A e \in graph.edges : e[1] \in Nodes /\ e[2] \in Computed /\ graph.op[e[1]] # "output"
         /\ \A n \in Nodes : UsersOf(n) \subseteq Computed
         /\ Attributes(graph) \subseteq Nodes /\ Computed \subseteq Nodes
         /\ Targets \subseteq Computed
         /\ \A n \in Nodes : graph.op[n] = "output" => n \in Computed \ Targets
<1>1. IsGraph(graph)
  BY PartitionAssumption
<1>2. /\ graph.edges \subseteq Nodes \X Nodes
      /\ \A e \in graph.edges : graph.op[e[2]] \notin {"placeholder", "get_attr"}
           /\ graph.op[e[1]] # "output"
  BY <1>1 DEF IsGraph
<1>3. \A e \in graph.edges : e[1] \in Nodes /\ e[2] \in Computed /\ graph.op[e[1]] # "output"
  BY <1>2 DEF Computed, Attributes
<1>4. \A n \in Nodes : UsersOf(n) \subseteq Computed
  BY <1>3 DEF UsersOf
<1> QED
  BY <1>2, <1>3, <1>4, PartitionAssumption DEF Computed, Attributes, Targets

(* An ordering of a set lists each of its elements once. *)
LEMMA OrderingFacts ==
  ASSUME NEW S, IsFiniteSet(S), NEW s \in Orderings(S)
  PROVE  /\ s \in Seq(S)
         /\ \A k, l \in 1 .. Len(s) : s[k] = s[l] => k = l
         /\ \A x \in S : \E k \in 1 .. Len(s) : s[k] = x
<1> DEFINE c == Cardinality(S)
<1>1. c \in Nat /\ s \in [1 .. c -> S] /\ Range(s) = S
  BY FS_CardinalityType DEF Orderings
<1>2. s \in Seq(S) /\ Len(s) = c
  BY <1>1
<1>3. \A x \in S : \E k \in 1 .. c : s[k] = x
  BY <1>1 DEF Range
<1>4. IsFiniteSet(1 .. c) /\ Cardinality(1 .. c) = c
  <2> HIDE DEF c
  <2> QED
    BY <1>1, FS_Interval
<1>5. s \in Surjection(1 .. c, S)
  BY <1>1, <1>3 DEF Surjection
<1>6. s \in Injection(1 .. c, S)
  BY <1>4, <1>5, FS_SurjSameCardinalityImpliesInj
<1>7. \A k, l \in 1 .. c : s[k] = s[l] => k = l
  BY <1>6 DEF Injection, IsInjective
<1> QED
  BY <1>2, <1>3, <1>7

(* Opening a partition, and adding a node behind or before those of a partition, keeps the
   lists in order. *)
LEMMA OpenFits ==
  ASSUME NEW P, NEW q, ListsFit(P, q)
  PROVE  ListsFit(Append(P, <<>>), q)
<1> DEFINE X == Append(P, <<>>)
           L == Len(P)
<1>1. P \in Seq(Seq(Nodes)) /\ L \in Nat /\ L >= 1 /\ <<>> \in Seq(Nodes) /\ q \in [Nodes -> 0 .. L]
  BY DEF ListsFit, ListsTyped
<1>2. X \in Seq(Seq(Nodes)) /\ Len(X) = L + 1 /\ X[L + 1] = <<>> /\ \A p \in 1 .. L : X[p] = P[p]
  BY <1>1
<1> HIDE DEF X, L
<1>3. \A p \in 1 .. Len(X) : p \in 1 .. L \/ X[p] = <<>>
  BY <1>1, <1>2
<1>4. \A k : k \notin 1 .. Len(<<>>)
  OBVIOUS
<1>5. ListsTyped(X, q)
  BY <1>1, <1>2 DEF ListsTyped
<1>6. ListsAgree(X, q)
  <2> SUFFICES ASSUME NEW p \in 1 .. Len(X), NEW k \in 1 .. Len(X[p]) PROVE q[X[p][k]] = p
    BY DEF ListsAgree
  <2>1. p \in 1 .. L /\ X[p] = P[p]
    BY <1>2, <1>3, <1>4
  <2> QED
    BY <2>1 DEF ListsFit, ListsAgree, L
<1>7. ListsHave(X, q)
  <2> SUFFICES ASSUME NEW n \in Nodes, q[n] # 0 PROVE \E k \in 1 .. Len(X[q[n]]) : X[q[n]][k] = n
    BY DEF ListsHave
  <2>1. q[n] \in 1 .. L
    BY <1>1
  <2>2. \E k \in 1 .. Len(P[q[n]]) : P[q[n]][k] = n
    BY DEF ListsFit, ListsHave
  <2> QED
    BY <1>2, <2>1, <2>2
<1>8. ListsOrdered(X)
  <2> SUFFICES ASSUME NEW p \in 1 .. Len(X) PROVE IsOrdered(X[p])
    BY DEF ListsOrdered
  <2>1. CASE p \in 1 .. L
    <3>1. X[p] = P[p] /\ IsOrdered(P[p])
      BY <1>2, <2>1 DEF ListsFit, ListsOrdered, L
    <3> QED
      BY <3>1
  <2>2. CASE X[p] = <<>>
    BY <1>4, <2>2 DEF IsOrdered
  <2> QED
    BY <1>3, <2>1, <2>2
<1> QED
  BY <1>5, <1>6, <1>7, <1>8 DEF ListsFit, X

(* The list of partition p becomes Y, which has n in addition. *)
LEMMA ChangedListFits ==
  ASSUME NEW P, NEW q, ListsFit(P, q), NEW p \in 1 .. Len(P), NEW n \in Nodes, q[n] = 0,
         NEW Y \in Seq(Nodes), IsOrdered(Y),
         \A k \in 1 .. Len(Y) : Y[k] = n \/ q[Y[k]] = p,
         \E k \in 1 .. Len(Y) : Y[k] = n,
         \A i \in 1 .. Len(P[p]) : \E k \in 1 .. Len(Y) : Y[k] = P[p][i]
  PROVE  ListsFit([P EXCEPT ![p] = Y], [q EXCEPT ![n] = p])
<1> DEFINE X == [P EXCEPT ![p] = Y]
           r == [q EXCEPT ![n] = p]
           L == Len(P)
<1>1. P \in Seq(Seq(Nodes)) /\ L \in Nat /\ L >= 1 /\ q \in [Nodes -> 0 .. L] /\ p \in 1 .. L
  BY DEF ListsFit, ListsTyped
<1>2. /\ X \in Seq(Seq(Nodes)) /\ Len(X) = L /\ X[p] = Y
      /\ \A o \in 1 .. L : o # p => X[o] = P[o]
  BY <1>1
<1>3. r \in [Nodes -> 0 .. L] /\ r[n] = p /\ \A m \in Nodes : m # n => r[m] = q[m]
  BY <1>1
<1>4. \A o \in 1 .. L : P[o] \in Seq(Nodes)
  BY <1>1
<1>5. \A o \in 1 .. L : \A k \in 1 .. Len(P[o]) : P[o][k] \in Nodes /\ q[P[o][k]] = o
  BY <1>4 DEF ListsFit, ListsAgree
<1>6. \A k \in 1 .. Len(Y) : Y[k] \in Nodes
  OBVIOUS
<1> HIDE DEF X, r, L
<1>7. ListsTyped(X, r)
  BY <1>1, <1>2, <1>3 DEF ListsTyped
<1>8. ListsAgree(X, r)
  <2> SUFFICES ASSUME NEW o \in 1 .. L, NEW k \in 1 .. Len(X[o]) PROVE r[X[o][k]] = o
    BY <1>2 DEF ListsAgree
  <2>1. CASE o = p
    <3>1. X[o] = Y /\ k \in 1 .. Len(Y)
      BY <1>2, <2>1
    <3>2. Y[k] = n \/ q[Y[k]] = p
      BY <3>1
    <3>3. r[Y[k]] = p
      BY <1>3, <1>6, <3>1, <3>2
    <3> QED
      BY <2>1, <3>1, <3>3
  <2>2. CASE o # p
    <3>1. X[o] = P[o] /\ k \in 1 .. Len(P[o])
      BY <1>2, <2>2
    <3>2. P[o][k] \in Nodes /\ q[P[o][k]] = o
      BY <1>5, <3>1
    <3>3. o # 0
      BY <1>1
    <3>4. r[P[o][k]] = o
      BY <1>3, <3>2, <3>3
    <3> QED
      BY <3>1, <3>4
  <2> QED
    BY <2>1, <2>2
<1>9. ListsHave(X, r)
  <2> SUFFICES ASSUME NEW m \in Nodes, r[m] # 0 PROVE \E k \in 1 .. Len(X[r[m]]) : X[r[m]][k] = m
    BY DEF ListsHave
  <2>1. CASE m = n
    <3>1. r[m] = p /\ X[p] = Y
      BY <1>2, <1>3, <2>1
    <3> QED
      BY <2>1, <3>1
  <2>2. CASE m # n
    <3>1. r[m] = q[m] /\ q[m] \in 1 .. L
      BY <1>1, <1>3, <2>2
    <3>2. PICK i \in 1 .. Len(P[q[m]]) : P[q[m]][i] = m
      BY <3>1 DEF ListsFit, ListsHave
    <3>3. CASE q[m] = p
      <4>1. X[r[m]] = Y /\ i \in 1 .. Len(P[p]) /\ P[p][i] = m
        BY <1>2, <3>1, <3>2, <3>3
      <4> QED
        BY <4>1
    <3>4. CASE q[m] # p
      <4>1. X[r[m]] = P[q[m]]
        BY <1>2, <3>1, <3>4
      <4> QED
        BY <3>2, <4>1
    <3> QED
      BY <3>3, <3>4
  <2> QED
    BY <2>1, <2>2
<1>10. ListsOrdered(X)
  <2> SUFFICES ASSUME NEW o \in 1 .. L PROVE IsOrdered(X[o])
    BY <1>2 DEF ListsOrdered
  <2>1. CASE o = p
    <3>1. X[o] = Y
      BY <1>2, <2>1
    <3> QED
      BY <3>1
  <2>2. CASE o # p
    <3>1. X[o] = P[o] /\ IsOrdered(P[o])
      BY <1>2, <2>2 DEF ListsFit, ListsOrdered, L
    <3> QED
      BY <3>1
  <2> QED
    BY <2>1, <2>2
<1> QED
  BY <1>7, <1>8, <1>9, <1>10 DEF ListsFit, X, r

LEMMA AppendFits ==
  ASSUME NEW P, NEW q, ListsFit(P, q), NEW n \in Nodes, q[n] = 0,
         <<n, n>> \notin graph.edges,
         \A j \in Nodes : <<n, j>> \in graph.edges => q[j] = 0
  PROVE  ListsFit([P EXCEPT ![Len(P)] = Append(@, n)], [q EXCEPT ![n] = Len(P)])
<1> DEFINE L == Len(P)
           s == P[L]
           Y == Append(s, n)
<1>1. P \in Seq(Seq(Nodes)) /\ L \in 1 .. Len(P) /\ L \in Nat
  BY DEF ListsFit, ListsTyped
<1>2. s \in Seq(Nodes) /\ Len(s) \in Nat
  BY <1>1
<1>3. /\ Y \in Seq(Nodes) /\ Len(Y) = Len(s) + 1 /\ Y[Len(s) + 1] = n
      /\ \A k \in 1 .. Len(s) : Y[k] = s[k] /\ s[k] \in Nodes
  BY <1>2
<1>4. \A k \in 1 .. Len(s) : q[s[k]] = L /\ s[k] # n
  <2>1. \A k \in 1 .. Len(s) : q[s[k]] = L
    BY <1>1 DEF ListsFit, ListsAgree
  <2> HIDE DEF s, L
  <2> QED
    BY <1>1, <2>1
<1>5. IsOrdered(s)
  BY <1>1 DEF ListsFit, ListsOrdered
<1> HIDE DEF Y, s, L
<1>6. \A k \in 1 .. Len(Y) : k \in 1 .. Len(s) \/ k = Len(s) + 1
  BY <1>2, <1>3
<1>7. IsOrdered(Y)
  <2> SUFFICES ASSUME NEW k \in 1 .. Len(Y), NEW l \in 1 .. Len(Y)
               PROVE  (Y[k] = Y[l] => k = l) /\ (<<Y[k], Y[l]>> \in graph.edges => k < l)
    BY DEF IsOrdered
  <2>1. CASE k \in 1 .. Len(s) /\ l \in 1 .. Len(s)
    <3>1. Y[k] = s[k] /\ Y[l] = s[l]
      BY <1>3, <2>1
    <3> QED
      BY <1>5, <2>1, <3>1 DEF IsOrdered
  <2>2. CASE k \in 1 .. Len(s) /\ l = Len(s) + 1
    BY <1>2, <1>3, <1>4, <2>2
  <2>3. CASE k = Len(s) + 1 /\ l \in 1 .. Len(s)
    <3>1. Y[k] = n /\ Y[l] = s[l] /\ s[l] \in Nodes /\ s[l] # n /\ q[s[l]] # 0
      BY <1>1, <1>3, <1>4, <2>3
    <3> QED
      BY <3>1
  <2>4. CASE k = Len(s) + 1 /\ l = Len(s) + 1
    BY <1>3, <2>4
  <2> QED
    BY <1>6, <2>1, <2>2, <2>3, <2>4
<1>8. \A k \in 1 .. Len(Y) : Y[k] = n \/ q[Y[k]] = L
  BY <1>3, <1>4, <1>6
<1>9. \E k \in 1 .. Len(Y) : Y[k] = n
  BY <1>2, <1>3
<1>10. \A i \in 1 .. Len(P[L]) : \E k \in 1 .. Len(Y) : Y[k] = P[L][i]
  BY <1>2, <1>3 DEF s
<1>11. ListsFit([P EXCEPT ![L] = Y], [q EXCEPT ![n] = L])
  BY <1>1, <1>3, <1>7, <1>8, <1>9, <1>10, ChangedListFits
<1> QED
  BY <1>11 DEF Y, s, L

LEMMA PrependFits ==
  ASSUME NEW P, NEW q, ListsFit(P, q), NEW p \in 1 .. Len(P), NEW n \in Nodes, q[n] = 0,
         \A i \in Nodes : <<i, n>> \notin graph.edges
  PROVE  ListsFit([P EXCEPT ![p] = <<n>> \o @], [q EXCEPT ![n] = p])
<1> DEFINE s == P[p]
           Y == <<n>> \o s
<1>1. P \in Seq(Seq(Nodes)) /\ Len(P) \in Nat /\ p # 0
  BY DEF ListsFit, ListsTyped
<1>2. s \in Seq(Nodes) /\ Len(s) \in Nat
  BY <1>1
<1>3. /\ Y \in Seq(Nodes) /\ Len(Y) = Len(s) + 1 /\ Y[1] = n
      /\ \A k \in 1 .. Len(s) : Y[k + 1] = s[k] /\ s[k] \in Nodes
  BY <1>2
<1>4. \A k \in 1 .. Len(s) : q[s[k]] = p /\ s[k] # n
  <2>1. \A k \in 1 .. Len(s) : q[s[k]] = p
    BY <1>1 DEF ListsFit, ListsAgree
  <2> HIDE DEF s
  <2> QED
    BY <1>1, <2>1
<1>5. IsOrdered(s)
  BY <1>1 DEF ListsFit, ListsOrdered
<1> HIDE DEF Y, s
<1>6. ASSUME NEW k \in 1 .. Len(Y), k # 1 PROVE k - 1 \in 1 .. Len(s) /\ Y[k] = s[k - 1] /\ k > 1
  <2>1. k - 1 \in 1 .. Len(s) /\ (k - 1) + 1 = k /\ k > 1
    BY <1>2, <1>3, <1>6
  <2>2. Y[(k - 1) + 1] = s[k - 1]
    BY <1>3, <2>1
  <2> QED
    BY <2>1, <2>2
<1>7. IsOrdered(Y)
  <2> SUFFICES ASSUME NEW k \in 1 .. Len(Y), NEW l \in 1 .. Len(Y)
               PROVE  (Y[k] = Y[l] => k = l) /\ (<<Y[k], Y[l]>> \in graph.edges => k < l)
    BY DEF IsOrdered
  <2>1. CASE l = 1
    <3>1. Y[l] = n /\ Y[k] \in Nodes
      BY <1>3, <2>1
    <3>2. <<Y[k], Y[l]>> \notin graph.edges
      BY <3>1
    <3>3. k # 1 => Y[k] # n
      BY <1>4, <1>6
    <3> QED
      BY <2>1, <3>1, <3>2, <3>3
  <2>2. CASE k = 1 /\ l # 1
    <3>1. l > 1 /\ Y[l] # n /\ Y[k] = n
      <4>1. l > 1 /\ l - 1 \in 1 .. Len(s) /\ Y[l] = s[l - 1]
        BY <1>6, <2>2
      <4>2. Y[l] # n
        BY <4>1, <1>4
      <4>3. Y[k] = n
        BY <1>3, <2>2
      <4> QED
        BY <4>1, <4>2, <4>3
    <3> QED
      BY <2>2, <3>1
  <2>3. CASE k # 1 /\ l # 1
    <3>1. /\ k - 1 \in 1 .. Len(s) /\ l - 1 \in 1 .. Len(s)
          /\ Y[k] = s[k - 1] /\ Y[l] = s[l - 1]
      BY <1>6, <2>3
    <3>2. /\ s[k - 1] = s[l - 1] => k - 1 = l - 1
          /\ <<s[k - 1], s[l - 1]>> \in graph.edges => k - 1 < l - 1
      BY <1>5, <3>1 DEF IsOrdered
    <3>3. k \in Int /\ l \in Int
      OBVIOUS
    <3>4. /\ k - 1 = l - 1 => k = l
          /\ k - 1 < l - 1 => k < l
      BY <3>3
    <3>5. /\ Y[k] = Y[l] => k - 1 = l - 1
          /\ <<Y[k], Y[l]>> \in graph.edges => k - 1 < l - 1
      BY <3>1, <3>2
    <3> QED
      BY <3>4, <3>5
  <2> QED
    BY <2>1, <2>2, <2>3
<1>8. ASSUME NEW k \in 1 .. Len(Y) PROVE Y[k] = n \/ q[Y[k]] = p
  <2>1. CASE k = 1
    BY <1>3, <2>1
  <2>2. CASE k # 1
    <3>1. k - 1 \in 1 .. Len(s) /\ Y[k] = s[k - 1]
      BY <1>6, <2>2
    <3> QED
      BY <1>4, <3>1
  <2> QED
    BY <2>1, <2>2
<1>9. \E k \in 1 .. Len(Y) : Y[k] = n
  BY <1>2, <1>3
<1>10. \A i \in 1 .. Len(P[p]) : \E k \in 1 .. Len(Y) : Y[k] = P[p][i]
  <2> SUFFICES ASSUME NEW i \in 1 .. Len(s) PROVE \E k \in 1 .. Len(Y) : Y[k] = s[i]
    BY DEF s
  <2>1. i + 1 \in 1 .. Len(Y) /\ Y[i + 1] = s[i]
    BY <1>2, <1>3
  <2> QED
    BY <2>1
<1>11. ListsFit([P EXCEPT ![p] = Y], [q EXCEPT ![n] = p])
  BY <1>3, <1>7, <1>8, <1>9, <1>10, ChangedListFits
<1> QED
  BY <1>11 DEF Y, s

-----------------------------------------------------------------------------
(* The queue *)

IsDistinct(s) == \A k, l \in 1 .. Len(s) : s[k] = s[l] => k = l
Has(s, x) == \E k \in 1 .. Len(s) : s[k] = x

LEMMA TailElements ==
  ASSUME NEW S, NEW s \in Seq(S), s # <<>>, \A k, l \in 1 .. Len(s) : s[k] = s[l] => k = l
  PROVE  /\ Tail(s) \in Seq(S)
         /\ \A k, l \in 1 .. Len(Tail(s)) : Tail(s)[k] = Tail(s)[l] => k = l
         /\ \A x : (\E k \in 1 .. Len(Tail(s)) : Tail(s)[k] = x)
                   <=> x # Head(s) /\ \E k \in 1 .. Len(s) : s[k] = x
<1> DEFINE t == Tail(s)
<1>1. /\ t \in Seq(S) /\ Len(s) \in Nat /\ Len(s) >= 1 /\ Len(t) = Len(s) - 1 /\ Head(s) = s[1]
      /\ \A k \in 1 .. Len(t) : t[k] = s[k + 1] /\ k + 1 \in 1 .. Len(s) /\ k + 1 # 1
  OBVIOUS
<1> HIDE DEF t
<1>2. ASSUME NEW k \in 1 .. Len(t), NEW l \in 1 .. Len(t), t[k] = t[l] PROVE k = l
  <2>1. k + 1 = l + 1
    BY <1>1, <1>2
  <2> QED
    BY <2>1
<1>3. ASSUME NEW k \in 1 .. Len(t) PROVE t[k] # Head(s) /\ \E l \in 1 .. Len(s) : s[l] = t[k]
  <2>1. 1 \in 1 .. Len(s)
    BY <1>1
  <2> QED
    BY <1>1, <2>1
<1>4. ASSUME NEW l \in 1 .. Len(s), s[l] # Head(s) PROVE \E k \in 1 .. Len(t) : t[k] = s[l]
  <2>1. l - 1 \in 1 .. Len(t) /\ (l - 1) + 1 = l
    BY <1>1, <1>4
  <2>2. t[l - 1] = s[l]
    BY <1>1, <2>1
  <2> QED
    BY <2>1, <2>2
<1>5. \A x : (\E k \in 1 .. Len(t) : t[k] = x) <=> x # Head(s) /\ \E k \in 1 .. Len(s) : s[k] = x
  BY <1>3, <1>4
<1> QED
  BY <1>1, <1>2, <1>5 DEF t

LEMMA ConcatElements ==
  ASSUME NEW S, NEW a \in Seq(S), NEW b \in Seq(S), NEW c, c = a \o b,
         IsDistinct(a), IsDistinct(b), \A x : ~ (Has(a, x) /\ Has(b, x))
  PROVE  c \in Seq(S) /\ IsDistinct(c) /\ \A x : Has(c, x) <=> Has(a, x) \/ Has(b, x)
<1> DEFINE m == Len(a)
           n == Len(b)
<1>1. /\ c \in Seq(S) /\ m \in Nat /\ n \in Nat /\ Len(c) = m + n
      /\ \A k \in 1 .. m : c[k] = a[k]
      /\ \A k \in 1 .. n : c[m + k] = b[k]
  OBVIOUS
<1>0. /\ \A k, l \in 1 .. m : a[k] = a[l] => k = l
      /\ \A k, l \in 1 .. n : b[k] = b[l] => k = l
      /\ \A k \in 1 .. m : \A l \in 1 .. n : a[k] # b[l]
  BY DEF IsDistinct, Has
<1>2. ASSUME NEW k \in 1 .. Len(c) PROVE k \in 1 .. m \/ (k - m \in 1 .. n /\ c[k] = b[k - m])
  <2> HIDE DEF m, n
  <2>1. CASE ~ k \in 1 .. m
    <3>1. k - m \in 1 .. n /\ m + (k - m) = k
      BY <1>1, <2>1
    <3>2. c[m + (k - m)] = b[k - m]
      BY <1>1, <3>1
    <3> QED
      BY <3>1, <3>2
  <2> QED
    BY <2>1
<1>3. ASSUME NEW k \in 1 .. Len(c), NEW l \in 1 .. Len(c), c[k] = c[l] PROVE k = l
  <2>1. CASE k \in 1 .. m /\ l \in 1 .. m
    BY <1>0, <1>1, <1>3, <2>1
  <2>2. CASE k \in 1 .. m /\ ~ l \in 1 .. m
    BY <1>0, <1>1, <1>2, <1>3, <2>2
  <2>3. CASE ~ k \in 1 .. m /\ l \in 1 .. m
    <3>1. k - m \in 1 .. n /\ c[k] = b[k - m] /\ c[l] = a[l]
      BY <1>1, <1>2, <2>3
    <3>2. a[l] # b[k - m]
      BY <1>0, <2>3, <3>1
    <3> QED
      BY <1>3, <3>1, <3>2
  <2>4. CASE ~ k \in 1 .. m /\ ~ l \in 1 .. m
    <3>1. k - m = l - m
      BY <1>0, <1>2, <1>3, <2>4
    <3>2. k \in Int /\ l \in Int
      OBVIOUS
    <3> HIDE DEF m
    <3> QED
      BY <1>1, <3>1, <3>2
  <2> QED
    BY <2>1, <2>2, <2>3, <2>4
<1>4. ASSUME NEW x, NEW k \in 1 .. Len(c), c[k] = x
      PROVE  (\E i \in 1 .. m : a[i] = x) \/ (\E i \in 1 .. n : b[i] = x)
  BY <1>1, <1>2, <1>4
<1>5. ASSUME NEW x, NEW k \in 1 .. m, a[k] = x PROVE \E i \in 1 .. Len(c) : c[i] = x
  <2>1. k \in 1 .. Len(c)
    BY <1>1
  <2> QED
    BY <1>1, <1>5, <2>1
<1>6. ASSUME NEW x, NEW k \in 1 .. n, b[k] = x PROVE \E i \in 1 .. Len(c) : c[i] = x
  <2>1. m + k \in 1 .. Len(c)
    BY <1>1
  <2> QED
    BY <1>1, <1>6, <2>1
<1>7. IsDistinct(c)
  BY <1>3 DEF IsDistinct
<1>8. ASSUME NEW x PROVE Has(c, x) => Has(a, x) \/ Has(b, x)
  BY <1>4 DEF Has
<1>9. ASSUME NEW x PROVE Has(a, x) \/ Has(b, x) => Has(c, x)
  BY <1>5, <1>6 DEF Has
<1> QED
  BY <1>1, <1>7, <1>8, <1>9

(* The node that is visited has its inputs, and its users wait for it. *)
LEMMA HeadFacts ==
  ASSUME PartitionInv, queue # <<>>, NEW n, n = Head(queue)
  PROVE  /\ n \in Computed \ Placed /\ n \in Nodes /\ part[n] = 0 /\ Awaited(n) = {}
         /\ \A j \in Nodes : n \in Awaited(j) <=> j \in UsersOf(n)
         /\ \A j \in UsersOf(n) : j \in Computed \ Placed /\ part[j] = 0
         /\ <<n, n>> \notin graph.edges
         /\ attrs = Attributes(graph)
<1>1. n \in Computed \ Placed /\ Awaited(n) = {} /\ n \in Nodes
  <2>1. queue \in Seq(Nodes) /\ 1 \in 1 .. Len(queue) /\ queue[1] = n /\ n \in Nodes
    BY DEF PartitionInv, QueueInv
  <2> QED
    BY <2>1 DEF PartitionInv, QueueInv, IsQueued
<1>2. part[n] = 0
  BY <1>1 DEF Placed
<1>3. \A j \in Nodes : n \in Awaited(j) <=> j \in UsersOf(n)
  BY <1>1 DEF Awaited, UsersOf, InputsOf, Computed
<1>4. \A j \in UsersOf(n) : j \in Computed \ Placed /\ part[j] = 0
  <2> SUFFICES ASSUME NEW j \in UsersOf(n) PROVE j \in Computed \ Placed /\ part[j] = 0
    OBVIOUS
  <2>1. j \in Computed /\ j \in Nodes
    BY <1>1, GraphFacts DEF PartitionInv
  <2>2. n \in Awaited(j)
    BY <1>3, <2>1
  <2>3. j \notin Placed
    BY <2>2 DEF PartitionInv, QueueInv
  <2> QED
    BY <2>1, <2>3 DEF Placed
<1>5. <<n, n>> \notin graph.edges
  BY <1>1, <1>3 DEF UsersOf
<1>6. attrs = Attributes(graph)
  BY DEF PartitionInv, AttributesInv
<1> QED
  BY <1>1, <1>2, <1>3, <1>4, <1>5, <1>6

(* After the visit the node is placed, and nobody waits for it. *)
LEMMA VisitPlaces ==
  ASSUME PartitionInv, queue # <<>>, NEW n, n = Head(queue), NEW L \in Nat \ {0},
         graph' = graph, part' = [part EXCEPT ![n] = L]
  PROVE  /\ Placed' = Placed \cup {n} /\ Computed' = Computed
         /\ \A j \in Nodes : Awaited(j)' = Awaited(j) \ {n}
         /\ \A j : UsersOf(j)' = UsersOf(j)
         /\ part'[n] = L /\ \A m \in Nodes : m # n => part'[m] = part[m]
<1>1. n \in Computed /\ n \in Nodes /\ part \in [Nodes -> 0 .. Len(partitions)]
  BY HeadFacts DEF PartitionInv, ListsFit, ListsTyped
<1>2. part'[n] = L /\ \A m \in Nodes : m # n => part'[m] = part[m]
  BY <1>1
<1>3. Computed' = Computed /\ Computed \subseteq Nodes
  BY DEF Computed, Attributes
<1>4. Placed' = Placed \cup {n}
  BY <1>1, <1>2, <1>3 DEF Placed
<1>5. \A j \in Nodes : Awaited(j)' = Awaited(j) \ {n}
  BY <1>4 DEF Awaited, InputsOf, Attributes
<1> QED
  BY <1>2, <1>3, <1>4, <1>5 DEF UsersOf

LEMMA VisitCounts ==
  ASSUME PartitionInv, queue # <<>>, NEW n, n = Head(queue), NEW L \in Nat \ {0},
         graph' = graph, part' = [part EXCEPT ![n] = L], ReleaseUsers(n)
  PROVE  CountsInv'
<1>1. ASSUME NEW j \in Nodes
      PROVE  (IF j \in UsersOf(n) THEN remaining[j] - 1
             ELSE remaining[j]) = Cardinality(Awaited(j) \ {n})
  <2>1. IsFiniteSet(Awaited(j))
    <3>1. Awaited(j) \in SUBSET Nodes
      BY DEF Awaited, InputsOf
    <3> QED
      BY <3>1, PartitionAssumption, FS_Subset
  <2>2. remaining[j] = Cardinality(Awaited(j))
    BY DEF PartitionInv, CountsInv
  <2>3. n \in Awaited(j) <=> j \in UsersOf(n)
    BY HeadFacts
  <2>4. CASE j \in UsersOf(n)
    <3>1. Cardinality(Awaited(j) \ {n}) = Cardinality(Awaited(j)) - 1
      BY <2>1, <2>3, <2>4, FS_RemoveElement
    <3> QED
      BY <2>2, <2>4, <3>1
  <2>5. CASE j \notin UsersOf(n)
    <3>1. Awaited(j) \ {n} = Awaited(j)
      BY <2>3, <2>5
    <3> QED
      BY <2>2, <2>5, <3>1
  <2> QED
    BY <2>4, <2>5
<1>2. \A j \in Nodes : Awaited(j)' = Awaited(j) \ {n}
  BY VisitPlaces
<1>3. remaining' = [j \in Nodes |-> IF j \in UsersOf(n) THEN remaining[j] - 1 ELSE remaining[j]]
  BY DEF ReleaseUsers
<1>4. remaining' = [j \in Nodes |-> Cardinality(Awaited(j) \ {n})]
  BY <1>1, <1>3
<1> QED
  BY <1>2, <1>4 DEF CountsInv

LEMMA VisitKeepsQueue ==
  ASSUME PartitionInv, queue # <<>>, NEW n, n = Head(queue), NEW L \in Nat \ {0},
         graph' = graph, part' = [part EXCEPT ![n] = L], ReleaseUsers(n)
  PROVE  QueueInv'
<1> DEFINE R == {j \in UsersOf(n) : remaining[j] = 1}
           t == Tail(queue)
<1>1. PICK released \in Orderings(R) : queue' = t \o released
  BY DEF ReleaseUsers
<1>2. R \subseteq Nodes /\ IsFiniteSet(R)
  <2>1. R \in SUBSET Nodes
    BY DEF UsersOf
  <2> QED
    BY <2>1, PartitionAssumption, FS_Subset
<1>3. /\ n \in Computed \ Placed /\ n \in Nodes /\ Awaited(n) = {}
      /\ \A j \in Nodes : n \in Awaited(j) <=> j \in UsersOf(n)
      /\ \A j \in UsersOf(n) : j \in Computed \ Placed
  BY HeadFacts
<1>4. /\ Placed' = Placed \cup {n} /\ Computed' = Computed
      /\ \A j \in Nodes : Awaited(j)' = Awaited(j) \ {n}
  BY VisitPlaces
<1>5. R = {j \in Nodes : n \in Awaited(j) /\ Awaited(j) \ {n} = {}}
  <2>1. ASSUME NEW j \in Nodes, n \in Awaited(j) PROVE remaining[j] = 1 <=> Awaited(j) \ {n} = {}
    <3>1. Awaited(j) \in SUBSET Nodes /\ IsFiniteSet(Awaited(j))
      BY PartitionAssumption, FS_Subset DEF Awaited, InputsOf
    <3>2. remaining[j] = Cardinality(Awaited(j))
      BY DEF PartitionInv, CountsInv
    <3> QED
      BY <2>1, <3>1, <3>2, FS_Singleton
  <2> QED
    BY <1>2, <1>3, <2>1
<1>6. /\ released \in Seq(R) /\ released \in Seq(Nodes)
      /\ \A k, l \in 1 .. Len(released) : released[k] = released[l] => k = l
      /\ \A x : (\E k \in 1 .. Len(released) : released[k] = x) <=> x \in R
  <2> HIDE DEF R
  <2>1. /\ released \in Seq(R)
        /\ \A k, l \in 1 .. Len(released) : released[k] = released[l] => k = l
        /\ \A x \in R : \E k \in 1 .. Len(released) : released[k] = x
    BY <1>1, <1>2, OrderingFacts
  <2> QED
    BY <1>2, <2>1
<1>7. /\ queue \in Seq(Nodes)
      /\ \A k, l \in 1 .. Len(queue) : queue[k] = queue[l] => k = l
      /\ \A m \in Nodes : IsQueued(m) <=> m \in Computed \ Placed /\ Awaited(m) = {}
      /\ \A m \in Placed : Awaited(m) = {}
  BY DEF PartitionInv, QueueInv
<1>8. /\ t \in Seq(Nodes)
      /\ \A k, l \in 1 .. Len(t) : t[k] = t[l] => k = l
      /\ \A x : (\E k \in 1 .. Len(t) : t[k] = x) <=> x # n /\ IsQueued(x)
  BY <1>7, TailElements DEF IsQueued
<1> HIDE DEF R, t
<1>9. \A k \in 1 .. Len(t) : \A l \in 1 .. Len(released) : t[k] # released[l]
  <2> SUFFICES ASSUME NEW k \in 1 .. Len(t), NEW l \in 1 .. Len(released),
                      t[k] = released[l]
               PROVE  FALSE
    OBVIOUS
  <2>1. t[k] \in Nodes /\ IsQueued(t[k]) /\ t[k] \in R
    <3>1. IsQueued(t[k])
      BY <1>8
    <3>2. released[l] \in R
      BY <1>6
    <3> QED
      BY <1>2, <3>1, <3>2
  <2>2. Awaited(t[k]) = {}
    BY <1>7, <2>1
  <2>3. n \in Awaited(t[k])
    BY <1>5, <2>1
  <2> QED
    BY <2>2, <2>3
<1>10. /\ queue' \in Seq(Nodes)
       /\ \A k, l \in 1 .. Len(queue') : queue'[k] = queue'[l] => k = l
       /\ \A x : (\E k \in 1 .. Len(queue') : queue'[k] = x) <=> (x # n /\ IsQueued(x)) \/ x \in R
  <2> DEFINE c == t \o released
  <2>0. c = t \o released
    OBVIOUS
  <2> HIDE DEF c
  <2>1. c \in Seq(Nodes) /\ IsDistinct(c) /\ \A x : Has(c, x) <=> Has(t, x) \/ Has(released, x)
    <3>1. t \in Seq(Nodes) /\ released \in Seq(Nodes)
      BY <1>6, <1>8
    <3>2. IsDistinct(t) /\ IsDistinct(released)
      BY <1>6, <1>8 DEF IsDistinct
    <3>3. \A x : ~ (Has(t, x) /\ Has(released, x))
      BY <1>9 DEF Has
    <3> QED
      BY <2>0, <3>1, <3>2, <3>3, ConcatElements
  <2>2. \A x : (\E k \in 1 .. Len(c) : c[k] = x) <=> (x # n /\ IsQueued(x)) \/ x \in R
    BY <1>6, <1>8, <2>1 DEF Has
  <2>3. queue' = c
    BY <1>1 DEF c
  <2> QED
    BY <2>1, <2>2, <2>3 DEF IsDistinct
<1>11. \A x : IsQueued(x)' <=> (x # n /\ IsQueued(x)) \/ x \in R
  BY <1>10 DEF IsQueued
<1>12. ASSUME NEW m \in Nodes
       PROVE  IsQueued(m)' <=> m \in Computed \ (Placed \cup {n}) /\ Awaited(m) \ {n} = {}
  <2>1. m \in R => m \in Computed \ Placed /\ m # n
    BY <1>3, <1>5
  <2>2. n \in Awaited(m) => m # n
    BY <1>3
  <2> QED
    BY <1>3, <1>5, <1>7, <1>11, <2>1, <2>2
<1>13. \A m \in Placed' : Awaited(m)' = {}
  <2>1. Placed \subseteq Nodes
    BY DEF Placed, Computed
  <2> QED
    BY <1>3, <1>4, <1>7, <2>1
<1> QED
  BY <1>4, <1>10, <1>12, <1>13 DEF QueueInv

-----------------------------------------------------------------------------
(* The visit of a node *)

(* The node is added to the last partition, possibly a new one. *)
LEMMA VisitCases ==
  ASSUME PartitionInv, VisitNode, NEW n, n = Head(queue)
  PROVE  \E opened :
           /\ ListsFit(opened, part)
           /\ partitions' = [opened EXCEPT ![Len(opened)] = Append(@, n)]
           /\ part' = [part EXCEPT ![n] = Len(opened)]
           /\ \/ /\ Len(opened) = Len(partitions) + 1 /\ n \in Targets
                 /\ targetsSeen' = 1
              \/ /\ Len(opened) = Len(partitions)
                 /\ n \in Targets => targetsSeen < limit /\ targetsSeen' = targetsSeen + 1
                 /\ n \notin Targets => targetsSeen' = targetsSeen
<1>1. ListsFit(partitions, part) /\ partitions \in Seq(Seq(Nodes))
  BY DEF PartitionInv, ListsFit, ListsTyped
<1>2. targetsSeen \in Nat /\ limit \in Nat
  <2>1. IsFiniteSet(Members(Len(partitions)) \cap Targets)
    <3>1. Members(Len(partitions)) \cap Targets \in SUBSET Nodes
      BY DEF Members
    <3> QED
      BY <3>1, PartitionAssumption, FS_Subset
  <2>2. targetsSeen \in Nat
    BY <2>1, FS_CardinalityType DEF PartitionInv, TargetsInv
  <2> QED
    BY <2>2, PartitionAssumption DEF PartitionInv
<1>3. CASE StartsPartition(n)
  <2>1. Place(n, Append(partitions, <<>>)) /\ targetsSeen' = 1 /\ n \in Targets
    BY <1>3 DEF VisitNode, StartsPartition
  <2>2. ListsFit(Append(partitions, <<>>), part)
    BY <1>1, OpenFits
  <2>3. Len(Append(partitions, <<>>)) = Len(partitions) + 1
    BY <1>1
  <2> QED
    BY <2>1, <2>2, <2>3 DEF Place
<1>4. CASE ~ StartsPartition(n)
  <2>1. Place(n, partitions) /\ targetsSeen' = targetsSeen + IF n \in Targets THEN 1 ELSE 0
    BY <1>4 DEF VisitNode
  <2>2. n \in Targets => targetsSeen < limit
    BY <1>2, <1>4 DEF StartsPartition
  <2>3. n \notin Targets => targetsSeen' = targetsSeen
    BY <1>2, <2>1
  <2> QED
    BY <1>1, <2>1, <2>2, <2>3 DEF Place
<1> QED
  BY <1>3, <1>4

LEMMA VisitKeepsLists ==
  ASSUME PartitionInv, queue # <<>>, NEW n, n = Head(queue), graph' = graph,
         NEW opened, ListsFit(opened, part),
         partitions' = [opened EXCEPT ![Len(opened)] = Append(@, n)],
         part' = [part EXCEPT ![n] = Len(opened)]
  PROVE  ListsFit(partitions, part)' /\ Len(partitions') = Len(opened) /\ Len(opened) \in Nat \ {0}
<1>1. /\ n \in Nodes /\ part[n] = 0 /\ <<n, n>> \notin graph.edges
      /\ \A j \in Nodes : <<n, j>> \in graph.edges => part[j] = 0
  BY HeadFacts DEF UsersOf
<1>2. ListsFit(partitions', part')
  BY <1>1, AppendFits
<1>3. opened \in Seq(Seq(Nodes)) /\ Len(opened) \in Nat \ {0}
  BY DEF ListsFit, ListsTyped
<1>4. Len(partitions') = Len(opened)
  BY <1>3
<1>5. ListsFit(partitions, part)'
  <2>1. ListsTyped(partitions, part)' /\ ListsAgree(partitions, part)'
        /\ ListsHave(partitions, part)'
    BY <1>2 DEF ListsFit, ListsTyped, ListsAgree, ListsHave
  <2>2. \A p \in 1 .. Len(partitions') : IsOrdered(partitions'[p])
    BY <1>2 DEF ListsFit, ListsOrdered
  <2>3. \A p \in 1 .. Len(partitions') : IsOrdered(partitions[p])'
    BY <2>2 DEF IsOrdered
  <2> QED
    BY <2>1, <2>3 DEF ListsFit, ListsOrdered
<1> QED
  BY <1>3, <1>4, <1>5

LEMMA VisitKeepsOrder ==
  ASSUME PartitionInv, queue # <<>>, NEW n,
         n = Head(queue), NEW L \in Nat \ {0}, Len(partitions) <= L,
         graph' = graph, attrs' = attrs, part' = [part EXCEPT ![n] = L]
  PROVE  OrderInv' /\ AttributesInv'
<1>1. /\ n \in Computed /\ n \in Nodes /\ <<n, n>> \notin graph.edges /\ attrs = Attributes(graph)
      /\ \A j \in UsersOf(n) : j \notin Placed
  BY HeadFacts
<1>2. /\ Placed' = Placed \cup {n}
      /\ part'[n] = L /\ \A m \in Nodes : m # n => part'[m] = part[m]
  BY VisitPlaces
<1>3. /\ Len(partitions) \in Nat
      /\ \A m \in Nodes : part[m] \in 0 .. Len(partitions)
  BY DEF PartitionInv, ListsFit, ListsTyped
<1>4. OrderInv'
  <2> SUFFICES ASSUME NEW e \in graph.edges, e[1] \in Placed \cup {n}, e[2] \in Placed \cup {n}
               PROVE  part'[e[1]] <= part'[e[2]]
    BY <1>2 DEF OrderInv
  <2>1. e[1] \in Nodes /\ e[2] \in Nodes /\ e = <<e[1], e[2]>>
    BY GraphFacts DEF PartitionInv
  <2>2. e[1] # n
    BY <1>1, <2>1 DEF UsersOf
  <2>3. e[2] = n => part'[e[1]] <= part'[e[2]]
    BY <1>2, <1>3, <2>1, <2>2
  <2>4. e[2] # n => part'[e[1]] <= part'[e[2]]
    BY <1>2, <2>1, <2>2 DEF PartitionInv, OrderInv
  <2> QED
    BY <2>3, <2>4
<1>5. \A a \in attrs' : part'[a] = 0
  <2> SUFFICES ASSUME NEW a \in attrs PROVE part'[a] = 0
    OBVIOUS
  <2>1. a # n /\ a \in Nodes
    BY <1>1 DEF Computed, Attributes
  <2> QED
    BY <1>2, <2>1 DEF PartitionInv, AttributesInv
<1>6. Attributes(graph') = Attributes(graph) /\ attrs' = Attributes(graph)
  BY <1>1
<1> QED
  BY <1>4, <1>5, <1>6 DEF AttributesInv

LEMMA VisitKeepsTargets ==
  ASSUME PartitionInv, VisitNode, NEW n, n = Head(queue), NEW L \in Nat \ {0}, Len(partitions') = L,
         part' = [part EXCEPT ![n] = L],
         \/ /\ L = Len(partitions) + 1 /\ n \in Targets
            /\ targetsSeen' = 1
         \/ /\ L = Len(partitions)
            /\ n \in Targets => targetsSeen < limit /\ targetsSeen' = targetsSeen + 1
            /\ n \notin Targets => targetsSeen' = targetsSeen
  PROVE  TargetsInv'
<1> DEFINE Held(p) == {m \in Nodes : part[m] = p} \cap Targets
           NewHeld(p) == {m \in Nodes : part'[m] = p} \cap Targets
<1>1. graph' = graph /\ limit' = limit /\ Targets' = Targets /\ queue # <<>>
  BY DEF VisitNode, Targets
<1>2. n \in Nodes /\ part[n] = 0
  BY <1>1, HeadFacts
<1>3. part'[n] = L /\ \A m \in Nodes : m # n => part'[m] = part[m]
  BY <1>1, VisitPlaces
<1>4. /\ Len(partitions) \in Nat \ {0} /\ L \in Nat \ {0}
      /\ \A m \in Nodes : part[m] \in 0 .. Len(partitions)
  BY DEF PartitionInv, ListsFit, ListsTyped
<1>5. limit \in Nat \ {0} /\ \A p : IsFiniteSet(Held(p)) /\ (p # 0 => n \notin Held(p))
  <2>1. ASSUME NEW p PROVE IsFiniteSet(Held(p))
    <3>1. Held(p) \in SUBSET Nodes
      OBVIOUS
    <3> QED
      BY <3>1, PartitionAssumption, FS_Subset
  <2>2. limit \in Nat \ {0}
    BY PartitionAssumption DEF PartitionInv
  <2>3. \A p : p # 0 => n \notin Held(p)
    BY <1>2
  <2> QED
    BY <2>1, <2>2, <2>3
<1>6. \A p \in 1 .. L : p # L => NewHeld(p) = Held(p)
  BY <1>2, <1>3, <1>4
<1>7. \A p \in 1 .. Len(partitions) : Cardinality(Held(p)) <= limit
  BY DEF PartitionInv, TargetsInv, Members
<1>8. targetsSeen = Cardinality(Held(Len(partitions)))
  BY DEF PartitionInv, TargetsInv, Members
<1>9. Cardinality(NewHeld(L)) <= limit /\ targetsSeen' = Cardinality(NewHeld(L))
  <2>1. CASE L = Len(partitions) + 1
    <3>1. n \in Targets /\ targetsSeen' = 1
      BY <1>4, <2>1
    <3>2. \A m \in Nodes : part'[m] = L <=> m = n
      BY <1>3, <1>4, <2>1
    <3>3. NewHeld(L) = {n}
      BY <1>2, <3>1, <3>2
    <3>4. Cardinality({n}) = 1
      BY FS_Singleton
    <3> HIDE DEF NewHeld
    <3> QED
      BY <1>5, <3>1, <3>3, <3>4
  <2>2. CASE L = Len(partitions) /\ n \in Targets
    <3>1. targetsSeen < limit /\ targetsSeen' = targetsSeen + 1
      BY <1>4, <2>2
    <3>2. NewHeld(L) = Held(L) \cup {n}
      BY <1>2, <1>3, <1>4, <2>2
    <3>3. IsFiniteSet(Held(L)) /\ n \notin Held(L)
      BY <1>4, <1>5
    <3>4. Cardinality(Held(L)) \in Nat /\ Cardinality(Held(L) \cup {n}) = Cardinality(Held(L)) + 1
      <4> HIDE DEF Held
      <4> QED
        BY <3>3, FS_AddElement, FS_CardinalityType
    <3> HIDE DEF Held, NewHeld
    <3> QED
      BY <1>5, <1>8, <2>2, <3>1, <3>2, <3>4
  <2>3. CASE L = Len(partitions) /\ n \notin Targets
    <3>1. targetsSeen' = targetsSeen
      BY <1>4, <2>3
    <3>2. NewHeld(L) = Held(L)
      BY <1>2, <1>3, <1>4, <2>3
    <3>3. Cardinality(Held(L)) <= limit
      BY <1>4, <1>7, <2>3
    <3> QED
      BY <1>8, <2>3, <3>1, <3>2, <3>3
  <2> QED
    BY <2>1, <2>2, <2>3
<1>10. ASSUME NEW p \in 1 .. L PROVE Cardinality(NewHeld(p)) <= limit
  <2>1. CASE p = L
    BY <1>9, <2>1
  <2>2. CASE p # L
    <3>1. p \in 1 .. Len(partitions)
      BY <1>4, <2>2
    <3> QED
      BY <1>6, <1>7, <2>2, <3>1
  <2> QED
    BY <2>1, <2>2
<1> QED
  BY <1>1, <1>9, <1>10 DEF TargetsInv, Members

(* A target that is not placed leads to every output, which is then not placed either. *)
LEMMA OutputsAreLast ==
  ASSUME GraphsAreSound, PartitionInv, NEW n \in Targets, n \notin Placed,
         NEW o \in Nodes, graph.op[o] = "output"
  PROVE  part[o] = 0
<1> DEFINE S == Computed \ Placed
<1>1. graph \in Graphs /\ n \in S /\ S \in SUBSET Nodes /\ graph.op[n] = "target" /\ o \in Computed
  BY GraphFacts DEF PartitionInv, Targets
<1>2. ASSUME NEW e \in graph.edges, e[1] \in S PROVE e[2] \in S
  <2>1. e[2] \in Computed /\ e[2] \in Nodes /\ e[1] \in Nodes /\ e = <<e[1], e[2]>>
    BY <1>1, GraphFacts
  <2>2. e[1] \in Awaited(e[2])
    BY <1>2, <2>1 DEF Awaited, InputsOf, Computed
  <2>3. e[2] \notin Placed
    BY <2>2 DEF PartitionInv, QueueInv
  <2> QED
    BY <2>1, <2>3
<1> HIDE DEF S
<1>3. o \in S
  BY <1>1, <1>2 DEF GraphsAreSound
<1> QED
  BY <1>1, <1>3 DEF S, Placed

LEMMA VisitStep ==
  ASSUME GraphsAreSound, PartitionInv, VisitNode
  PROVE  PartitionInv'
<1> DEFINE n == Head(queue)
<1>1. PICK opened :
        /\ ListsFit(opened, part)
        /\ partitions' = [opened EXCEPT ![Len(opened)] = Append(@, n)]
        /\ part' = [part EXCEPT ![n] = Len(opened)]
        /\ \/ /\ Len(opened) = Len(partitions) + 1 /\ n \in Targets
              /\ targetsSeen' = 1
           \/ /\ Len(opened) = Len(partitions)
              /\ n \in Targets => targetsSeen < limit /\ targetsSeen' = targetsSeen + 1
              /\ n \notin Targets => targetsSeen' = targetsSeen
  BY VisitCases
<1>2. queue # <<>> /\ graph' = graph /\ limit' = limit /\ attrs' = attrs /\ ReleaseUsers(n)
  BY DEF VisitNode
<1> DEFINE L == Len(opened)
<1>3. ListsFit(partitions, part)' /\ Len(partitions') = L /\ L \in Nat \ {0}
  BY <1>1, <1>2, VisitKeepsLists
<1>4. Len(partitions) \in Nat /\ Len(partitions) <= L
  <2>1. Len(partitions) \in Nat
    BY DEF PartitionInv, ListsFit, ListsTyped
  <2> HIDE DEF L
  <2>2. L = Len(partitions) + 1 \/ L = Len(partitions)
    BY <1>1 DEF L
  <2> QED
    BY <2>1, <2>2
<1>5. n \in Nodes /\ n \notin Placed /\ part[n] = 0
  BY <1>2, HeadFacts
<1>6. part'[n] = L /\ \A m \in Nodes : m # n => part'[m] = part[m]
  BY <1>1, <1>2, <1>3, VisitPlaces
<1>7. CountsInv' /\ QueueInv'
  BY <1>1, <1>2, <1>3, VisitCounts, VisitKeepsQueue
<1>8. OrderInv' /\ AttributesInv'
  BY <1>1, <1>2, <1>3, <1>4, VisitKeepsOrder
<1>9. TargetsInv'
  BY <1>1, <1>3, VisitKeepsTargets
<1>10. OutputsInv'
  <2> SUFFICES ASSUME NEW o \in Nodes, graph.op[o] = "output", part'[o] # 0 PROVE part'[o] = L
    BY <1>2, <1>3 DEF OutputsInv
  <2>1. CASE o = n
    BY <1>6, <2>1
  <2>2. CASE o # n
    <3>1. part[o] # 0 /\ part'[o] = part[o]
      BY <1>6, <2>2
    <3>2. part[o] = Len(partitions)
      BY <3>1 DEF PartitionInv, OutputsInv
    <3>3. n \notin Targets
      BY <1>5, <3>1, OutputsAreLast
    <3> QED
      BY <1>1, <3>1, <3>2, <3>3
  <2> QED
    BY <2>1, <2>2
<1> QED
  BY <1>2, <1>3, <1>7, <1>8, <1>9, <1>10 DEF PartitionInv

-----------------------------------------------------------------------------
(* The placement of an attribute *)

LEMMA FirstUserFacts ==
  ASSUME PartitionInv, NEW n \in Nodes, AssignedUsers(n) # {}
  PROVE  /\ FirstUserPartition(n) \in 1 .. Len(partitions)
         /\ \A j \in AssignedUsers(n) : FirstUserPartition(n) <= part[j]
<1> DEFINE S == {part[j] : j \in AssignedUsers(n)}
<1>1. Len(partitions) \in Nat /\ \A j \in AssignedUsers(n) : part[j] \in 1 .. Len(partitions)
  BY DEF PartitionInv, ListsFit, ListsTyped, AssignedUsers, UsersOf
<1>2. S \in SUBSET Nat /\ S # {}
  BY <1>1
<1>3. \E p \in S : \A q \in S : p <= q
  <2> HIDE DEF S
  <2> QED
    BY <1>2, LeastNumber
<1>4. \E p \in S : \A j \in AssignedUsers(n) : p <= part[j]
  BY <1>3
<1>5. FirstUserPartition(n) \in S /\ \A j \in AssignedUsers(n) : FirstUserPartition(n) <= part[j]
  BY <1>4 DEF FirstUserPartition
<1> QED
  BY <1>1, <1>5

(* An attribute that is used is put before the nodes of the partition. *)
LEMMA PlacementCases ==
  ASSUME PartitionInv, NEW n \in Nodes, PlaceAttribute(n)
  PROVE  /\ queue = <<>> /\ n \in attrs /\ attrs' = attrs \ {n}
         /\ n \in Attributes(graph) /\ n \notin Computed /\ part[n] = 0
         /\ ListsFit(partitions', part') /\ Len(partitions') = Len(partitions)
         /\ \A m \in Nodes : m # n => part'[m] = part[m]
         /\ \A j \in UsersOf(n) : part[j] # 0 => part'[n] \in 1 .. part[j]
<1>1. /\ queue = <<>> /\ n \in attrs /\ attrs' = attrs \ {n}
      /\ n \in Attributes(graph) /\ n \notin Computed /\ part[n] = 0
  BY DEF PlaceAttribute, PartitionInv, AttributesInv, Computed
<1>2. /\ ListsFit(partitions, part) /\ partitions \in Seq(Seq(Nodes)) /\ Len(partitions) \in Nat
      /\ part \in [Nodes -> 0 .. Len(partitions)]
  BY DEF PartitionInv, ListsFit, ListsTyped
<1>3. \A i \in Nodes : <<i, n>> \notin graph.edges
  <2> SUFFICES ASSUME NEW i \in Nodes, <<i, n>> \in graph.edges PROVE FALSE
    OBVIOUS
  <2>1. n \in Computed
    BY GraphFacts DEF PartitionInv
  <2> QED
    BY <1>1, <2>1
<1>4. CASE AssignedUsers(n) = {}
  <2>1. partitions' = partitions /\ part' = part
    BY <1>4 DEF PlaceAttribute
  <2>2. \A j \in UsersOf(n) : part[j] = 0
    BY <1>4 DEF AssignedUsers
  <2> QED
    BY <1>1, <1>2, <2>1, <2>2
<1>5. CASE AssignedUsers(n) # {}
  <2> DEFINE p == FirstUserPartition(n)
  <2>1. partitions' = [partitions EXCEPT ![p] = <<n>> \o @] /\ part' = [part EXCEPT ![n] = p]
    BY <1>5 DEF PlaceAttribute
  <2>2. p \in 1 .. Len(partitions) /\ \A j \in AssignedUsers(n) : p <= part[j]
    BY <1>5, FirstUserFacts
  <2> HIDE DEF p
  <2>3. ListsFit(partitions', part')
    BY <1>1, <1>2, <1>3, <2>1, <2>2, PrependFits
  <2>4. Len(partitions') = Len(partitions)
    BY <1>2, <2>1
  <2>5. part'[n] = p /\ \A m \in Nodes : m # n => part'[m] = part[m]
    BY <1>2, <2>1
  <2>6. \A j \in UsersOf(n) : part[j] # 0 => p \in 1 .. part[j]
    <3> SUFFICES ASSUME NEW j \in UsersOf(n), part[j] # 0 PROVE p \in 1 .. part[j]
      OBVIOUS
    <3>1. j \in Nodes /\ part[j] \in 0 .. Len(partitions) /\ p <= part[j]
      BY <1>2, <2>2 DEF AssignedUsers, UsersOf
    <3> QED
      BY <1>2, <2>2, <3>1
  <2> QED
    BY <1>1, <2>3, <2>4, <2>5, <2>6
<1> QED
  BY <1>4, <1>5

LEMMA PlacementStep ==
  ASSUME PartitionInv, NEW n \in Nodes, PlaceAttribute(n)
  PROVE  PartitionInv'
<1>1. /\ queue = <<>> /\ n \in attrs /\ attrs' = attrs \ {n}
      /\ n \in Attributes(graph) /\ n \notin Computed /\ part[n] = 0
      /\ ListsFit(partitions', part') /\ Len(partitions') = Len(partitions)
      /\ \A m \in Nodes : m # n => part'[m] = part[m]
      /\ \A j \in UsersOf(n) : part[j] # 0 => part'[n] \in 1 .. part[j]
  BY PlacementCases
<1>2. graph' = graph /\ limit' = limit /\ queue' = queue /\ remaining' = remaining
      /\ targetsSeen' = targetsSeen
  BY DEF PlaceAttribute
<1>3. Computed' = Computed /\ Attributes(graph') = Attributes(graph) /\ Targets' = Targets
  BY <1>2 DEF Computed, Targets
<1>4. Placed' = Placed
  BY <1>1, <1>3 DEF Placed, Computed
<1>5. \A m : Awaited(m)' = Awaited(m)
  BY <1>2, <1>3, <1>4 DEF Awaited
<1>6. ListsFit(partitions, part)'
  <2>1. ListsTyped(partitions, part)' /\ ListsAgree(partitions, part)'
        /\ ListsHave(partitions, part)'
    BY <1>1 DEF ListsFit, ListsTyped, ListsAgree, ListsHave
  <2>2. \A p \in 1 .. Len(partitions') : IsOrdered(partitions'[p])
    BY <1>1 DEF ListsFit, ListsOrdered
  <2>3. \A p \in 1 .. Len(partitions') : IsOrdered(partitions[p])'
    BY <1>2, <2>2 DEF IsOrdered
  <2> QED
    BY <2>1, <2>3 DEF ListsFit, ListsOrdered
<1>7. QueueInv'
  <2>1. \A m : IsQueued(m)' <=> IsQueued(m)
    BY <1>2 DEF IsQueued
  <2> QED
    BY <1>2, <1>3, <1>4, <1>5, <2>1 DEF PartitionInv, QueueInv
<1>8. CountsInv'
  BY <1>2, <1>5 DEF PartitionInv, CountsInv
<1>9. OrderInv'
  <2>1. \A m \in Placed : m \in Nodes /\ m # n
    BY <1>1 DEF Placed, Computed
  <2> QED
    BY <1>1, <1>2, <1>4, <2>1 DEF PartitionInv, OrderInv
<1>10. AttributesInv'
  <2>1. \A j : j \in UsersOf(n) => j # n
    BY <1>1, GraphFacts DEF PartitionInv
  <2>2. attrs' \subseteq Attributes(graph) /\ \A a \in attrs' : part'[a] = 0
    <3>1. \A a \in attrs' : a \in attrs /\ a # n /\ a \in Nodes
      BY <1>1 DEF PartitionInv, AttributesInv, Attributes
    <3> QED
      BY <1>1, <3>1 DEF PartitionInv, AttributesInv
  <2>3. ASSUME NEW a \in Attributes(graph) \ attrs', NEW j \in UsersOf(a), part'[j] # 0
        PROVE  part'[a] \in 1 .. part'[j]
    <3>1. a \in Nodes /\ j \in Nodes /\ j \in Computed
      BY GraphFacts DEF PartitionInv, Attributes, UsersOf
    <3>2. j # n /\ part'[j] = part[j]
      BY <1>1, <3>1
    <3>3. CASE a = n
      BY <1>1, <2>3, <3>2, <3>3
    <3>4. CASE a # n
      <4>1. part'[a] = part[a] /\ a \notin attrs
        BY <1>1, <3>1, <3>4
      <4> QED
        BY <2>3, <3>2, <4>1 DEF PartitionInv, AttributesInv
    <3> QED
      BY <3>3, <3>4
  <2>4. \A a : UsersOf(a)' = UsersOf(a)
    BY <1>2 DEF UsersOf
  <2> QED
    BY <1>1, <1>2, <1>3, <2>2, <2>3, <2>4 DEF AttributesInv
<1>11. TargetsInv'
  <2>1. n \notin Targets
    BY <1>1 DEF Targets, Attributes
  <2>2. \A p : (Members(p) \cap Targets)' = Members(p) \cap Targets
    <3> SUFFICES ASSUME NEW p PROVE Members(p)' \cap Targets = Members(p) \cap Targets
      BY <1>3
    <3>1. \A m \in Targets : m \in Nodes /\ part'[m] = part[m]
      BY <1>1, <2>1 DEF Targets
    <3> QED
      BY <3>1 DEF Members
  <2> QED
    BY <1>1, <1>2, <2>2 DEF PartitionInv, TargetsInv
<1>12. OutputsInv'
  <2>1. graph.op[n] # "output"
    BY <1>1 DEF Attributes
  <2> QED
    BY <1>1, <1>2, <2>1 DEF PartitionInv, OutputsInv
<1> QED
  BY <1>2, <1>6, <1>7, <1>8, <1>9, <1>10, <1>11, <1>12 DEF PartitionInv

-----------------------------------------------------------------------------
(* The invariant *)

LEMMA PartitionStart == PartitionInit => PartitionInv
<1> SUFFICES ASSUME PartitionInit PROVE PartitionInv
  OBVIOUS
<1> USE DEF PartitionInit
<1>1. \A n \in Nodes : part[n] = 0
  OBVIOUS
<1>2. Placed = {} /\ \A n : Awaited(n) = InputsOf(graph, n) \ Attributes(graph)
  BY <1>1 DEF Placed, Awaited, Computed
<1>3. ListsFit(partitions, part)
  <2>1. partitions \in Seq(Seq(Nodes)) /\ Len(partitions) = 1 /\ partitions[1] = <<>>
    <3>1. <<>> \in Seq(Nodes)
      OBVIOUS
    <3> QED
      BY <3>1
  <2>2. \A p \in 1 .. Len(partitions) : \A k : k \notin 1 .. Len(partitions[p])
    BY <2>1
  <2>3. part \in [Nodes -> 0 .. Len(partitions)]
    BY <2>1
  <2> QED
    BY <1>1, <2>1, <2>2, <2>3 DEF ListsFit, ListsTyped, ListsAgree, ListsHave, ListsOrdered,
       IsOrdered
<1>4. CountsInv
  BY <1>2 DEF CountsInv, Indegrees
<1>5. QueueInv
  <2> DEFINE S == {n \in Computed : Awaited(n) = {}}
  <2>1. \A n \in Nodes : IsFiniteSet(Awaited(n))
    <3> SUFFICES ASSUME NEW n \in Nodes PROVE IsFiniteSet(Awaited(n))
      OBVIOUS
    <3>1. Awaited(n) \in SUBSET Nodes
      BY DEF Awaited, InputsOf
    <3> QED
      BY <3>1, PartitionAssumption, FS_Subset
  <2>2. \A n \in Nodes : remaining[n] = 0 <=> Awaited(n) = {}
    BY <1>4, <2>1, FS_EmptySet DEF CountsInv
  <2>3. Ready(remaining, Nodes \ Attributes(graph)) = S
    BY <2>2 DEF Ready, Computed
  <2>4. S \in SUBSET Nodes /\ IsFiniteSet(S)
    <3>1. S \in SUBSET Nodes
      BY DEF Computed
    <3> QED
      BY <3>1, PartitionAssumption, FS_Subset
  <2>5. queue \in Orderings(S)
    BY <2>3
  <2> HIDE DEF S, PartitionInit
  <2>6. queue \in Seq(S) /\ IsDistinct(queue) /\ \A x \in S : IsQueued(x)
    BY <2>4, <2>5, OrderingFacts DEF IsDistinct, IsQueued
  <2>7. queue \in Seq(Nodes)
    BY <2>4, <2>6
  <2>8. \A x : IsQueued(x) => x \in S
    BY <2>6 DEF IsQueued
  <2> QED
    BY <1>2, <2>6, <2>7, <2>8 DEF QueueInv, IsDistinct, S
<1>6. OrderInv /\ OutputsInv
  BY <1>1, <1>2 DEF OrderInv, OutputsInv
<1>7. AttributesInv
  BY <1>1 DEF AttributesInv, Attributes
<1>8. TargetsInv
  <2>1. \A p \in {1} : Members(p) \cap Targets = {}
    BY <1>1 DEF Members
  <2>2. Cardinality(Members(1) \cap Targets) = 0
    BY <2>1, FS_EmptySet
  <2>3. Len(partitions) = 1 /\ limit \in Nat /\ targetsSeen = 0
    BY PartitionAssumption
  <2> HIDE DEF PartitionInit
  <2>4. \A p \in 1 .. Len(partitions) : p = 1
    BY <2>3
  <2> QED
    BY <2>2, <2>3, <2>4 DEF TargetsInv
<1> QED
  BY <1>3, <1>4, <1>5, <1>6, <1>7, <1>8 DEF PartitionInv

LEMMA PartitionStep ==
  ASSUME GraphsAreSound, PartitionInv, [PartitionNext]_partVars
  PROVE  PartitionInv'
<1>1. CASE VisitNode
  BY <1>1, VisitStep
<1>2. CASE \E n \in Nodes : PlaceAttribute(n)
  BY <1>2, PlacementStep
<1>3. CASE UNCHANGED partVars
  <2> USE <1>3 DEF partVars, Computed, Placed, Awaited, Members, Targets, UsersOf
  <2>1. ListsFit(partitions, part)'
    BY DEF PartitionInv, ListsFit, ListsTyped, ListsAgree, ListsHave, ListsOrdered, IsOrdered
  <2>2. QueueInv' /\ CountsInv'
    BY DEF PartitionInv, QueueInv, CountsInv, IsQueued
  <2>3. OrderInv' /\ AttributesInv' /\ TargetsInv' /\ OutputsInv'
    BY DEF PartitionInv, OrderInv, AttributesInv, TargetsInv, OutputsInv
  <2> QED
    BY <2>1, <2>2, <2>3 DEF PartitionInv
<1> QED
  BY <1>1, <1>2, <1>3 DEF PartitionNext

-----------------------------------------------------------------------------
(* What the invariant says of the partitions *)

LEMMA InputsFirst == PartitionInv => InputsComeFirst
<1> SUFFICES ASSUME PartitionInv, NEW e \in graph.edges, part[e[2]] # 0, e[1] \notin attrs
             PROVE  part[e[1]] \in 1 .. part[e[2]]
  BY DEF InputsComeFirst
<1>1. e[1] \in Nodes /\ e[2] \in Computed /\ e[2] \in Nodes /\ e = <<e[1], e[2]>>
  BY GraphFacts DEF PartitionInv
<1>2. \A n \in Nodes : part[n] \in Nat
  BY DEF PartitionInv, ListsFit, ListsTyped
<1>3. e[2] \in Placed
  BY <1>1 DEF Placed
<1>4. CASE e[1] \in Attributes(graph)
  <2>1. e[2] \in UsersOf(e[1])
    BY <1>1 DEF UsersOf
  <2> QED
    BY <1>4, <2>1 DEF PartitionInv, AttributesInv
<1>5. CASE e[1] \notin Attributes(graph)
  <2>1. Awaited(e[2]) = {}
    BY <1>3 DEF PartitionInv, QueueInv
  <2>2. e[1] \in Placed
    BY <1>1, <1>5, <2>1 DEF Awaited, InputsOf
  <2>3. part[e[1]] # 0 /\ part[e[1]] <= part[e[2]]
    BY <1>3, <2>2 DEF Placed, PartitionInv, OrderInv
  <2> QED
    BY <1>1, <1>2, <2>3
<1> QED
  BY <1>4, <1>5

(* A graph without cycles is placed completely. *)
LEMMA AllArePlaced ==
  ASSUME GraphsAreSound, PartitionInv, queue = <<>>
  PROVE  Placed = Computed
<1> DEFINE S == Computed \ Placed
<1>1. graph \in Graphs /\ S \in SUBSET Nodes /\ Placed \subseteq Computed
  BY DEF PartitionInv, Computed, Placed
<1>2. S = {}
  <2> SUFFICES ASSUME S # {} PROVE FALSE
    OBVIOUS
  <2>1. \E n \in S : InputsOf(graph, n) \cap S = {}
    <3> HIDE DEF S
    <3> QED
      BY <1>1 DEF GraphsAreSound
  <2>2. PICK n \in S : InputsOf(graph, n) \cap S = {}
    BY <2>1
  <2>3. Awaited(n) = {}
    BY <2>2 DEF Awaited, Computed, InputsOf
  <2>4. IsQueued(n)
    BY <1>1, <2>2, <2>3 DEF PartitionInv, QueueInv
  <2> QED
    BY <2>4 DEF IsQueued
<1> QED
  BY <1>1, <1>2

LEMMA NodesArePlacedOnce == GraphsAreSound /\ PartitionInv => EveryNodeIsPlaced
<1> SUFFICES ASSUME GraphsAreSound, PartitionInv, Done, NEW n \in Nodes \ Attributes(graph)
             PROVE  Cardinality({x \in Indices \X (1 .. Cardinality(Nodes)) :
                      x[2] \in DOMAIN partitions[x[1]] /\ partitions[x[1]][x[2]] = n}) = 1
  BY DEF EveryNodeIsPlaced
<1> DEFINE p == part[n]
           c == Cardinality(Nodes)
           X == {x \in Indices \X (1 .. c) : x[2] \in DOMAIN partitions[x[1]]
                /\ partitions[x[1]][x[2]] = n}
<1>1. n \in Placed /\ n \in Nodes /\ p # 0
  BY AllArePlaced DEF Done, Computed, Placed
<1>2. /\ partitions \in Seq(Seq(Nodes)) /\ Indices = 1 .. Len(partitions) /\ Len(partitions) \in Nat
      /\ \A m \in Nodes : part[m] \in 0 .. Len(partitions)
  BY DEF PartitionInv, ListsFit, ListsTyped, Indices
<1>3. p \in Indices
  BY <1>1, <1>2
<1>4. /\ partitions[p] \in Seq(Nodes) /\ Len(partitions[p]) \in Nat
      /\ \A o \in Indices : DOMAIN partitions[o] = 1 .. Len(partitions[o])
  BY <1>2, <1>3
<1>5. \A o \in Indices : \A k \in 1 .. Len(partitions[o]) : part[partitions[o][k]] = o
  BY <1>2 DEF PartitionInv, ListsFit, ListsAgree
<1>6. \A k, l \in 1 .. Len(partitions[p]) : partitions[p][k] = partitions[p][l] => k = l
  BY <1>2, <1>3 DEF PartitionInv, ListsFit, ListsOrdered, IsOrdered
<1>7. PICK k \in 1 .. Len(partitions[p]) : partitions[p][k] = n
  BY <1>1 DEF PartitionInv, ListsFit, ListsHave
<1>8. k \in 1 .. c
  <2> DEFINE m == Len(partitions[p])
             f == partitions[p]
  <2>1. f \in [1 .. m -> Nodes] /\ m \in Nat
    BY <1>4
  <2> HIDE DEF c
  <2>2. f \in Injection(1 .. m, Nodes)
    BY <1>6, <2>1 DEF Injection, IsInjective
  <2> HIDE DEF m, f
  <2>3. Cardinality(1 .. m) <= Cardinality(Nodes) /\ Cardinality(Nodes) \in Nat
    BY <2>2, PartitionAssumption, FS_Injection, FS_CardinalityType
  <2>4. Cardinality(1 .. m) = m
    BY <2>1, FS_Interval
  <2> QED
    BY <1>7, <2>1, <2>3, <2>4 DEF m, c
<1> HIDE DEF p, c
<1>9. X = {<<p, k>>}
  <2>1. <<p, k>> \in X
    BY <1>3, <1>4, <1>7, <1>8
  <2>2. ASSUME NEW x \in X PROVE x = <<p, k>>
    <3>1. x[1] \in Indices /\ x[2] \in 1 .. Len(partitions[x[1]]) /\ partitions[x[1]][x[2]] = n
          /\ x = <<x[1], x[2]>>
      BY <1>4
    <3>2. x[1] = p
      BY <1>5, <3>1 DEF p
    <3>3. x[2] = k
      BY <1>6, <1>7, <3>1, <3>2
    <3> QED
      BY <3>1, <3>2, <3>3
  <2> QED
    BY <2>1, <2>2
<1>10. Cardinality({<<p, k>>}) = 1
  BY FS_Singleton
<1> QED
  BY <1>9, <1>10 DEF c

LEMMA PartitionsExecute == GraphsAreSound /\ PartitionInv => SubgraphsAreExecutable
<1> SUFFICES ASSUME GraphsAreSound, PartitionInv, Done
             PROVE  Executable(InputNames, OutputNames, Placeholders)
                    /\ NothingWasted(InputNames, OutputNames)
  BY DEF SubgraphsAreExecutable
<1>1. /\ DOMAIN InputNames = Indices /\ DOMAIN OutputNames = Indices
      /\ Indices = 1 .. Len(partitions) /\ Len(partitions) \in Nat
      /\ \A n \in Nodes : part[n] \in 0 .. Len(partitions)
  BY DEF PartitionInv, ListsFit, ListsTyped, Indices, InputNames, OutputNames
<1>2. \A e \in graph.edges : part[e[2]] # 0 => part[e[1]] \in 1 .. part[e[2]]
  BY InputsFirst DEF Done, InputsComeFirst
<1>3. \A i, j : <<i, j>> \in graph.edges => i \in Nodes /\ j \in Nodes /\ j \in Placed
  BY AllArePlaced, GraphFacts DEF PartitionInv, Done
<1>4. \A p \in Indices : \A n : n \in Members(p) <=> n \in Nodes /\ part[n] = p
  BY DEF Members
<1>5. ASSUME NEW s \in Indices, NEW i \in InputNames[s]
      PROVE i \in Placeholders \cup Earlier(OutputNames, s)
  <2>1. CASE i \in {n \in Members(s) : graph.op[n] = "placeholder"}
    BY <1>4, <2>1 DEF Placeholders
  <2>2. CASE i \in Nodes \ Members(s) /\ \E j \in Members(s) : <<i, j>> \in graph.edges
    <3>1. PICK j \in Members(s) : <<i, j>> \in graph.edges
      BY <2>2
    <3> DEFINE u == part[i]
    <3>2. part[j] = s /\ j \in Nodes /\ s # 0 /\ u # s
      BY <1>1, <1>4, <2>2, <3>1
    <3>3. u \in 1 .. s
      BY <1>2, <3>1, <3>2
    <3>4. u \in Indices /\ u < s
      BY <1>1, <3>2, <3>3
    <3>5. ~ \E o \in Members(u) : graph.op[o] = "output"
      <4> SUFFICES ASSUME NEW o \in Members(u), graph.op[o] = "output" PROVE FALSE
        OBVIOUS
      <4>1. o \in Nodes /\ part[o] = u /\ u # 0
        BY <1>1, <1>4, <3>4
      <4>2. u = Len(partitions)
        BY <4>1 DEF PartitionInv, OutputsInv
      <4> QED
        BY <1>1, <3>4, <4>2
    <3>6. i \in Members(u) /\ j \in UsersOf(i) /\ j \notin Members(u)
      BY <1>4, <2>2, <3>1, <3>2, <3>4 DEF UsersOf
    <3>7. i \in OutputNames[u]
      BY <3>4, <3>5, <3>6 DEF OutputNames
    <3> HIDE DEF u
    <3> QED
      BY <1>1, <3>4, <3>7 DEF Earlier
  <2> QED
    BY <2>1, <2>2 DEF InputNames
<1>6. ASSUME NEW s \in Indices, NEW n \in OutputNames[s] PROVE n \in Later(InputNames, s)
  <2>1. n \in Members(s) /\ \E j \in UsersOf(n) : j \notin Members(s)
    BY DEF OutputNames
  <2>2. PICK j \in UsersOf(n) : j \notin Members(s)
    BY <2>1
  <2>3. n \in Nodes /\ part[n] = s /\ <<n, j>> \in graph.edges
    BY <1>4, <2>1, <2>2 DEF UsersOf
  <2> DEFINE t == part[j]
  <2>4. j \in Nodes /\ t # 0 /\ t # s
    BY <1>3, <1>4, <2>2, <2>3 DEF Placed
  <2>5. t \in Indices /\ t > s
    <3>1. part[n] \in 1 .. part[j]
      BY <1>2, <2>3, <2>4
    <3> QED
      BY <1>1, <2>3, <2>4, <3>1
  <2>6. j \in Members(t) /\ n \in Nodes \ Members(t)
    BY <1>4, <2>3, <2>4, <2>5
  <2>7. n \in InputNames[t]
    BY <2>3, <2>5, <2>6 DEF InputNames
  <2> HIDE DEF t
  <2> QED
    BY <1>1, <2>5, <2>7 DEF Later
<1> QED
  BY <1>1, <1>5, <1>6 DEF Executable, NothingWasted

(* Whatever the traced graph and the number of targets per subgraph, the partitions of a
   graph without cycles can be executed one after the other, compute each of its nodes once
   and write only what a later one reads; none has more targets than asked
   (topological_partition, partition_graph).  A target that does not contribute to the
   output could open a partition after the one that ends the model. *)
THEOREM PartitionsAreAlwaysSound == GraphsAreSound /\ PartitionSpec => []PartitionsAreSound
<1> SUFFICES ASSUME GraphsAreSound PROVE PartitionSpec => []PartitionsAreSound
  OBVIOUS
<1>1. PartitionInv => PartitionsAreSound
  <2> SUFFICES ASSUME PartitionInv PROVE PartitionsAreSound
    OBVIOUS
  <2>1. PartitionsAreOrdered
    <3>1. Indices = 1 .. Len(partitions)
          /\ \A p \in Indices : DOMAIN partitions[p] = 1 .. Len(partitions[p])
      BY DEF PartitionInv, ListsFit, ListsTyped, Indices
    <3> QED
      BY <3>1 DEF PartitionInv, ListsFit, ListsOrdered, IsOrdered, PartitionsAreOrdered
  <2>2. TargetsAreBounded
    <3>1. Indices = 1 .. Len(partitions)
      BY DEF PartitionInv, ListsFit, ListsTyped, Indices
    <3> QED
      BY <3>1 DEF PartitionInv, TargetsInv, TargetsAreBounded
  <2> QED
    BY <2>1, <2>2, InputsFirst, NodesArePlacedOnce, PartitionsExecute
    DEF PartitionsAreSound, OrderIsTopological
<1>2. PartitionSpec => []PartitionInv
  BY PartitionStart, PartitionStep, PTL DEF PartitionSpec
<1> QED
  BY <1>1, <1>2, PTL

-----------------------------------------------------------------------------

(***************************************************************************)
(* AutoRound goes through its pipeline once: before, no layer is tuned and *)
(* nothing is captured, after, all are.  In between, the layers before the *)
(* subgraph at hand are tuned, the layer of the subgraph has captured the  *)
(* inputs of the batches so far, and no hook is left on a tuned layer.     *)
(***************************************************************************)

Captured(n) == [b \in 1 .. n |-> <<b, {}>>]
SubgraphOf(l) == ((l - 1) \div group) + 1

(* No subgraph has more than one layer. *)
IsSingle == group = 1 \/ NumLayers = 1

InPipeline == {"pass", "epoch", "tune", "propagate", "end"}

(* The number of layers whose tuning has begun. *)
Begun(i, j) ==
  IF pipe < i \/ (pipe = i /\ phase = "start") THEN 0
  ELSE IF pipe = i /\ (phase = "pass" \/ (phase = "epoch" /\ turn <= j)) THEN sub - 1
  ELSE IF pipe = i /\ phase \in {"epoch", "tune", "propagate"} /\ sub <= NumLayers THEN sub
  ELSE NumLayers

(* The parameters of the modules of a layer, wherever they are. *)
ParamsOf(l) == IF phase = "tune" /\ l \in Decoding THEN collected ELSE qparams[l]

Marks == {"none", "new", "observed", "tuned"}

PlanOK(i, j) ==
  /\ group \in Nat \ {0}
  /\ plan \in Seq(Seq({"ar", "qm"})) /\ \A k \in 1 .. Len(plan) : plan[k] # <<>>
  /\ TunesAt(plan, i, j)

PlacesOK(i, j) ==
  /\ pipe \in 1 .. Len(plan) /\ sub \in 1 .. NumSubgraphs
  /\ phase \in {"start", "done"} \cup InPipeline
  /\ phase = "pass" => turn \in 1 .. TuningBatches
  /\ phase \in {"epoch", "tune"} => turn \in 1 .. Len(Modifiers)
  /\ phase = "tune" => pipe = i /\ turn = j /\ sub <= NumLayers
  /\ phase = "propagate" => turn = 1
  /\ phase = "end" => sub = NumSubgraphs
  /\ phase = "done" => pipe = Len(plan)

TunedOK(k) ==
  /\ k \in 0 .. NumLayers /\ (k > 0 => IsSingle)
  /\ tunedOn = [l \in Layers |-> IF l <= k THEN <<Captured(TuningBatches), l - 1>> ELSE <<>>]

Waiting(i, j) ==
  IF pipe = i /\ phase = "pass" THEN Captured(turn - 1)
  ELSE IF pipe = i /\ phase = "epoch" /\ turn <= j THEN Captured(TuningBatches)
  ELSE <<>>

CaptureOK(i, j, k) ==
  /\ hooked = IF pipe = i /\ phase \in InPipeline THEN {l \in Layers : l > k} ELSE {}
  /\ moduleInput = [l \in Layers |-> IF l \in Decoding THEN Waiting(i, j) ELSE <<>>]
  /\ pipe < i \/ (pipe = i /\ phase = "start") => qInput = 0
  /\ pipe = i /\ phase \in InPipeline =>
       /\ propagateError = FALSE
       /\ through = [b \in 1 .. TuningBatches |-> {}]
       /\ qInput = IF phase = "tune" THEN k - 1 ELSE k

HasObserver(p) == \E n \in 1 .. Len(p) : p[n] = "qm"

(* A quantization modifier has had its turn for layer l. *)
IsObserved(l) ==
  \/ \E i \in 1 .. Len(plan) : i < pipe /\ HasObserver(plan[i])
  \/ phase \in {"pass", "epoch", "tune", "propagate"}
     /\ SubgraphOf(l) < sub /\ HasObserver(Modifiers)
  \/ phase \in {"epoch", "tune"} /\ SubgraphOf(l) = sub
     /\ \E n \in 1 .. Len(Modifiers) : n < turn /\ Modifiers[n] = "qm"
  \/ phase = "propagate" /\ SubgraphOf(l) = sub /\ HasObserver(Modifiers)
  \/ phase \in {"end", "done"} /\ HasObserver(Modifiers)

ParamsTyped ==
  /\ qparams \in [Layers -> [Modules -> Marks]] /\ collected \in [Modules -> Marks]
  /\ scheme \in [Layers -> SUBSET Modules]

(* Layer l has been tuned, if IsTuned. *)
OwnOK(l, params, IsTuned) ==
  /\ Others \subseteq scheme[l]
  /\ IsTuned => \A m \in Own : params[m] = IF m \in scheme[l] THEN "tuned" ELSE "none"
  /\ ~ IsTuned => Own \subseteq scheme[l] /\ \A m \in Own : params[m] = "new"

OthersOK(params, Observed) ==
  \A m \in Others \ Linear :
    /\ params[m] \in {"new", "observed"}
    /\ Observed => params[m] = "observed"

ParamsOK(k) ==
  /\ ParamsTyped
  /\ \A l \in Layers : OwnOK(l, ParamsOf(l), l <= (IF phase = "tune" THEN k - 1 ELSE k))
  /\ \A l \in Layers : OthersOK(ParamsOf(l), IsObserved(l))

(* A pipeline with several layers in a subgraph stops before any is tuned. *)
RaisedOK == phase = "raised" => group > 1 /\ tunedOn = [l \in Layers |-> <<>>]

TuningInv(i, j) ==
  /\ PlanOK(i, j)
  /\ RaisedOK
  /\ phase # "raised" =>
       /\ PlacesOK(i, j)
       /\ TunedOK(Begun(i, j))
       /\ CaptureOK(i, j, Begun(i, j))
       /\ ParamsOK(Begun(i, j))

AutoRoundInv == \E i \in 1 .. Len(plan) : \E j \in 1 .. Len(plan[i]) : TuningInv(i, j)

-----------------------------------------------------------------------------

LEMMA SubgraphFacts ==
  ASSUME group \in Nat \ {0}
  PROVE  /\ NumSubgraphs \in Nat /\ NumSubgraphs >= 1
         /\ \A l \in Layers : SubgraphOf(l) \in 1 .. NumSubgraphs
         /\ sub \in Nat => Decoding = {l \in Layers : SubgraphOf(l) = sub}
<1>0. NumLayers \in Nat \ {0} /\ Layers = 1 .. NumLayers
  BY AutoRoundAssumption DEF Layers
<1> DEFINE a == NumLayers + group - 1
<1>1. a \in Nat
  BY <1>0
<1>2. NumSubgraphs = (a \div group) + 1 /\ a \div group \in Nat
  BY <1>1, Division DEF NumSubgraphs
<1>3. ASSUME NEW l \in Layers PROVE (l - 1) \div group \in Nat /\ (l - 1) \div group <= a \div group
  <2>1. l - 1 \in Nat /\ l - 1 <= a
    BY <1>0
  <2>2. (l - 1) \div group \in Nat
    BY <2>1, Division
  <2>3. (l - 1) \div group <= a \div group
    <3> HIDE DEF a
    <3> QED
      BY <1>1, <2>1, DivisionGrows
  <2> QED
    BY <2>2, <2>3
<1> HIDE DEF a
<1>4. NumSubgraphs \in Nat /\ NumSubgraphs >= 1
  BY <1>2
<1>5. \A l \in Layers : SubgraphOf(l) \in 1 .. NumSubgraphs
  BY <1>2, <1>3 DEF SubgraphOf
<1>6. ASSUME sub \in Nat PROVE Decoding = {l \in Layers : SubgraphOf(l) = sub}
  <2>1. \A l \in Layers : (l - 1) \div group = sub - 1 <=> SubgraphOf(l) = sub
    BY <1>3, <1>6 DEF SubgraphOf
  <2> QED
    BY <2>1 DEF Decoding
<1> QED
  BY <1>4, <1>5, <1>6

LEMMA SingleFacts ==
  ASSUME group \in Nat \ {0}, IsSingle
  PROVE  /\ NumSubgraphs = NumLayers + 1
         /\ \A l \in Layers : SubgraphOf(l) = l
<1>0. NumLayers \in Nat \ {0} /\ Layers = 1 .. NumLayers
  BY AutoRoundAssumption DEF Layers
<1>1. CASE group = 1
  <2>1. ASSUME NEW n \in Nat PROVE n \div 1 = n
    <3>1. (n * 1) \div 1 = n
      BY DivisionOfMultiple
    <3> QED
      BY <3>1
  <2>2. NumSubgraphs = NumLayers + 1
    <3>1. NumLayers + group - 1 = NumLayers
      BY <1>0, <1>1
    <3> QED
      BY <3>1, <2>1, <1>0, <1>1 DEF NumSubgraphs
  <2>3. ASSUME NEW l \in Layers PROVE SubgraphOf(l) = l
    <3>1. l - 1 \in Nat
      BY <1>0
    <3>2. (l - 1) \div group = l - 1
      BY <3>1, <2>1, <1>1
    <3> QED
      BY <3>2, <1>0 DEF SubgraphOf
  <2> QED
    BY <2>2, <2>3
<1>2. CASE NumLayers = 1
  <2>1. (1 * group) \div group = 1 /\ (0 * group) \div group = 0
    <3>1. (1 * group) \div group = 1
      BY DivisionOfMultiple
    <3>2. (0 * group) \div group = 0
      BY DivisionOfMultiple
    <3> QED
      BY <3>1, <3>2
  <2>2. 1 * group = NumLayers + group - 1 /\ 0 * group = 0
    BY <1>2
  <2>3. NumSubgraphs = NumLayers + 1
    BY <2>1, <2>2, <1>2 DEF NumSubgraphs
  <2>4. ASSUME NEW l \in Layers PROVE SubgraphOf(l) = l
    <3>1. l = 1
      BY <1>0, <1>2
    <3> QED
      BY <3>1, <2>1, <2>2 DEF SubgraphOf
  <2> QED
    BY <2>3, <2>4
<1> QED
  BY <1>1, <1>2 DEF IsSingle

(* Whether a subgraph has more than one layer is known in the first. *)
LEMMA CrowdedFacts ==
  ASSUME group \in Nat \ {0}, sub \in Nat
  PROVE  /\ Cardinality(Decoding) > 1 => ~ IsSingle
         /\ sub = 1 => 1 \in Decoding /\ (Cardinality(Decoding) > 1 \/ IsSingle)
<1>0. NumLayers \in Nat \ {0} /\ Layers = 1 .. NumLayers
  BY AutoRoundAssumption DEF Layers
<1>1. IsFiniteSet(Decoding)
  <2>1. IsFiniteSet(Layers)
    BY <1>0, FS_Interval
  <2> QED
    BY <2>1, FS_Subset DEF Decoding
<1>2. Cardinality(Decoding) \in Nat
  BY <1>1, FS_CardinalityType
<1>3. ASSUME IsSingle, Cardinality(Decoding) > 1 PROVE FALSE
  <2>1. Decoding \subseteq {sub}
    BY <1>3, SingleFacts, SubgraphFacts
  <2>2. IsFiniteSet({sub}) /\ Cardinality({sub}) = 1
    BY FS_Singleton
  <2>3. Cardinality(Decoding) <= 1
    BY <2>1, <2>2, FS_Subset
  <2> QED
    BY <1>2, <1>3, <2>3
<1>4. ASSUME sub = 1 PROVE 1 \in Decoding /\ (Cardinality(Decoding) > 1 \/ IsSingle)
  <2>1. (0 * group) \div group = 0 /\ 0 * group = 0
    BY DivisionOfMultiple
  <2>2. 1 \in Decoding
    BY <1>0, <1>4, <2>1 DEF Decoding
  <2>3. ASSUME ~ IsSingle PROVE Cardinality(Decoding) > 1
    <3>1. group > 1 /\ 2 \in Layers
      BY <1>0, <2>3 DEF IsSingle
    <3>2. 1 \div group = 0
      <4> DEFINE q == 1 \div group
                 p == group * q
                 m == 1 % group
      <4>1. q \in Nat /\ m \in Nat /\ 1 = p + m
        BY Division
      <4>2. q >= 1 => p >= group
        <5>1. ASSUME q >= 1 PROVE group * 1 <= group * q
          <6> HIDE DEF q
          <6> QED
            BY <4>1, <5>1, ProductsGrow
        <5> QED
          BY <5>1
      <4>3. p \in Int
        BY <4>1
      <4> HIDE DEF q, p, m
      <4>4. q = 0
        BY <4>1, <4>2, <4>3, <3>1
      <4> QED
        BY <4>4 DEF q
    <3>3. {1, 2} \subseteq Decoding
      BY <2>2, <3>1, <3>2, <1>4 DEF Decoding
    <3>4. Cardinality({1, 2}) = 2
      <4>1. IsFiniteSet({1}) /\ Cardinality({1}) = 1
        BY FS_Singleton
      <4>2. Cardinality({1} \cup {2}) = 2
        BY <4>1, FS_AddElement
      <4>3. {1} \cup {2} = {1, 2}
        OBVIOUS
      <4> QED
        BY <4>2, <4>3
    <3>5. Cardinality({1, 2}) <= Cardinality(Decoding)
      BY <3>3, <1>1, FS_Subset
    <3> QED
      BY <3>4, <3>5, <1>2
  <2> QED
    BY <2>2, <2>3
<1> QED
  BY <1>3, <1>4

LEMMA PlaceFacts ==
  ASSUME NEW i, NEW j, PlanOK(i, j), pipe \in 1 .. Len(plan)
  PROVE  /\ i \in 1 .. Len(plan) /\ j \in 1 .. Len(plan[i])
         /\ Modifiers \in Seq({"ar", "qm"}) /\ Len(Modifiers) >= 1
         /\ IsPresent("ar") <=> pipe = i
         /\ IsPresent("qm") <=> HasObserver(Modifiers)
         /\ \A n \in 1 .. Len(Modifiers) :
              Modifiers[n] \in {"ar", "qm"} /\ (Modifiers[n] = "ar" <=> pipe = i /\ n = j)
<1>1. Modifiers \in Seq({"ar", "qm"}) /\ Modifiers # <<>>
  BY DEF PlanOK, Modifiers
<1>2. Len(Modifiers) \in Nat /\ DOMAIN Modifiers = 1 .. Len(Modifiers)
      /\ \A n \in 1 .. Len(Modifiers) : Modifiers[n] \in {"ar", "qm"}
  BY <1>1, ElementOfSeq
<1>3. Len(Modifiers) >= 1
  BY <1>1, <1>2, EmptySeq
<1>4. \A n \in 1 .. Len(Modifiers) : Modifiers[n] = "ar" <=> pipe = i /\ n = j
  BY DEF PlanOK, TunesAt, Modifiers
<1>5. i \in 1 .. Len(plan) /\ j \in 1 .. Len(plan[i])
  BY DEF PlanOK, TunesAt
<1>6. IsPresent("ar") <=> pipe = i
  <2>1. pipe = i => j \in 1 .. Len(Modifiers)
    BY <1>5 DEF Modifiers
  <2> QED
    BY <1>2, <1>4, <2>1 DEF IsPresent
<1>7. IsPresent("qm") <=> HasObserver(Modifiers)
  BY <1>2 DEF IsPresent, HasObserver
<1> QED
  BY <1>1, <1>2, <1>3, <1>4, <1>5, <1>6, <1>7

LEMMA AutoRoundStart == PlansTuneOnce /\ AutoRoundInit => AutoRoundInv
<1> SUFFICES ASSUME PlansTuneOnce, AutoRoundInit PROVE AutoRoundInv
  OBVIOUS
<1>0. NumLayers \in Nat \ {0} /\ Layers = 1 .. NumLayers /\ TuningBatches \in Nat \ {0}
  BY AutoRoundAssumption DEF Layers
<1>1. PICK i \in 1 .. Len(plan) : \E j \in 1 .. Len(plan[i]) : TunesAt(plan, i, j)
  BY DEF PlansTuneOnce, AutoRoundInit
<1>2. PICK j \in 1 .. Len(plan[i]) : TunesAt(plan, i, j)
  BY <1>1
<1>3. PlanOK(i, j)
  BY <1>2, AutoRoundAssumption DEF PlansTuneOnce, AutoRoundInit, PlanOK
<1>4. phase = "start" /\ pipe = 1 /\ sub = 1 /\ i \in Nat /\ i >= 1 /\ Len(plan) \in Nat
  BY <1>3 DEF AutoRoundInit, PlanOK
<1>5. Begun(i, j) = 0
  BY <1>4 DEF Begun
<1>6. PlacesOK(i, j)
  <2>1. sub \in 1 .. NumSubgraphs
    BY <1>3, <1>4, SubgraphFacts DEF PlanOK
  <2>2. pipe \in 1 .. Len(plan)
    BY <1>4, <1>3 DEF PlanOK
  <2> QED
    BY <2>1, <2>2, <1>4 DEF PlacesOK
<1>7. TunedOK(0)
  <2>1. \A l \in Layers : ~ (l <= 0)
    BY <1>0
  <2> QED
    BY <2>1, <1>0 DEF AutoRoundInit, TunedOK
<1>8. CaptureOK(i, j, 0)
  BY <1>4 DEF AutoRoundInit, CaptureOK, InPipeline, Waiting
<1>9. ParamsOK(0)
  <2>1. ParamsTyped
    BY AutoRoundAssumption DEF AutoRoundInit, ParamsTyped, Marks, Own
  <2>2. \A l \in Layers : ~ (l <= 0) /\ ParamsOf(l) = qparams[l]
    BY <1>0, <1>4 DEF ParamsOf
  <2>3. \A l \in Layers : OwnOK(l, qparams[l], FALSE)
    BY AutoRoundAssumption DEF AutoRoundInit, OwnOK, Own
  <2>4. \A l \in Layers : ~ IsObserved(l)
    BY <1>4, <1>3 DEF IsObserved
  <2>5. \A l \in Layers : OthersOK(qparams[l], FALSE)
    BY AutoRoundAssumption DEF AutoRoundInit, OthersOK, Own
  <2>6. \A l \in Layers : OwnOK(l, ParamsOf(l), l <= (IF phase = "tune" THEN 0 - 1 ELSE 0))
    BY <2>2, <2>3, <1>4 DEF OwnOK
  <2>7. \A l \in Layers : OthersOK(ParamsOf(l), IsObserved(l))
    BY <2>2, <2>4, <2>5 DEF OthersOK
  <2> QED
    BY <2>1, <2>6, <2>7 DEF ParamsOK
<1>10. TuningInv(i, j)
  BY <1>3, <1>4, <1>5, <1>6, <1>7, <1>8, <1>9 DEF TuningInv, RaisedOK
<1> QED
  BY <1>10 DEF AutoRoundInv

(* What the plan says stays. *)
LEMMA PlanStays ==
  ASSUME NEW i, NEW j, PlanOK(i, j), UNCHANGED arSetup
  PROVE  /\ PlanOK(i, j)' /\ NumSubgraphs' = NumSubgraphs
         /\ IsSingle' = IsSingle
         /\ \A l : SubgraphOf(l)' = SubgraphOf(l)
         /\ sub' = sub => Decoding' = Decoding
         /\ pipe' = pipe => Modifiers' = Modifiers
<1>1. plan' = plan /\ group' = group
  BY DEF arSetup
<1>2. PlanOK(i, j)'
  BY <1>1 DEF PlanOK, TunesAt
<1>3. NumSubgraphs' = NumSubgraphs
  BY <1>1 DEF NumSubgraphs
<1>4. IsSingle' = IsSingle
  BY <1>1 DEF IsSingle
<1>5. \A l : SubgraphOf(l)' = SubgraphOf(l)
  BY <1>1 DEF SubgraphOf
<1>6. sub' = sub => Decoding' = Decoding
  BY <1>1 DEF Decoding
<1>7. pipe' = pipe => Modifiers' = Modifiers
  BY <1>1 DEF Modifiers
<1> QED
  BY <1>2, <1>3, <1>4, <1>5, <1>6, <1>7

(* After a modifier has had its turn, a layer is observed if it was, or if the modifier
   observes the layers of the subgraph. *)
LEMMA NextModifierFacts ==
  ASSUME NEW i, NEW j, PlanOK(i, j), PlacesOK(i, j), phase \in {"epoch", "tune"}, NextModifier,
         UNCHANGED <<arSetup, pipe, sub>>
  PROVE  /\ PlacesOK(i, j)'
         /\ \/ phase' = "epoch" /\ turn' = turn + 1
            \/ phase' = "propagate" /\ turn = Len(Modifiers)
         /\ \A l : IsObserved(l)' =>
              IsObserved(l) \/ (SubgraphOf(l) = sub /\ Modifiers[turn] = "qm")
<1>1. /\ Modifiers' = Modifiers /\ NumSubgraphs' = NumSubgraphs /\ pipe' = pipe /\ plan' = plan
      /\ sub' = sub /\ \A l : SubgraphOf(l)' = SubgraphOf(l)
  BY PlanStays DEF arSetup
<1>2. Len(Modifiers) \in Nat /\ turn \in 1 .. Len(Modifiers)
  BY PlaceFacts, LenProperties DEF PlacesOK
<1>3. \/ phase' = "epoch" /\ turn' = turn + 1 /\ turn < Len(Modifiers)
      \/ phase' = "propagate" /\ turn = Len(Modifiers) /\ turn' = 1
  BY <1>2 DEF NextModifier
<1>4. PlacesOK(i, j)'
  BY <1>1, <1>2, <1>3 DEF PlacesOK, InPipeline
<1>5. ASSUME NEW l, IsObserved(l)'
      PROVE  IsObserved(l) \/ (SubgraphOf(l) = sub /\ Modifiers[turn] = "qm")
  <2>1. CASE \E n \in 1 .. Len(plan) : n < pipe /\ HasObserver(plan[n])
    BY <2>1 DEF IsObserved
  <2>2. CASE SubgraphOf(l) < sub /\ HasObserver(Modifiers)
    BY <2>2 DEF IsObserved
  <2>3. CASE SubgraphOf(l) = sub /\ \E n \in 1 .. Len(Modifiers) : n <= turn /\ Modifiers[n] = "qm"
    <3>1. PICK n \in 1 .. Len(Modifiers) : n <= turn /\ Modifiers[n] = "qm"
      BY <2>3
    <3>2. n = turn \/ n < turn
      BY <3>1, <1>2
    <3> QED
      BY <2>3, <3>1, <3>2 DEF IsObserved
  <2>4. CASE phase' = "epoch"
    <3>1. \A n \in 1 .. Len(Modifiers) : n < turn + 1 => n <= turn
      BY <1>2
    <3>2. turn' = turn + 1
      BY <1>3, <2>4
    <3> QED
      BY <1>1, <1>5, <2>1, <2>2, <2>3, <2>4, <3>1, <3>2 DEF IsObserved, HasObserver
  <2>5. CASE phase' = "propagate"
    <3>1. \A n \in 1 .. Len(Modifiers) : n <= turn
      BY <1>2, <1>3, <2>5
    <3> QED
      BY <1>1, <1>5, <2>1, <2>2, <2>3, <2>5, <3>1 DEF IsObserved, HasObserver
  <2> QED
    BY <1>3, <2>4, <2>5
<1> QED
  BY <1>3, <1>4, <1>5

LEMMA StartPipelineStep ==
  ASSUME NEW i, NEW j, TuningInv(i, j), StartPipeline
  PROVE  TuningInv(i, j)'
<1>0. /\ NumLayers \in Nat \ {0} /\ Layers = 1 .. NumLayers /\ TuningBatches \in Nat \ {0}
      /\ phase = "start" /\ phase' = "pass" /\ sub' = 1 /\ turn' = 1 /\ pipe' = pipe /\ plan' = plan
  BY AutoRoundAssumption DEF Layers, StartPipeline, arSetup
<1>1. PlanOK(i, j) /\ PlacesOK(i, j) /\ TunedOK(Begun(i, j)) /\ CaptureOK(i, j, Begun(i, j))
      /\ ParamsOK(Begun(i, j))
  BY <1>0 DEF TuningInv
<1>2. /\ PlanOK(i, j)' /\ IsSingle' = IsSingle /\ Modifiers' = Modifiers
      /\ NumSubgraphs' = NumSubgraphs
  BY <1>0, <1>1, PlanStays DEF StartPipeline
<1>3. Begun(i, j)' = Begun(i, j)
  BY <1>0 DEF Begun
<1>4. PlacesOK(i, j)'
  <2>1. sub' \in 1 .. NumSubgraphs'
    BY <1>0, <1>1, <1>2, SubgraphFacts DEF PlanOK
  <2> QED
    BY <2>1, <1>0, <1>1 DEF PlacesOK, InPipeline
<1>5. TunedOK(Begun(i, j))'
  BY <1>1, <1>2, <1>3 DEF TunedOK, StartPipeline
<1>6. CaptureOK(i, j, Begun(i, j))'
  <2>1. Waiting(i, j) = <<>> /\ Waiting(i, j)' = <<>>
    BY <1>0 DEF Waiting, Captured
  <2>2. moduleInput' = [l \in Layers |-> IF l \in Decoding' THEN Waiting(i, j)' ELSE <<>>]
    BY <2>1, <1>1 DEF CaptureOK, StartPipeline
  <2>3. IsPresent("ar") <=> pipe = i
    BY <1>1, PlaceFacts DEF PlacesOK
  <2>4. CASE pipe = i
    <3>1. Begun(i, j) = 0
      BY <2>4, <1>0, <1>1 DEF Begun
    <3>2. Layers = {l \in Layers : l > 0}
      BY <1>0
    <3>3. hooked' = Layers /\ propagateError' = FALSE /\ qInput' = 0
          /\ through' = [b \in 1 .. TuningBatches |-> {}]
      BY <2>3, <2>4, <1>0, <1>1 DEF StartPipeline, Propagates, CaptureOK
    <3> QED
      BY <2>2, <2>4, <3>1, <3>2, <3>3, <1>0, <1>3 DEF CaptureOK, InPipeline
  <2>5. CASE pipe # i
    <3>1. hooked' = {}
      BY <2>3, <2>5, <1>1 DEF StartPipeline, CaptureOK
    <3>2. pipe < i => qInput' = 0
      BY <1>1 DEF StartPipeline, CaptureOK
    <3> QED
      BY <2>2, <2>5, <3>1, <3>2, <1>0 DEF CaptureOK, InPipeline
  <2> QED
    BY <2>4, <2>5
<1>7. ParamsOK(Begun(i, j))'
  <2>1. \A l \in Layers : ParamsOf(l)' = ParamsOf(l)
    BY <1>0 DEF ParamsOf, StartPipeline
  <2>2. ParamsTyped' /\ scheme' = scheme
    BY <1>1 DEF ParamsOK, ParamsTyped, StartPipeline
  <2>3. ASSUME NEW l \in Layers, IsObserved(l)' PROVE IsObserved(l)
    <3>1. SubgraphOf(l)' \in Nat /\ SubgraphOf(l)' >= 1
      BY <1>1, SubgraphFacts, PlanStays DEF PlanOK, StartPipeline
    <3>2. ~ (SubgraphOf(l)' < sub')
      BY <1>0, <3>1
    <3> QED
      BY <2>3, <3>2, <1>0 DEF IsObserved
  <2> QED
    BY <2>1, <2>2, <2>3, <1>0, <1>1, <1>3 DEF ParamsOK, OwnOK, OthersOK
<1> QED
  BY <1>0, <1>2, <1>4, <1>5, <1>6, <1>7 DEF TuningInv, RaisedOK

(* In the pipeline of AutoRound, no layer of the subgraph of a pass is tuned yet, and
   all have their hooks. *)
LEMMA NothingTunedYet ==
  ASSUME NEW i, NEW j, PlanOK(i, j), PlacesOK(i, j), TunedOK(sub - 1), NEW l \in Decoding
  PROVE  ~ (l <= sub - 1) /\ l \in Layers /\ tunedOn[l] = <<>>
<1>0. NumLayers \in Nat /\ Layers = 1 .. NumLayers /\ sub \in Nat /\ l \in Layers
  BY AutoRoundAssumption, SubgraphFacts DEF Layers, PlacesOK, PlanOK
<1>1. SubgraphOf(l) = sub
  BY <1>0, SubgraphFacts DEF PlanOK
<1>2. ~ (l <= sub - 1)
  <2>1. CASE sub - 1 > 0
    BY <2>1, <1>0, <1>1, SingleFacts DEF TunedOK, PlanOK
  <2>2. CASE ~ (sub - 1 > 0)
    BY <2>2, <1>0
  <2> QED
    BY <2>1, <2>2
<1> QED
  BY <1>0, <1>2 DEF TunedOK

LEMMA CapturedGrows ==
  ASSUME NEW n \in Nat \ {0}
  PROVE  Append(Captured(n - 1), <<n, {}>>) = Captured(n)
<1> DEFINE V == {<<b, {}>> : b \in 1 .. n}
           s == Captured(n - 1)
           t == Append(s, <<n, {}>>)
<1>1. s \in Seq(V) /\ Len(s) = n - 1
  <2>1. s \in [1 .. n - 1 -> V]
    BY DEF Captured
  <2> QED
    BY <2>1, SeqDef, LenProperties DEF Captured
<1>2. t \in Seq(V) /\ Len(t) = n
      /\ \A b \in 1 .. n - 1 : t[b] = s[b]
      /\ t[n] = <<n, {}>>
  BY <1>1, AppendProperties
<1>3. DOMAIN t = 1 .. n
  BY <1>2, LenProperties
<1>4. t = [b \in 1 .. n |-> t[b]]
  BY <1>2, <1>3, LenProperties
<1>5. ASSUME NEW b \in 1 .. n PROVE t[b] = <<b, {}>>
  <2>1. CASE b = n
    BY <2>1, <1>2
  <2>2. CASE b # n
    <3>1. b \in 1 .. n - 1
      BY <2>2
    <3>2. s[b] = <<b, {}>>
      BY <3>1 DEF Captured
    <3> QED
      BY <3>1, <3>2, <1>2
  <2> QED
    BY <2>1, <2>2
<1> QED
  BY <1>4, <1>5 DEF Captured

LEMMA ForwardBatchStep ==
  ASSUME NEW i, NEW j, TuningInv(i, j), ForwardBatch
  PROVE  TuningInv(i, j)'
<1>0. /\ NumLayers \in Nat \ {0} /\ Layers = 1 .. NumLayers /\ TuningBatches \in Nat \ {0}
      /\ phase = "pass" /\ sub' = sub /\ pipe' = pipe /\ plan' = plan
      /\ \/ turn < TuningBatches /\ turn' = turn + 1 /\ phase' = "pass"
         \/ turn >= TuningBatches /\ turn' = 1 /\ phase' = "epoch"
  BY AutoRoundAssumption DEF Layers, ForwardBatch, arSetup, TuningInv, PlacesOK
<1>1. PlanOK(i, j) /\ PlacesOK(i, j) /\ TunedOK(Begun(i, j)) /\ CaptureOK(i, j, Begun(i, j))
      /\ ParamsOK(Begun(i, j)) /\ turn \in 1 .. TuningBatches
  BY <1>0 DEF TuningInv, PlacesOK
<1>2. /\ PlanOK(i, j)' /\ IsSingle' = IsSingle /\ Modifiers' = Modifiers
      /\ NumSubgraphs' = NumSubgraphs /\ Decoding' = Decoding
      /\ \A l : SubgraphOf(l)' = SubgraphOf(l)
  BY <1>0, <1>1, PlanStays DEF ForwardBatch
<1>p. /\ i \in 1 .. Len(plan) /\ j \in 1 .. Len(plan[i]) /\ Len(plan) \in Nat
      /\ Len(Modifiers) \in Nat /\ Len(Modifiers) >= 1 /\ j \in Nat /\ j >= 1
  <2>1. i \in 1 .. Len(plan) /\ j \in 1 .. Len(plan[i])
        /\ Modifiers \in Seq({"ar", "qm"}) /\ Len(Modifiers) >= 1
    BY <1>1, PlaceFacts DEF PlacesOK
  <2>2. Len(plan) \in Nat /\ Len(plan[i]) \in Nat
    BY <2>1, <1>1 DEF PlanOK
  <2> QED
    BY <2>1, <2>2
<1>3. Begun(i, j)' = Begun(i, j) /\ (pipe = i => Begun(i, j) = sub - 1)
  BY <1>0, <1>1, <1>p DEF Begun, PlacesOK
<1>4. PlacesOK(i, j)'
  BY <1>0, <1>1, <1>2, <1>p DEF PlacesOK, InPipeline
<1>5. TunedOK(Begun(i, j))'
  BY <1>1, <1>2, <1>3 DEF TunedOK, ForwardBatch, arModel
<1>6. CaptureOK(i, j, Begun(i, j))'
  <2>1. CASE pipe = i
    <3>1. hooked = {l \in Layers : l > sub - 1} /\ propagateError = FALSE
          /\ through = [b \in 1 .. TuningBatches |-> {}] /\ qInput = sub - 1
          /\ moduleInput = [l \in Layers |-> IF l \in Decoding THEN Captured(turn - 1) ELSE <<>>]
      BY <2>1, <1>0, <1>1, <1>3 DEF CaptureOK, InPipeline, Waiting
    <3>2. \A l \in Decoding : l \in Layers /\ l \in hooked /\ l \notin TunedLayers
      <4>1. sub \in Nat /\ \A l \in Layers : l \in Nat
        BY <1>0, <1>1, SubgraphFacts DEF PlacesOK, PlanOK
      <4> QED
        BY <4>1, <3>1, <2>1, <1>1, <1>3, NothingTunedYet DEF TunedLayers
    <3>3. Decoding \cap TunedLayers = {} /\ {l \in Decoding \cap TunedLayers : TRUE} = {}
      BY <3>2
    <3>4. \A l : {k \in Decoding \cap TunedLayers : k < l} = {}
      BY <3>3
    <3>5. through' = through
      BY <3>1, <3>3, <1>1 DEF ForwardBatch
    <3>6. moduleInput' = [l \in Layers |-> IF l \in Decoding THEN Captured(turn) ELSE <<>>]
      <4>1. through[turn] = {}
        BY <3>1, <1>1
      <4>2. Append(Captured(turn - 1), <<turn, {}>>) = Captured(turn)
        <5>1. turn \in Nat \ {0}
          BY <1>0, <1>1
        <5> QED
          BY <5>1, CapturedGrows
      <4>3. ASSUME NEW l \in Layers
            PROVE  (IF l \in Decoding \cap hooked
                    THEN Append(moduleInput[l],
                           <<turn, through[turn] \cup {k \in Decoding \cap TunedLayers : k < l}>>)
                    ELSE moduleInput[l]) = IF l \in Decoding THEN Captured(turn) ELSE <<>>
        <5>1. through[turn] \cup {k \in Decoding \cap TunedLayers : k < l} = {}
          BY <4>1, <3>4
        <5> QED
          BY <5>1, <4>2, <3>1, <3>2
      <4> QED
        BY <4>3 DEF ForwardBatch
    <3>7. Waiting(i, j)' = Captured(turn)
      <4>1. turn < TuningBatches => turn' - 1 = turn
        BY <1>0, <1>1
      <4>2. turn >= TuningBatches => turn = TuningBatches
        BY <1>0, <1>1
      <4>3. 1 <= j
        BY <1>p
      <4> QED
        BY <4>1, <4>2, <4>3, <2>1, <1>0 DEF Waiting
    <3>8. qInput' = qInput /\ hooked' = hooked /\ propagateError' = propagateError
      BY DEF ForwardBatch
    <3> QED
      <4>1. hooked' = {l \in Layers : l > Begun(i, j)'}
        BY <3>1, <3>8, <2>1, <1>3
      <4>2. moduleInput' = [l \in Layers |-> IF l \in Decoding' THEN Waiting(i, j)' ELSE <<>>]
        BY <3>6, <3>7, <1>2
      <4>3. propagateError' = FALSE /\ through' = [b \in 1 .. TuningBatches |-> {}]
        BY <3>1, <3>5, <3>8
      <4>4. qInput' = Begun(i, j)' /\ phase' # "tune" /\ phase' # "start" /\ phase' \in InPipeline
            /\ pipe' = i /\ ~ (pipe' < i)
        BY <3>1, <3>8, <2>1, <1>0, <1>3, <1>p DEF InPipeline
      <4> QED
        BY <4>1, <4>2, <4>3, <4>4 DEF CaptureOK
  <2>2. CASE pipe # i
    <3>1. hooked = {} /\ moduleInput = [l \in Layers |-> <<>>]
      BY <2>2, <1>1 DEF CaptureOK, Waiting
    <3>2. Waiting(i, j)' = <<>>
      BY <2>2, <1>0 DEF Waiting
    <3>3. moduleInput' = [l \in Layers |-> <<>>]
      BY <3>1 DEF ForwardBatch
    <3>4. qInput' = qInput /\ hooked' = hooked
      BY DEF ForwardBatch
    <3> QED
      BY <3>1, <3>2, <3>3, <3>4, <2>2, <1>0, <1>1 DEF CaptureOK
  <2> QED
    BY <2>1, <2>2
<1>7. ParamsOK(Begun(i, j))'
  <2>1. \A l \in Layers : ParamsOf(l)' = ParamsOf(l)
    BY <1>0 DEF ParamsOf, ForwardBatch, arModel
  <2>2. ParamsTyped' /\ scheme' = scheme
    BY <1>1 DEF ParamsOK, ParamsTyped, ForwardBatch, arModel
  <2>3. ASSUME NEW l \in Layers, IsObserved(l)' PROVE IsObserved(l)
    <3>1. \A n \in 1 .. Len(Modifiers) : ~ (n < 1)
      BY <1>p
    <3> QED
      BY <2>3, <3>1, <1>0, <1>2 DEF IsObserved
  <2> QED
    BY <2>1, <2>2, <2>3, <1>0, <1>1, <1>3 DEF ParamsOK, OwnOK, OthersOK
<1> QED
  BY <1>0, <1>2, <1>4, <1>5, <1>6, <1>7 DEF TuningInv, RaisedOK

LEMMA ObserveLayersStep ==
  ASSUME NEW i, NEW j, TuningInv(i, j), ObserveLayers
  PROVE  TuningInv(i, j)'
<1>0. /\ NumLayers \in Nat \ {0} /\ Layers = 1 .. NumLayers /\ TuningBatches \in Nat \ {0}
      /\ phase = "epoch" /\ sub' = sub /\ pipe' = pipe /\ plan' = plan /\ Modifiers[turn] = "qm"
  BY AutoRoundAssumption DEF Layers, ObserveLayers, arSetup
<1>1. PlanOK(i, j) /\ PlacesOK(i, j) /\ TunedOK(Begun(i, j)) /\ CaptureOK(i, j, Begun(i, j))
      /\ ParamsOK(Begun(i, j)) /\ turn \in 1 .. Len(Modifiers)
  BY <1>0 DEF TuningInv, PlacesOK
<1>2. /\ PlanOK(i, j)' /\ IsSingle' = IsSingle /\ Modifiers' = Modifiers
      /\ NumSubgraphs' = NumSubgraphs /\ Decoding' = Decoding
      /\ \A l : SubgraphOf(l)' = SubgraphOf(l)
  BY <1>0, <1>1, PlanStays DEF ObserveLayers
<1>n. /\ PlacesOK(i, j)'
      /\ \/ phase' = "epoch" /\ turn' = turn + 1
         \/ phase' = "propagate" /\ turn = Len(Modifiers)
      /\ \A l : IsObserved(l)' =>
           IsObserved(l) \/ (SubgraphOf(l) = sub /\ Modifiers[turn] = "qm")
  BY <1>0, <1>1, NextModifierFacts DEF ObserveLayers
<1>p. /\ i \in 1 .. Len(plan) /\ j \in Nat /\ Len(Modifiers) \in Nat /\ turn \in Nat
      /\ pipe = i => turn # j /\ j <= Len(Modifiers)
  <2>1. i \in 1 .. Len(plan) /\ j \in 1 .. Len(plan[i]) /\ Modifiers \in Seq({"ar", "qm"})
        /\ (Modifiers[turn] = "ar" <=> pipe = i /\ turn = j)
    BY <1>1, PlaceFacts DEF PlacesOK
  <2>2. Modifiers = plan[pipe]
    BY DEF Modifiers
  <2>3. pipe = i => turn # j
    BY <2>1, <1>0
  <2>4. pipe = i => j <= Len(Modifiers)
    BY <2>1, <2>2
  <2>5. Len(Modifiers) \in Nat /\ turn \in Nat
    BY <2>1, <1>1
  <2> QED
    BY <2>1, <2>3, <2>4, <2>5
<1>3. Begun(i, j)' = Begun(i, j)
  <2>1. CASE pipe # i
    BY <2>1, <1>0, <1>n DEF Begun
  <2>2. CASE pipe = i /\ turn <= j
    <3>1. turn < j
      BY <2>2, <1>p
    <3>2. phase' = "epoch" /\ turn' <= j
      BY <3>1, <2>2, <1>n, <1>p
    <3> QED
      BY <3>2, <2>2, <1>0, <1>p DEF Begun
  <2>3. CASE pipe = i /\ ~ (turn <= j)
    <3>1. phase' = "epoch" => ~ (turn' <= j)
      BY <2>3, <1>n, <1>p
    <3> QED
      BY <3>1, <2>3, <1>0, <1>n, <1>p DEF Begun
  <2> QED
    BY <2>1, <2>2, <2>3
<1>w. Waiting(i, j)' = Waiting(i, j)
  <2>1. CASE pipe # i
    BY <2>1, <1>0, <1>n DEF Waiting
  <2>2. CASE pipe = i /\ turn <= j
    <3>1. turn < j
      BY <2>2, <1>p
    <3>2. phase' = "epoch" /\ turn' <= j
      BY <3>1, <2>2, <1>n, <1>p
    <3> QED
      BY <3>2, <2>2, <1>0, <1>p DEF Waiting
  <2>3. CASE pipe = i /\ ~ (turn <= j)
    <3>1. phase' = "epoch" => ~ (turn' <= j)
      BY <2>3, <1>n, <1>p
    <3> QED
      BY <3>1, <2>3, <1>0, <1>n, <1>p DEF Waiting
  <2> QED
    BY <2>1, <2>2, <2>3
<1>5. TunedOK(Begun(i, j))'
  BY <1>1, <1>2, <1>3 DEF TunedOK, ObserveLayers
<1>6. CaptureOK(i, j, Begun(i, j))'
  BY <1>0, <1>1, <1>2, <1>3, <1>n, <1>w DEF CaptureOK, InPipeline, ObserveLayers, arData
<1>7. ParamsOK(Begun(i, j))'
  <2>1. \A l \in Layers : ParamsOf(l) = qparams[l] /\ ParamsOf(l)' = qparams'[l]
    BY <1>0, <1>n DEF ParamsOf
  <2>2. ParamsTyped' /\ scheme' = scheme
    BY <1>1 DEF ParamsOK, ParamsTyped, ObserveLayers, Marks
  <2>3. ASSUME NEW l \in Layers, NEW m \in Modules
        PROVE  qparams'[l][m] = IF l \in Decoding /\ m \in Others /\ qparams[l][m] # "none"
                                THEN "observed" ELSE qparams[l][m]
    BY DEF ObserveLayers
  <2>4. Own \subseteq Modules /\ Others \subseteq Modules /\ Own \cap Others = {}
    BY AutoRoundAssumption DEF Own
  <2>6. ASSUME NEW l \in Layers, OthersOK(qparams[l], IsObserved(l))
        PROVE  OthersOK(qparams[l], IsObserved(l))'
    <3>1. SubgraphOf(l) = sub => l \in Decoding
      BY <1>1, SubgraphFacts DEF PlanOK, PlacesOK
    <3> QED
      BY <3>1, <2>3, <2>4, <2>6, <1>n DEF OthersOK
  <2>7. \A l \in Layers : OwnOK(l, ParamsOf(l), l <= Begun(i, j))
    BY <1>0, <1>1 DEF ParamsOK
  <2>8. \A l \in Layers : OwnOK(l, ParamsOf(l), l <= Begun(i, j))'
    <3> SUFFICES ASSUME NEW l \in Layers PROVE OwnOK(l, ParamsOf(l), l <= Begun(i, j))'
      OBVIOUS
    <3>1. \A m \in Own : ParamsOf(l)'[m] = ParamsOf(l)[m]
      BY <2>1, <2>3, <2>4
    <3>2. OwnOK(l, ParamsOf(l), l <= Begun(i, j))
      BY <2>7
    <3> QED
      BY <3>1, <3>2, <2>2, <1>3 DEF OwnOK
  <2>9. \A l \in Layers : OthersOK(ParamsOf(l), IsObserved(l))'
    BY <2>1, <2>6, <1>1 DEF ParamsOK, OthersOK
  <2> QED
    BY <2>2, <2>8, <2>9, <1>n DEF ParamsOK
<1> QED
  BY <1>0, <1>2, <1>n, <1>5, <1>6, <1>7 DEF TuningInv, RaisedOK

(* Where the turn of AutoRound stands, before and after. *)
LEMMA TurnFacts ==
  ASSUME NEW i, NEW j, PlanOK(i, j), PlacesOK(i, j), phase \in {"epoch", "tune"},
         Modifiers[turn] = "ar" \/ phase = "tune"
  PROVE  /\ pipe = i /\ turn = j /\ j \in Nat /\ i \in Nat /\ Modifiers[turn] = "ar"
         /\ Begun(i, j) = IF phase = "epoch" THEN sub - 1 ELSE sub
         /\ sub \in Nat /\ sub >= 1
<1>1. turn \in 1 .. Len(Modifiers) /\ pipe \in 1 .. Len(plan) /\ sub \in 1 .. NumSubgraphs
  BY DEF PlacesOK
<1>2. /\ i \in 1 .. Len(plan) /\ j \in 1 .. Len(plan[i]) /\ Modifiers \in Seq({"ar", "qm"})
      /\ (Modifiers[turn] = "ar" <=> pipe = i /\ turn = j)
  BY <1>1, PlaceFacts
<1>3. pipe = i /\ turn = j
  BY <1>2 DEF PlacesOK
<1>4. i \in Nat /\ j \in Nat
  BY <1>2 DEF PlanOK
<1>5. sub \in Nat /\ sub >= 1
  BY <1>1, SubgraphFacts DEF PlanOK
<1>6. Begun(i, j) = IF phase = "epoch" THEN sub - 1 ELSE sub
  <2>1. CASE phase = "epoch"
    BY <2>1, <1>3, <1>4 DEF Begun
  <2>2. CASE phase = "tune"
    <3>1. sub <= NumLayers
      BY <2>2 DEF PlacesOK
    <3> QED
      BY <2>2, <3>1, <1>3, <1>4 DEF Begun
  <2> QED
    BY <2>1, <2>2
<1> QED
  BY <1>2, <1>3, <1>4, <1>5, <1>6

(* The turn passes without a layer to tune: all are tuned. *)
LEMMA HeadStep ==
  ASSUME NEW i, NEW j, TuningInv(i, j), BeginTuning, Decoding = {}
  PROVE  TuningInv(i, j)'
<1>0. /\ NumLayers \in Nat \ {0} /\ Layers = 1 .. NumLayers
      /\ phase = "epoch" /\ Modifiers[turn] = "ar" /\ NextModifier
      /\ sub' = sub /\ pipe' = pipe /\ UNCHANGED arSetup
      /\ moduleInput' = [l \in Layers |-> <<>>]
      /\ UNCHANGED <<hooked, collected, qparams, tunedOn, propagateError, through, qInput, scheme>>
  BY AutoRoundAssumption DEF Layers, BeginTuning
<1>1. PlanOK(i, j) /\ PlacesOK(i, j) /\ TunedOK(Begun(i, j)) /\ CaptureOK(i, j, Begun(i, j))
      /\ ParamsOK(Begun(i, j))
  BY <1>0 DEF TuningInv
<1>2. PlanOK(i, j)' /\ IsSingle' = IsSingle
  BY <1>0, <1>1, PlanStays
<1>n. /\ PlacesOK(i, j)'
      /\ \/ phase' = "epoch" /\ turn' = turn + 1
         \/ phase' = "propagate" /\ turn = Len(Modifiers)
      /\ \A l : IsObserved(l)' =>
           IsObserved(l) \/ (SubgraphOf(l) = sub /\ Modifiers[turn] = "qm")
  BY <1>0, <1>1, NextModifierFacts
<1>t. pipe = i /\ turn = j /\ j \in Nat /\ i \in Nat
      /\ Begun(i, j) = sub - 1 /\ sub \in Nat /\ sub >= 1
  BY <1>0, <1>1, TurnFacts
<1>3. Begun(i, j) = NumLayers /\ sub > NumLayers
  <2>1. sub # 1
    BY <1>1, <1>t, CrowdedFacts DEF PlanOK
  <2>2. IsSingle
    BY <2>1, <1>1, <1>t DEF TunedOK
  <2>3. Decoding = {l \in Layers : l = sub} /\ NumSubgraphs = NumLayers + 1
    BY <2>2, <1>1, <1>t, SingleFacts, SubgraphFacts DEF PlanOK
  <2>4. sub <= NumLayers + 1
    BY <2>3, <1>1 DEF PlacesOK
  <2>5. ~ (sub \in Layers)
    BY <2>3
  <2> QED
    BY <2>4, <2>5, <1>0, <1>t
<1>4. Begun(i, j)' = Begun(i, j)
  BY <1>0, <1>3, <1>n, <1>t DEF Begun
<1>5. TunedOK(Begun(i, j))'
  BY <1>0, <1>1, <1>2, <1>4 DEF TunedOK
<1>6. CaptureOK(i, j, Begun(i, j))'
  <2>1. Waiting(i, j)' = <<>>
    BY <1>0, <1>n, <1>t DEF Waiting
  <2>2. phase' \in {"epoch", "propagate"}
    BY <1>n
  <2> QED
    BY <2>1, <2>2, <1>0, <1>1, <1>4, <1>t DEF CaptureOK, InPipeline
<1>7. ParamsOK(Begun(i, j))'
  <2>1. \A l \in Layers : ParamsOf(l)' = ParamsOf(l)
    BY <1>0, <1>n DEF ParamsOf
  <2>2. ParamsTyped' /\ scheme' = scheme
    BY <1>0, <1>1 DEF ParamsOK, ParamsTyped
  <2>3. \A l \in Layers : IsObserved(l)' => IsObserved(l)
    BY <1>n, <1>0
  <2> QED
    BY <2>1, <2>2, <2>3, <1>0, <1>1, <1>4, <1>n DEF ParamsOK, OwnOK, OthersOK
<1> QED
  BY <1>2, <1>n, <1>5, <1>6, <1>7 DEF TuningInv, RaisedOK

(* A subgraph with several layers raises, in the first one. *)
LEMMA CrowdedStep ==
  ASSUME NEW i, NEW j, TuningInv(i, j), BeginTuning, Cardinality(Decoding) > 1, Decoding # {}
  PROVE  TuningInv(i, j)'
<1>0. /\ phase = "epoch" /\ Modifiers[turn] = "ar" /\ phase' = "raised"
      /\ UNCHANGED <<arSetup, tunedOn>>
  BY DEF BeginTuning
<1>1. PlanOK(i, j) /\ PlacesOK(i, j) /\ TunedOK(Begun(i, j))
  BY <1>0 DEF TuningInv
<1>2. PlanOK(i, j)'
  BY <1>0, <1>1, PlanStays
<1>3. ~ IsSingle
  BY <1>0, <1>1, TurnFacts, CrowdedFacts DEF PlanOK
<1>4. group' > 1
  BY <1>0, <1>1, <1>3 DEF IsSingle, PlanOK, arSetup
<1>5. \A l \in Layers : ~ (l <= Begun(i, j))
  BY <1>1, <1>3, AutoRoundAssumption DEF TunedOK, Layers
<1>6. tunedOn' = [l \in Layers |-> <<>>]
  BY <1>0, <1>1, <1>5 DEF TunedOK
<1> QED
  BY <1>0, <1>2, <1>4, <1>6 DEF TuningInv, RaisedOK

(* The layer of the subgraph is tuned, on what it has captured. *)
LEMMA LayerStep ==
  ASSUME NEW i, NEW j, TuningInv(i, j), BeginTuning, ~ (Cardinality(Decoding) > 1), Decoding # {}
  PROVE  TuningInv(i, j)'
<1>0. /\ NumLayers \in Nat \ {0} /\ Layers = 1 .. NumLayers /\ TuningBatches \in Nat \ {0}
      /\ phase = "epoch" /\ Modifiers[turn] = "ar"
      /\ UNCHANGED <<turn, arSetup, propagateError, pipe, sub, through, qInput, scheme>>
  BY AutoRoundAssumption DEF Layers, BeginTuning
<1>1. PlanOK(i, j) /\ PlacesOK(i, j) /\ TunedOK(Begun(i, j)) /\ CaptureOK(i, j, Begun(i, j))
      /\ ParamsOK(Begun(i, j))
  BY <1>0 DEF TuningInv
<1>2. /\ PlanOK(i, j)' /\ IsSingle' = IsSingle /\ Modifiers' = Modifiers
      /\ NumSubgraphs' = NumSubgraphs /\ Decoding' = Decoding
      /\ \A l : SubgraphOf(l)' = SubgraphOf(l)
  BY <1>0, <1>1, PlanStays
<1>t. pipe = i /\ turn = j /\ j \in Nat /\ i \in Nat
      /\ Begun(i, j) = sub - 1 /\ sub \in Nat /\ sub >= 1
  BY <1>0, <1>1, TurnFacts
<1>3. IsSingle
  <2>1. sub = 1 => IsSingle
    BY <1>1, <1>t, CrowdedFacts DEF PlanOK
  <2>2. sub # 1 => IsSingle
    BY <1>1, <1>t DEF TunedOK
  <2> QED
    BY <2>1, <2>2
<1>4. Decoding = {sub} /\ sub \in Layers /\ sub <= NumLayers
  <2>1. Decoding = {l \in Layers : l = sub}
    BY <1>3, <1>1, <1>t, SingleFacts, SubgraphFacts DEF PlanOK
  <2> QED
    BY <2>1, <1>0
<1>5. hooked = {l \in Layers : l > sub - 1} /\ qInput = sub - 1
      /\ moduleInput = [l \in Layers |-> IF l \in Decoding THEN Captured(TuningBatches) ELSE <<>>]
      /\ propagateError = FALSE /\ through = [b \in 1 .. TuningBatches |-> {}]
  BY <1>0, <1>1, <1>t DEF CaptureOK, InPipeline, Waiting
<1>6. moduleInput[sub] = Captured(TuningBatches) /\ Captured(TuningBatches) # <<>>
  <2>1. 1 \in DOMAIN Captured(TuningBatches)
    BY <1>0 DEF Captured
  <2>2. Captured(TuningBatches) # <<>>
    BY <2>1
  <2> QED
    BY <2>2, <1>4, <1>5
<1>7. /\ collected' = qparams[sub]
      /\ qparams' = [qparams EXCEPT ![sub] = [m \in Modules |-> "none"]]
      /\ hooked' = hooked \ {sub}
      /\ moduleInput' = [moduleInput EXCEPT ![sub] = <<>>]
      /\ phase' = "tune"
      /\ tunedOn' = [tunedOn EXCEPT ![sub] = <<moduleInput[sub], qInput>>]
  BY <1>4, <1>6 DEF BeginTuning
<1>8. Begun(i, j)' = sub
  BY <1>0, <1>4, <1>7, <1>t DEF Begun
<1>9. PlacesOK(i, j)'
  <2>1. pipe \in 1 .. Len(plan) /\ sub \in 1 .. NumSubgraphs /\ turn \in 1 .. Len(Modifiers)
    BY <1>0, <1>1 DEF PlacesOK
  <2>2. pipe' = pipe /\ sub' = sub /\ turn' = turn /\ plan' = plan /\ phase' = "tune"
    BY <1>0, <1>7 DEF arSetup
  <2> QED
    BY <2>1, <2>2, <1>2, <1>4, <1>t DEF PlacesOK, InPipeline
<1>10. TunedOK(Begun(i, j))'
  <2>1. sub \in 0 .. NumLayers /\ IsSingle'
    BY <1>2, <1>3, <1>4, <1>t
  <2>2. tunedOn = [l \in Layers |->
           IF l <= sub - 1 THEN <<Captured(TuningBatches), l - 1>> ELSE <<>>]
    BY <1>1, <1>t DEF TunedOK
  <2>3. \A l \in Layers : l \in Nat /\ (l <= sub <=> l = sub \/ l <= sub - 1)
    BY <1>0, <1>t
  <2>4. tunedOn' = [l \in Layers |-> IF l <= sub THEN <<Captured(TuningBatches), l - 1>> ELSE <<>>]
    BY <2>2, <2>3, <1>5, <1>6, <1>7
  <2> QED
    BY <2>1, <2>4, <1>8 DEF TunedOK
<1>11. CaptureOK(i, j, Begun(i, j))'
  <2>1. hooked' = {l \in Layers : l > sub}
    BY <1>0, <1>5, <1>7, <1>t
  <2>2. moduleInput' = [l \in Layers |-> <<>>]
    BY <1>4, <1>5, <1>7
  <2>3. Waiting(i, j)' = <<>>
    BY <1>7 DEF Waiting
  <2>4. phase' = "tune" /\ phase' \in InPipeline /\ pipe' = i /\ ~ (pipe' < i)
    BY <1>0, <1>7, <1>t DEF InPipeline
  <2>5. propagateError' = FALSE /\ through' = [b \in 1 .. TuningBatches |-> {}] /\ qInput' = sub - 1
    BY <1>0, <1>5
  <2> QED
    BY <2>1, <2>2, <2>3, <2>4, <2>5, <1>8 DEF CaptureOK
<1>12. ParamsOK(Begun(i, j))'
  <2>0. ParamsTyped
    BY <1>1 DEF ParamsOK
  <2>1. \A l \in Layers : ParamsOf(l)' = ParamsOf(l)
    BY <2>0, <1>0, <1>2, <1>4, <1>7 DEF ParamsOf, ParamsTyped
  <2>2. ParamsTyped' /\ scheme' = scheme
    BY <2>0, <1>0, <1>4, <1>7 DEF ParamsTyped, Marks
  <2>3. \A l \in Layers : IsObserved(l)' => IsObserved(l)
    BY <1>0, <1>2, <1>7 DEF IsObserved, arSetup
  <2> QED
    BY <2>1, <2>2, <2>3, <1>0, <1>1, <1>7, <1>8, <1>t DEF ParamsOK, OwnOK, OthersOK
<1> QED
  BY <1>2, <1>7, <1>9, <1>10, <1>11, <1>12 DEF TuningInv, RaisedOK

LEMMA BeginTuningStep ==
  ASSUME NEW i, NEW j, TuningInv(i, j), BeginTuning
  PROVE  TuningInv(i, j)'
BY HeadStep, CrowdedStep, LayerStep

LEMMA EndTuningStep ==
  ASSUME NEW i, NEW j, TuningInv(i, j), EndTuning
  PROVE  TuningInv(i, j)'
<1>0. /\ NumLayers \in Nat \ {0} /\ Layers = 1 .. NumLayers
      /\ phase = "tune" /\ NextModifier
      /\ UNCHANGED <<arSetup, propagateError, pipe, sub, through, hooked, tunedOn>>
      /\ collected' = [m \in Modules |-> "none"] /\ moduleInput' = [l \in Layers |-> <<>>]
  BY AutoRoundAssumption DEF Layers, EndTuning
<1>1. PlanOK(i, j) /\ PlacesOK(i, j) /\ TunedOK(Begun(i, j)) /\ CaptureOK(i, j, Begun(i, j))
      /\ ParamsOK(Begun(i, j)) /\ sub <= NumLayers
  BY <1>0 DEF TuningInv, PlacesOK
<1>2. PlanOK(i, j)' /\ IsSingle' = IsSingle
  BY <1>0, <1>1, PlanStays
<1>n. /\ PlacesOK(i, j)'
      /\ \/ phase' = "epoch" /\ turn' = turn + 1
         \/ phase' = "propagate" /\ turn = Len(Modifiers)
      /\ \A l : IsObserved(l)' =>
           IsObserved(l) \/ (SubgraphOf(l) = sub /\ Modifiers[turn] = "qm")
  BY <1>0, <1>1, NextModifierFacts
<1>t. pipe = i /\ turn = j /\ j \in Nat /\ i \in Nat /\ Begun(i, j) = sub /\ sub \in Nat /\ sub >= 1
      /\ Modifiers[turn] = "ar"
  BY <1>0, <1>1, TurnFacts
<1>3. Decoding = {sub} /\ sub \in Layers
  <2>1. IsSingle
    BY <1>1, <1>t DEF TunedOK
  <2>2. Decoding = {l \in Layers : l = sub}
    BY <2>1, <1>1, <1>t, SingleFacts, SubgraphFacts DEF PlanOK
  <2> QED
    BY <2>2, <1>0, <1>1, <1>t
<1>4. Begun(i, j)' = sub
  BY <1>0, <1>1, <1>n, <1>t DEF Begun
<1>5. TunedOK(Begun(i, j))'
  BY <1>0, <1>1, <1>2, <1>4, <1>t DEF TunedOK
<1>6. PICK Tuned \in SUBSET Tunable(sub) :
        /\ scheme' = [scheme EXCEPT ![sub] = @ \ (Own \ Tuned)]
        /\ qparams' = [qparams EXCEPT ![sub] = [m \in Modules |->
             CASE m \in Own \ Tuned -> "none"
               [] m \in Tuned \ (Own \ Tuned) /\ collected[m] # "none" -> "tuned"
               [] OTHER -> collected[m]]]
        /\ qInput' = sub
  BY <1>3 DEF EndTuning, DecidesOn
<1>7. CaptureOK(i, j, Begun(i, j))'
  <2>1. Waiting(i, j)' = <<>>
    BY <1>0, <1>n, <1>t DEF Waiting
  <2>2. phase' \in {"epoch", "propagate"}
    BY <1>n
  <2>3. hooked = {l \in Layers : l > sub} /\ propagateError = FALSE
        /\ through = [b \in 1 .. TuningBatches |-> {}]
    BY <1>0, <1>1, <1>t DEF CaptureOK, InPipeline
  <2> QED
    BY <2>1, <2>2, <2>3, <1>0, <1>4, <1>6, <1>t DEF CaptureOK, InPipeline
<1>8. ParamsOK(Begun(i, j))'
  <2>0. ParamsTyped /\ Own \subseteq Modules /\ Others \subseteq Modules /\ Own \cap Others = {}
    BY <1>1, AutoRoundAssumption DEF ParamsOK, Own
  <2>1. /\ scheme'[sub] = scheme[sub] \ (Own \ Tuned)
        /\ qparams'[sub] = [m \in Modules |->
             CASE m \in Own \ Tuned -> "none"
               [] m \in Tuned \ (Own \ Tuned) /\ collected[m] # "none" -> "tuned"
               [] OTHER -> collected[m]]
        /\ \A l \in Layers \ {sub} : scheme'[l] = scheme[l] /\ qparams'[l] = qparams[l]
    BY <2>0, <1>3, <1>6 DEF ParamsTyped
  <2>2. ParamsTyped'
    <3>1. qparams'[sub] \in [Modules -> Marks]
      <4>1. \A m \in Modules : collected[m] \in Marks /\ "none" \in Marks /\ "tuned" \in Marks
        BY <2>0 DEF ParamsTyped, Marks
      <4> QED
        BY <4>1, <2>1
    <3>2. qparams' \in [Layers -> [Modules -> Marks]]
      BY <3>1, <2>0, <2>1, <1>6 DEF ParamsTyped
    <3>3. scheme' \in [Layers -> SUBSET Modules]
      BY <2>0, <1>3, <1>6 DEF ParamsTyped
    <3>4. collected' \in [Modules -> Marks]
      BY <1>0 DEF Marks
    <3> QED
      BY <3>2, <3>3, <3>4 DEF ParamsTyped
  <2>3. \A l \in Layers : ParamsOf(l)' = qparams'[l]
    BY <1>n DEF ParamsOf
  <2>4. \A l \in Layers \ {sub} : ParamsOf(l) = qparams[l]
    BY <1>3 DEF ParamsOf
  <2>5. ParamsOf(sub) = collected
    BY <1>0, <1>3 DEF ParamsOf
  <2>6. \A l \in Layers : IsObserved(l)' => IsObserved(l)
    BY <1>n, <1>t
  <2>7. OwnOK(sub, collected, FALSE)
    BY <2>5, <1>0, <1>1, <1>3, <1>t DEF ParamsOK, OwnOK
  <2>8. \A l \in Layers : OthersOK(ParamsOf(l), IsObserved(l))
    BY <1>1 DEF ParamsOK
  <2>9. \A l \in Layers : OwnOK(l, ParamsOf(l), l <= Begun(i, j))'
    <3> SUFFICES ASSUME NEW l \in Layers PROVE OwnOK(l, ParamsOf(l), l <= Begun(i, j))'
      OBVIOUS
    <3>1. CASE l = sub
      <4>1. Others \subseteq scheme'[sub]
        BY <2>0, <2>1, <2>7 DEF OwnOK
      <4>2. ASSUME NEW m \in Own
            PROVE  qparams'[sub][m] = IF m \in scheme'[sub] THEN "tuned" ELSE "none"
        <5>1. collected[m] = "new" /\ m \in scheme[sub] /\ m \in Modules
          BY <2>0, <2>7 DEF OwnOK
        <5>2. CASE m \in Tuned
          BY <5>1, <5>2, <2>1
        <5>3. CASE m \notin Tuned
          BY <5>1, <5>3, <2>1
        <5> QED
          BY <5>2, <5>3
      <4>3. l <= Begun(i, j)'
        BY <3>1, <1>4, <1>t
      <4> QED
        BY <3>1, <4>1, <4>2, <4>3, <2>3 DEF OwnOK
    <3>2. CASE l # sub
      <4>1. OwnOK(l, qparams[l], l <= sub - 1)
        BY <2>4, <3>2, <1>0, <1>1, <1>t DEF ParamsOK
      <4>2. l <= sub - 1 <=> l <= sub
        BY <3>2, <1>0, <1>t
      <4> QED
        BY <4>1, <4>2, <3>2, <2>1, <2>3, <1>4 DEF OwnOK
    <3> QED
      BY <3>1, <3>2
  <2>10. \A l \in Layers : OthersOK(ParamsOf(l), IsObserved(l))'
    <3> SUFFICES ASSUME NEW l \in Layers PROVE OthersOK(ParamsOf(l), IsObserved(l))'
      OBVIOUS
    <3>1. \A m \in Others \ Linear : ParamsOf(l)'[m] = ParamsOf(l)[m]
      <4>1. CASE l = sub
        <5>1. Tuned \subseteq Linear
          BY <1>6 DEF Tunable
        <5>2. ASSUME NEW m \in Others \ Linear PROVE qparams'[sub][m] = collected[m]
          <6>1. m \in Modules /\ m \notin Own /\ m \notin Tuned
            BY <5>1, <2>0
          <6> QED
            BY <6>1, <2>1
        <5> QED
          BY <5>2, <4>1, <2>3, <2>5
      <4>2. CASE l # sub
        BY <4>2, <2>1, <2>3, <2>4
      <4> QED
        BY <4>1, <4>2
    <3> QED
      BY <3>1, <2>6, <2>8 DEF OthersOK
  <2> QED
    BY <2>2, <2>9, <2>10, <1>n DEF ParamsOK
<1> QED
  BY <1>2, <1>n, <1>5, <1>7, <1>8 DEF TuningInv, RaisedOK

LEMMA NextSubgraphStep ==
  ASSUME NEW i, NEW j, TuningInv(i, j), NextSubgraph
  PROVE  TuningInv(i, j)'
<1>0. /\ NumLayers \in Nat \ {0} /\ Layers = 1 .. NumLayers /\ TuningBatches \in Nat \ {0}
      /\ phase = "propagate"
      /\ \/ sub < NumSubgraphs /\ sub' = sub + 1 /\ phase' = "pass"
         \/ ~ (sub < NumSubgraphs) /\ sub' = sub /\ phase' = "end"
      /\ UNCHANGED <<arSetup, propagateError, pipe, turn, hooked, moduleInput, qInput, collected,
                     qparams, scheme, tunedOn>>
  BY AutoRoundAssumption DEF Layers, NextSubgraph, arModel
<1>1. PlanOK(i, j) /\ PlacesOK(i, j) /\ TunedOK(Begun(i, j)) /\ CaptureOK(i, j, Begun(i, j))
      /\ ParamsOK(Begun(i, j))
  BY <1>0 DEF TuningInv
<1>2. /\ PlanOK(i, j)' /\ IsSingle' = IsSingle /\ Modifiers' = Modifiers
      /\ NumSubgraphs' = NumSubgraphs /\ \A l : SubgraphOf(l)' = SubgraphOf(l)
  BY <1>0, <1>1, PlanStays
<1>p. /\ i \in Nat /\ pipe \in Nat /\ sub \in Nat /\ sub >= 1 /\ sub <= NumSubgraphs
      /\ NumSubgraphs \in Nat
  <2>1. i \in 1 .. Len(plan) /\ pipe \in 1 .. Len(plan) /\ sub \in 1 .. NumSubgraphs
    BY <1>1, PlaceFacts DEF PlacesOK
  <2>2. NumSubgraphs \in Nat /\ Len(plan) \in Nat
    BY <1>1, SubgraphFacts DEF PlanOK
  <2> QED
    BY <2>1, <2>2
<1>3. Begun(i, j)' = Begun(i, j)
  <2>1. CASE pipe = i
    <3>1. Begun(i, j) = IF sub <= NumLayers THEN sub ELSE NumLayers
      BY <2>1, <1>0, <1>p DEF Begun
    <3>2. NumSubgraphs = NumLayers + 1
      <4>1. IsSingle
        BY <3>1, <1>0, <1>1, <1>p DEF TunedOK
      <4> QED
        BY <4>1, <1>1, SingleFacts DEF PlanOK
    <3>3. CASE sub < NumSubgraphs
      <4>1. phase' = "pass" /\ sub' - 1 = sub /\ sub <= NumLayers
        BY <3>2, <3>3, <1>0, <1>p
      <4>2. Begun(i, j)' = sub' - 1
        BY <4>1, <2>1, <1>0, <1>p DEF Begun
      <4> QED
        BY <4>1, <4>2, <3>1
    <3>4. CASE ~ (sub < NumSubgraphs)
      <4>1. phase' = "end" /\ ~ (sub <= NumLayers)
        BY <3>2, <3>4, <1>0, <1>p
      <4>2. Begun(i, j)' = NumLayers
        BY <4>1, <2>1, <1>0, <1>p DEF Begun
      <4> QED
        BY <4>1, <4>2, <3>1
    <3> QED
      BY <3>3, <3>4
  <2>2. CASE pipe # i
    BY <2>2, <1>0 DEF Begun
  <2> QED
    BY <2>1, <2>2
<1>4. PlacesOK(i, j)'
  <2>1. sub' \in 1 .. NumSubgraphs' /\ (phase' = "end" => sub' = NumSubgraphs')
    BY <1>0, <1>2, <1>p
  <2>2. phase' = "pass" => turn' \in 1 .. TuningBatches
    <3>1. turn' = 1
      BY <1>0, <1>1 DEF PlacesOK
    <3> QED
      BY <3>1, <1>0
  <2>3. pipe' \in 1 .. Len(plan')
    BY <1>0, <1>1 DEF PlacesOK, arSetup
  <2> QED
    BY <2>1, <2>2, <2>3, <1>0 DEF PlacesOK, InPipeline
<1>5. TunedOK(Begun(i, j))'
  BY <1>0, <1>1, <1>2, <1>3 DEF TunedOK
<1>6. CaptureOK(i, j, Begun(i, j))'
  <2>1. moduleInput = [l \in Layers |-> <<>>]
    BY <1>0, <1>1 DEF CaptureOK, Waiting
  <2>2. phase' \in InPipeline /\ phase' # "tune" /\ phase' # "start" /\ phase \in InPipeline
        /\ phase # "tune" /\ phase # "start"
    BY <1>0 DEF InPipeline
  <2>3. CASE pipe = i
    <3>1. propagateError = FALSE /\ through = [b \in 1 .. TuningBatches |-> {}]
          /\ qInput = Begun(i, j)
          /\ hooked = {l \in Layers : l > Begun(i, j)}
      BY <2>2, <2>3, <1>1 DEF CaptureOK
    <3>2. through' = through
      BY <3>1 DEF NextSubgraph
    <3>3. Waiting(i, j)' = <<>>
      <4>1. phase' = "pass" => Captured(turn' - 1) = <<>>
        BY <1>0, <1>1 DEF PlacesOK, Captured
      <4> QED
        BY <4>1, <2>3, <1>0 DEF Waiting
    <3> QED
      <4>1. hooked' = {l \in Layers : l > Begun(i, j)'} /\ qInput' = Begun(i, j)'
        BY <3>1, <1>0, <1>3
      <4>2. moduleInput' = [l \in Layers |-> IF l \in Decoding' THEN Waiting(i, j)' ELSE <<>>]
        BY <2>1, <3>3, <1>0
      <4>3. propagateError' = FALSE /\ through' = [b \in 1 .. TuningBatches |-> {}]
        BY <3>1, <3>2, <1>0
      <4>4. pipe' = i /\ ~ (pipe' < i)
        BY <2>3, <1>0, <1>p
      <4> QED
        BY <2>2, <4>1, <4>2, <4>3, <4>4 DEF CaptureOK
  <2>4. CASE pipe # i
    <3>1. Waiting(i, j)' = <<>>
      BY <2>4, <1>0 DEF Waiting
    <3> QED
      BY <2>1, <2>2, <2>4, <3>1, <1>0, <1>1 DEF CaptureOK
  <2> QED
    BY <2>3, <2>4
<1>7. ParamsOK(Begun(i, j))'
  <2>1. \A l \in Layers : ParamsOf(l)' = ParamsOf(l)
    BY <1>0 DEF ParamsOf
  <2>2. ParamsTyped' /\ scheme' = scheme
    BY <1>0, <1>1 DEF ParamsOK, ParamsTyped
  <2>3. ASSUME NEW l \in Layers, IsObserved(l)' PROVE IsObserved(l)
    <3>1. SubgraphOf(l) \in 1 .. NumSubgraphs
      BY <1>1, SubgraphFacts DEF PlanOK
    <3>2. SubgraphOf(l) < sub + 1 => SubgraphOf(l) < sub \/ SubgraphOf(l) = sub
      BY <3>1, <1>p
    <3>3. ~ (sub < NumSubgraphs) => SubgraphOf(l) < sub \/ SubgraphOf(l) = sub
      BY <3>1, <1>p
    <3> QED
      BY <2>3, <3>2, <3>3, <1>0, <1>2 DEF IsObserved, arSetup
  <2> QED
    BY <2>1, <2>2, <2>3, <1>0, <1>1, <1>3 DEF ParamsOK, OwnOK, OthersOK
<1> QED
  BY <1>0, <1>2, <1>4, <1>5, <1>6, <1>7 DEF TuningInv, RaisedOK

LEMMA EndPipelineStep ==
  ASSUME NEW i, NEW j, TuningInv(i, j), EndPipeline
  PROVE  TuningInv(i, j)'
<1>0. /\ NumLayers \in Nat \ {0} /\ Layers = 1 .. NumLayers
      /\ phase = "end"
      /\ \/ pipe < Len(plan) /\ pipe' = pipe + 1 /\ phase' = "start"
         \/ ~ (pipe < Len(plan)) /\ pipe' = pipe /\ phase' = "done"
      /\ UNCHANGED <<arSetup, propagateError, sub, turn, through, moduleInput, collected,
                     qparams, scheme, tunedOn>> /\ plan' = plan
  BY AutoRoundAssumption DEF Layers, EndPipeline, arSetup
<1>1. PlanOK(i, j) /\ PlacesOK(i, j) /\ TunedOK(Begun(i, j)) /\ CaptureOK(i, j, Begun(i, j))
      /\ ParamsOK(Begun(i, j))
  BY <1>0 DEF TuningInv
<1>2. /\ PlanOK(i, j)' /\ IsSingle' = IsSingle /\ NumSubgraphs' = NumSubgraphs
  BY <1>0, <1>1, PlanStays
<1>p. /\ i \in Nat /\ pipe \in Nat /\ pipe >= 1 /\ pipe <= Len(plan)
      /\ i <= Len(plan) /\ Len(plan) \in Nat
      /\ (IsPresent("ar") <=> pipe = i)
  <2>1. i \in 1 .. Len(plan) /\ pipe \in 1 .. Len(plan) /\ (IsPresent("ar") <=> pipe = i)
    BY <1>1, PlaceFacts DEF PlacesOK
  <2>2. Len(plan) \in Nat
    BY <1>1 DEF PlanOK
  <2> QED
    BY <2>1, <2>2
<1>3. Begun(i, j)' = Begun(i, j)
  <2>1. CASE pipe < Len(plan)
    BY <2>1, <1>0, <1>p DEF Begun
  <2>2. CASE ~ (pipe < Len(plan))
    BY <2>2, <1>0, <1>p DEF Begun
  <2> QED
    BY <2>1, <2>2
<1>4. PlacesOK(i, j)'
  <2>1. sub' \in 1 .. NumSubgraphs'
    BY <1>0, <1>1, <1>2 DEF PlacesOK
  <2>2. pipe' \in 1 .. Len(plan) /\ (phase' = "done" => pipe' = Len(plan))
    BY <1>0, <1>p
  <2> QED
    BY <2>1, <2>2, <1>0 DEF PlacesOK, InPipeline
<1>5. TunedOK(Begun(i, j))'
  BY <1>0, <1>1, <1>2, <1>3 DEF TunedOK
<1>6. CaptureOK(i, j, Begun(i, j))'
  <2>1. moduleInput = [l \in Layers |-> <<>>]
    BY <1>0, <1>1 DEF CaptureOK, Waiting
  <2>2. Waiting(i, j)' = <<>>
    BY <1>0 DEF Waiting
  <2>3. phase' \notin InPipeline
    BY <1>0 DEF InPipeline
  <2>4. hooked' = {}
    <3>1. pipe # i => hooked = {}
      BY <1>1 DEF CaptureOK
    <3> QED
      BY <3>1, <1>p DEF EndPipeline
  <2>5. pipe' < i \/ (pipe' = i /\ phase' = "start") => qInput' = 0
    <3>1. pipe' < i \/ (pipe' = i /\ phase' = "start") => pipe < i
      BY <1>0, <1>p
    <3>2. pipe < i => qInput = 0 /\ pipe # i
      BY <1>1, <1>p DEF CaptureOK
    <3> QED
      BY <3>1, <3>2, <1>p DEF EndPipeline
  <2> QED
    BY <2>1, <2>2, <2>3, <2>4, <2>5, <1>0 DEF CaptureOK
<1>7. ParamsOK(Begun(i, j))'
  <2>1. \A l \in Layers : ParamsOf(l)' = ParamsOf(l)
    BY <1>0 DEF ParamsOf
  <2>2. ParamsTyped' /\ scheme' = scheme
    BY <1>0, <1>1 DEF ParamsOK, ParamsTyped
  <2>3. ASSUME NEW l \in Layers, IsObserved(l)' PROVE IsObserved(l)
    <3>1. CASE phase' = "start"
      <4>1. PICK n \in 1 .. Len(plan) : n < pipe + 1 /\ HasObserver(plan[n])
        BY <2>3, <3>1, <1>0 DEF IsObserved
      <4>2. n < pipe \/ n = pipe
        BY <4>1, <1>p
      <4> QED
        BY <4>1, <4>2, <1>0 DEF IsObserved, Modifiers
    <3>2. CASE phase' = "done"
      BY <2>3, <3>2, <1>0 DEF IsObserved, Modifiers
    <3> QED
      BY <3>1, <3>2, <1>0
  <2> QED
    BY <2>1, <2>2, <2>3, <1>0, <1>1, <1>3 DEF ParamsOK, OwnOK, OthersOK
<1> QED
  BY <1>0, <1>2, <1>4, <1>5, <1>6, <1>7 DEF TuningInv, RaisedOK

LEMMA AutoRoundStuttering ==
  ASSUME NEW i, NEW j, TuningInv(i, j), UNCHANGED autoRoundVars
  PROVE  TuningInv(i, j)'
<1>1. /\ UNCHANGED <<arSetup, propagateError, pipe, phase, sub, turn, through, hooked, moduleInput,
                     qInput, collected, qparams, scheme, tunedOn>>
      /\ plan' = plan /\ group' = group
  BY DEF autoRoundVars, arData, arModel, arSetup
<1>2. PlanOK(i, j)
  BY DEF TuningInv
<1>3. /\ PlanOK(i, j)' /\ NumSubgraphs' = NumSubgraphs /\ IsSingle' = IsSingle
      /\ (\A l : SubgraphOf(l)' = SubgraphOf(l)) /\ Decoding' = Decoding /\ Modifiers' = Modifiers
  BY <1>1, <1>2, PlanStays
<1>4. CASE phase = "raised"
  BY <1>1, <1>3, <1>4 DEF TuningInv, RaisedOK
<1>5. CASE phase # "raised"
  <2>1. Begun(i, j)' = Begun(i, j)
    BY <1>1 DEF Begun
  <2>2. PlacesOK(i, j)'
    BY <1>1, <1>3, <1>5 DEF TuningInv, PlacesOK
  <2>3. TunedOK(Begun(i, j))'
    BY <2>1, <1>1, <1>3, <1>5 DEF TuningInv, TunedOK
  <2>4. Waiting(i, j)' = Waiting(i, j)
    BY <1>1 DEF Waiting
  <2>5. CaptureOK(i, j, Begun(i, j))'
    BY <2>1, <2>4, <1>1, <1>3, <1>5 DEF TuningInv, CaptureOK
  <2>6. \A l \in Layers : ParamsOf(l)' = ParamsOf(l) /\ (IsObserved(l)' <=> IsObserved(l))
    BY <1>1, <1>3 DEF ParamsOf, IsObserved
  <2>7. ParamsOK(Begun(i, j))'
    BY <2>1, <2>6, <1>1, <1>5 DEF TuningInv, ParamsOK, ParamsTyped, OwnOK, OthersOK
  <2> QED
    BY <2>2, <2>3, <2>5, <2>7, <1>1, <1>3, <1>5 DEF TuningInv, RaisedOK
<1> QED
  BY <1>4, <1>5

LEMMA AutoRoundStep == AutoRoundInv /\ [AutoRoundNext]_autoRoundVars => AutoRoundInv'
<1> SUFFICES ASSUME AutoRoundInv, [AutoRoundNext]_autoRoundVars PROVE AutoRoundInv'
  OBVIOUS
<1>1. PICK i \in 1 .. Len(plan) : \E j \in 1 .. Len(plan[i]) : TuningInv(i, j)
  BY DEF AutoRoundInv
<1>2. PICK j \in 1 .. Len(plan[i]) : TuningInv(i, j)
  BY <1>1
<1>3. TuningInv(i, j)'
  BY <1>2, StartPipelineStep, ForwardBatchStep, ObserveLayersStep, BeginTuningStep, EndTuningStep,
     NextSubgraphStep, EndPipelineStep, AutoRoundStuttering DEF AutoRoundNext
<1>4. i \in 1 .. Len(plan') /\ j \in 1 .. Len(plan'[i])
  BY <1>3 DEF TuningInv, PlanOK, TunesAt
<1> QED
  BY <1>3, <1>4 DEF AutoRoundInv

LEMMA TunedApart == AutoRoundInv => TuningStaysApart
<1> SUFFICES ASSUME AutoRoundInv PROVE TuningStaysApart
  OBVIOUS
<1>0. Layers = 1 .. NumLayers
  BY DEF Layers
<1>1. PICK i \in 1 .. Len(plan) : \E j \in 1 .. Len(plan[i]) : TuningInv(i, j)
  BY DEF AutoRoundInv
<1>2. PICK j \in 1 .. Len(plan[i]) : TuningInv(i, j)
  BY <1>1
<1>3. TunedOnOwnInputs
  <2>1. CASE phase = "raised"
    BY <2>1, <1>2 DEF TuningInv, RaisedOK, TunedOnOwnInputs, TunedLayers
  <2>2. CASE phase # "raised"
    <3>1. TunedOK(Begun(i, j))
      BY <2>2, <1>2 DEF TuningInv
    <3> QED
      BY <2>2, <3>1 DEF TunedOK, TunedOnOwnInputs, TunedLayers, Captured
  <2> QED
    BY <2>1, <2>2
<1>4. EachKeepsItsOwn
  <2> SUFFICES ASSUME phase = "done", NEW l \in Layers
               PROVE  /\ \A m \in Own : qparams[l][m] = IF m \in scheme[l] THEN "tuned" ELSE "none"
                      /\ (\E k \in DOMAIN plan : \E n \in DOMAIN plan[k] : plan[k][n] = "qm") =>
                           \A m \in Others \ Linear : m \in scheme[l] /\ qparams[l][m] = "observed"
    BY DEF EachKeepsItsOwn
  <2>1. PlanOK(i, j) /\ PlacesOK(i, j) /\ ParamsOK(Begun(i, j)) /\ TunedOK(Begun(i, j))
    BY <1>2 DEF TuningInv
  <2>2. pipe = Len(plan) /\ i \in Nat /\ i <= pipe /\ Len(plan) \in Nat
    BY <2>1 DEF PlacesOK, PlanOK
  <2>3. Begun(i, j) = NumLayers
    BY <2>2 DEF Begun
  <2>4. ParamsOf(l) = qparams[l] /\ l <= NumLayers
    BY <1>0 DEF ParamsOf
  <2>5. OwnOK(l, qparams[l], TRUE) /\ OthersOK(qparams[l], IsObserved(l))
    BY <2>1, <2>3, <2>4 DEF ParamsOK, OwnOK
  <2>6. ASSUME NEW k \in DOMAIN plan, NEW n \in DOMAIN plan[k], plan[k][n] = "qm"
        PROVE  IsObserved(l)
    <3>1. k \in 1 .. Len(plan) /\ plan[k] \in Seq({"ar", "qm"})
      BY <2>1 DEF PlanOK
    <3>2. n \in 1 .. Len(plan[k])
      BY <3>1
    <3>3. HasObserver(plan[k])
      BY <2>6, <3>2 DEF HasObserver
    <3>4. k < pipe \/ k = pipe
      BY <3>1, <2>2
    <3> QED
      BY <3>1, <3>3, <3>4 DEF IsObserved, Modifiers
  <2> QED
    BY <2>5, <2>6 DEF OwnOK, OthersOK
<1> QED
  BY <1>3, <1>4 DEF TuningStaysApart

(* Whichever pipelines a recipe with one AutoRound modifier runs in, and whatever the library
   leaves in full precision: a layer is tuned on its inputs of all batches, through layers
   that are not tuned, and beside them the output of the layer before it; its modules end up
   with the parameters of the library, those of the other modifier with what that one has
   observed (AutoRoundModifier.apply_autoround, pipelines/sequential/pipeline.py:88). *)
THEOREM TuningAlwaysStaysApart == PlansTuneOnce /\ AutoRoundSpec => []TuningStaysApart
<1> SUFFICES ASSUME PlansTuneOnce PROVE AutoRoundSpec => []TuningStaysApart
  OBVIOUS
<1>1. AutoRoundInit => AutoRoundInv
  BY AutoRoundStart
<1> QED
  BY <1>1, AutoRoundStep, TunedApart, PTL DEF AutoRoundSpec

=============================================================================
