------------------------------ MODULE Datasets ------------------------------
(***************************************************************************)
(* How the calibration samples are divided among the ranks                 *)
(* (_make_sampler and its helpers in datasets/utils.py).                   *)
(*                                                                         *)
(* Every rank compares its dataset with those of the others.  If all are   *)
(* the same, each builds its sampler over its part of the samples; if not, *)
(* the caller has divided them, and each rank uses its own.  Samples are   *)
(* then taken at random or from the longest on.  A sampler yields indices  *)
(* of the dataset it was built over, and the data loader reads with them   *)
(* from the dataset of the rank, which no rank has cut down to its part.   *)
(***************************************************************************)
EXTENDS Naturals, FiniteSets

CONSTANTS
  Worlds,      \* numbers of ranks
  Tables,      \* datasets
  Tokens,      \* the lengths of the samples of a dataset, a sequence
  Fingerprint,
  Requests,    \* values of num_calibration_samples, 0 for None
  RoundsDown   \* triples <<n, i, w>> with floor(n * (i / w)) < n * i / w an integer

ASSUME DatasetsAssumption ==
  /\ Worlds \subseteq Nat \ {0} /\ Requests \subseteq Nat
  /\ \A t \in RoundsDown :
       /\ t[1] \in Nat \ {0} /\ t[2] \in 1 .. (t[3] - 1)
       /\ (t[1] * t[2]) % t[3] = 0

VARIABLES
  world, request, shuffle,
  data,        \* the dataset of a rank
  at,          \* what a rank does next
  share,       \* positions of the samples that a rank's sampler is built over
  taken        \* positions of the samples that its data loader reads

datasetsSetup == <<world, request, shuffle, data>>
datasetsVars == <<datasetsSetup, at, share, taken>>

Ranks == 0 .. world - 1
Size(t) == Cardinality(DOMAIN Tokens[t])
Distributed == world > 1

DatasetsInit ==
  /\ world \in Worlds /\ request \in Requests /\ shuffle \in BOOLEAN
  /\ data \in [Ranks -> Tables]
  /\ at = [r \in Ranks |-> "compare"]
  /\ share = [r \in Ranks |-> {}] /\ taken = [r \in Ranks |-> {}]

(* _is_dist_and_same_ds, up to the collective *)
Compare(r) ==
  /\ at[r] = "compare"
  /\ at' = [at EXCEPT ![r] =
       IF ~ Distributed THEN "own" ELSE IF Size(data[r]) = 0 THEN "raised" ELSE "gather"]
  /\ UNCHANGED <<datasetsSetup, share, taken>>

AllSame == \A r, s \in Ranks : Fingerprint[data[r]] = Fingerprint[data[s]]
Divided == Distributed /\ AllSame

(* all_gather_object returns when every rank has sent its fingerprint. *)
Gather(r) ==
  /\ at[r] = "gather"
  /\ \A s \in Ranks : at[s] \notin {"compare", "raised"}
  /\ at' = [at EXCEPT ![r] = IF AllSame THEN "divide" ELSE "own"]
  /\ UNCHANGED <<datasetsSetup, share, taken>>

(* Mutant: each bound is rounded up where the next part starts. *)
EndRoundedUp(n, i) == (n * (i + 1) + world - 1) \div world

(* n * (index / num_partitions) in floating point, rounded down: where it should be
   an integer it may be a little less. *)
Bound(n, i) == (n * i) \div world - (IF <<n, i, world>> \in RoundsDown THEN 1 ELSE 0)
End(n, i) == Bound(n, i + 1)

Asked(r) == IF request = 0 THEN Size(data[r]) ELSE request

(* select raises if a position is past the end. *)
Divide(r) ==
  /\ at[r] = "divide"
  /\ LET n == Asked(r)
     IN IF End(n, r) > Size(data[r])
        THEN at' = [at EXCEPT ![r] = "raised"] /\ UNCHANGED share
        ELSE /\ share' = [share EXCEPT ![r] = {p \in DOMAIN Tokens[data[r]] :
                                               Bound(n, r) < p /\ p <= End(n, r)}]
             /\ at' = [at EXCEPT ![r] = "sample"]
  /\ UNCHANGED <<datasetsSetup, taken>>

UseOwn(r) ==
  /\ at[r] = "own"
  /\ share' = [share EXCEPT ![r] = DOMAIN Tokens[data[r]]]
  /\ at' = [at EXCEPT ![r] = "sample"]
  /\ UNCHANGED <<datasetsSetup, taken>>

(* num_samples of the sampler; a request of all ranks together is cut down to the
   rank's part. *)
Count(r) == LET n == Cardinality(share[r])
            IN IF request = 0 \/ request > n THEN n ELSE request

(* The sampler's dataset: its samples by their index there, and where they are in the
   dataset of the rank. *)
SampleIndices(r) == 1 .. Cardinality(share[r])
Start(r) == IF Divided THEN Bound(Asked(r), r) ELSE 0
Length(r, i) == Tokens[data[r]][Start(r) + i]

(* argsort of the lengths, descending: ties are in any order. *)
LongestFirst(r, I) == \A i \in I, j \in SampleIndices(r) \ I : Length(r, i) >= Length(r, j)

(* RandomSampler refuses to sample nothing; LengthAwareSampler does not.  The loader takes
   the indices for positions in the whole dataset. *)
Sample(r) ==
  /\ at[r] = "sample"
  /\ IF shuffle /\ Count(r) = 0
     THEN at' = [at EXCEPT ![r] = "raised"] /\ UNCHANGED taken
     ELSE /\ \E I \in SUBSET SampleIndices(r) :
               /\ Cardinality(I) = Count(r)
               /\ shuffle \/ LongestFirst(r, I)
               /\ taken' = [taken EXCEPT ![r] = I]
          /\ at' = [at EXCEPT ![r] = "done"]
  /\ UNCHANGED <<datasetsSetup, share>>

DatasetsNext ==
  \E r \in Ranks : Compare(r) \/ Gather(r) \/ Divide(r) \/ UseOwn(r) \/ Sample(r)

DatasetsSpec == DatasetsInit /\ [][DatasetsNext]_datasetsVars

-----------------------------------------------------------------------------
(* Properties *)

AllDone == \A r \in Ranks : at[r] = "done"

(* Ranks with the same dataset divide what is asked for of its first samples: nothing is in
   two parts or in none, no part has two more than the even share or two less, and a
   rank reads as many samples as its part has. *)
WorkIsDivided ==
  AllDone /\ Divided =>
    /\ \A r, s \in Ranks : r # s => share[r] \cap share[s] = {}
    /\ UNION {share[r] : r \in Ranks} = 1 .. Asked(0)
    /\ \A r \in Ranks :
         LET even == Asked(0) \div world
         IN /\ Cardinality(share[r]) \in (IF even = 0 THEN 0 ELSE even - 1) .. even + 2
            /\ Cardinality(taken[r]) = Cardinality(share[r])

(* A rank with a dataset of its own that drops samples drops its shortest: LengthAwareSampler
   says that shorter sequences are truncated first. *)
LongestAreTaken ==
  \A r \in Ranks : at[r] = "done" /\ ~ shuffle /\ ~ Divided =>
    \A p \in taken[r], q \in share[r] \ taken[r] : Tokens[data[r]][p] >= Tokens[data[r]][q]

(* The work of a calibration is divided among the ranks, and what a rank leaves out of a
   dataset of its own is the shortest. *)
SamplesAreDivided == WorkIsDivided /\ LongestAreTaken

(* "Each rank processes a disjoint partition of the calibration dataset"
   (docs/guides/big_models_and_distributed/distributed_oneshot.md:2): ranks with the same
   dataset never read a sample twice. *)
EachSampleOnce ==
  AllDone /\ Divided => \A r, s \in Ranks : r # s => taken[r] \cap taken[s] = {}

=============================================================================
