---------------------------- MODULE PruningProofs ----------------------------
(***************************************************************************)
(* What pruning and repacking keep: the weights of SparseGPT, the experts  *)
(* of REAP, the rows of linearized experts, the masks of pruning           *)
(* modifiers.                                                              *)
(***************************************************************************)
EXTENDS Reap, Sparsify, Experts, Masking, Inductions, SequenceTheorems, TLAPS

(***************************************************************************)
(* SparseGPT keeps the zeros of a weight when preserve_sparsity_mask is    *)
(* set, for every width, block size, sparsity and N:M structure.           *)
(*                                                                         *)
(* With a structure the mask is only added to.  Without one, the reason is *)
(* a count: elements of the mask have the lowest score, and a block whose  *)
(* mask does not fill its target prunes more elements than its mask has.   *)
(***************************************************************************)

SparsifySetupOK ==
  /\ width \in Nat \ {0} /\ block \in Nat \ {0} /\ sparsity \in Nat
  /\ N \in Nat /\ M \in Nat
  /\ preserve \in BOOLEAN /\ preserve => method = "sgpt"
  /\ base \subseteq Columns

(* The inductive invariant: what the mask has, and what has become zero so far. *)
MaskInv ==
  /\ state \in {"pruning", "done"} => base \subseteq mask
  /\ state = "pruning" /\ ~ Structured => mask = base

PrunedInv ==
  /\ state \in {"pruning", "done"} => \A c \in base : c < at => c \in pruned
  /\ state = "done" => at >= width
  /\ state = "start" => at = 0

KeptInv == SparsifySetupOK /\ at \in Nat /\ (preserve => MaskInv /\ PrunedInv)

LEMMA KeptMeansKept == KeptInv => BasePruningIsKept
BY DEF KeptInv, SparsifySetupOK, MaskInv, PrunedInv, BasePruningIsKept, Columns

LEMMA KeptInit == SparsifyInit => KeptInv
<1> SUFFICES ASSUME SparsifyInit PROVE KeptInv
  OBVIOUS
<1>1. N \in Nat /\ M \in Nat
  <2>1. structure = <<0, 0>> \/ (structure[1] \in 1 .. structure[2] /\ structure[2] \in Nat)
    BY SparsifyAssumption DEF SparsifyInit
  <2> QED
    BY <2>1 DEF N, M
<1>2. sparsity \in Nat /\ width \in Nat \ {0} /\ block \in Nat \ {0}
  BY SparsifyAssumption DEF SparsifyInit
<1>3. base \subseteq Columns /\ preserve \in BOOLEAN /\ (preserve => method = "sgpt")
  BY DEF SparsifyInit
<1> QED
  BY <1>1, <1>2, <1>3 DEF SparsifyInit, KeptInv, SparsifySetupOK, MaskInv, PrunedInv

-----------------------------------------------------------------------------
(* Where blocks and groups are. *)

LEMMA BlockBounds ==
  ASSUME KeptInv, preserve
  PROVE  BlockStart \in Int /\ BlockEnd \in Int /\ BlockStart <= at
<1>1. BlockSize \in Nat \ {0} /\ at \in Nat /\ width \in Nat
  BY DEF KeptInv, SparsifySetupOK, BlockSize
<1>2. at % BlockSize \in Nat
  BY <1>1
<1> QED
  BY <1>1, <1>2 DEF BlockStart, BlockEnd

(* A column the position has passed after a group is in it, or was passed before. *)
LEMMA GroupIsPassed ==
  ASSUME KeptInv, preserve, NEW c \in Nat, c < at + Size(ColumnGroup)
  PROVE  c < at \/ c \in ColumnGroup
<1> DEFINE e == IF at + M < BlockEnd THEN at + M ELSE BlockEnd
<1>1. at \in Nat /\ e \in Int
  BY BlockBounds DEF KeptInv, SparsifySetupOK
<1>2. ColumnGroup = at .. (e - 1)
  BY DEF ColumnGroup
<1> HIDE DEF e
<1>3. Cardinality(at .. (e - 1)) = IF at > e - 1 THEN 0 ELSE (e - 1) - at + 1
  BY <1>1, FS_Interval
<1> QED
  BY <1>1, <1>2, <1>3 DEF Size

(* Of a block without a structure everything in the mask is pruned. *)
LEMMA BlockKeepsMask ==
  ASSUME KeptInv, preserve, state = "pruning", ~ Structured,
         NEW L \in SUBSET Block,
         IF ~ Extends THEN L = mask \cap Block
         ELSE \E n \in Target(Block) .. Size(Block) :
                /\ n > Target(Block)
                /\ MayBeLowest(L, n, Block, SureZeros \cup (mask \cap Block))
  PROVE  base \cap Block \subseteq L
<1>1. mask = base
  BY DEF KeptInv, MaskInv
<1>2. CASE ~ Extends
  BY <1>1, <1>2
<1>3. CASE Extends
  <2> DEFINE Z == SureZeros \cup (mask \cap Block)
  <2>1. PICK n \in Target(Block) .. Size(Block) :
          n > Target(Block) /\ MayBeLowest(L, n, Block, Z)
    BY <1>3
  <2>2. IsFiniteSet(Block) /\ Cardinality(Block) \in Nat
    BY BlockBounds, FS_Interval, FS_CardinalityType DEF Block
  <2>3. Target(Block) \in Int
    BY <2>2, SparsifyAssumption DEF Target, Size, KeptInv, SparsifySetupOK
  <2>4. Target(Block) > Size(mask \cap Block)
    BY <1>3 DEF Extends
  <2>5. ASSUME L \subseteq Z PROVE FALSE
    <3>1. L \subseteq mask \cap Block
      BY <1>1, <2>5 DEF SureZeros
    <3>2. IsFiniteSet(mask \cap Block)
      BY <2>2, FS_Subset
    <3>3. Cardinality(L) <= Cardinality(mask \cap Block)
          /\ Cardinality(L) \in Nat /\ Cardinality(mask \cap Block) \in Nat
      BY <3>1, <3>2, FS_Subset, FS_CardinalityType
    <3>4. Cardinality(L) = n
      BY <2>1 DEF MayBeLowest, Size
    <3> QED
      BY <2>1, <2>3, <2>4, <3>3, <3>4 DEF Size
  <2> QED
    BY <1>1, <2>1, <2>5 DEF MayBeLowest
<1> QED
  BY <1>2, <1>3

-----------------------------------------------------------------------------

LEMMA StartPruningKeeps == KeptInv /\ StartPruning => KeptInv'
<1> SUFFICES ASSUME KeptInv, StartPruning PROVE KeptInv'
  OBVIOUS
<1>1. SparsifySetupOK' /\ at' \in Nat
  BY DEF KeptInv, SparsifySetupOK, StartPruning, sparsifySetup, N, M, Columns
<1>2. ASSUME preserve' PROVE MaskInv' /\ PrunedInv'
  <2>1. preserve /\ at' = at /\ base' = base
    BY <1>2 DEF StartPruning, sparsifySetup
  <2>2. state' \in {"raised", "pruning"}
        /\ (state' = "pruning" => mask' = base)
    BY <2>1 DEF StartPruning
  <2>3. at = 0 /\ \A c \in base : c \in Nat
    BY <2>1 DEF StartPruning, KeptInv, PrunedInv, SparsifySetupOK, Columns
  <2> QED
    BY <2>1, <2>2, <2>3 DEF MaskInv, PrunedInv
<1> QED
  BY <1>1, <1>2 DEF KeptInv

(* One group: what the mask has of it becomes zero. *)
LEMMA GroupKeeps == KeptInv /\ PruneGroup => KeptInv'
<1> SUFFICES ASSUME KeptInv, PruneGroup PROVE KeptInv'
  OBVIOUS
<1>1. SparsifySetupOK' /\ UNCHANGED sparsifySetup
  BY DEF KeptInv, SparsifySetupOK, PruneGroup, sparsifySetup, N, M, Columns
<1>2. CASE state' = "raised"
  <2>1. state' = "raised" /\ at' = at
    BY <1>2 DEF PruneGroup
  <2> QED
    BY <1>1, <2>1 DEF KeptInv, MaskInv, PrunedInv
<1>3. CASE state' # "raised"
  <2>1. PICK L \in SUBSET ColumnGroup :
          /\ mask' = mask \cup L
          /\ pruned' = pruned \cup ((mask \cup L) \cap ColumnGroup)
          /\ at' = at + Size(ColumnGroup)
          /\ state' = state
    BY <1>3 DEF PruneGroup, Marked
  <2>2. state = "pruning" /\ Structured
    BY DEF PruneGroup
  <2>3. Structured'
    BY <1>1, <2>2 DEF Structured, N, sparsifySetup
  <2>4. at' \in Nat
    <3>1. BlockStart \in Int /\ BlockEnd \in Int
      <4>1. BlockSize \in Nat \ {0} /\ at \in Nat /\ width \in Nat
        BY DEF KeptInv, SparsifySetupOK, BlockSize
      <4> QED
        BY <4>1 DEF BlockStart, BlockEnd
    <3>2. Cardinality(ColumnGroup) \in Nat
      <4> DEFINE e == IF at + M < BlockEnd THEN at + M ELSE BlockEnd
      <4>1. at \in Int /\ e - 1 \in Int
        BY <3>1 DEF KeptInv, SparsifySetupOK
      <4>2. ColumnGroup = at .. (e - 1)
        BY DEF ColumnGroup
      <4> HIDE DEF e
      <4> QED
        BY <4>1, <4>2, FS_Interval, FS_CardinalityType
    <3> QED
      BY <2>1, <3>2 DEF KeptInv, Size
  <2>5. ASSUME preserve' PROVE MaskInv' /\ PrunedInv'
    <3>1. preserve /\ base' = base
      BY <1>1, <2>5 DEF sparsifySetup
    <3>2. base \subseteq mask /\ \A c \in base : c \in Nat /\ (c < at => c \in pruned)
      BY <2>2, <3>1 DEF KeptInv, MaskInv, PrunedInv, SparsifySetupOK, Columns
    <3>3. \A c \in base : c < at' => c \in pruned'
      BY <2>1, <3>1, <3>2, GroupIsPassed
    <3> QED
      BY <2>1, <2>2, <2>3, <3>1, <3>2, <3>3 DEF MaskInv, PrunedInv
  <2> QED
    BY <1>1, <2>4, <2>5 DEF KeptInv
<1> QED
  BY <1>2, <1>3

LEMMA BlockKeeps == KeptInv /\ PruneBlock => KeptInv'
<1> SUFFICES ASSUME KeptInv, PruneBlock PROVE KeptInv'
  OBVIOUS
<1>1. SparsifySetupOK' /\ UNCHANGED sparsifySetup /\ mask' = mask
  BY DEF KeptInv, SparsifySetupOK, PruneBlock, sparsifySetup, N, M, Columns
<1>2. CASE method = "sgpt" /\ Extends /\ Target(Block) = Size(Block)
  <2>1. state' = "raised" /\ at' = at
    BY <1>2 DEF PruneBlock
  <2> QED
    BY <1>1, <2>1 DEF KeptInv, MaskInv, PrunedInv
<1>3. CASE ~ (method = "sgpt" /\ Extends /\ Target(Block) = Size(Block))
  <2>1. PICK L \in SUBSET Block :
          /\ IF ~ Extends THEN L = mask \cap Block
             ELSE \E n \in Target(Block) .. Size(Block) :
                    /\ method = "sgpt" => n > Target(Block)
                    /\ MayBeLowest(L, n, Block, SureZeros \cup (mask \cap Block))
          /\ pruned' = pruned \cup L /\ at' = BlockEnd /\ state' = state
    BY <1>3 DEF PruneBlock
  <2>2. state = "pruning" /\ ~ Structured /\ ~ Structured'
    BY <1>1 DEF PruneBlock, Structured, N, sparsifySetup
  <2>3. BlockEnd \in Nat
    <3>1. BlockSize \in Nat \ {0} /\ at \in Nat /\ width \in Nat
      BY DEF KeptInv, SparsifySetupOK, BlockSize
    <3>2. at % BlockSize \in 0 .. BlockSize - 1
      BY <3>1
    <3> QED
      BY <3>1, <3>2 DEF BlockEnd, BlockStart
  <2>4. ASSUME preserve' PROVE MaskInv' /\ PrunedInv'
    <3>1. preserve /\ base' = base /\ method = "sgpt"
      BY <1>1, <2>4 DEF sparsifySetup, KeptInv, SparsifySetupOK
    <3>2. base \cap Block \subseteq L
      BY <2>1, <2>2, <3>1, BlockKeepsMask
    <3>3. \A c \in base : c \in Nat /\ (c < at => c \in pruned)
      BY <2>2, <3>1 DEF KeptInv, PrunedInv, SparsifySetupOK, Columns
    <3>4. \A c \in base : c < BlockEnd => c < at \/ c \in Block
      BY <2>3, <3>1, <3>3, BlockBounds DEF Block, KeptInv
    <3>5. \A c \in base : c < at' => c \in pruned'
      BY <2>1, <3>2, <3>3, <3>4
    <3> QED
      BY <1>1, <2>1, <2>2, <3>1, <3>5 DEF KeptInv, MaskInv, PrunedInv
  <2> QED
    BY <1>1, <2>1, <2>3, <2>4 DEF KeptInv
<1> QED
  BY <1>2, <1>3

LEMMA FinishKeeps == KeptInv /\ Finish => KeptInv'
BY DEF KeptInv, SparsifySetupOK, MaskInv, PrunedInv, Finish, sparsifySetup, N, M, Columns

LEMMA KeptStep == KeptInv /\ [SparsifyNext]_sparsifyVars => KeptInv'
<1>1. KeptInv /\ UNCHANGED sparsifyVars => KeptInv'
  BY DEF KeptInv, SparsifySetupOK, MaskInv, PrunedInv, sparsifyVars, sparsifySetup, N, M,
         Structured, Columns
<1> QED
  BY <1>1, StartPruningKeeps, GroupKeeps, BlockKeeps, FinishKeeps DEF SparsifyNext

(* The zeros of a model that was pruned before stay zero when its mask is preserved
   (sparsify_weight of SparseGPT), whatever the block size and the structure. *)
THEOREM BasePruningIsKeptThm == SparsifySpec => []BasePruningIsKept
<1>1. SparsifySpec => []KeptInv
  BY KeptInit, KeptStep, PTL DEF SparsifySpec
<1> QED
  BY <1>1, KeptMeansKept, PTL

-----------------------------------------------------------------------------
(***************************************************************************)
(* As much is pruned as was asked for.  The position is always at the      *)
(* start of a group, or of a block without a structure, and every one of   *)
(* those before it has lost its share; what is pruned or marked without    *)
(* a preserved mask lies before the position, so no group loses more.      *)
(***************************************************************************)

(* The columns of a group or block that starts at i. *)
SpanAt(i, w) == i .. (IF i + w < width THEN i + w ELSE width) - 1

(* a is where a span of w starts, or the end, and those that start before it. *)
AtSpan(a, w) == a % w = 0 \/ a = width
Before(a, w) == {j \in Columns : j % w = 0 /\ j < a}


(* What the spans before a have lost of P. *)
GroupsLost(a, P) ==
  Structured /\ BlockSize % M = 0 =>
    /\ AtSpan(a, M)
    /\ \A j \in Before(a, M) :
         /\ Size(P \cap SpanAt(j, M)) >= N
         /\ ~ preserve => Size(P \cap SpanAt(j, M)) = N

BlocksLost(a, P) ==
  ~ Structured =>
    /\ AtSpan(a, BlockSize)
    /\ \A j \in Before(a, BlockSize) :
         Size(P \cap SpanAt(j, BlockSize)) >= Target(SpanAt(j, BlockSize))

(* Nothing of P, and of a mask K that is not preserved, is at a or after it. *)
LiesBefore(a, P, K) ==
  /\ \A c \in P : c \in Nat /\ c < a
  /\ ~ preserve => \A c \in K : c \in Nat /\ c < a

ReachedInv ==
  /\ SparsifySetupOK /\ at \in Nat /\ at <= width
  /\ Structured => N <= M
  /\ state \in {"start", "pruning", "done", "raised"}
  /\ state = "start" => at = 0 /\ pruned = {} /\ mask = {}
  /\ LiesBefore(at, pruned, mask)
  /\ state = "done" => at = width
  /\ state \in {"start", "pruning", "done"} => GroupsLost(at, pruned) /\ BlocksLost(at, pruned)

LEMMA ReachedMeans == ReachedInv => SparsityIsReached
<1> SUFFICES ASSUME ReachedInv PROVE SparsityIsReached
  OBVIOUS
<1>1. GroupsLoseN
  <2> SUFFICES ASSUME state = "done", Structured, BlockSize % M = 0, NEW i \in Columns, i % M = 0
               PROVE  /\ Size(pruned \cap GroupAt(i)) >= N
                      /\ ~ preserve => Size(pruned \cap GroupAt(i)) = N
    BY DEF GroupsLoseN, Groups
  <2>1. i \in Before(at, M)
    BY DEF Before, ReachedInv, Columns, SparsifySetupOK
  <2> QED
    BY <2>1 DEF ReachedInv, GroupsLost, SpanAt, GroupAt
<1>2. BlocksReachSparsity
  <2> SUFFICES ASSUME state = "done", ~ Structured, NEW i \in Columns, i % BlockSize = 0
               PROVE  Size(pruned \cap SpanAt(i, BlockSize)) >= Target(SpanAt(i, BlockSize))
    BY DEF BlocksReachSparsity, SpanAt
  <2>1. i \in Before(at, BlockSize)
    BY DEF Before, ReachedInv, Columns, SparsifySetupOK
  <2> QED
    BY <2>1 DEF ReachedInv, BlocksLost
<1> QED
  BY <1>1, <1>2 DEF SparsityIsReached

LEMMA ReachedInit == SparsifyInit => ReachedInv
<1> SUFFICES ASSUME SparsifyInit PROVE ReachedInv
  OBVIOUS
<1>1. N \in Nat /\ M \in Nat /\ (Structured => N <= M)
  <2>1. structure = <<0, 0>> \/ (structure[1] \in 1 .. structure[2] /\ structure[2] \in Nat)
    BY SparsifyAssumption DEF SparsifyInit
  <2> QED
    BY <2>1 DEF N, M, Structured
<1>2. sparsity \in Nat /\ width \in Nat \ {0} /\ block \in Nat \ {0}
  BY SparsifyAssumption DEF SparsifyInit
<1>3. base \subseteq Columns /\ preserve \in BOOLEAN /\ (preserve => method = "sgpt")
  BY DEF SparsifyInit
<1>4. BlockSize \in Nat \ {0} /\ (Structured => M \in Nat \ {0}) /\ at = 0
  BY <1>1, <1>2 DEF BlockSize, SparsifyInit, Structured
<1>5. \A w \in Nat \ {0} : AtSpan(at, w) /\ Before(at, w) = {}
  BY <1>2, <1>4 DEF AtSpan, Before, Columns
<1>6. GroupsLost(at, pruned) /\ BlocksLost(at, pruned)
  BY <1>4, <1>5 DEF GroupsLost, BlocksLost
<1> QED
  BY <1>1, <1>2, <1>3, <1>6 DEF SparsifyInit, ReachedInv, SparsifySetupOK, LiesBefore

-----------------------------------------------------------------------------
(* Spans *)

(* From one span to the next. *)
LEMMA NextSpan ==
  ASSUME width \in Nat, NEW w \in Nat \ {0}, NEW a \in Nat, a < width, AtSpan(a, w),
         NEW b, b = IF a + w < width THEN a + w ELSE width
  PROVE  /\ a % w = 0 /\ a \in Columns /\ b \in Nat /\ a < b /\ b <= width /\ b - 1 \in Int
         /\ SpanAt(a, w) = a .. b - 1
         /\ AtSpan(b, w) /\ Before(b, w) = Before(a, w) \cup {a}
         /\ \A j \in Before(a, w) : \A c \in SpanAt(j, w) : c \in Nat /\ c < a
<1>1. a % w = 0 /\ a \in Columns /\ b \in Nat /\ a < b /\ b <= width /\ b - 1 \in Int
  BY DEF AtSpan, Columns
<1>2. SpanAt(a, w) = a .. b - 1
  BY DEF SpanAt
<1>3. AtSpan(b, w)
  BY <1>1, NextMultiple DEF AtSpan
<1>4. ASSUME NEW j \in Before(a, w) PROVE j \in Nat /\ j + w <= a
  <2>1. j \in Nat /\ j % w = 0 /\ j < a
    BY <1>4 DEF Before, Columns
  <2> QED
    BY <1>1, <2>1, MultiplesApart
<1>5. ASSUME NEW j \in Columns, j % w = 0, j < b PROVE j <= a
  <2>1. j \in Nat
    BY DEF Columns
  <2>2. a < j => a + w <= j
    BY <1>1, <1>5, <2>1, MultiplesApart
  <2> QED
    BY <1>5, <2>1, <2>2
<1>6. Before(b, w) = Before(a, w) \cup {a}
  <2>1. \A j \in Columns : j \in Nat
    BY DEF Columns
  <2>2. \A j \in Columns : j < b /\ j % w = 0 <=> (j < a /\ j % w = 0) \/ j = a
    BY <1>1, <1>5, <2>1
  <2> QED
    BY <1>1, <2>2 DEF Before
<1>7. ASSUME NEW j \in Before(a, w), NEW c \in SpanAt(j, w) PROVE c \in Nat /\ c < a
  BY <1>4, <1>7 DEF SpanAt
<1> QED
  BY <1>1, <1>2, <1>3, <1>6, <1>7

(* Where blocks end. *)
LEMMA BlockFacts ==
  ASSUME ReachedInv, at < width
  PROVE  /\ BlockSize \in Nat \ {0} /\ BlockStart \in Nat /\ BlockEnd \in Nat
         /\ BlockStart <= at /\ at < BlockEnd /\ BlockEnd <= width
         /\ at < BlockStart + BlockSize
         /\ BlockEnd = IF BlockStart + BlockSize < width THEN BlockStart + BlockSize ELSE width
         /\ BlockStart % BlockSize = 0
         /\ at % BlockSize = 0 => BlockStart = at
<1>1. BlockSize \in Nat \ {0} /\ at \in Nat /\ width \in Nat
  BY DEF ReachedInv, SparsifySetupOK, BlockSize
<1> DEFINE b == BlockSize
           q == at \div b
           p == b * q
           m == at % b
<1>2. q \in Nat /\ p \in Int /\ m \in Nat /\ at = p + m /\ m < b
  BY <1>1, Division
<1>3. p % b = 0
  BY <1>1, <1>2, TimesIsMultiple
<1>4. BlockStart = at - m
  BY DEF BlockStart
<1>5. BlockEnd = IF BlockStart + b < width THEN BlockStart + b ELSE width
  BY DEF BlockEnd
<1>6. b \in Nat \ {0}
  BY <1>1
<1>7. m = 0 => BlockStart = at
  BY <1>1, <1>4
<1> HIDE DEF b, q, p, m
<1>8. BlockStart = p
  BY <1>1, <1>2, <1>4
<1> QED
  BY <1>1, <1>2, <1>3, <1>4, <1>5, <1>6, <1>7, <1>8 DEF b, m

(* Groups do not stick out of a block that holds a whole number of them. *)
LEMMA GroupFacts ==
  ASSUME ReachedInv, at < width, Structured
  PROVE  \E e \in Nat :
           /\ ColumnGroup = at .. e - 1 /\ at < e /\ e <= width
           /\ Size(ColumnGroup) = e - at /\ IsFiniteSet(ColumnGroup)
           /\ BlockSize % M = 0 /\ at % M = 0 =>
                e = IF at + M < width THEN at + M ELSE width
<1> DEFINE e == IF at + M < BlockEnd THEN at + M ELSE BlockEnd
<1>1. at \in Nat /\ width \in Nat /\ M \in Nat \ {0}
  BY DEF ReachedInv, SparsifySetupOK, Structured
<1>2. e \in Nat /\ at < e /\ e <= width /\ e - 1 \in Int
  BY <1>1, BlockFacts
<1>3. ColumnGroup = at .. e - 1
  BY DEF ColumnGroup
<1>4. ASSUME BlockSize % M = 0, at % M = 0
      PROVE  e = IF at + M < width THEN at + M ELSE width
  <2> DEFINE n == BlockStart + BlockSize
  <2>1. n \in Nat /\ n % BlockSize = 0
    BY BlockFacts, NextMultiple
  <2>2. n % M = 0
    BY <1>1, <1>4, <2>1, BlockFacts, MultipleOfMultiple
  <2>3. at < n /\ BlockEnd = IF n < width THEN n ELSE width
    BY BlockFacts
  <2> HIDE DEF n
  <2>4. at + M <= n
    BY <1>1, <1>4, <2>1, <2>2, <2>3, MultiplesApart
  <2> QED
    BY <1>1, <2>1, <2>3, <2>4
<1> HIDE DEF e
<1>5. IsFiniteSet(at .. e - 1) /\ Cardinality(at .. e - 1) = e - at
  BY <1>1, <1>2, FS_Interval
<1> QED
  BY <1>2, <1>3, <1>4, <1>5 DEF Size

(* What a step that keeps the setup has to show. *)
LEMMA ReachedKept ==
  ASSUME ReachedInv, UNCHANGED sparsifySetup, state' \in {"pruning", "done", "raised"},
         at' \in Nat, at' <= width, LiesBefore(at', pruned', mask'),
         state' = "done" => at' = width,
         state' # "raised" => GroupsLost(at', pruned') /\ BlocksLost(at', pruned')
  PROVE  ReachedInv'
<1>1. SparsifySetupOK' /\ (Structured' => N' <= M') /\ width' = width
  BY DEF ReachedInv, SparsifySetupOK, sparsifySetup, N, M, Columns, Structured
<1>2. LiesBefore(at, pruned, mask)'
  BY DEF LiesBefore, sparsifySetup
<1>3. GroupsLost(at', pruned') => GroupsLost(at, pruned)'
  BY DEF GroupsLost, sparsifySetup, Structured, BlockSize, N, M, AtSpan, Before, SpanAt, Columns
<1>4. BlocksLost(at', pruned') => BlocksLost(at, pruned)'
  BY DEF BlocksLost, sparsifySetup, Structured, BlockSize, N, AtSpan, Before, SpanAt, Columns,
         Target
<1> QED
  BY <1>1, <1>2, <1>3, <1>4 DEF ReachedInv

(* A column of a span that starts at a is none of the spans before, and what lies before
   a is not in it. *)
LEMMA SpansApart ==
  ASSUME width \in Nat, NEW w \in Nat \ {0}, NEW a \in Nat, a < width, AtSpan(a, w),
         NEW P, \A c \in P : c \in Nat /\ c < a, NEW L \in SUBSET SpanAt(a, w)
  PROVE  /\ \A j \in Before(a, w) : (P \cup L) \cap SpanAt(j, w) = P \cap SpanAt(j, w)
         /\ (P \cup L) \cap SpanAt(a, w) = L
<1> DEFINE b == IF a + w < width THEN a + w ELSE width
<1>1. /\ SpanAt(a, w) = a .. b - 1 /\ b - 1 \in Int
      /\ \A j \in Before(a, w) : \A c \in SpanAt(j, w) : c \in Nat /\ c < a
  BY NextSpan
<1>2. \A c \in SpanAt(a, w) : c \in Int /\ ~ (c < a)
  BY <1>1
<1> QED
  BY <1>1, <1>2

LEMMA GroupReaches == ReachedInv /\ PruneGroup => ReachedInv'
<1> SUFFICES ASSUME ReachedInv, PruneGroup PROVE ReachedInv'
  OBVIOUS
<1>1. UNCHANGED sparsifySetup /\ state = "pruning" /\ at < width /\ Structured
  BY DEF PruneGroup
<1>2. CASE state' = "raised"
  BY <1>1, <1>2, ReachedKept DEF PruneGroup, ReachedInv
<1>3. CASE state' # "raised"
  <2>1. PICK L \in SUBSET ColumnGroup :
          /\ Size(L) = N
          /\ mask' = mask \cup L
          /\ pruned' = pruned \cup ((mask \cup L) \cap ColumnGroup)
          /\ at' = at + Size(ColumnGroup)
          /\ state' = state
    BY <1>3 DEF PruneGroup, Marked, MayBeLowest
  <2>2. PICK e \in Nat :
           /\ ColumnGroup = at .. e - 1 /\ at < e /\ e <= width
           /\ Size(ColumnGroup) = e - at /\ IsFiniteSet(ColumnGroup)
           /\ BlockSize % M = 0 /\ at % M = 0 =>
                e = IF at + M < width THEN at + M ELSE width
    BY <1>1, GroupFacts
  <2>3. at \in Nat /\ width \in Nat /\ N \in Nat /\ M \in Nat \ {0}
    BY <1>1 DEF ReachedInv, SparsifySetupOK, Structured
  <2>4. at' = e
    BY <2>1, <2>2, <2>3
  <2>5. \A c \in ColumnGroup : c \in Nat /\ c < e
    BY <2>2, <2>3
  <2>6. LiesBefore(at', pruned', mask')
    <3>1. \A c \in pruned : c \in Nat /\ c < e
      BY <2>2, <2>3 DEF ReachedInv, LiesBefore
    <3>2. ~ preserve => \A c \in mask : c \in Nat /\ c < e
      BY <2>2, <2>3 DEF ReachedInv, LiesBefore
    <3> QED
      BY <2>1, <2>4, <2>5, <3>1, <3>2 DEF LiesBefore
  <2>7. ASSUME BlockSize % M = 0 PROVE GroupsLost(at', pruned')
    <3>1. AtSpan(at, M) /\ \A j \in Before(at, M) :
            /\ Size(pruned \cap SpanAt(j, M)) >= N
            /\ ~ preserve => Size(pruned \cap SpanAt(j, M)) = N
      BY <1>1, <2>7 DEF ReachedInv, GroupsLost
    <3>2. at % M = 0
      BY <1>1, <2>3, <3>1 DEF AtSpan
    <3>3. e = IF at + M < width THEN at + M ELSE width
      BY <2>2, <2>7, <3>2
    <3>4. SpanAt(at, M) = ColumnGroup /\ AtSpan(e, M) /\ Before(e, M) = Before(at, M) \cup {at}
      BY <1>1, <2>2, <2>3, <3>1, <3>3, NextSpan
    <3> DEFINE G == (mask \cup L) \cap ColumnGroup
    <3>5. /\ \A j \in Before(at, M) : pruned' \cap SpanAt(j, M) = pruned \cap SpanAt(j, M)
          /\ pruned' \cap SpanAt(at, M) = G
      <4>1. \A c \in pruned : c \in Nat /\ c < at
        BY DEF ReachedInv, LiesBefore
      <4>2. G \in SUBSET SpanAt(at, M) /\ pruned' = pruned \cup G
        BY <2>1, <3>4
      <4> HIDE DEF G
      <4> QED
        BY <1>1, <2>3, <3>1, <4>1, <4>2, SpansApart
    <3>6. Size(G) >= N
      <4>1. L \subseteq G /\ IsFiniteSet(G)
        BY <2>1, <2>2, FS_Subset
      <4>2. Cardinality(L) <= Cardinality(G)
        BY <4>1, FS_Subset
      <4>3. Cardinality(G) \in Nat
        BY <4>1, FS_CardinalityType
      <4> HIDE DEF G
      <4> QED
        BY <2>1, <2>3, <4>2, <4>3 DEF Size
    <3>7. ~ preserve => Size(G) = N
      <4>1. ~ preserve => \A c \in mask : c \notin ColumnGroup
        BY <2>2, <2>3 DEF ReachedInv, LiesBefore
      <4>2. ~ preserve => G = L
        BY <4>1
      <4> QED
        BY <2>1, <4>2
    <3> HIDE DEF G
    <3> QED
      BY <2>4, <3>1, <3>4, <3>5, <3>6, <3>7 DEF GroupsLost
  <2>8. GroupsLost(at', pruned') /\ BlocksLost(at', pruned')
    BY <1>1, <2>7 DEF GroupsLost, BlocksLost
  <2> QED
    BY <1>1, <2>1, <2>2, <2>4, <2>6, <2>8, ReachedKept
<1> QED
  BY <1>2, <1>3

LEMMA BlockReaches == ReachedInv /\ PruneBlock => ReachedInv'
<1> SUFFICES ASSUME ReachedInv, PruneBlock PROVE ReachedInv'
  OBVIOUS
<1>1. UNCHANGED sparsifySetup /\ state = "pruning" /\ at < width /\ ~ Structured
      /\ mask' = mask
  BY DEF PruneBlock
<1>2. CASE method = "sgpt" /\ Extends /\ Target(Block) = Size(Block)
  BY <1>1, <1>2, ReachedKept DEF PruneBlock, ReachedInv
<1>3. CASE ~ (method = "sgpt" /\ Extends /\ Target(Block) = Size(Block))
  <2>1. PICK L \in SUBSET Block :
          /\ IF ~ Extends THEN L = mask \cap Block
             ELSE \E n \in Target(Block) .. Size(Block) : Size(L) = n
          /\ pruned' = pruned \cup L /\ at' = BlockEnd /\ state' = state
    BY <1>3 DEF PruneBlock, MayBeLowest
  <2>2. at \in Nat /\ width \in Nat /\ sparsity \in Nat /\ BlockSize \in Nat \ {0}
    BY DEF ReachedInv, SparsifySetupOK, BlockSize
  <2>3. /\ AtSpan(at, BlockSize)
        /\ \A j \in Before(at, BlockSize) :
             Size(pruned \cap SpanAt(j, BlockSize)) >= Target(SpanAt(j, BlockSize))
    BY <1>1 DEF ReachedInv, BlocksLost
  <2>4. at % BlockSize = 0
    BY <1>1, <2>2, <2>3 DEF AtSpan
  <2>5. /\ BlockStart = at /\ BlockEnd \in Nat /\ at < BlockEnd /\ BlockEnd <= width
        /\ BlockEnd = IF at + BlockSize < width THEN at + BlockSize ELSE width
    BY <1>1, <2>4, BlockFacts
  <2>6. Block = SpanAt(at, BlockSize) /\ Block = at .. BlockEnd - 1
        /\ AtSpan(BlockEnd, BlockSize)
        /\ Before(BlockEnd, BlockSize) = Before(at, BlockSize) \cup {at}
    BY <1>1, <2>2, <2>3, <2>5, NextSpan DEF Block
  <2>7. LiesBefore(at', pruned', mask')
    <3>1. \A c \in Block : c \in Nat /\ c < BlockEnd
      BY <2>2, <2>5, <2>6
    <3>2. \A c \in pruned : c \in Nat /\ c < BlockEnd
      BY <2>2, <2>5 DEF ReachedInv, LiesBefore
    <3>3. ~ preserve => \A c \in mask : c \in Nat /\ c < BlockEnd
      BY <2>2, <2>5 DEF ReachedInv, LiesBefore
    <3> QED
      BY <1>1, <2>1, <3>1, <3>2, <3>3 DEF LiesBefore
  <2>8. Size(L) >= Target(Block)
    <3>1. IsFiniteSet(Block) /\ IsFiniteSet(mask \cap Block)
      <4>1. at \in Int /\ BlockEnd - 1 \in Int
        BY <2>2, <2>5
      <4>2. IsFiniteSet(Block)
        BY <2>6, <4>1, FS_Interval
      <4>3. mask \cap Block \in SUBSET Block
        OBVIOUS
      <4> QED
        BY <4>2, <4>3, FS_Subset
    <3>2. Size(Block) \in Nat /\ Size(mask \cap Block) \in Nat
      BY <3>1, FS_CardinalityType DEF Size
    <3>3. Target(Block) \in Nat
      <4> DEFINE s == Size(Block) * sparsity
      <4>1. s \in Nat /\ Units \in Nat \ {0}
        BY <2>2, <3>2, SparsifyAssumption
      <4> HIDE DEF s
      <4>2. s \div Units \in Nat
        BY <4>1, Division
      <4> QED
        BY <4>2 DEF s, Target
    <3>4. CASE Extends
      BY <2>1, <3>2, <3>3, <3>4
    <3>5. CASE ~ Extends
      BY <2>1, <3>2, <3>3, <3>5 DEF Extends
    <3> QED
      BY <3>4, <3>5
  <2>9. BlocksLost(at', pruned')
    <3>1. /\ \A j \in Before(at, BlockSize) :
               pruned' \cap SpanAt(j, BlockSize) = pruned \cap SpanAt(j, BlockSize)
          /\ pruned' \cap SpanAt(at, BlockSize) = L
      <4>1. \A c \in pruned : c \in Nat /\ c < at
        BY DEF ReachedInv, LiesBefore
      <4>2. L \in SUBSET SpanAt(at, BlockSize) /\ pruned' = pruned \cup L
        BY <2>1, <2>6
      <4> QED
        BY <1>1, <2>2, <2>3, <4>1, <4>2, SpansApart
    <3> QED
      BY <2>1, <2>3, <2>6, <2>8, <3>1 DEF BlocksLost
  <2>10. GroupsLost(at', pruned')
    BY <1>1 DEF GroupsLost
  <2> QED
    BY <1>1, <2>1, <2>5, <2>7, <2>9, <2>10, ReachedKept
<1> QED
  BY <1>2, <1>3

LEMMA ReachedStep == ReachedInv /\ [SparsifyNext]_sparsifyVars => ReachedInv'
<1> SUFFICES ASSUME ReachedInv, [SparsifyNext]_sparsifyVars PROVE ReachedInv'
  OBVIOUS
<1>1. CASE StartPruning
  <2>1. UNCHANGED <<sparsifySetup, at, pruned>> /\ state = "start" /\ at = 0 /\ pruned = {}
        /\ state' \in {"pruning", "raised"}
    BY <1>1 DEF StartPruning, ReachedInv
  <2>2. mask' = {} \/ mask' = mask \/ preserve
    BY <1>1 DEF StartPruning
  <2>3. LiesBefore(at', pruned', mask')
    BY <2>1, <2>2 DEF ReachedInv, LiesBefore
  <2> QED
    BY <2>1, <2>3, ReachedKept DEF ReachedInv
<1>2. CASE Finish
  <2>1. UNCHANGED <<sparsifySetup, at, pruned, mask>> /\ state = "pruning" /\ state' = "done"
        /\ at = width
    BY <1>2 DEF Finish, ReachedInv, SparsifySetupOK
  <2> QED
    BY <2>1, ReachedKept DEF ReachedInv
<1>3. CASE UNCHANGED sparsifyVars
  BY <1>3 DEF sparsifyVars, sparsifySetup, ReachedInv, SparsifySetupOK, LiesBefore, GroupsLost,
              BlocksLost, Structured, BlockSize, N, M, AtSpan, Before, SpanAt, Columns, Target
<1> QED
  BY <1>1, <1>2, <1>3, GroupReaches, BlockReaches DEF SparsifyNext

(* SparseGPT and Wanda prune as much as was asked for (sparsify_weight): every group of an
   N:M structure loses N elements, and no more unless a mask is preserved, and every block
   loses its share of the sparsity; for every width, block size, sparsity and structure. *)
THEOREM SparsityIsAlwaysReached == SparsifySpec => []SparsityIsReached
<1>1. SparsifySpec => []ReachedInv
  BY ReachedInit, ReachedStep, PTL DEF SparsifySpec
<1> QED
  BY <1>1, ReachedMeans, PTL

-----------------------------------------------------------------------------
(***************************************************************************)
(* REAP prunes all ranks alike, by what the samples of all ranks add up    *)
(* to, however the ranks interleave, for any model, router and number of   *)
(* ranks.                                                                  *)
(*                                                                         *)
(* Collectives are matched by their place in the sequence that each rank   *)
(* issues, so the proof is about an order: layers are pruned by epoch and  *)
(* within an epoch by name.  What a rank has pruned at any time precedes   *)
(* all the rest, and the k layers before a layer mean that its reduction   *)
(* and its broadcast are the collectives 2k + 1 and 2k + 2 of every rank.  *)
(***************************************************************************)

Counts == [Experts -> [sum : Nat, count : Nat]]

(* A sum over one rank is what the rank has. *)
LEMMA TotalOverOne ==
  ASSUME NEW q, Ranks = {q}, NEW t, t[q] \in Counts
  PROVE  Total(t) = t[q]
<1>1. ASSUME NEW e \in Experts PROVE MapThenSumSet(LAMBDA r : t[r][e].sum, Ranks) = t[q][e].sum
  <2> DEFINE D(f) == [s \in SUBSET Ranks |-> IF s = {} THEN 0
                       ELSE t[CHOOSE x \in s : TRUE][e].sum + f[s \ {CHOOSE x \in s : TRUE}]]
             h == CHOOSE f : f = D(f)
             m == MapThenSumSet(LAMBDA r : t[r][e].sum, Ranks)
  <2>1. m = h[Ranks]
    BY DEF MapThenSumSet, MapThenFoldSet
  <2> HIDE DEF m
  <2>2. \E f : f = D(f)
    <3> DEFINE g == [s \in SUBSET Ranks |-> IF s = {} THEN 0 ELSE t[q][e].sum]
    <3>1. g = D(g)
      BY DEF Counts
    <3> QED
      BY <3>1
  <2>3. h = D(h)
    <3> HIDE DEF D
    <3> QED
      BY <2>2, Zenon
  <2> HIDE DEF h
  <2> DEFINE c == CHOOSE x \in {q} : TRUE
  <2>4. h[{}] = 0 /\ h[{q}] = t[c][e].sum + h[{q} \ {c}]
    BY <2>3
  <2>6. c = q
    OBVIOUS
  <2> HIDE DEF c, h, D
  <2>7. m = t[q][e].sum
    <3>1. t[q][e].sum \in Nat
      BY DEF Counts
    <3>2. {q} \ {q} = {}
      OBVIOUS
    <3>3. m = h[{q}]
      BY <2>1
    <3>4. h[{q}] = t[q][e].sum + 0
      BY <2>4, <2>6, <3>2
    <3> QED
      BY <3>1, <3>3, <3>4
  <2> QED
    BY <2>7 DEF m
<1>2. ASSUME NEW e \in Experts
      PROVE  MapThenSumSet(LAMBDA r : t[r][e].count, Ranks) = t[q][e].count
  <2> DEFINE D(f) == [s \in SUBSET Ranks |-> IF s = {} THEN 0
                       ELSE t[CHOOSE x \in s : TRUE][e].count + f[s \ {CHOOSE x \in s : TRUE}]]
             h == CHOOSE f : f = D(f)
             m == MapThenSumSet(LAMBDA r : t[r][e].count, Ranks)
  <2>1. m = h[Ranks]
    BY DEF MapThenSumSet, MapThenFoldSet
  <2> HIDE DEF m
  <2>2. \E f : f = D(f)
    <3> DEFINE g == [s \in SUBSET Ranks |-> IF s = {} THEN 0 ELSE t[q][e].count]
    <3>1. g = D(g)
      BY DEF Counts
    <3> QED
      BY <3>1
  <2>3. h = D(h)
    <3> HIDE DEF D
    <3> QED
      BY <2>2, Zenon
  <2> HIDE DEF h
  <2> DEFINE c == CHOOSE x \in {q} : TRUE
  <2>4. h[{}] = 0 /\ h[{q}] = t[c][e].count + h[{q} \ {c}]
    BY <2>3
  <2>6. c = q
    OBVIOUS
  <2> HIDE DEF c, h, D
  <2>7. m = t[q][e].count
    <3>1. t[q][e].count \in Nat
      BY DEF Counts
    <3>2. {q} \ {q} = {}
      OBVIOUS
    <3>3. m = h[{q}]
      BY <2>1
    <3>4. h[{q}] = t[q][e].count + 0
      BY <2>4, <2>6, <3>2
    <3> QED
      BY <3>1, <3>3, <3>4
  <2> QED
    BY <2>7 DEF m
<1> DEFINE S(e) == MapThenSumSet(LAMBDA r : t[r][e].sum, Ranks)
           C(e) == MapThenSumSet(LAMBDA r : t[r][e].count, Ranks)
<1>3. \A e \in Experts : S(e) = t[q][e].sum /\ C(e) = t[q][e].count
  BY <1>1, <1>2
<1>4. Total(t) = [e \in Experts |-> [sum |-> S(e), count |-> C(e)]]
  BY DEF Total
<1> HIDE DEF S, C
<1> QED
  BY <1>3, <1>4 DEF Counts

(* Ranks of numbers in a set of numbers. *)

LEMMA BelowFacts ==
  ASSUME NEW n \in Nat, NEW S \in SUBSET (0 .. n - 1), NEW a \in Nat, NEW b \in Nat
  PROVE  /\ IsFiniteSet(S) /\ IsFiniteSet(Below(S, a)) /\ Cardinality(Below(S, a)) \in Nat
         /\ Cardinality(S) \in Nat
         /\ Cardinality(Below(S, a)) <= Cardinality(S)
         /\ a <= b => Cardinality(Below(S, a)) <= Cardinality(Below(S, b))
         /\ a \in S /\ a < b => Cardinality(Below(S, a)) + 1 <= Cardinality(Below(S, b))
         /\ a \in S => Cardinality(Below(S, a)) + 1 <= Cardinality(S)
<1>0. \A f \in S : f \in Nat
  OBVIOUS
<1>1. IsFiniteSet(S)
  <2>1. IsFiniteSet(0 .. n - 1)
    BY FS_Interval
  <2> QED
    BY <2>1, FS_Subset
<1>2. \A T \in SUBSET S : IsFiniteSet(T) /\ Cardinality(T) \in Nat
                          /\ \A U \in SUBSET T : Cardinality(U) <= Cardinality(T)
  BY <1>1, FS_Subset, FS_CardinalityType
<1>3. Below(S, a) \in SUBSET S /\ Below(S, b) \in SUBSET S
  BY DEF Below
<1>4. a <= b => Below(S, a) \in SUBSET Below(S, b)
  <2> SUFFICES ASSUME a <= b, NEW f \in S, f < a PROVE f < b
    BY DEF Below
  <2> QED
    BY <1>0
<1>5. Cardinality(Below(S, a) \cup {a}) = Cardinality(Below(S, a)) + 1
  <2>1. a \notin Below(S, a)
    BY DEF Below
  <2> QED
    BY <1>2, <1>3, <2>1, FS_AddElement
<1>6. a \in S /\ a < b => Below(S, a) \cup {a} \in SUBSET Below(S, b)
  <2> SUFFICES ASSUME a < b, NEW f \in S, f < a PROVE f < b
    BY DEF Below
  <2> QED
    BY <1>0
<1>7. a \in S => Below(S, a) \cup {a} \in SUBSET S
  BY <1>0 DEF Below
<1> QED
  BY <1>1, <1>2, <1>3, <1>4, <1>5, <1>6, <1>7

(* Sorted has the elements of a set, each at its rank. *)
LEMMA SortedFacts ==
  ASSUME NEW n \in Nat, NEW S \in SUBSET (0 .. n - 1)
  PROVE  /\ Sorted(S) \in Seq(S) /\ Len(Sorted(S)) = Cardinality(S) /\ Cardinality(S) \in Nat
         /\ DOMAIN Sorted(S) = 1 .. Cardinality(S)
         /\ Range(Sorted(S)) = S
         /\ \A i \in 1 .. Cardinality(S) :
              Sorted(S)[i] \in S /\ Cardinality(Below(S, Sorted(S)[i])) = i - 1
<1> DEFINE k == Cardinality(S)
           rank == [e \in S |-> Cardinality(Below(S, e)) + 1]
<1>1. k \in Nat /\ IsFiniteSet(S) /\ \A e \in S : e \in Nat
  <2>1. 0 \in Nat /\ \A e \in S : e \in Nat
    OBVIOUS
  <2>2. k \in Nat /\ IsFiniteSet(S)
    BY <2>1, BelowFacts
  <2> QED
    BY <2>1, <2>2
<1>2. rank \in [S -> 1 .. k]
  <2> SUFFICES ASSUME NEW e \in S PROVE Cardinality(Below(S, e)) + 1 \in 1 .. k
    OBVIOUS
  <2>1. e \in Nat
    BY <1>1
  <2>2. Cardinality(Below(S, e)) \in Nat /\ Cardinality(Below(S, e)) + 1 <= k
    BY <2>1, BelowFacts DEF Below
  <2> QED
    BY <1>1, <2>2
<1>3. \A e, f \in S : rank[e] = rank[f] => e = f
  <2> SUFFICES ASSUME NEW e \in S, NEW f \in S, e < f PROVE rank[e] # rank[f]
    BY <1>1
  <2>1. /\ Cardinality(Below(S, e)) \in Nat /\ Cardinality(Below(S, f)) \in Nat
        /\ Cardinality(Below(S, e)) + 1 <= Cardinality(Below(S, f))
    BY <1>1, BelowFacts
  <2> QED
    BY <2>1
<1>4. rank \in Surjection(S, 1 .. k)
  <2>1. rank \in Injection(S, 1 .. k)
    BY <1>2, <1>3 DEF Injection, IsInjective
  <2>2. IsFiniteSet(1 .. k) /\ Cardinality(1 .. k) = k
    BY <1>1, FS_Interval
  <2> QED
    BY <2>1, <2>2, FS_Injection
<1>5. \A i \in 1 .. k : \E e \in S : rank[e] = i
  BY <1>4 DEF Surjection
<1>6. \A i \in 1 .. k : \E e \in S : Cardinality(Below(S, e)) = i - 1
  <2> SUFFICES ASSUME NEW i \in 1 .. k PROVE \E e \in S : Cardinality(Below(S, e)) = i - 1
    OBVIOUS
  <2>1. PICK e \in S : rank[e] = i
    BY <1>5
  <2>2. Cardinality(Below(S, e)) \in Nat
    BY <1>1, BelowFacts
  <2> QED
    BY <2>1, <2>2
<1>7. Sorted(S) = [i \in 1 .. k |-> CHOOSE e \in S : Cardinality(Below(S, e)) = i - 1]
  BY DEF Sorted
<1>8. \A i \in 1 .. k : Sorted(S)[i] \in S /\ Cardinality(Below(S, Sorted(S)[i])) = i - 1
  BY <1>6, <1>7
<1>9. Sorted(S) \in [1 .. k -> S] /\ DOMAIN Sorted(S) = 1 .. k
  BY <1>7, <1>8
<1>10. Sorted(S) \in Seq(S) /\ Len(Sorted(S)) = k
  BY <1>1, <1>9
<1>11. ASSUME NEW e \in S PROVE \E i \in 1 .. k : Sorted(S)[i] = e
  <2>1. rank[e] \in 1 .. k /\ Sorted(S)[rank[e]] \in S
        /\ Cardinality(Below(S, Sorted(S)[rank[e]])) = rank[e] - 1
    BY <1>2, <1>8
  <2>2. Cardinality(Below(S, Sorted(S)[rank[e]])) \in Nat
    BY <1>1, <2>1, BelowFacts
  <2>3. rank[Sorted(S)[rank[e]]] = rank[e]
    BY <2>1, <2>2
  <2> QED
    BY <1>3, <2>1, <2>3
<1>12. Range(Sorted(S)) = S
  BY <1>8, <1>9, <1>11 DEF Range
<1> QED
  BY <1>1, <1>8, <1>9, <1>10, <1>12

(* A number between two multiples. *)
LEMMA DivisionBetween ==
  ASSUME NEW w \in Nat \ {0}, NEW g \in Nat, NEW x \in Nat, w * g <= x, x < w * (g + 1)
  PROVE  x \div w = g
<1> DEFINE q == x \div w
           m == x % w
           p == w * q
           a == w * g
           b == w * (g + 1)
<1>1. q \in Nat /\ m \in Nat /\ m < w /\ x = p + m
  BY Division
<1>2. p \in Nat /\ a \in Nat /\ b = a + w
  BY <1>1
<1>3. q < g => w * (q + 1) <= a /\ w * (q + 1) = p + w
  <2>1. q < g => q + 1 <= g
    BY <1>1
  <2> QED
    BY <1>1, <2>1, ProductsGrow
<1>4. g < q => b <= p
  <2>1. g < q => g + 1 <= q
    BY <1>1
  <2> QED
    BY <1>1, <2>1, ProductsGrow
<1>5. a <= x /\ x < b
  OBVIOUS
<1>6. q = g
  <2> HIDE DEF q, m, p, a, b
  <2> QED
    BY <1>1, <1>2, <1>3, <1>4, <1>5
<1> QED
  BY <1>6

(* What has been accepted: something is dropped, and enough experts stay. *)
SizesOK ==
  /\ router \in Routers
  /\ drop \in 1 .. NumExperts - 1
  /\ router.nGroup = 0 => router.topK <= NumExperts - drop
  /\ router.nGroup # 0 =>
       /\ GroupSize \in Nat /\ NumExperts = router.nGroup * GroupSize
       /\ dropInGroup \in 1 .. GroupSize - 1
       /\ drop = dropInGroup * router.nGroup
       /\ router.topK <= router.topKGroup * (GroupSize - dropInGroup)

LEMMA RouterTypes ==
  ASSUME router \in Routers
  PROVE  router.topK \in Nat /\ router.topK > 0 /\ router.nGroup \in Nat /\ router.topKGroup \in Nat
BY ReapAssumption

LEMMA ProductCommutes == ASSUME NEW a \in Nat, NEW b \in Nat PROVE a * b = b * a
OBVIOUS

LEMMA AcceptedSizes ==
  ASSUME router \in Routers, drop \in Drops, Accepted, dropInGroup' = InGroup, router' = router,
         drop' = IF router.nGroup = 0 THEN drop ELSE InGroup * router.nGroup
  PROVE  SizesOK'
<1>1. drop \in 0 .. NumExperts - 1 /\ drop > 0 /\ NumExperts \in Nat \ {0}
  BY ReapAssumption DEF Accepted
<1>2. CASE router.nGroup = 0
  <2>1. router.topK <= NumExperts - drop /\ drop' = drop
    BY <1>2 DEF Accepted, Available
  <2> QED
    BY <1>1, <1>2, <2>1 DEF SizesOK
<1>3. CASE router.nGroup # 0
  <2> DEFINE n == router.nGroup
             w == GroupSize
             d == InGroup
  <2>1. n \in Nat \ {0} /\ router.topK \in Nat /\ router.topK > 0 /\ router.topKGroup \in Nat
    BY <1>3, RouterTypes
  <2>2. w \in Nat /\ NumExperts = n * w
    BY <1>1, <1>3, <2>1, MultipleOf DEF Accepted, GroupSize
  <2>3. d \in Int /\ 0 < d /\ d <= w
    <3>1. drop \div n \in Nat /\ drop % n \in Nat
      BY <1>1, <2>1, Division
    <3>2. Round(drop, n) \in Int
      <4> DEFINE q == drop \div n
                 m == drop % n
      <4>1. q % 2 \in Int
        BY <3>1
      <4>2. Round(drop, n) = CASE 2 * m < n -> q [] 2 * m > n -> q + 1 [] OTHER -> q + (q % 2)
        BY DEF Round
      <4> HIDE DEF q, m
      <4>3. 2 * m < n => Round(drop, n) = q
        BY <2>1, <3>1, <4>2 DEF m
      <4>4. 2 * m > n => Round(drop, n) = q + 1
        BY <2>1, <3>1, <4>2 DEF m
      <4>5. ~ (2 * m < n) /\ ~ (2 * m > n) => Round(drop, n) = q + (q % 2)
        BY <2>1, <3>1, <4>2 DEF m
      <4> QED
        BY <3>1, <4>1, <4>3, <4>4, <4>5 DEF q
    <3> QED
      BY <1>3, <3>2 DEF Accepted, InGroup
  <2>4. router.topK <= router.topKGroup * (w - d)
    BY <1>3 DEF Accepted, Available
  <2>5. d < w
    <3> SUFFICES ASSUME d = w PROVE FALSE
      BY <2>2, <2>3
    <3>1. w - d = 0
      BY <2>2
    <3>2. router.topKGroup * 0 = 0
      BY <2>1
    <3> HIDE DEF w, d
    <3> QED
      BY <2>1, <2>4, <3>1, <3>2
  <2>6. drop' = d * n /\ d * n = n * d
    <3>1. drop' = d * n
      BY <1>3
    <3> HIDE DEF d
    <3>2. d * n = n * d
      BY <2>1, <2>3, ProductCommutes
    <3> QED
      BY <3>1, <3>2
  <2>7. n * d <= n * (w - 1) /\ n * (w - 1) = n * w - n
    <3> HIDE DEF w, d
    <3>1. w - 1 \in Int /\ d <= w - 1
      BY <2>2, <2>3, <2>5
    <3>2. n * d <= n * (w - 1)
      BY <2>1, <2>3, <3>1, ProductsGrow
    <3>3. n * (w - 1) = n * w - n
      BY <2>1, <2>2
    <3> QED
      BY <3>2, <3>3
  <2>8. 1 <= n * d
    <3> HIDE DEF w, d
    <3>1. n * 1 <= n * d
      BY <2>1, <2>3, ProductsGrow
    <3> QED
      BY <2>1, <2>3, <3>1
  <2>9. drop' \in 1 .. NumExperts - 1
    <3> DEFINE x == n * d
               y == n * w
    <3>1. x \in Int /\ y \in Int /\ drop' = x /\ NumExperts = y /\ x <= y - n /\ 1 <= x
      BY <2>1, <2>2, <2>3, <2>6, <2>7, <2>8
    <3> HIDE DEF x, y
    <3> QED
      BY <2>1, <3>1
  <2>10. GroupSize' = GroupSize /\ dropInGroup' = d
    BY DEF GroupSize
  <2> HIDE DEF d
  <2> QED
    BY <1>3, <2>1, <2>2, <2>3, <2>4, <2>5, <2>6, <2>9, <2>10 DEF SizesOK
<1> QED
  BY <1>2, <1>3

(* What is dropped is as much as was asked for, and in each group alike. *)
LEMMA DroppedFacts ==
  ASSUME SizesOK, NEW t, NEW D \in SUBSET Experts, MayDrop(t, D)
  PROVE  /\ Cardinality(D) = drop
         /\ router.nGroup # 0 =>
              \A g \in 0 .. router.nGroup : Cardinality(Below(D, g * GroupSize)) = g * dropInGroup
<1>1. CASE router.nGroup = 0
  BY <1>1 DEF MayDrop, AreLowest
<1>2. CASE router.nGroup # 0
  <2> DEFINE n == router.nGroup
             w == GroupSize
             d == dropInGroup
  <2>1. n \in Nat \ {0} /\ w \in Nat /\ NumExperts = n * w /\ d \in Nat /\ drop = d * n
    BY <1>2, RouterTypes DEF SizesOK
  <2>2. \A g \in 0 .. n - 1 : Cardinality(D \cap Group(g)) = d
    BY <1>2 DEF MayDrop, AreLowest
  <2>3. \A e \in D : e \in Nat /\ e < NumExperts
    BY ReapAssumption DEF Experts
  <2>4. IsFiniteSet(D)
    BY ReapAssumption, BelowFacts DEF Experts
  <2> DEFINE T == {g \in Nat : g <= n => Cardinality(Below(D, g * w)) = g * d}
  <2>5. 0 \in T
    <3>1. 0 * w = 0 /\ 0 * d = 0
      BY <2>1
    <3>2. Below(D, 0) = {}
      BY <2>3 DEF Below
    <3> QED
      BY <3>1, <3>2, FS_EmptySet
  <2>6. ASSUME NEW g \in Nat, g \in T PROVE g + 1 \in T
    <3> SUFFICES ASSUME g + 1 <= n PROVE Cardinality(Below(D, (g + 1) * w)) = (g + 1) * d
      OBVIOUS
    <3> DEFINE a == g * w
               b == (g + 1) * w
               A == Below(D, a)
               G == D \cap Group(g)
    <3>1. a \in Nat /\ b = a + w /\ (g + 1) * d = g * d + d /\ g * d \in Nat
      BY <2>1
    <3>2. Group(g) = a .. b - 1
      BY DEF Group
    <3>3. Below(D, b) = A \cup G /\ A \cap G = {}
      <4> HIDE DEF a, b
      <4>1. \A e \in D : e < b <=> e < a \/ e \in a .. b - 1
        BY <2>1, <2>3, <3>1
      <4>2. \A e \in D : ~ (e < a /\ e \in a .. b - 1)
        BY <2>1, <2>3, <3>1
      <4> QED
        BY <3>2, <4>1, <4>2 DEF Below
    <3>4. Cardinality(A) = g * d /\ Cardinality(G) = d
      <4>1. g <= n /\ g \in 0 .. n - 1
        BY <2>1
      <4> QED
        BY <2>2, <2>6, <4>1
    <3>5. IsFiniteSet(A) /\ IsFiniteSet(G)
      <4>1. A \in SUBSET D /\ G \in SUBSET D
        BY DEF Below
      <4> HIDE DEF A, G
      <4> QED
        BY <2>4, <4>1, FS_Subset
    <3> HIDE DEF A, G, a, b
    <3>6. Cardinality(A \cup G) = Cardinality(A) + Cardinality(G)
      <4>1. Cardinality(A \cup G) = Cardinality(A) + Cardinality(G) - Cardinality({})
        BY <3>3, <3>5, FS_Union
      <4> QED
        BY <2>1, <3>1, <3>4, <4>1, FS_EmptySet
    <3>7. Cardinality(Below(D, b)) = (g + 1) * d
      BY <3>1, <3>3, <3>4, <3>6
    <3> QED
      BY <3>7 DEF b
  <2>7. \A g \in Nat : g \in T
    <3> HIDE DEF T
    <3> QED
      BY <2>5, <2>6, NumberInduction
  <2>8. \A g \in 0 .. n : Cardinality(Below(D, g * w)) = g * d
    BY <2>1, <2>7
  <2>9. Cardinality(D) = n * d
    <3>1. Below(D, n * w) = D
      BY <2>1, <2>3 DEF Below
    <3>2. n \in 0 .. n
      BY <2>1
    <3> QED
      BY <2>8, <3>1, <3>2
  <2>10. n * d = d * n
    BY <2>1, ProductCommutes
  <2> QED
    BY <2>1, <2>8, <2>9, <2>10
<1> QED
  BY <1>1, <1>2

(* The experts that stay fit the router. *)
FitsRouter(kept) ==
  LET each == Len(kept) \div router.nGroup IN
  IF router.nGroup = 0 THEN router.topK <= Len(kept)
  ELSE /\ router.topK <= router.topKGroup * each
       /\ \A i \in DOMAIN kept : (i - 1) \div each = kept[i] \div GroupSize

LEMMA KeptFacts ==
  ASSUME SizesOK, NEW t, NEW D \in SUBSET Experts, MayDrop(t, D),
         NEW kept, kept = Sorted(Experts \ D)
  PROVE  /\ kept \in Seq(Experts) /\ Len(kept) = NumExperts - drop
         /\ Experts \ Range(kept) = D
         /\ FitsRouter(kept)
<1> DEFINE S == Experts \ D
<1>1. NumExperts \in Nat \ {0} /\ drop \in Nat /\ drop < NumExperts /\ drop > 0
  BY ReapAssumption DEF SizesOK
<1>2. IsFiniteSet(Experts) /\ Cardinality(Experts) = NumExperts
  BY <1>1, FS_Interval DEF Experts
<1>3. IsFiniteSet(D) /\ Cardinality(D) = drop
  BY <1>2, DroppedFacts, FS_Subset
<1>4. Cardinality(S) = NumExperts - drop
  <2>1. Cardinality(Experts \ D) = Cardinality(Experts) - Cardinality(Experts \cap D)
    BY <1>2, FS_Difference
  <2>2. Experts \cap D = D
    OBVIOUS
  <2> QED
    BY <1>2, <1>3, <2>1, <2>2
<1>5. S \in SUBSET (0 .. NumExperts - 1)
  BY DEF Experts
<1>6. /\ kept \in Seq(S) /\ Len(kept) = Cardinality(S) /\ DOMAIN kept = 1 .. Cardinality(S)
      /\ Range(kept) = S
      /\ \A i \in 1 .. Cardinality(S) :
           kept[i] \in S /\ Cardinality(Below(S, kept[i])) = i - 1
  BY <1>1, <1>5, SortedFacts
<1>7. kept \in Seq(Experts)
  BY <1>6
<1>8. CASE router.nGroup = 0
  BY <1>4, <1>6, <1>7, <1>8 DEF FitsRouter, SizesOK
<1>9. CASE router.nGroup # 0
  <2> DEFINE n == router.nGroup
             w == GroupSize
             d == dropInGroup
             z == w - d
  <2>1. /\ n \in Nat \ {0} /\ w \in Nat /\ NumExperts = n * w /\ d \in Nat /\ d < w
        /\ drop = d * n /\ router.topK <= router.topKGroup * z
    BY <1>9, RouterTypes DEF SizesOK
  <2>2. z \in Nat \ {0}
    BY <2>1
  <2>3. NumExperts - drop = z * n
    BY <2>1
  <2>4. Len(kept) \div n = z
    <3>1. Len(kept) = z * n
      BY <1>4, <1>6, <2>3
    <3>2. n \in Nat \ {0}
      BY <2>1
    <3> HIDE DEF z, n
    <3>3. (z * n) \div n = z
      BY <2>2, <3>2, DivisionOfMultiple
    <3> QED
      BY <3>1, <3>3
  <2>5. ASSUME NEW i \in DOMAIN kept PROVE (i - 1) \div z = kept[i] \div w
    <3> DEFINE e == kept[i]
               g == e \div w
               m == e % w
               p == w * g
               q == z * g
               r == w * (g + 1)
               s == z * (g + 1)
    <3>1. i \in 1 .. Cardinality(S) /\ e \in S /\ Cardinality(Below(S, e)) = i - 1
          /\ e \in Nat /\ e < NumExperts /\ i - 1 \in Nat
      <4>1. i \in 1 .. Cardinality(S) /\ i - 1 \in Nat
        BY <1>6
      <4>2. e \in S /\ Cardinality(Below(S, e)) = i - 1
        BY <1>6, <4>1
      <4>3. e \in Nat /\ e < NumExperts
        BY <1>1, <4>2 DEF Experts
      <4> QED
        BY <4>1, <4>2, <4>3
    <3>2. g \in Nat /\ m \in Nat /\ m < w /\ e = p + m
      BY <2>1, <3>1, Division
    <3>3. p \in Nat /\ r = p + w /\ q \in Nat /\ s = q + z
      <4>1. g \in Nat /\ w \in Nat /\ z \in Nat
        BY <2>1, <2>2, <3>2
      <4> HIDE DEF g, w, z
      <4>2. p \in Nat /\ r = p + w
        BY <4>1
      <4>3. q \in Nat /\ s = q + z
        BY <4>1
      <4> QED
        BY <4>2, <4>3
    <3>4. g < n
      <4> SUFFICES ASSUME n <= g PROVE FALSE
        BY <2>1, <3>2
      <4>1. w * n <= p
        BY <2>1, <3>2, ProductsGrow
      <4>2. w * n = n * w
        BY <2>1, ProductCommutes
      <4> HIDE DEF e, g, m, p
      <4> QED
        BY <2>1, <3>1, <3>2, <3>3, <4>1, <4>2
    <3>5. ASSUME NEW h \in 0 .. n PROVE Cardinality(Below(S, w * h)) = z * h
      <4> DEFINE a == w * h
      <4>1. h \in Nat /\ a \in Nat /\ h * w = a /\ z * h = w * h - d * h /\ h * d = d * h
        BY <2>1, <2>2
      <4>2. a <= NumExperts
        <5>1. w * h <= w * n /\ w * n = n * w
          BY <2>1, <4>1, ProductsGrow, ProductCommutes
        <5> QED
          BY <2>1, <5>1
      <4>3. Below(S, a) = (0 .. a - 1) \ Below(D, a)
        <5> HIDE DEF a
        <5>1. \A x \in Experts : x \in Nat
          BY DEF Experts
        <5>2. \A x \in 0 .. a - 1 : x \in Experts /\ x < a
          BY <1>1, <4>1, <4>2 DEF Experts
        <5>3. \A x \in Experts : x < a => x \in 0 .. a - 1
          BY <4>1, <5>1
        <5> QED
          BY <5>2, <5>3 DEF Below
      <4>4. IsFiniteSet(0 .. a - 1) /\ Cardinality(0 .. a - 1) = a
        <5>1. a \in Nat
          BY <4>1
        <5> HIDE DEF a
        <5>2. IsFiniteSet(0 .. a - 1) /\ Cardinality(0 .. a - 1) = IF 0 > a - 1 THEN 0
              ELSE (a - 1) - 0 + 1
          BY <5>1, FS_Interval
        <5> QED
          BY <5>1, <5>2
      <4>5. Cardinality(Below(D, a)) = h * d
        BY <1>9, <4>1, DroppedFacts
      <4>6. Below(D, a) \subseteq 0 .. a - 1
        <5> HIDE DEF a
        <5>1. \A x \in D : x \in Nat
          BY DEF Experts
        <5> QED
          BY <4>1, <5>1 DEF Below
      <4>7. Cardinality((0 .. a - 1) \ Below(D, a)) = a - Cardinality(Below(D, a))
        <5>1. (0 .. a - 1) \cap Below(D, a) = Below(D, a)
          BY <4>6
        <5> DEFINE A == 0 .. a - 1
                   B == Below(D, a)
        <5>2. IsFiniteSet(A) /\ Cardinality(A) = a /\ A \cap B = B
          BY <4>4, <5>1
        <5> HIDE DEF A, B
        <5>3. Cardinality(A \ B) = Cardinality(A) - Cardinality(A \cap B)
          BY <5>2, FS_Difference
        <5>4. Cardinality(A \ B) = a - Cardinality(B)
          BY <5>2, <5>3
        <5> QED
          BY <5>4 DEF A, B
      <4> QED
        BY <4>1, <4>3, <4>5, <4>7
    <3>6. Cardinality(Below(S, p)) = q /\ Cardinality(Below(S, r)) = s
      <4>1. g \in 0 .. n /\ g + 1 \in 0 .. n
        BY <2>1, <3>2, <3>4
      <4> HIDE DEF g, n, w, z, S
      <4> QED
        BY <3>5, <4>1
    <3>7. q <= i - 1 /\ (i - 1) + 1 <= s
      <4>1. p <= e /\ e < r /\ r \in Nat
        <5> HIDE DEF e, g, m, p, r
        <5> QED
          BY <2>1, <3>1, <3>2, <3>3
      <4>2. S \in SUBSET (0 .. NumExperts - 1) /\ NumExperts \in Nat
        BY <1>1, <1>5
      <4> HIDE DEF e, g, m, p, q, r, s, S
      <4>3. Cardinality(Below(S, p)) <= Cardinality(Below(S, e))
        BY <3>1, <3>3, <4>1, <4>2, BelowFacts
      <4>4. Cardinality(Below(S, e)) + 1 <= Cardinality(Below(S, r))
        BY <3>1, <4>1, <4>2, BelowFacts
      <4> QED
        BY <3>1, <3>6, <4>3, <4>4
    <3>8. q <= i - 1 /\ i - 1 < s
      <4> HIDE DEF q, s, z
      <4> QED
        BY <2>2, <3>1, <3>3, <3>7
    <3>9. (i - 1) \div z = g
      <4> HIDE DEF g, z
      <4> QED
        BY <2>2, <3>1, <3>2, <3>8, DivisionBetween
    <3> QED
      BY <3>9
  <2>6. FitsRouter(kept)
    BY <1>9, <2>1, <2>4, <2>5 DEF FitsRouter
  <2> QED
    BY <1>4, <1>6, <1>7, <2>6
<1> QED
  BY <1>8, <1>9

(* The layers that are pruned by the end of epoch e: those that samples reach. *)
Upto(e) == {l \in names : \E i \in DOMAIN plan : i <= e /\ l \in plan[i] /\ l \in reach[Source]}
AllPruned == Upto(Len(plan))

(* The order in which layers are pruned: by epoch, then by name. *)
Place(l) == CHOOSE i \in DOMAIN LayerOrder : LayerOrder[i] = l
Precedes(k, l) ==
  \/ \E e \in Nat : k \in Upto(e) /\ l \notin Upto(e)
  \/ (\A e \in Nat : k \in Upto(e) <=> l \in Upto(e)) /\ Place(k) < Place(l)
Prior(l) == {k \in AllPruned : Precedes(k, l)}

(* P is what a rank has pruned at some time of the end of epoch e. *)
IsSegment(P, e) ==
  /\ Upto(e - 1) \subseteq P /\ P \subseteq Upto(e)
  /\ \A k \in P \ Upto(e - 1), l \in Upto(e) \ P : Place(k) < Place(l)

SetupTypes == router \in Routers /\ plan \in Plans /\ reach \in Reaches /\ names \in Found

LEMMA UptoFacts ==
  ASSUME SetupTypes
  PROVE  /\ plan \in Seq(SUBSET Layers) /\ Len(plan) \in Nat /\ DOMAIN plan = 1 .. Len(plan)
         /\ names \subseteq Layers
         /\ Upto(0) = {} /\ \A e \in Nat : Upto(e) \subseteq AllPruned
         /\ AllPruned \subseteq names
         /\ \A e, f \in Nat : e <= f => Upto(e) \subseteq Upto(f)
         /\ \A e \in DOMAIN plan :
              e - 1 \in Nat /\ Upto(e) = Upto(e - 1) \cup (names \cap plan[e] \cap reach[Source])
<1>1. plan \in Seq(SUBSET Layers) /\ Len(plan) \in Nat /\ DOMAIN plan = 1 .. Len(plan)
  BY ReapAssumption DEF SetupTypes
<1>2. names \subseteq Layers
  BY ReapAssumption DEF SetupTypes
<1>3. Upto(0) = {}
  BY <1>1 DEF Upto
<1>4. \A e \in Nat : Upto(e) \subseteq AllPruned
  BY <1>1 DEF Upto, AllPruned
<1>5. \A e, f \in Nat : e <= f => Upto(e) \subseteq Upto(f)
  BY <1>1 DEF Upto
<1>6. ASSUME NEW e \in DOMAIN plan
      PROVE  e - 1 \in Nat /\ Upto(e) = Upto(e - 1) \cup (names \cap plan[e] \cap reach[Source])
  <2>1. e \in Nat /\ e - 1 \in Nat
    BY <1>1
  <2>2. \A i \in DOMAIN plan : i <= e <=> i <= e - 1 \/ i = e
    BY <1>1, <2>1
  <2> QED
    BY <2>1, <2>2 DEF Upto
<1>7. AllPruned \subseteq names
  BY DEF AllPruned, Upto
<1> QED
  BY <1>1, <1>2, <1>3, <1>4, <1>5, <1>6, <1>7

LEMMA OrderFacts ==
  /\ IsFiniteSet(Layers)
  /\ \A l \in Layers : Place(l) \in DOMAIN LayerOrder /\ Place(l) \in Nat
                       /\ LayerOrder[Place(l)] = l
  /\ \A k, l \in Layers : Place(k) = Place(l) => k = l
<1>1. LayerOrder \in Seq(Layers) /\ Len(LayerOrder) \in Nat
      /\ DOMAIN LayerOrder = 1 .. Len(LayerOrder)
  BY ReapAssumption
<1>2. \A l \in Layers : \E i \in DOMAIN LayerOrder : LayerOrder[i] = l
  BY DEF Layers, ToSet
<1>3. \A l \in Layers : Place(l) \in DOMAIN LayerOrder /\ LayerOrder[Place(l)] = l
  BY <1>2 DEF Place
<1>4. IsFiniteSet(Layers)
  <2>1. LayerOrder \in Surjection(DOMAIN LayerOrder, Layers)
    BY <1>1, <1>2 DEF Surjection
  <2>2. IsFiniteSet(DOMAIN LayerOrder)
    BY <1>1, FS_Interval
  <2> QED
    BY <2>1, <2>2, FS_Surjection
<1> QED
  BY <1>1, <1>3, <1>4

(* First chooses the first of the layers. *)
LEMMA FirstFacts ==
  ASSUME NEW S \in SUBSET Layers, S # {}
  PROVE  First(S) \in S /\ \A l \in S : Place(First(S)) <= Place(l)
<1> DEFINE I == {i \in DOMAIN LayerOrder : LayerOrder[i] \in S}
<1>1. I \subseteq Nat /\ I # {} /\ \A l \in S : Place(l) \in I
  <2>1. \A l \in S : Place(l) \in I
    BY OrderFacts
  <2>2. DOMAIN LayerOrder \subseteq Nat
    BY ReapAssumption
  <2> QED
    BY <2>1, <2>2
<1>2. \E x \in I : \A y \in I : x <= y
  <2> HIDE DEF I
  <2> QED
    BY <1>1, LeastNumber
<1>3. Min(I) \in I /\ \A y \in I : Min(I) <= y
  <2> HIDE DEF I
  <2> QED
    BY <1>2 DEF Min
<1>4. First(S) = LayerOrder[Min(I)]
  BY DEF First
<1>5. First(S) \in S /\ Place(First(S)) = Min(I)
  <2>1. First(S) \in S
    BY <1>3, <1>4
  <2>2. Place(First(S)) \in DOMAIN LayerOrder /\ LayerOrder[Place(First(S))] = LayerOrder[Min(I)]
    BY <2>1, <1>4, OrderFacts
  <2>3. Min(I) \in DOMAIN LayerOrder
    BY <1>3
  <2> HIDE DEF I
  <2> QED
    BY <2>1, <2>2, <2>3, ReapAssumption DEF IsInjective
<1> QED
  BY <1>1, <1>3, <1>5

(* What is pruned at any time is what precedes the rest. *)
LEMMA SegmentFacts ==
  ASSUME SetupTypes, NEW e \in DOMAIN plan, NEW P, IsSegment(P, e)
  PROVE  /\ P \subseteq AllPruned /\ IsFiniteSet(P) /\ Cardinality(P) \in Nat
         /\ \A l \in P : Prior(l) \subseteq P /\ l \notin Prior(l)
         /\ \A l \in AllPruned \ P : P \subseteq Prior(l)
<1>1. e \in Nat /\ e - 1 \in Nat /\ \A f \in Nat : f < e => f <= e - 1
  BY UptoFacts
<1>2. P \subseteq AllPruned /\ AllPruned \subseteq Layers
  BY <1>1, UptoFacts DEF IsSegment
<1>3. IsFiniteSet(P) /\ Cardinality(P) \in Nat
  BY <1>2, OrderFacts, FS_Subset, FS_CardinalityType
<1>4. \A f \in Nat : f <= e - 1 => Upto(f) \subseteq Upto(e - 1)
  BY <1>1, UptoFacts
<1>5. \A f \in Nat : e <= f => Upto(e) \subseteq Upto(f)
  BY <1>1, UptoFacts
<1>6. ASSUME NEW l \in P, NEW k \in Prior(l), k \notin P PROVE FALSE
  <2>1. k \in AllPruned /\ Precedes(k, l) /\ l \in Upto(e)
    BY <1>6 DEF Prior, IsSegment
  <2>2. CASE \E f \in Nat : k \in Upto(f) /\ l \notin Upto(f)
    <3>1. PICK f \in Nat : k \in Upto(f) /\ l \notin Upto(f)
      BY <2>2
    <3>2. f < e
      BY <1>1, <1>5, <2>1, <3>1
    <3> QED
      BY <1>1, <1>4, <1>6, <3>1, <3>2 DEF IsSegment
  <2>3. CASE (\A f \in Nat : k \in Upto(f) <=> l \in Upto(f)) /\ Place(k) < Place(l)
    <3>1. k \in Upto(e) \ P /\ k \notin Upto(e - 1)
      BY <1>1, <1>6, <2>1, <2>3 DEF IsSegment
    <3>2. l \in P \ Upto(e - 1)
      BY <1>1, <1>6, <2>3, <3>1
    <3>3. Place(l) < Place(k)
      BY <3>1, <3>2 DEF IsSegment
    <3>4. Place(k) \in Nat /\ Place(l) \in Nat
      BY <1>2, <1>6, <2>1, OrderFacts
    <3> QED
      BY <2>3, <3>3, <3>4
  <2> QED
    BY <2>1, <2>2, <2>3 DEF Precedes
<1>7. ASSUME NEW l \in AllPruned PROVE l \notin Prior(l)
  <2>1. Place(l) \in Nat
    BY <1>2, OrderFacts
  <2> QED
    BY <2>1 DEF Prior, Precedes
<1>8. ASSUME NEW l \in AllPruned \ P, NEW k \in P PROVE Precedes(k, l)
  <2>1. k \in Upto(e)
    BY DEF IsSegment
  <2>2. CASE l \notin Upto(e)
    BY <1>1, <2>1, <2>2 DEF Precedes
  <2>3. CASE l \in Upto(e) /\ k \in Upto(e - 1)
    <3>1. l \notin Upto(e - 1)
      BY DEF IsSegment
    <3> QED
      BY <1>1, <2>3, <3>1 DEF Precedes
  <2>4. CASE l \in Upto(e) /\ k \notin Upto(e - 1)
    <3>1. l \notin Upto(e - 1)
      BY DEF IsSegment
    <3>2. Place(k) < Place(l)
      BY <2>4 DEF IsSegment
    <3>3. ASSUME NEW f \in Nat PROVE k \in Upto(f) <=> l \in Upto(f)
      <4>1. CASE f < e
        BY <1>1, <1>4, <2>4, <3>1, <4>1
      <4>2. CASE e <= f
        BY <1>5, <2>1, <2>4, <4>2
      <4> QED
        BY <1>1, <4>1, <4>2
    <3> QED
      BY <3>2, <3>3 DEF Precedes
  <2> QED
    BY <2>2, <2>3, <2>4
<1> QED
  BY <1>2, <1>3, <1>6, <1>7, <1>8 DEF Prior

(* The layer a rank prunes next comes after all it has pruned, and after no other. *)
LEMMA NextLayer ==
  ASSUME SetupTypes, NEW e \in DOMAIN plan, NEW P, IsSegment(P, e),
         NEW S, S = Upto(e) \ P, S # {}, NEW f, f = First(S), NEW Q, Q = P \cup {f}
  PROVE  /\ f \in S /\ f \in Layers /\ f \in AllPruned /\ f \notin P
         /\ IsSegment(Q, e) /\ S \ {f} = Upto(e) \ Q
         /\ Prior(f) = P
         /\ Cardinality(Q) = Cardinality(P) + 1
<1>1. e \in Nat /\ S \in SUBSET Layers /\ S \subseteq AllPruned
  BY UptoFacts
<1>2. f \in S /\ \A l \in S : Place(f) <= Place(l)
  BY <1>1, FirstFacts
<1>3. IsSegment(Q, e)
  <2> SUFFICES ASSUME NEW k \in P \cup {f}, k \notin Upto(e - 1), NEW l \in S, l # f
               PROVE  Place(k) < Place(l)
    BY <1>2 DEF IsSegment
  <2>1. CASE k \in P
    BY <2>1 DEF IsSegment
  <2>2. CASE k = f
    <3>1. Place(f) \in Nat /\ Place(l) \in Nat /\ Place(f) # Place(l)
      BY <1>1, <1>2, OrderFacts
    <3>2. Place(f) <= Place(l)
      BY <1>2
    <3> QED
      BY <2>2, <3>1, <3>2
  <2> QED
    BY <2>1, <2>2
<1>4. Prior(f) \subseteq P \cup {f} /\ f \notin Prior(f)
  <2>1. IsSegment(Q, e) /\ f \in Q
    BY <1>3
  <2>2. Prior(f) \subseteq Q /\ f \notin Prior(f)
    BY <2>1, SegmentFacts
  <2> QED
    BY <2>2
<1>5. P \subseteq Prior(f) /\ IsFiniteSet(P)
  BY <1>1, <1>2, SegmentFacts
<1>6. Cardinality(P \cup {f}) = Cardinality(P) + 1
  BY <1>2, <1>5, FS_AddElement
<1> QED
  BY <1>1, <1>2, <1>3, <1>4, <1>5, <1>6

LEMMA NextPrior ==
  ASSUME SetupTypes, NEW e \in DOMAIN plan, NEW P, IsSegment(P, e),
         NEW S, S = Upto(e) \ P, S # {}, NEW f, f = First(S)
  PROVE  Prior(f) = P
<1> DEFINE Q == P \cup {f}
<1>1. Q = P \cup {f}
  OBVIOUS
<1> HIDE DEF Q
<1> QED
  BY <1>1, NextLayer

(* The turn of a layer says whether it has been pruned. *)
LEMMA TurnFacts ==
  ASSUME SetupTypes, NEW e \in DOMAIN plan, NEW P, IsSegment(P, e), NEW l \in AllPruned
  PROVE  /\ Cardinality(Prior(l)) \in Nat
         /\ l \in P => Cardinality(Prior(l)) + 1 <= Cardinality(P)
         /\ l \notin P => Cardinality(P) <= Cardinality(Prior(l))
         /\ l \notin P /\ Cardinality(P) = Cardinality(Prior(l)) => P = Prior(l)
<1>1. AllPruned \subseteq Layers /\ IsFiniteSet(AllPruned)
  BY UptoFacts, OrderFacts, FS_Subset
<1>2. IsFiniteSet(Prior(l)) /\ Cardinality(Prior(l)) \in Nat
  <2>1. Prior(l) \in SUBSET AllPruned
    BY DEF Prior
  <2> QED
    BY <1>1, <2>1, FS_Subset, FS_CardinalityType
<1>3. IsFiniteSet(P) /\ Cardinality(P) \in Nat
  BY SegmentFacts
<1>4. l \in P => Cardinality(Prior(l)) + 1 <= Cardinality(P)
  <2> SUFFICES ASSUME l \in P PROVE Cardinality(Prior(l)) + 1 <= Cardinality(P)
    OBVIOUS
  <2>1. Prior(l) \cup {l} \in SUBSET P /\ l \notin Prior(l)
    BY SegmentFacts
  <2>2. Cardinality(Prior(l) \cup {l}) = Cardinality(Prior(l)) + 1
    BY <1>2, <2>1, FS_AddElement
  <2> QED
    BY <1>3, <2>1, <2>2, FS_Subset
<1>5. l \notin P => P \in SUBSET Prior(l)
  BY SegmentFacts
<1> QED
  BY <1>2, <1>3, <1>4, <1>5, FS_Subset

(* The layers a rank has pruned, and with the one it has issued the reduction of. *)
PrunedIn(ex) == {l \in Layers : ex[l] # Unpruned}
Pruned(r) == PrunedIn(experts[r])
ReducedIn(p, td, P) == P \cup IF p = "decide" THEN {First(td)} ELSE {}

Calls == [kind : {"reduce", "broadcast"}, layer : Layers, data : Counts \cup Seq(Experts)]
Stages == {"calibrate", "reduce", "decide", "finalize", "done"}

(* What a rank holds at stage p of epoch e after b batches, where P is pruned. *)
StageOK(p, e, b, td, tr, sn, P, cfg) ==
  /\ p \in Stages /\ e \in DOMAIN plan /\ b \in 0 .. Batches
  /\ sn \in [Layers -> Counts]
  /\ p # "done" => tr = [l \in names \ P |-> sn[l]]
  /\ \A l \in names : HasSamples(sn[l]) => l \in Upto(e)
  /\ p = "calibrate" => P = Upto(e - 1) /\ (b > 0 => \A l \in Upto(e) \ P : HasSamples(sn[l]))
  /\ p \in {"reduce", "decide"} => IsSegment(P, e) /\ td = Upto(e) \ P
  /\ p = "decide" => td # {}
  /\ p \in {"finalize", "done"} => P = AllPruned
  /\ p = "done" => cfg = NumExperts - drop

(* The collectives s of a rank: two for each layer it has pruned. *)
CallsOK(p, td, sn, P, ex, s, isSource) ==
  /\ s \in Seq(Calls)
  /\ Distributed =>
       /\ Len(s) = 2 * Cardinality(P) + IF p = "decide" THEN 1 ELSE 0
       /\ \A l \in ReducedIn(p, td, P) : s[2 * Cardinality(Prior(l)) + 1].data = sn[l]
       /\ isSource => \A l \in P : s[2 * Cardinality(Prior(l)) + 2].data = ex[l]

(* Kept by the samples of all ranks. *)
IsDecided(kept, total) ==
  \E D \in SUBSET Experts : MayDrop(total, D) /\ kept = Sorted(Experts \ D)

RankInv(r) ==
  /\ StageOK(pc[r], epoch[r], batch[r], todo[r], tracker[r], seen[r], Pruned(r), config[r])
  /\ CallsOK(pc[r], todo[r], seen[r], Pruned(r), experts[r], sent[r], r = Source)

(* A layer that the source has pruned was decided on when all ranks had reduced it, and
   the others prune it like the source. *)
AgreeInv ==
  /\ \A l \in Pruned(Source) :
       /\ \A r \in Ranks : l \in ReducedIn(pc[r], todo[r], Pruned(r))
       /\ IsDecided(experts[Source][l], Total([r \in Ranks |-> seen[r][l]]))
  /\ \A r \in Ranks : \A l \in Pruned(r) :
       l \in Pruned(Source) /\ experts[r][l] = experts[Source][l]

ReapTypes ==
  /\ SetupTypes
  /\ gate = experts
  /\ pc \in [Ranks -> Stages \cup {"initialize", "rejected"}]
  /\ epoch \in [Ranks -> Nat] /\ batch \in [Ranks -> Nat]
  /\ DOMAIN todo = Ranks /\ DOMAIN tracker = Ranks /\ DOMAIN config = Ranks
  /\ seen \in [Ranks -> [Layers -> Counts]] /\ sent \in [Ranks -> Seq(Calls)]
  /\ experts \in [Ranks -> [Layers -> Seq(Experts)]]

(* Before anything is pruned. *)
Untouched ==
  /\ \A r \in Ranks : Pruned(r) = {} /\ pc[r] \in {"initialize", "rejected"}
  /\ \A r \in Ranks : pc[r] = "initialize" =>
       /\ epoch[r] = 1 /\ batch[r] = 0 /\ todo[r] = {} /\ sent[r] = <<>>
       /\ seen[r] = [l \in Layers |-> Zero]
  /\ (\E r \in Ranks : pc[r] = "initialize") => drop \in Drops

Running ==
  /\ SizesOK /\ \A r \in Ranks : RankInv(r)
  /\ AgreeInv

ReapInv == ReapTypes /\ (Untouched \/ Running)

LEMMA ReapSetupStays ==
  ASSUME UNCHANGED reapSetup
  PROVE  /\ (SizesOK' <=> SizesOK) /\ (SetupTypes' <=> SetupTypes)
         /\ \A e : Upto(e)' = Upto(e)
         /\ \A l : Prior(l)' = Prior(l)
BY DEF reapSetup, SizesOK, SetupTypes, Upto, Prior, Precedes, AllPruned, GroupSize

(* What a step has to show of a rank. *)
LEMMA RankKept ==
  ASSUME UNCHANGED reapSetup, NEW r \in Ranks,
         StageOK(pc'[r], epoch'[r], batch'[r], todo'[r], tracker'[r], seen'[r], Pruned(r)',
                 config'[r]),
         CallsOK(pc'[r], todo'[r], seen'[r], Pruned(r)', experts'[r], sent'[r], r = Source)
  PROVE  RankInv(r)'
<1>1. StageOK(pc[r], epoch[r], batch[r], todo[r], tracker[r], seen[r], Pruned(r), config[r])'
  BY DEF reapSetup, StageOK, IsSegment, Upto, AllPruned
<1>2. CallsOK(pc[r], todo[r], seen[r], Pruned(r), experts[r], sent[r], r = Source)'
  BY ReapSetupStays DEF CallsOK
<1> QED
  BY <1>1, <1>2 DEF RankInv

(* A rank that does not move. *)
LEMMA OthersKept ==
  ASSUME UNCHANGED reapSetup, NEW r \in Ranks, RankInv(r), pc'[r] = pc[r], epoch'[r] = epoch[r],
         batch'[r] = batch[r], todo'[r] = todo[r], tracker'[r] = tracker[r], seen'[r] = seen[r],
         config'[r] = config[r], sent'[r] = sent[r], experts'[r] = experts[r]
  PROVE  RankInv(r)' /\ Pruned(r)' = Pruned(r)
<1>1. Pruned(r)' = Pruned(r)
  BY DEF Pruned, PrunedIn
<1> QED
  BY <1>1, RankKept DEF RankInv

LEMMA AgreeKept ==
  ASSUME UNCHANGED reapSetup,
         \A l \in Pruned(Source)' :
           /\ \A r \in Ranks : l \in ReducedIn(pc'[r], todo'[r], Pruned(r)')
           /\ IsDecided(experts'[Source][l], Total([r \in Ranks |-> seen'[r][l]])),
         \A r \in Ranks : \A l \in Pruned(r)' :
           l \in Pruned(Source)' /\ experts'[r][l] = experts'[Source][l]
  PROVE  AgreeInv'
<1>1. ASSUME NEW l \in Pruned(Source)'
      PROVE  IsDecided(experts[Source][l], Total([r \in Ranks |-> seen[r][l]]))'
  <2>1. UNCHANGED <<router, drop, dropInGroup>>
    BY DEF reapSetup
  <2>2. PICK D \in SUBSET Experts :
          /\ MayDrop(Total([r \in Ranks |-> seen'[r][l]]), D)
          /\ experts'[Source][l] = Sorted(Experts \ D)
    BY <1>1 DEF IsDecided
  <2>3. MayDrop(Total([r \in Ranks |-> seen[r][l]]), D)'
    BY <2>1, <2>2 DEF MayDrop, AreLowest, Group, GroupSize
  <2> QED
    BY <2>2, <2>3 DEF IsDecided
<1> QED
  BY <1>1 DEF AgreeInv, ReducedIn

LEMMA CountFacts ==
  /\ Zero \in Counts /\ ~ HasSamples(Zero)
  /\ \A a, b \in Counts : Plus(a, b) \in Counts /\ (HasSamples(b) => HasSamples(Plus(a, b)))
<1>1. Zero \in Counts /\ ~ HasSamples(Zero)
  BY DEF Zero, Counts, HasSamples
<1>2. ASSUME NEW a \in Counts, NEW b \in Counts
      PROVE  Plus(a, b) \in Counts /\ (HasSamples(b) => HasSamples(Plus(a, b)))
  <2>1. \A e \in Experts : a[e].sum \in Nat /\ a[e].count \in Nat
                           /\ b[e].sum \in Nat /\ b[e].count \in Nat
    BY DEF Counts
  <2> QED
    BY <2>1 DEF Plus, Counts, HasSamples
<1> QED
  BY <1>1, <1>2

LEMMA TokenFacts ==
  ASSUME router \in Routers, NEW l \in Layers, NEW t \in Tokens(l)
  PROVE  t \in Counts /\ HasSamples(t)
<1>1. PICK S \in kSubset(router.topK, Routes[l]), n \in 1 .. MaxNorm :
        t = [e \in Experts |-> IF e \in S THEN [sum |-> n, count |-> 1] ELSE Zero[e]]
  BY DEF Tokens
<1>2. t \in Counts
  <2>1. n \in Nat /\ \A e \in Experts : Zero[e] \in [sum : Nat, count : Nat]
    BY ReapAssumption DEF Zero
  <2> QED
    BY <1>1, <2>1 DEF Counts
<1>3. S \subseteq Experts /\ Cardinality(S) = router.topK
  BY ReapAssumption DEF kSubset
<1>4. S # {}
  BY <1>3, RouterTypes, FS_EmptySet
<1>5. PICK e \in S : TRUE
  BY <1>4
<1>6. t[e].count = 1
  BY <1>1, <1>3, <1>5
<1> QED
  BY <1>2, <1>3, <1>5, <1>6 DEF HasSamples

(* What one rank moves with. *)
LEMMA RankRuns ==
  ASSUME ReapInv, NEW q \in Ranks, pc[q] \notin {"initialize", "rejected"}
  PROVE  Running
BY DEF ReapInv, Untouched

LEMMA SameReach ==
  ASSUME ReachesAgree, SetupTypes, NEW q \in Ranks
  PROVE  reach[q] = reach[Source]
BY ReapAssumption DEF ReachesAgree, SetupTypes

LEMMA RunBatchKeeps ==
  ASSUME ReachesAgree, ReapInv, NEW q \in Ranks, RunBatch(q) PROVE ReapInv'
<1> DEFINE P == Pruned(q)
           counted == Called(q) \cap DOMAIN tracker[q]
<1>1. PICK t \in [counted -> UNION {Tokens(l) : l \in counted}] :
        /\ \A l \in counted : t[l] \in Tokens(l)
        /\ tracker' = [tracker EXCEPT ![q] = [l \in DOMAIN @ |->
             IF l \in counted THEN Plus(@[l], t[l]) ELSE @[l]]]
        /\ seen' = [seen EXCEPT ![q] = [l \in Layers |->
             IF l \in counted THEN Plus(@[l], t[l]) ELSE @[l]]]
  BY DEF RunBatch
<1>2. /\ pc[q] = "calibrate" /\ batch[q] < Batches /\ batch' = [batch EXCEPT ![q] = @ + 1]
      /\ UNCHANGED <<reapSetup, pc, epoch, todo, model, sent>>
  BY DEF RunBatch
<1>3. Running /\ ReapTypes
  BY <1>2, RankRuns DEF ReapInv
<1>4. /\ P = Upto(epoch[q] - 1) /\ epoch[q] \in DOMAIN plan /\ batch[q] \in 0 .. Batches
      /\ tracker[q] = [l \in names \ P |-> seen[q][l]] /\ seen[q] \in [Layers -> Counts]
      /\ \A l \in names : HasSamples(seen[q][l]) => l \in Upto(epoch[q])
  BY <1>2, <1>3 DEF Running, RankInv, StageOK
<1>5. names \subseteq Layers /\ SetupTypes /\ router \in Routers
  BY <1>3, UptoFacts DEF ReapTypes, SetupTypes
<1>6. counted = Upto(epoch[q]) \ P
  <2>1. reach[q] = reach[Source]
    BY <1>5, SameReach
  <2>2. Upto(epoch[q]) = P \cup (names \cap plan[epoch[q]] \cap reach[Source])
    BY <1>4, <1>5, UptoFacts
  <2>3. DOMAIN tracker[q] = names \ P
    BY <1>4
  <2> HIDE DEF P
  <2>4. P \subseteq Upto(epoch[q])
    BY <2>2
  <2> QED
    BY <2>1, <2>2, <2>3, <2>4 DEF Called, Upto
<1>7. \A l \in counted : l \in Layers /\ l \in names /\ t[l] \in Counts /\ HasSamples(t[l])
  <2> SUFFICES ASSUME NEW l \in counted PROVE l \in Layers /\ l \in names /\ t[l] \in Counts
               /\ HasSamples(t[l])
    OBVIOUS
  <2>1. l \in names /\ l \in Layers
    BY <1>4, <1>5
  <2> QED
    BY <1>1, <1>5, <2>1, TokenFacts
<1>8. Ranks = DOMAIN seen /\ Ranks = DOMAIN tracker /\ Ranks = DOMAIN batch
  BY <1>3 DEF ReapTypes
<1> HIDE DEF counted
<1>9. /\ seen'[q] = [l \in Layers |-> IF l \in counted THEN Plus(seen[q][l], t[l]) ELSE seen[q][l]]
      /\ tracker'[q] = [l \in DOMAIN tracker[q] |->
           IF l \in counted THEN Plus(tracker[q][l], t[l]) ELSE tracker[q][l]]
      /\ batch'[q] = batch[q] + 1
      /\ \A r \in Ranks \ {q} : seen'[r] = seen[r] /\ tracker'[r] = tracker[r]
           /\ batch'[r] = batch[r]
      /\ DOMAIN seen' = Ranks /\ DOMAIN tracker' = Ranks /\ DOMAIN batch' = Ranks
  BY <1>1, <1>2, <1>8
<1>10. seen'[q] \in [Layers -> Counts]
  BY <1>4, <1>7, <1>9, CountFacts
<1>11. Pruned(q)' = P /\ \A r \in Ranks : Pruned(r)' = Pruned(r)
  BY <1>2 DEF Pruned, PrunedIn, model
<1>12. RankInv(q)'
  <2>1. tracker'[q] = [l \in names \ P |-> seen'[q][l]]
    <3>1. \A l \in names \ P : tracker[q][l] = seen[q][l] /\ l \in Layers
      BY <1>4, <1>5
    <3>2. DOMAIN tracker[q] = names \ P
      BY <1>4
    <3> HIDE DEF P
    <3> QED
      BY <1>9, <3>1, <3>2
  <2>2. \A l \in counted : HasSamples(seen'[q][l])
    BY <1>4, <1>7, <1>9, CountFacts
  <2>3. \A l \in names : HasSamples(seen'[q][l]) => l \in Upto(epoch[q])
    <3>1. \A l \in names : l \notin counted => seen'[q][l] = seen[q][l]
      BY <1>5, <1>9
    <3> QED
      BY <1>4, <1>6, <3>1
  <2>4. batch[q] + 1 \in 0 .. Batches
    BY <1>2, <1>4, ReapAssumption
  <2>5. StageOK(pc'[q], epoch'[q], batch'[q], todo'[q], tracker'[q], seen'[q], P, config'[q])
    <3>1. pc'[q] = "calibrate" /\ epoch'[q] = epoch[q] /\ batch'[q] = batch[q] + 1
      BY <1>2, <1>9
    <3>2. "calibrate" \in Stages
      BY DEF Stages
    <3>3. \A l \in Upto(epoch[q]) \ P : HasSamples(seen'[q][l])
      BY <1>6, <2>2
    <3> DEFINE b == batch[q] + 1
    <3>4. b \in 0 .. Batches
      BY <2>4
    <3> HIDE DEF P, b
    <3>5. batch'[q] = b
      BY <3>1 DEF b
    <3> QED
      BY <1>4, <1>10, <2>1, <2>3, <3>1, <3>2, <3>3, <3>4, <3>5 DEF StageOK
  <2>6. CallsOK(pc'[q], todo'[q], seen'[q], P, experts'[q], sent'[q], q = Source)
    <3>1. CallsOK(pc[q], todo[q], seen[q], P, experts[q], sent[q], q = Source)
      BY <1>3 DEF Running, RankInv
    <3>2. \A l \in P : seen'[q][l] = seen[q][l]
      <4>1. \A l \in P : l \in Layers /\ l \notin counted
        BY <1>6 DEF Pruned, PrunedIn
      <4> QED
        BY <1>9, <4>1
    <3>3. ReducedIn(pc[q], todo[q], P) = P
      BY <1>2 DEF ReducedIn
    <3> HIDE DEF P
    <3> QED
      BY <1>2, <3>1, <3>2, <3>3 DEF CallsOK, model
  <2> QED
    BY <1>2, <1>11, <2>5, <2>6, RankKept
<1>13. ASSUME NEW r \in Ranks, r # q PROVE RankInv(r)'
  BY <1>2, <1>3, <1>9, <1>13, OthersKept DEF Running, model
<1>14. AgreeInv'
  <2>1. ASSUME NEW l \in Pruned(Source), NEW r \in Ranks PROVE seen'[r][l] = seen[r][l]
    <3>1. CASE r # q
      BY <1>9, <3>1
    <3>2. CASE r = q
      <4>1. l \in P /\ l \in Layers
        BY <1>2, <1>3 DEF Running, AgreeInv, ReducedIn, Pruned, PrunedIn
      <4> QED
        BY <1>6, <1>9, <3>2, <4>1
    <3> QED
      BY <3>1, <3>2
  <2>2. \A l \in Pruned(Source) :
          [r \in Ranks |-> seen'[r][l]] = [r \in Ranks |-> seen[r][l]]
    BY <2>1
  <2>3. Source \in Ranks
    BY ReapAssumption
  <2> QED
    BY <1>2, <1>3, <1>11, <2>2, <2>3, AgreeKept DEF Running, AgreeInv, model
<1>15. ReapTypes'
  <2>1. seen' \in [Ranks -> [Layers -> Counts]]
    <3>1. seen' = [r \in Ranks |-> seen'[r]]
      BY <1>1, <1>8
    <3>2. \A r \in Ranks : seen'[r] \in [Layers -> Counts]
      BY <1>3, <1>9, <1>10 DEF ReapTypes
    <3> QED
      BY <3>1, <3>2
  <2>2. batch' \in [Ranks -> Nat]
    <3>1. batch \in [Ranks -> Nat]
      BY <1>3 DEF ReapTypes
    <3> QED
      BY <1>2, <3>1
  <2> QED
    BY <1>2, <1>3, <1>9, <2>1, <2>2, ReapSetupStays DEF ReapTypes, model
<1> QED
  BY <1>2, <1>3, <1>12, <1>13, <1>14, <1>15, ReapSetupStays DEF ReapInv, Running

(* A step of one rank that prunes nothing. *)
LEMMA MoveKeeps ==
  ASSUME ReapTypes, Running, ReapTypes', NEW q \in Ranks,
         UNCHANGED <<reapSetup, experts, gate, seen>>,
         \A r \in Ranks \ {q} :
           /\ pc'[r] = pc[r] /\ epoch'[r] = epoch[r] /\ batch'[r] = batch[r] /\ todo'[r] = todo[r]
           /\ tracker'[r] = tracker[r] /\ config'[r] = config[r] /\ sent'[r] = sent[r],
         StageOK(pc'[q], epoch'[q], batch'[q], todo'[q], tracker'[q], seen[q], Pruned(q),
         config'[q]),
         CallsOK(pc'[q], todo'[q], seen[q], Pruned(q), experts[q], sent'[q], q = Source),
         ReducedIn(pc[q], todo[q], Pruned(q)) \subseteq ReducedIn(pc'[q], todo'[q], Pruned(q))
  PROVE  ReapInv'
<1>1. \A r \in Ranks : Pruned(r)' = Pruned(r)
  BY DEF Pruned, PrunedIn
<1>2. RankInv(q)'
  BY <1>1, RankKept
<1>3. ASSUME NEW r \in Ranks, r # q PROVE RankInv(r)'
  BY <1>3, OthersKept DEF Running
<1>4. \A r \in Ranks : ReducedIn(pc[r], todo[r], Pruned(r)) \subseteq ReducedIn(pc'[r], todo'[r],
      Pruned(r))
  OBVIOUS
<1>5. AgreeInv'
  <2>1. Source \in Ranks
    BY ReapAssumption
  <2> QED
    BY <1>1, <1>4, <2>1, AgreeKept DEF Running, AgreeInv
<1> QED
  BY <1>2, <1>3, <1>5, ReapSetupStays DEF ReapInv, Running

LEMMA StageAt ==
  ASSUME Running, NEW q \in Ranks
  PROVE  /\ StageOK(pc[q], epoch[q], batch[q], todo[q], tracker[q], seen[q], Pruned(q), config[q])
         /\ CallsOK(pc[q], todo[q], seen[q], Pruned(q), experts[q], sent[q], q = Source)
BY DEF Running, RankInv

(* Stages without an open reduction do not differ in what they have issued. *)
LEMMA CallsStay ==
  ASSUME NEW p, NEW td, NEW sn, NEW P, NEW ex, NEW s, NEW src, CallsOK(p, td, sn, P, ex, s, src),
         p # "decide", NEW p2, NEW td2, p2 # "decide"
  PROVE  /\ CallsOK(p2, td2, sn, P, ex, s, src)
         /\ ReducedIn(p, td, P) = ReducedIn(p2, td2, P)
BY DEF CallsOK, ReducedIn

LEMMA FirstSegment ==
  ASSUME SetupTypes, NEW e \in DOMAIN plan
  PROVE  IsSegment(Upto(e - 1), e)
<1>1. e - 1 \in Nat /\ e \in Nat /\ Upto(e - 1) \subseteq Upto(e)
  BY UptoFacts
<1> QED
  BY <1>1 DEF IsSegment

LEMMA StartEpochEndKeeps ==
  ASSUME ReapInv, NEW q \in Ranks, StartEpochEnd(q) PROVE ReapInv'
<1> DEFINE P == Pruned(q)
           e == epoch[q]
           S == {l \in DOMAIN tracker[q] : HasSamples(tracker[q][l])}
<1>1. /\ pc[q] = "calibrate" /\ batch[q] = Batches
      /\ todo' = [todo EXCEPT ![q] = S] /\ pc' = [pc EXCEPT ![q] = "reduce"]
      /\ UNCHANGED <<reapSetup, epoch, batch, tracker, model, sent, seen>>
  BY DEF StartEpochEnd
<1>2. Running /\ ReapTypes /\ SetupTypes
  BY <1>1, RankRuns DEF ReapInv, ReapTypes
<1>3. /\ P = Upto(e - 1) /\ e \in DOMAIN plan /\ batch[q] \in 0 .. Batches
      /\ tracker[q] = [l \in names \ P |-> seen[q][l]] /\ seen[q] \in [Layers -> Counts]
      /\ \A l \in names : HasSamples(seen[q][l]) => l \in Upto(e)
      /\ batch[q] > 0 => \A l \in Upto(e) \ P : HasSamples(seen[q][l])
  BY <1>1, <1>2, StageAt DEF StageOK
<1>4. batch[q] > 0
  BY <1>1, ReapAssumption
<1>5. S = Upto(e) \ P
  <2>1. DOMAIN tracker[q] = names \ P /\ \A l \in names \ P : tracker[q][l] = seen[q][l]
    BY <1>3
  <2>2. Upto(e) \subseteq names
    BY DEF Upto
  <2> HIDE DEF P
  <2> QED
    BY <1>3, <1>4, <2>1, <2>2
<1>6. IsSegment(P, e)
  BY <1>2, <1>3, FirstSegment
<1>7. pc'[q] = "reduce" /\ todo'[q] = S
  BY <1>1, <1>2 DEF ReapTypes
<1>8. StageOK(pc'[q], epoch'[q], batch'[q], todo'[q], tracker'[q], seen[q], P, config'[q])
  <2>1. "reduce" \in Stages
    BY DEF Stages
  <2> HIDE DEF P, S, e
  <2>2. epoch'[q] = e /\ batch'[q] = batch[q] /\ tracker'[q] = tracker[q]
    BY <1>1 DEF e
  <2> QED
    BY <1>3, <1>5, <1>6, <1>7, <2>1, <2>2 DEF StageOK
<1>9. /\ CallsOK(pc'[q], todo'[q], seen[q], P, experts[q], sent'[q], q = Source)
      /\ ReducedIn(pc[q], todo[q], P) = ReducedIn(pc'[q], todo'[q], P)
  BY <1>1, <1>2, <1>7, StageAt, CallsStay
<1>10. ReapTypes'
  <2>1. "reduce" \in Stages
    BY DEF Stages
  <2> QED
    BY <1>1, <1>2, <2>1, ReapSetupStays DEF ReapTypes, model
<1>11. \A r \in Ranks \ {q} : pc'[r] = pc[r] /\ todo'[r] = todo[r]
  BY <1>1, <1>2 DEF ReapTypes
<1> HIDE DEF S, e
<1> QED
  BY <1>1, <1>2, <1>8, <1>9, <1>10, <1>11, MoveKeeps DEF model

LEMMA EndEpochKeeps ==
  ASSUME ReapInv, NEW q \in Ranks, EndEpoch(q) PROVE ReapInv'
<1> DEFINE P == Pruned(q)
           e == epoch[q]
<1>1. /\ pc[q] = "reduce" /\ todo[q] = {}
      /\ UNCHANGED <<reapSetup, todo, tracker, model, sent, seen>>
  BY DEF EndEpoch
<1>2. Running /\ ReapTypes /\ SetupTypes
  BY <1>1, RankRuns DEF ReapInv, ReapTypes
<1>3. /\ IsSegment(P, e) /\ Upto(e) \ P = {} /\ e \in DOMAIN plan /\ batch[q] \in 0 .. Batches
      /\ tracker[q] = [l \in names \ P |-> seen[q][l]] /\ seen[q] \in [Layers -> Counts]
      /\ \A l \in names : HasSamples(seen[q][l]) => l \in Upto(e)
  BY <1>1, <1>2, StageAt DEF StageOK
<1>4. P = Upto(e) /\ e \in Nat /\ e \in 1 .. Len(plan) /\ Len(plan) \in Nat
  <2>1. P \subseteq Upto(e)
    BY <1>3 DEF IsSegment
  <2>2. DOMAIN plan = 1 .. Len(plan) /\ Len(plan) \in Nat
    BY <1>2, UptoFacts
  <2>3. Upto(e) \ P = {} /\ e \in DOMAIN plan
    BY <1>3
  <2>4. P = Upto(e)
    <3> HIDE DEF P, e
    <3> QED
      BY <2>1, <2>3, Zenon
  <2>5. e \in Nat /\ e \in 1 .. Len(plan)
    <3> HIDE DEF e
    <3> QED
      BY <2>2, <2>3
  <2> QED
    BY <2>2, <2>4, <2>5
<1>5. Stages \subseteq Stages \cup {"initialize", "rejected"} /\ "calibrate" \in Stages
      /\ "finalize" \in Stages
  BY DEF Stages
<1>6. CASE e < Len(plan)
  <2> DEFINE n == e + 1
  <2>1. /\ epoch' = [epoch EXCEPT ![q] = @ + 1] /\ batch' = [batch EXCEPT ![q] = 0]
        /\ pc' = [pc EXCEPT ![q] = "calibrate"]
    BY <1>6 DEF EndEpoch
  <2>2. n \in DOMAIN plan /\ n - 1 = e /\ n \in Nat
    BY <1>2, <1>4, <1>6, UptoFacts
  <2>3. P = Upto(n - 1) /\ \A l \in names : HasSamples(seen[q][l]) => l \in Upto(n)
    <3>1. Upto(e) \subseteq Upto(n)
      BY <1>2, <1>4, <2>2, UptoFacts
    <3> QED
      BY <1>3, <1>4, <2>2, <3>1
  <2>4. pc'[q] = "calibrate" /\ epoch'[q] = n /\ batch'[q] = 0
    BY <1>2, <2>1 DEF ReapTypes
  <2>5. \A r \in Ranks \ {q} : pc'[r] = pc[r] /\ epoch'[r] = epoch[r] /\ batch'[r] = batch[r]
    BY <1>2, <2>1 DEF ReapTypes
  <2>6. 0 \in 0 .. Batches /\ ~ (0 > 0)
    BY ReapAssumption
  <2>7. StageOK(pc'[q], epoch'[q], batch'[q], todo'[q], tracker'[q], seen[q], P, config'[q])
    <3> HIDE DEF P, e, n
    <3> QED
      BY <1>1, <1>3, <1>5, <2>2, <2>3, <2>4, <2>6 DEF StageOK
  <2>8. /\ CallsOK(pc'[q], todo'[q], seen[q], P, experts[q], sent'[q], q = Source)
        /\ ReducedIn(pc[q], todo[q], P) = ReducedIn(pc'[q], todo'[q], P)
    BY <1>1, <1>2, <2>4, StageAt, CallsStay
  <2>9. ReapTypes'
    BY <1>1, <1>2, <1>5, <2>1, ReapSetupStays DEF ReapTypes, model
  <2> HIDE DEF n
  <2> QED
    BY <1>1, <1>2, <2>5, <2>7, <2>8, <2>9, MoveKeeps DEF model
<1>7. CASE ~ (e < Len(plan))
  <2>1. pc' = [pc EXCEPT ![q] = "finalize"] /\ UNCHANGED <<epoch, batch>>
    BY <1>7 DEF EndEpoch
  <2>2. P = AllPruned
    <3>1. e = Len(plan)
      BY <1>4, <1>7
    <3> QED
      BY <1>4, <3>1 DEF AllPruned
  <2>4. pc'[q] = "finalize" /\ epoch'[q] = e /\ batch'[q] = batch[q]
    BY <1>2, <2>1 DEF ReapTypes
  <2>5. \A r \in Ranks \ {q} : pc'[r] = pc[r]
    BY <1>2, <2>1 DEF ReapTypes
  <2>7. StageOK(pc'[q], epoch'[q], batch'[q], todo'[q], tracker'[q], seen[q], P, config'[q])
    <3> HIDE DEF P, e
    <3> QED
      BY <1>1, <1>3, <1>5, <2>2, <2>4 DEF StageOK
  <2>8. /\ CallsOK(pc'[q], todo'[q], seen[q], P, experts[q], sent'[q], q = Source)
        /\ ReducedIn(pc[q], todo[q], P) = ReducedIn(pc'[q], todo'[q], P)
    BY <1>1, <1>2, <2>4, StageAt, CallsStay
  <2>9. ReapTypes'
    BY <1>1, <1>2, <1>5, <2>1, ReapSetupStays DEF ReapTypes, model
  <2> QED
    BY <1>1, <1>2, <2>1, <2>5, <2>7, <2>8, <2>9, MoveKeeps DEF model
<1> QED
  BY <1>6, <1>7

LEMMA FinalizeKeeps ==
  ASSUME ReapInv, NEW q \in Ranks, Finalize(q) PROVE ReapInv'
<1> DEFINE P == Pruned(q)
<1>1. /\ pc[q] = "finalize" /\ config' = [config EXCEPT ![q] = NumExperts - drop]
      /\ tracker' = [tracker EXCEPT ![q] = <<>>] /\ pc' = [pc EXCEPT ![q] = "done"]
      /\ UNCHANGED <<reapSetup, epoch, batch, todo, experts, gate, sent, seen>>
  BY DEF Finalize
<1>2. Running /\ ReapTypes /\ SetupTypes
  BY <1>1, RankRuns DEF ReapInv, ReapTypes
<1>3. /\ P = AllPruned /\ epoch[q] \in DOMAIN plan /\ batch[q] \in 0 .. Batches
      /\ seen[q] \in [Layers -> Counts]
      /\ \A l \in names : HasSamples(seen[q][l]) => l \in Upto(epoch[q])
  BY <1>1, <1>2, StageAt DEF StageOK
<1>4. "done" \in Stages
  BY DEF Stages
<1>5. pc'[q] = "done" /\ config'[q] = NumExperts - drop
  BY <1>1, <1>2 DEF ReapTypes
<1>6. StageOK(pc'[q], epoch'[q], batch'[q], todo'[q], tracker'[q], seen[q], P, config'[q])
  <2> HIDE DEF P
  <2> QED
    BY <1>1, <1>3, <1>4, <1>5 DEF StageOK
<1>7. /\ CallsOK(pc'[q], todo'[q], seen[q], P, experts[q], sent'[q], q = Source)
      /\ ReducedIn(pc[q], todo[q], P) = ReducedIn(pc'[q], todo'[q], P)
  BY <1>1, <1>2, <1>5, StageAt, CallsStay
<1>8. ReapTypes'
  BY <1>1, <1>2, <1>4, ReapSetupStays DEF ReapTypes
<1>9. \A r \in Ranks \ {q} : pc'[r] = pc[r] /\ tracker'[r] = tracker[r] /\ config'[r] = config[r]
  BY <1>1, <1>2 DEF ReapTypes
<1> QED
  BY <1>1, <1>2, <1>6, <1>7, <1>8, <1>9, MoveKeeps

(* The layer whose turn it is on a rank. *)
LEMMA TurnOf ==
  ASSUME Running, SetupTypes, NEW q \in Ranks, pc[q] \in {"reduce", "decide"}, todo[q] # {}
  PROVE  /\ epoch[q] \in DOMAIN plan /\ IsSegment(Pruned(q), epoch[q])
         /\ todo[q] = Upto(epoch[q]) \ Pruned(q)
         /\ First(todo[q]) \in todo[q] /\ First(todo[q]) \in Layers
         /\ First(todo[q]) \in AllPruned /\ First(todo[q]) \notin Pruned(q)
         /\ Prior(First(todo[q])) = Pruned(q)
<1> DEFINE S == todo[q]
           P == Pruned(q)
           e == epoch[q]
           f == First(S)
           Q == P \cup {f}
<1>1. e \in DOMAIN plan /\ IsSegment(P, e) /\ S = Upto(e) \ P /\ S # {} /\ f = First(S)
      /\ Q = P \cup {f}
  BY StageAt DEF StageOK
<1> HIDE DEF S, P, e, f, Q
<1>2. f \in S /\ f \in Layers
  BY <1>1, NextLayer
<1>3. f \in AllPruned /\ f \notin P
  <2>1. e \in Nat /\ Upto(e) \subseteq AllPruned
    BY <1>1, UptoFacts
  <2> QED
    BY <1>1, <1>2, <2>1
<1>4. Prior(f) = P
  BY <1>1, NextPrior
<1> QED
  BY <1>1, <1>2, <1>3, <1>4 DEF S, P, e, f

(* What it leaves when it has been pruned. *)
LEMMA TurnPasses ==
  ASSUME Running, SetupTypes, NEW q \in Ranks, pc[q] \in {"reduce", "decide"}, todo[q] # {},
         NEW Q, Q = Pruned(q) \cup {First(todo[q])}
  PROVE  /\ IsSegment(Q, epoch[q]) /\ todo[q] \ {First(todo[q])} = Upto(epoch[q]) \ Q
         /\ Cardinality(Q) = Cardinality(Pruned(q)) + 1
<1> DEFINE S == todo[q]
           P == Pruned(q)
           e == epoch[q]
           f == First(S)
<1>1. e \in DOMAIN plan /\ IsSegment(P, e) /\ S = Upto(e) \ P /\ S # {} /\ f = First(S)
      /\ Q = P \cup {f}
  BY StageAt DEF StageOK
<1> HIDE DEF S, P, e, f
<1>2. IsSegment(Q, e)
  BY <1>1, NextLayer
<1>3. S \ {f} = Upto(e) \ Q
  BY <1>1, NextLayer
<1>4. Cardinality(Q) = Cardinality(P) + 1
  BY <1>1, NextLayer
<1> QED
  BY <1>2, <1>3, <1>4 DEF S, P, e, f

LEMMA ReduceKeeps ==
  ASSUME ReapInv, NEW q \in Ranks, Reduce(q) PROVE ReapInv'
<1> DEFINE P == Pruned(q)
           e == epoch[q]
           f == First(todo[q])
           s == sent[q]
           c == [kind |-> "reduce", layer |-> f, data |-> tracker[q][f]]
<1>1. /\ pc[q] = "reduce" /\ todo[q] # {} /\ pc' = [pc EXCEPT ![q] = "decide"]
      /\ sent' = [sent EXCEPT ![q] = IF Distributed THEN Append(@, c) ELSE @]
      /\ UNCHANGED <<reapSetup, epoch, batch, todo, tracker, model, seen>>
  BY DEF Reduce, Issue, Present
<1>2. Running /\ ReapTypes /\ SetupTypes
  BY <1>1, RankRuns DEF ReapInv, ReapTypes
<1>3. /\ IsSegment(P, e) /\ todo[q] = Upto(e) \ P /\ e \in DOMAIN plan /\ batch[q] \in 0 .. Batches
      /\ tracker[q] = [l \in names \ P |-> seen[q][l]] /\ seen[q] \in [Layers -> Counts]
      /\ \A l \in names : HasSamples(seen[q][l]) => l \in Upto(e)
  BY <1>1, <1>2, StageAt DEF StageOK
<1>4. f \in todo[q] /\ f \in Layers /\ Prior(f) = P
  BY <1>1, <1>2, TurnOf
<1>5. c \in Calls /\ c.data = seen[q][f]
  <2>1. f \in names \ P
    BY <1>3, <1>4 DEF Upto
  <2>2. tracker[q][f] = seen[q][f] /\ seen[q][f] \in Counts
    BY <1>3, <1>4, <2>1
  <2> HIDE DEF f
  <2> QED
    BY <1>4, <2>2 DEF Calls
<1>6. pc'[q] = "decide" /\ sent'[q] = IF Distributed THEN Append(s, c) ELSE s
  BY <1>1, <1>2 DEF ReapTypes
<1>7. "decide" \in Stages
  BY DEF Stages
<1>8. StageOK(pc'[q], epoch'[q], batch'[q], todo'[q], tracker'[q], seen[q], P, config'[q])
  <2> HIDE DEF P, e
  <2>1. epoch'[q] = e
    BY <1>1 DEF e
  <2> QED
    BY <1>1, <1>3, <1>6, <1>7, <2>1 DEF StageOK
<1>9. ReducedIn("decide", todo[q], P) = P \cup {f} /\ ReducedIn("reduce", todo[q], P) = P
  BY DEF ReducedIn
<1>10. CallsOK(pc'[q], todo'[q], seen[q], P, experts[q], sent'[q], q = Source)
  <2>1. CallsOK("reduce", todo[q], seen[q], P, experts[q], s, q = Source)
    BY <1>1, <1>2, StageAt
  <2>2. s \in Seq(Calls)
    BY <2>1 DEF CallsOK
  <2> HIDE DEF P, e, f, s, c
  <2>3. CASE ~ Distributed
    BY <1>6, <2>2, <2>3 DEF CallsOK
  <2>4. CASE Distributed
    <3>1. /\ Len(s) = 2 * Cardinality(P)
          /\ \A l \in P : s[2 * Cardinality(Prior(l)) + 1].data = seen[q][l]
          /\ q = Source => \A l \in P : s[2 * Cardinality(Prior(l)) + 2].data = experts[q][l]
      <4>1. Len(s) = 2 * Cardinality(P) + 0
        BY <2>1, <2>4 DEF CallsOK
      <4>2. Cardinality(P) \in Nat
        BY <1>2, <1>3, SegmentFacts
      <4> QED
        BY <1>9, <2>1, <2>4, <4>1, <4>2 DEF CallsOK
    <3>2. Cardinality(P) \in Nat /\ Cardinality(Prior(f)) = Cardinality(P)
      BY <1>2, <1>3, <1>4, SegmentFacts
    <3>3. \A l \in P : Cardinality(Prior(l)) \in Nat /\ Cardinality(Prior(l)) + 1 <= Cardinality(P)
      <4>1. P \subseteq AllPruned
        BY <1>2, <1>3, SegmentFacts
      <4> QED
        BY <1>2, <1>3, <4>1, TurnFacts
    <3>4. /\ Append(s, c) \in Seq(Calls) /\ Len(Append(s, c)) = 2 * Cardinality(P) + 1
          /\ Append(s, c)[2 * Cardinality(P) + 1] = c
          /\ \A i \in 1 .. 2 * Cardinality(P) : Append(s, c)[i] = s[i]
      BY <1>5, <2>2, <3>1, <3>2
    <3>5. \A l \in P : /\ 2 * Cardinality(Prior(l)) + 1 \in 1 .. 2 * Cardinality(P)
                       /\ 2 * Cardinality(Prior(l)) + 2 \in 1 .. 2 * Cardinality(P)
      BY <3>2, <3>3
    <3>6. sent'[q] = Append(s, c) /\ todo'[q] = todo[q]
      BY <1>1, <1>6, <2>4
    <3>7. \A l \in P \cup {f} : Append(s, c)[2 * Cardinality(Prior(l)) + 1].data = seen[q][l]
      BY <1>5, <3>1, <3>2, <3>4, <3>5
    <3>8. q = Source => \A l \in P : Append(s, c)[2 * Cardinality(Prior(l)) + 2].data
          = experts[q][l]
      BY <3>1, <3>4, <3>5
    <3> QED
      BY <1>6, <1>9, <3>4, <3>6, <3>7, <3>8 DEF CallsOK
  <2> QED
    BY <2>3, <2>4
<1>11. ReapTypes'
  <2>1. sent' \in [Ranks -> Seq(Calls)]
    <3> HIDE DEF c
    <3> QED
      BY <1>1, <1>2, <1>5 DEF ReapTypes
  <2> QED
    BY <1>1, <1>2, <1>7, <2>1, ReapSetupStays DEF ReapTypes, model
<1>12. \A r \in Ranks \ {q} : pc'[r] = pc[r] /\ sent'[r] = sent[r]
  <2> HIDE DEF c
  <2> QED
    BY <1>1, <1>2 DEF ReapTypes
<1>13. ReducedIn(pc[q], todo[q], P) \subseteq ReducedIn(pc'[q], todo'[q], P)
  BY <1>1, <1>6, <1>9
<1> HIDE DEF e, f, s, c
<1> QED
  BY <1>1, <1>2, <1>8, <1>10, <1>11, <1>12, <1>13, MoveKeeps DEF model

(* Which experts of a layer a rank keeps when it prunes the layer. *)
LEMMA KeepUnpruned ==
  ASSUME NEW kept \in Seq(Experts)
  PROVE  Keep(Unpruned, kept) = kept
<1>1. \A i \in DOMAIN kept : kept[i] + 1 \in 1 .. NumExperts /\ (kept[i] + 1) - 1 = kept[i]
  BY ReapAssumption DEF Experts
<1>2. \A i \in DOMAIN kept : Unpruned[kept[i] + 1] = kept[i]
  BY <1>1 DEF Unpruned
<1>3. kept = [i \in DOMAIN kept |-> kept[i]]
  OBVIOUS
<1> QED
  BY <1>2, <1>3 DEF Keep

LEMMA PruneKeeps ==
  ASSUME ReapTypes, Running, NEW q \in Ranks, pc[q] = "decide",
         NEW kept \in Seq(Experts), Len(kept) = NumExperts - drop, Prune(q, kept),
         NEW d \in Seq(Experts), Issue(q, "broadcast", d), q = Source => d = kept,
         UNCHANGED <<reapSetup, epoch, batch, config, seen>>
  PROVE  /\ ReapTypes' /\ \A r \in Ranks : RankInv(r)'
         /\ Pruned(q)' = Pruned(q) \cup {First(todo[q])}
         /\ experts'[q][First(todo[q])] = kept
         /\ \A l \in Pruned(q) : experts'[q][l] = experts[q][l]
         /\ \A r \in Ranks \ {q} : Pruned(r)' = Pruned(r) /\ experts'[r] = experts[r]
         /\ \A r \in Ranks : ReducedIn(pc'[r], todo'[r], Pruned(r)')
                             = ReducedIn(pc[r], todo[r], Pruned(r))
<1> DEFINE P == Pruned(q)
           e == epoch[q]
           f == First(todo[q])
           Q == P \cup {f}
           s == sent[q]
           c == [kind |-> "broadcast", layer |-> f, data |-> d]
<1>1. /\ experts' = [experts EXCEPT ![q][f] = Keep(@, kept)]
      /\ gate' = [gate EXCEPT ![q][f] = Keep(@, kept)]
      /\ tracker' = [tracker EXCEPT ![q] = Restrict(@, DOMAIN @ \ {f})]
      /\ todo' = [todo EXCEPT ![q] = @ \ {f}]
      /\ pc' = [pc EXCEPT ![q] = "reduce"]
      /\ sent' = [sent EXCEPT ![q] = IF Distributed THEN Append(@, c) ELSE @]
  BY DEF Prune, Issue, Present
<1>2. SetupTypes /\ gate = experts /\ SizesOK
  BY DEF ReapTypes, Running
<1>3. /\ batch[q] \in 0 .. Batches /\ todo[q] # {}
      /\ tracker[q] = [l \in names \ P |-> seen[q][l]] /\ seen[q] \in [Layers -> Counts]
      /\ \A l \in names : HasSamples(seen[q][l]) => l \in Upto(e)
  BY StageAt DEF StageOK
<1>4. /\ e \in DOMAIN plan /\ IsSegment(P, e)
      /\ f \in Layers /\ f \notin P /\ Prior(f) = P
  BY <1>2, <1>3, TurnOf
<1>5. IsSegment(Q, e) /\ todo[q] \ {f} = Upto(e) \ Q /\ Cardinality(Q) = Cardinality(P) + 1
  <2> HIDE DEF Q
  <2>1. Q = Pruned(q) \cup {First(todo[q])}
    BY DEF Q
  <2> QED
    BY <1>2, <1>3, <2>1, TurnPasses
<1>6. experts[q][f] = Unpruned /\ experts[q] \in [Layers -> Seq(Experts)]
  <2> HIDE DEF f
  <2> QED
    BY <1>4 DEF ReapTypes, Pruned, PrunedIn
<1> HIDE DEF f, c
<1>7. /\ experts'[q] = [experts[q] EXCEPT ![f] = kept]
      /\ \A r \in Ranks \ {q} : experts'[r] = experts[r]
      /\ experts' \in [Ranks -> [Layers -> Seq(Experts)]]
  <2>1. Keep(experts[q][f], kept) = kept
    BY <1>6, KeepUnpruned
  <2>2. experts \in [Ranks -> [Layers -> Seq(Experts)]]
    BY DEF ReapTypes
  <2> QED
    BY <1>1, <1>4, <2>1, <2>2
<1>8. gate' = experts'
  BY <1>1, <1>2
<1>9. kept # Unpruned
  <2>1. Len(Unpruned) = NumExperts
    BY ReapAssumption DEF Unpruned
  <2>2. NumExperts \in Nat /\ drop \in Nat /\ drop > 0
    BY <1>2, ReapAssumption DEF SizesOK
  <2> QED
    BY <2>1, <2>2
<1>10. Pruned(q)' = Q /\ \A r \in Ranks \ {q} : Pruned(r)' = Pruned(r)
  <2>1. \A l \in Layers : experts'[q][l] = IF l = f THEN kept ELSE experts[q][l]
    BY <1>6, <1>7
  <2>2. Pruned(q)' = {l \in Layers : experts'[q][l] # Unpruned}
    BY DEF Pruned, PrunedIn, Unpruned
  <2>3. P = {l \in Layers : experts[q][l] # Unpruned}
    BY DEF Pruned, PrunedIn
  <2>4. Pruned(q)' = Q
    <3> HIDE DEF P
    <3> QED
      BY <1>4, <1>9, <2>1, <2>2, <2>3
  <2> QED
    BY <1>7, <2>4 DEF Pruned, PrunedIn
<1>11. /\ pc'[q] = "reduce" /\ todo'[q] = todo[q] \ {f}
       /\ tracker'[q] = Restrict(tracker[q], DOMAIN tracker[q] \ {f})
       /\ sent'[q] = IF Distributed THEN Append(s, c) ELSE s
       /\ \A r \in Ranks \ {q} : pc'[r] = pc[r] /\ todo'[r] = todo[r]
                                 /\ tracker'[r] = tracker[r] /\ sent'[r] = sent[r]
  BY <1>1 DEF ReapTypes
<1>12. tracker'[q] = [l \in names \ Q |-> seen[q][l]]
  <2>1. DOMAIN tracker[q] \ {f} = names \ Q
    BY <1>3
  <2>2. Restrict(tracker[q], names \ Q) = [l \in names \ Q |-> tracker[q][l]]
    BY DEF Restrict
  <2>3. \A l \in names \ Q : tracker[q][l] = seen[q][l]
    BY <1>3
  <2> HIDE DEF Q
  <2> QED
    BY <1>11, <2>1, <2>2, <2>3
<1>13. "reduce" \in Stages
  BY DEF Stages
<1>14. StageOK(pc'[q], epoch'[q], batch'[q], todo'[q], tracker'[q], seen'[q], Q, config'[q])
  <2> HIDE DEF Q, e
  <2>1. epoch'[q] = e
    BY DEF e
  <2> QED
    BY <1>3, <1>4, <1>5, <1>11, <1>12, <1>13, <2>1 DEF StageOK
<1>15. ReducedIn("reduce", todo'[q], Q) = Q /\ ReducedIn("decide", todo[q], P) = Q
  BY DEF ReducedIn, f
<1>16. c \in Calls
  BY <1>4 DEF Calls, c
<1>17. CallsOK(pc'[q], todo'[q], seen'[q], Q, experts'[q], sent'[q], q = Source)
  <2>1. CallsOK("decide", todo[q], seen[q], P, experts[q], s, q = Source)
    BY StageAt
  <2>2. s \in Seq(Calls)
    BY <2>1 DEF CallsOK
  <2>a. f \in Q /\ P \subseteq Q /\ \A l \in Q : l \in P \/ l = f
    OBVIOUS
  <2> HIDE DEF P, Q, e, s
  <2>3. CASE ~ Distributed
    BY <1>11, <2>2, <2>3 DEF CallsOK
  <2>4. CASE Distributed
    <3>1. /\ Len(s) = 2 * Cardinality(P) + 1
          /\ \A l \in Q : s[2 * Cardinality(Prior(l)) + 1].data = seen[q][l]
          /\ q = Source => \A l \in P : s[2 * Cardinality(Prior(l)) + 2].data = experts[q][l]
      BY <1>15, <2>1, <2>4 DEF CallsOK
    <3>2. Cardinality(P) \in Nat /\ Cardinality(Prior(f)) = Cardinality(P)
      BY <1>2, <1>4, SegmentFacts
    <3>3. \A l \in P : Cardinality(Prior(l)) \in Nat /\ Cardinality(Prior(l)) + 1 <= Cardinality(P)
      <4>1. P \subseteq AllPruned
        BY <1>2, <1>4, SegmentFacts
      <4> QED
        BY <1>2, <1>4, <4>1, TurnFacts
    <3>4. /\ Append(s, c) \in Seq(Calls) /\ Len(Append(s, c)) = 2 * Cardinality(P) + 2
          /\ Append(s, c)[2 * Cardinality(P) + 2] = c
          /\ \A i \in 1 .. 2 * Cardinality(P) + 1 : Append(s, c)[i] = s[i]
      BY <1>16, <2>2, <3>1, <3>2
    <3>5. \A l \in P : /\ 2 * Cardinality(Prior(l)) + 1 \in 1 .. 2 * Cardinality(P) + 1
                       /\ 2 * Cardinality(Prior(l)) + 2 \in 1 .. 2 * Cardinality(P) + 1
      BY <3>2, <3>3
    <3>6. sent'[q] = Append(s, c) /\ pc'[q] = "reduce" /\ seen'[q] = seen[q]
      BY <1>11, <2>4
    <3>7. \A l \in Q : Append(s, c)[2 * Cardinality(Prior(l)) + 1].data = seen[q][l]
      <4>1. 2 * Cardinality(P) + 1 \in 1 .. 2 * Cardinality(P) + 1
        BY <3>2
      <4> QED
        BY <2>a, <3>1, <3>2, <3>4, <3>5, <4>1
    <3>8. q = Source => \A l \in Q : Append(s, c)[2 * Cardinality(Prior(l)) + 2].data
          = experts'[q][l]
      <4> SUFFICES ASSUME q = Source, NEW l \in Q
                   PROVE  Append(s, c)[2 * Cardinality(Prior(l)) + 2].data = experts'[q][l]
        OBVIOUS
      <4>1. CASE l = f
        <5>1. c.data = kept /\ experts'[q][f] = kept
          BY <1>4, <1>6, <1>7 DEF c
        <5> QED
          BY <3>2, <3>4, <4>1, <5>1
      <4>2. CASE l # f
        <5>1. l \in P
          BY <2>a, <4>2
        <5>2. experts'[q][l] = experts[q][l]
          BY <1>6, <1>7, <4>2
        <5> QED
          BY <3>1, <3>4, <3>5, <5>1, <5>2
      <4> QED
        BY <4>1, <4>2
    <3>9. Len(Append(s, c)) = 2 * Cardinality(Q) + 0
      BY <1>5, <3>2, <3>4
    <3> QED
      BY <1>15, <3>4, <3>6, <3>7, <3>8, <3>9 DEF CallsOK
  <2> QED
    BY <2>3, <2>4
<1>18. ReapTypes'
  <2>1. sent' \in [Ranks -> Seq(Calls)]
    BY <1>1, <1>16 DEF ReapTypes
  <2> QED
    BY <1>1, <1>2, <1>7, <1>8, <1>13, <2>1, ReapSetupStays DEF ReapTypes
<1>19. RankInv(q)'
  BY <1>10, <1>14, <1>17, RankKept
<1>20. ASSUME NEW r \in Ranks, r # q PROVE RankInv(r)'
  BY <1>7, <1>11, <1>20, OthersKept DEF Running
<1>21. \A r \in Ranks : ReducedIn(pc'[r], todo'[r], Pruned(r)')
       = ReducedIn(pc[r], todo[r], Pruned(r))
  BY <1>10, <1>11, <1>15
<1>22. experts'[q][f] = kept /\ \A l \in P : experts'[q][l] = experts[q][l]
  BY <1>4, <1>6, <1>7
<1> QED
  BY <1>7, <1>10, <1>18, <1>19, <1>20, <1>21, <1>22 DEF f

(* At each stage a rank has pruned what precedes the rest. *)
LEMMA RankSegment ==
  ASSUME Running, SetupTypes, NEW r \in Ranks
  PROVE  \E e \in DOMAIN plan : IsSegment(Pruned(r), e)
<1> DEFINE P == Pruned(r)
           e == epoch[r]
           p == pc[r]
<1>1. /\ e \in DOMAIN plan /\ p \in Stages
      /\ p = "calibrate" => P = Upto(e - 1)
      /\ p \in {"reduce", "decide"} => IsSegment(P, e)
      /\ p \in {"finalize", "done"} => P = AllPruned
  BY StageAt DEF StageOK
<1>2. CASE p = "calibrate"
  BY <1>1, <1>2, FirstSegment
<1>3. CASE p \in {"reduce", "decide"}
  BY <1>1, <1>3
<1>4. CASE p \in {"finalize", "done"}
  <2> DEFINE n == Len(plan)
  <2>1. n \in DOMAIN plan /\ n \in Nat /\ n - 1 \in Nat
    BY <1>1, UptoFacts
  <2>2. Upto(n - 1) \subseteq Upto(n) /\ P = Upto(n)
    BY <1>1, <1>4, <2>1, UptoFacts DEF AllPruned
  <2>3. IsSegment(P, n)
    <3> HIDE DEF n, P
    <3> QED
      BY <2>2 DEF IsSegment
  <2> HIDE DEF n
  <2> QED
    BY <2>1, <2>3
<1> QED
  BY <1>1, <1>2, <1>3, <1>4 DEF Stages

LEMMA TwoRanks ==
  ASSUME NEW a \in Ranks, NEW b \in Ranks, a # b
  PROVE  Distributed
<1>1. IsFiniteSet(Ranks) /\ {a} \in SUBSET Ranks /\ {a} # Ranks
  BY ReapAssumption
<1>2. Cardinality({a}) = 1
  BY FS_Singleton
<1>3. Cardinality({a}) <= Cardinality(Ranks) /\ Cardinality({a}) # Cardinality(Ranks)
      /\ Cardinality(Ranks) \in Nat
  BY <1>1, FS_Subset, FS_CardinalityType
<1> QED
  BY <1>2, <1>3 DEF Distributed

(* The samples of all ranks of a layer. *)
SeenOf(l) == [r \in Ranks |-> seen[r][l]]

(* When all ranks have issued as many collectives as the source that decides, all of them
   have issued the reduction of its layer. *)
LEMMA AllReduced ==
  ASSUME ReapTypes, Running, pc[Source] = "decide", Distributed,
         \A r \in Ranks : Len(sent[r]) >= Len(sent[Source]),
         NEW f, f = First(todo[Source])
  PROVE  /\ \A r \in Ranks : f \in ReducedIn(pc[r], todo[r], Pruned(r))
         /\ \A r \in Ranks : sent[r][Len(sent[Source])].data = seen[r][f]
<1> DEFINE P == Pruned(Source)
           e == epoch[Source]
           n == Cardinality(Prior(f))
<1>1. SetupTypes /\ Source \in Ranks /\ todo[Source] # {}
  BY StageAt, ReapAssumption DEF ReapTypes, StageOK
<1>2. /\ e \in DOMAIN plan /\ IsSegment(P, e)
      /\ f \in AllPruned /\ f \notin P /\ Prior(f) = P
  BY <1>1, TurnOf
<1>3. n \in Nat /\ Len(sent[Source]) = 2 * n + 1
  <2>1. Len(sent[Source]) = 2 * Cardinality(P) + 1
    BY <1>1, StageAt DEF CallsOK
  <2>2. Cardinality(P) \in Nat
    BY <1>1, <1>2, SegmentFacts
  <2> QED
    BY <1>2, <2>1, <2>2
<1>4. ASSUME NEW r \in Ranks PROVE f \in ReducedIn(pc[r], todo[r], Pruned(r))
  <2> DEFINE R == Pruned(r)
             k == Cardinality(R)
  <2>1. R \subseteq P
    BY DEF Running, AgreeInv
  <2>2. PICK i \in DOMAIN plan : IsSegment(R, i)
    BY <1>1, RankSegment
  <2>3. f \notin R
    BY <1>2, <2>1
  <2>4. k \in Nat /\ k <= n
    <3> HIDE DEF R
    <3> QED
      BY <1>1, <1>2, <2>2, <2>3, SegmentFacts, TurnFacts
  <2>5. Len(sent[r]) = 2 * k + IF pc[r] = "decide" THEN 1 ELSE 0
    BY <1>1, StageAt DEF CallsOK
  <2>6. Len(sent[r]) >= 2 * n + 1
    BY <1>3
  <2> HIDE DEF n, k
  <2>7. pc[r] = "decide"
    BY <1>3, <2>4, <2>5, <2>6
  <2>8. k = n
    BY <1>3, <2>4, <2>5, <2>6
  <2> DEFINE g == First(todo[r])
             Q == R \cup {g}
  <2>9. todo[r] # {}
    BY <2>7, StageAt DEF StageOK
  <2>10. IsSegment(Q, epoch[r]) /\ Cardinality(Q) = k + 1 /\ epoch[r] \in DOMAIN plan
    <3> HIDE DEF Q
    <3>1. Q = Pruned(r) \cup {First(todo[r])}
      BY DEF Q
    <3>2. epoch[r] \in DOMAIN plan
      BY <1>1, <2>7, <2>9, TurnOf
    <3> QED
      BY <1>1, <2>7, <2>9, <3>1, <3>2, TurnPasses DEF k
  <2>11. f \in Q
    <3> SUFFICES ASSUME f \notin Q PROVE FALSE
      OBVIOUS
    <3> HIDE DEF Q
    <3>1. Cardinality(Q) <= n
      BY <1>1, <1>2, <2>10, TurnFacts DEF n
    <3> QED
      BY <1>3, <2>8, <2>10, <3>1
  <2> QED
    BY <2>7, <2>11 DEF ReducedIn
<1>5. ASSUME NEW r \in Ranks PROVE sent[r][Len(sent[Source])].data = seen[r][f]
  <2>1. sent[r][2 * n + 1].data = seen[r][f]
    BY <1>1, <1>4, StageAt DEF CallsOK
  <2> QED
    BY <1>3, <2>1
<1> QED
  BY <1>4, <1>5

(* The source decides by the samples of all ranks. *)
LEMMA ReducedIsTotal ==
  ASSUME ReapTypes, Running, pc[Source] = "decide",
         \A r \in Ranks : Len(sent[r]) >= Len(sent[Source]),
         NEW f, f = First(todo[Source])
  PROVE  /\ Reduced = Total(SeenOf(f))
         /\ \A r \in Ranks \ {Source} : f \in ReducedIn(pc[r], todo[r], Pruned(r))
<1>1. SetupTypes /\ Source \in Ranks /\ todo[Source] # {}
  BY StageAt, ReapAssumption DEF ReapTypes, StageOK
<1>2. CASE Distributed
  <2> DEFINE t == [r \in Ranks |-> sent[r][Len(sent[Source])].data]
  <2>1. t = SeenOf(f)
    BY <1>2, AllReduced DEF SeenOf
  <2>2. Reduced = Total(t)
    BY <1>2 DEF Reduced
  <2>3. \A r \in Ranks : f \in ReducedIn(pc[r], todo[r], Pruned(r))
    BY <1>2, AllReduced
  <2> HIDE DEF t
  <2> QED
    BY <2>1, <2>2, <2>3
<1>3. CASE ~ Distributed
  <2>1. Ranks = {Source}
    <3> SUFFICES ASSUME NEW r \in Ranks, r # Source PROVE FALSE
      BY <1>1
    <3> QED
      BY <1>1, <1>3, TwoRanks
  <2>2. f \in Upto(epoch[Source]) \ Pruned(Source) /\ f \in Layers
    BY <1>1, TurnOf
  <2>3. f \in names \ Pruned(Source)
    BY <2>2 DEF Upto
  <2>4. tracker[Source] = [l \in names \ Pruned(Source) |-> seen[Source][l]]
    BY <1>1, StageAt DEF StageOK
  <2>5. tracker[Source][f] = seen[Source][f]
    BY <2>3, <2>4
  <2>6. SeenOf(f)[Source] = seen[Source][f] /\ seen[Source][f] \in Counts
    BY <1>1, <2>2 DEF SeenOf, ReapTypes
  <2> DEFINE t == SeenOf(f)
  <2>7. t[Source] \in Counts
    BY <2>6
  <2> HIDE DEF t
  <2>8. Total(t) = t[Source]
    BY <2>1, <2>7, TotalOverOne
  <2>9. Reduced = tracker[Source][f]
    BY <1>3 DEF Reduced, Present
  <2> QED
    BY <2>1, <2>5, <2>6, <2>8, <2>9 DEF t
<1> QED
  BY <1>2, <1>3

LEMMA DecideKeeps ==
  ASSUME ReapInv, Decide PROVE ReapInv'
<1> DEFINE f == First(todo[Source])
           P == Pruned(Source)
<1>1. /\ pc[Source] = "decide" /\ \A r \in Ranks : Len(sent[r]) >= Len(sent[Source])
      /\ UNCHANGED <<reapSetup, epoch, batch, config, seen>>
  BY DEF Decide
<1>2. PICK kept \in Retained(Reduced) : Issue(Source, "broadcast", kept) /\ Prune(Source, kept)
  BY DEF Decide
<1>3. Source \in Ranks
  BY ReapAssumption
<1>4. Running /\ ReapTypes /\ SizesOK
  BY <1>1, <1>3, RankRuns DEF ReapInv, Running
<1>5. /\ Reduced = Total(SeenOf(f))
      /\ \A r \in Ranks \ {Source} : f \in ReducedIn(pc[r], todo[r], Pruned(r))
  BY <1>1, <1>4, ReducedIsTotal
<1> DEFINE t == Total(SeenOf(f))
<1>6. PICK D \in SUBSET Experts : MayDrop(t, D) /\ kept = Sorted(Experts \ D)
  BY <1>2, <1>5 DEF Retained
<1>7. kept \in Seq(Experts) /\ Len(kept) = NumExperts - drop
  <2> HIDE DEF t
  <2> QED
    BY <1>4, <1>6, KeptFacts
<1>8. IsDecided(kept, t)
  BY <1>6 DEF IsDecided
<1> HIDE DEF f, P, t
<1>9. /\ ReapTypes' /\ \A r \in Ranks : RankInv(r)'
      /\ Pruned(Source)' = P \cup {f} /\ experts'[Source][f] = kept
      /\ \A l \in P : experts'[Source][l] = experts[Source][l]
      /\ \A r \in Ranks \ {Source} : Pruned(r)' = Pruned(r) /\ experts'[r] = experts[r]
      /\ \A r \in Ranks : ReducedIn(pc'[r], todo'[r], Pruned(r)')
                          = ReducedIn(pc[r], todo[r], Pruned(r))
  BY <1>1, <1>2, <1>3, <1>4, <1>7, PruneKeeps DEF f, P
<1>10. ASSUME NEW l \in Pruned(Source)'
       PROVE  /\ \A r \in Ranks : l \in ReducedIn(pc'[r], todo'[r], Pruned(r)')
              /\ IsDecided(experts'[Source][l], Total([r \in Ranks |-> seen'[r][l]]))
  <2>1. CASE l \in P
    BY <1>1, <1>4, <1>9, <2>1 DEF Running, AgreeInv, P
  <2>2. CASE l = f
    <3>1. \A r \in Ranks : f \in ReducedIn(pc'[r], todo'[r], Pruned(r)')
      BY <1>5, <1>9 DEF ReducedIn
    <3>2. Total([r \in Ranks |-> seen'[r][l]]) = t
      BY <1>1, <2>2 DEF t, SeenOf
    <3> QED
      BY <1>8, <1>9, <2>2, <3>1, <3>2
  <2> QED
    BY <1>9, <2>1, <2>2
<1>11. ASSUME NEW r \in Ranks, NEW l \in Pruned(r)'
       PROVE  l \in Pruned(Source)' /\ experts'[r][l] = experts'[Source][l]
  <2>1. CASE r = Source
    BY <2>1
  <2>2. CASE r # Source
    <3>1. l \in P /\ experts[r][l] = experts[Source][l]
      BY <1>4, <1>9, <2>2 DEF Running, AgreeInv, P
    <3> QED
      BY <1>9, <2>2, <3>1
  <2> QED
    BY <2>1, <2>2
<1>12. AgreeInv'
  BY <1>1, <1>10, <1>11, AgreeKept
<1> QED
  BY <1>1, <1>4, <1>9, <1>12, ReapSetupStays DEF ReapInv, Running

LEMMA ReceiveKeeps ==
  ASSUME ReapInv, NEW q \in Ranks, Receive(q) PROVE ReapInv'
<1> DEFINE f == First(todo[q])
           P == Pruned(q)
           S == Pruned(Source)
           n == Len(sent[q]) + 1
           kept == sent[Source][n].data
           k == Cardinality(P)
<1>1. /\ q # Source /\ pc[q] = "decide" /\ Len(sent[Source]) >= n
      /\ Issue(q, "broadcast", <<>>) /\ Prune(q, kept)
      /\ UNCHANGED <<reapSetup, epoch, batch, config, seen>>
  BY DEF Receive
<1>2. Source \in Ranks
  BY ReapAssumption
<1>3. Running /\ ReapTypes /\ SizesOK /\ SetupTypes
  BY <1>1, RankRuns DEF ReapInv, Running, ReapTypes
<1>4. todo[q] # {}
  BY <1>1, <1>3, StageAt DEF StageOK
<1>5. /\ epoch[q] \in DOMAIN plan /\ IsSegment(P, epoch[q])
      /\ f \in AllPruned /\ f \notin P /\ Prior(f) = P
  BY <1>1, <1>3, <1>4, TurnOf
<1>6. Distributed
  BY <1>1, <1>2, TwoRanks
<1>7. k \in Nat /\ n = 2 * k + 2
  <2>1. Len(sent[q]) = 2 * k + 1
    BY <1>1, <1>3, <1>6, StageAt DEF CallsOK
  <2>2. k \in Nat
    BY <1>3, <1>5, SegmentFacts
  <2> QED
    BY <2>1, <2>2
<1>8. f \in S
  <2> SUFFICES ASSUME f \notin S PROVE FALSE
    OBVIOUS
  <2>1. PICK i \in DOMAIN plan : IsSegment(S, i)
    BY <1>2, <1>3, RankSegment
  <2>2. Cardinality(S) \in Nat /\ Cardinality(S) <= k
    <3> HIDE DEF S
    <3>1. Cardinality(S) <= Cardinality(Prior(f))
      BY <1>3, <1>5, <2>1, TurnFacts
    <3> QED
      BY <1>3, <1>5, <2>1, <3>1, SegmentFacts
  <2>3. Len(sent[Source]) = 2 * Cardinality(S) + IF pc[Source] = "decide" THEN 1 ELSE 0
    BY <1>2, <1>3, <1>6, StageAt DEF CallsOK
  <2> DEFINE c == Cardinality(S)
             m == Len(sent[Source])
  <2>4. m >= n /\ c \in Nat /\ c <= k /\ (m = 2 * c + 1 \/ m = 2 * c + 0)
    BY <1>1, <2>2, <2>3
  <2> HIDE DEF c, m, n, k
  <2> QED
    BY <1>7, <2>4
<1>9. kept = experts[Source][f]
  <2>1. sent[Source][2 * Cardinality(Prior(f)) + 2].data = experts[Source][f]
    BY <1>2, <1>3, <1>6, <1>8, StageAt DEF CallsOK
  <2> QED
    BY <1>5, <1>7, <2>1
<1>10. kept \in Seq(Experts) /\ Len(kept) = NumExperts - drop
  <2> DEFINE t == Total([r \in Ranks |-> seen[r][f]])
  <2>1. IsDecided(kept, t)
    BY <1>3, <1>8, <1>9 DEF Running, AgreeInv
  <2> HIDE DEF kept, t
  <2>2. PICK D \in SUBSET Experts : MayDrop(t, D) /\ kept = Sorted(Experts \ D)
    BY <2>1 DEF IsDecided
  <2> QED
    BY <1>3, <2>2, KeptFacts
<1>11. <<>> \in Seq(Experts)
  OBVIOUS
<1> HIDE DEF f, P, S, n, kept
<1>12. /\ ReapTypes' /\ \A r \in Ranks : RankInv(r)'
       /\ Pruned(q)' = P \cup {f} /\ experts'[q][f] = kept
       /\ \A l \in P : experts'[q][l] = experts[q][l]
       /\ \A r \in Ranks \ {q} : Pruned(r)' = Pruned(r) /\ experts'[r] = experts[r]
       /\ \A r \in Ranks : ReducedIn(pc'[r], todo'[r], Pruned(r)')
                           = ReducedIn(pc[r], todo[r], Pruned(r))
  BY <1>1, <1>3, <1>10, <1>11, PruneKeeps DEF f, P
<1>13. Pruned(Source)' = S /\ experts'[Source] = experts[Source]
  BY <1>1, <1>2, <1>12 DEF S
<1>14. ASSUME NEW l \in S
       PROVE  /\ \A r \in Ranks : l \in ReducedIn(pc'[r], todo'[r], Pruned(r)')
              /\ IsDecided(experts'[Source][l], Total([r \in Ranks |-> seen'[r][l]]))
  BY <1>1, <1>3, <1>12, <1>13 DEF Running, AgreeInv, S
<1>15. ASSUME NEW r \in Ranks, NEW l \in Pruned(r)'
       PROVE  l \in S /\ experts'[r][l] = experts[Source][l]
  <2>1. CASE r # q
    BY <1>3, <1>12, <2>1 DEF Running, AgreeInv, S
  <2>2. CASE r = q /\ l \in P
    BY <1>3, <1>12, <2>2 DEF Running, AgreeInv, S, P
  <2>3. CASE r = q /\ l = f
    BY <1>8, <1>9, <1>12, <2>3
  <2> QED
    BY <1>12, <2>1, <2>2, <2>3
<1>16. AgreeInv'
  BY <1>1, <1>13, <1>14, <1>15, AgreeKept
<1> QED
  BY <1>1, <1>3, <1>12, <1>16, ReapSetupStays DEF ReapInv, Running

LEMMA NothingPruned ==
  ASSUME UNCHANGED experts, \A r \in Ranks : Pruned(r) = {}
  PROVE  \A r \in Ranks : Pruned(r)' = {}
BY DEF Pruned, PrunedIn

LEMMA InitializeKeeps ==
  ASSUME ReapInv, Initialize PROVE ReapInv'
<1>1. /\ \A r \in Ranks : pc[r] = "initialize"
      /\ UNCHANGED <<router, plan, reach, names, epoch, batch, todo, model, sent, seen>>
  BY DEF Initialize
<1>2. Source \in Ranks
  BY ReapAssumption
<1>3. Untouched /\ ReapTypes /\ SetupTypes
  <2>1. ~ ("initialize" \in Stages)
    BY DEF Stages
  <2>2. ~ Running
    BY <1>1, <1>2, <2>1, StageAt DEF StageOK
  <2> QED
    BY <2>2 DEF ReapInv, ReapTypes
<1>4. \A r \in Ranks : Pruned(r)' = {}
  BY <1>1, <1>3, NothingPruned DEF Untouched, model
<1>5. SetupTypes'
  BY <1>1, <1>3 DEF SetupTypes
<1>6. CASE Accepted
  <2>1. /\ pc' = [r \in Ranks |-> "calibrate"] /\ dropInGroup' = InGroup
        /\ drop' = IF router.nGroup = 0 THEN drop ELSE InGroup * router.nGroup
        /\ tracker' = [r \in Ranks |-> [l \in names |-> Zero]]
    BY <1>6 DEF Initialize
  <2>2. SizesOK'
    <3>1. drop \in Drops /\ router \in Routers /\ router' = router
      BY <1>1, <1>2, <1>3 DEF Untouched, SetupTypes
    <3> QED
      BY <1>6, <2>1, <3>1, AcceptedSizes
  <2>3. "calibrate" \in Stages
    BY DEF Stages
  <2>4. ReapTypes'
    <3>1. pc' \in [Ranks -> Stages \cup {"initialize", "rejected"}] /\ DOMAIN tracker' = Ranks
      BY <2>1, <2>3
    <3> QED
      BY <1>1, <1>3, <1>5, <3>1 DEF ReapTypes, model
  <2>5. /\ names \subseteq Layers /\ Upto(0) = {} /\ 1 \in DOMAIN plan /\ 1 - 1 = 0
    <3>1. Len(plan) \in Nat /\ DOMAIN plan = 1 .. Len(plan) /\ plan # <<>>
          /\ plan \in Seq(SUBSET Layers)
      BY <1>3, UptoFacts, ReapAssumption DEF SetupTypes
    <3>2. Len(plan) # 0
      BY <3>1
    <3>3. 1 \in DOMAIN plan
      BY <3>1, <3>2
    <3> QED
      BY <1>3, <3>3, UptoFacts
  <2>6. ASSUME NEW r \in Ranks PROVE RankInv(r)'
    <3> DEFINE sn == [l \in Layers |-> Zero]
               tr == [l \in names |-> Zero]
    <3>1. /\ epoch[r] = 1 /\ batch[r] = 0 /\ todo[r] = {} /\ sent[r] = <<>> /\ seen[r] = sn
      BY <1>1, <1>3 DEF Untouched
    <3>2. /\ sn \in [Layers -> Counts] /\ \A l \in names : sn[l] = Zero /\ ~ HasSamples(sn[l])
      BY <2>5, CountFacts
    <3>3. tr = [l \in names \ {} |-> sn[l]]
      BY <3>2
    <3> HIDE DEF sn, tr
    <3>4. 0 \in 0 .. Batches /\ ~ (0 > 0)
      BY ReapAssumption
    <3>5. /\ pc'[r] = "calibrate" /\ epoch'[r] = 1 /\ batch'[r] = 0 /\ todo'[r] = {}
          /\ tracker'[r] = tr /\ seen'[r] = sn /\ sent'[r] = <<>>
      BY <1>1, <2>1, <3>1 DEF tr
    <3>6. StageOK(pc[r], epoch[r], batch[r], todo[r], tracker[r], seen[r], Pruned(r), config[r])'
      <4>1. names' = names /\ plan' = plan /\ Upto(0)' = {}
        BY <1>1, <2>5 DEF Upto
      <4> QED
        BY <1>4, <2>3, <2>5, <3>2, <3>3, <3>4, <3>5, <4>1 DEF StageOK
    <3>7. CallsOK(pc[r], todo[r], seen[r], Pruned(r), experts[r], sent[r], r = Source)'
      <4>1. ReducedIn(pc'[r], todo'[r], {}) = {}
        BY <3>5 DEF ReducedIn
      <4>2. Len(<<>>) = 2 * Cardinality({}) + 0 /\ <<>> \in Seq(Calls)
        BY FS_EmptySet
      <4>3. Pruned(r)' = {}
        BY <1>4
      <4>4. sent'[r] \in Seq(Calls) /\ Len(sent'[r]) = 2 * Cardinality(Pruned(r)') + 0
        BY <3>5, <4>2, <4>3, Zenon
      <4>5. ReducedIn(pc[r], todo[r], Pruned(r))' = {} /\ pc'[r] # "decide"
        BY <3>5, <4>3 DEF ReducedIn
      <4> QED
        BY <4>3, <4>4, <4>5 DEF CallsOK
    <3> QED
      BY <3>6, <3>7 DEF RankInv
  <2>7. AgreeInv'
    BY <1>2, <1>4 DEF AgreeInv
  <2> QED
    BY <2>2, <2>4, <2>6, <2>7 DEF ReapInv, Running
<1>7. CASE ~ Accepted
  <2>1. pc' = [r \in Ranks |-> "rejected"] /\ UNCHANGED <<drop, dropInGroup, tracker>>
    BY <1>7 DEF Initialize
  <2>2. ReapTypes'
    BY <1>1, <1>3, <1>5, <2>1 DEF ReapTypes, model
  <2>3. Untouched'
    BY <1>4, <2>1 DEF Untouched
  <2> QED
    BY <2>2, <2>3 DEF ReapInv
<1> QED
  BY <1>6, <1>7

LEMMA ReapInitial ==
  ASSUME ReapInit PROVE ReapInv
<1>1. Unpruned \in Seq(Experts)
  <2>1. \A i \in 1 .. NumExperts : i - 1 \in Experts
    BY ReapAssumption DEF Experts
  <2>2. NumExperts \in Nat
    BY ReapAssumption
  <2> QED
    BY <2>1, <2>2 DEF Unpruned
<1>2. ReapTypes
  <2>1. [l \in Layers |-> Zero] \in [Layers -> Counts]
    BY CountFacts
  <2> QED
    BY <1>1, <2>1 DEF ReapInit, ReapTypes, SetupTypes
<1>3. Untouched
  BY DEF ReapInit, Untouched, Pruned, PrunedIn
<1> QED
  BY <1>2, <1>3 DEF ReapInv

LEMMA ReapStutters ==
  ASSUME ReapInv, UNCHANGED reapVars PROVE ReapInv'
<1>1. UNCHANGED <<reapSetup, pc, epoch, batch, todo, tracker, experts, gate, config, sent, seen>>
  BY DEF reapVars, model
<1>2. ReapTypes'
  BY <1>1, ReapSetupStays DEF ReapInv, ReapTypes
<1>3. \A r \in Ranks : Pruned(r)' = Pruned(r)
  BY <1>1 DEF Pruned, PrunedIn
<1>4. CASE Untouched
  <2>1. Untouched'
    BY <1>1, <1>3, <1>4 DEF Untouched, reapSetup
  <2> QED
    BY <1>2, <2>1 DEF ReapInv
<1>5. CASE Running
  <2>1. \A r \in Ranks : RankInv(r)'
    BY <1>1, <1>5, OthersKept DEF Running
  <2>2. Source \in Ranks
    BY ReapAssumption
  <2>3. AgreeInv'
    BY <1>1, <1>3, <1>5, <2>2, AgreeKept DEF Running, AgreeInv
  <2> QED
    BY <1>1, <1>2, <1>5, <2>1, <2>3, ReapSetupStays DEF ReapInv, Running
<1> QED
  BY <1>4, <1>5 DEF ReapInv

-----------------------------------------------------------------------------
(* What the invariant says of the model *)

(* What a rank has pruned of a layer is what the source has decided. *)
LEMMA WhatIsPruned ==
  ASSUME ReapTypes, Running, NEW r \in Ranks, NEW l \in Pruned(r)
  PROVE  /\ experts[r][l] = experts[Source][l]
         /\ MayDrop(AllSeen(l), Experts \ Range(experts[r][l]))
         /\ Len(experts[r][l]) = NumExperts - drop
         /\ FitsRouter(experts[r][l])
<1> DEFINE kept == experts[r][l]
           t == AllSeen(l)
<1>1. l \in Pruned(Source) /\ kept = experts[Source][l] /\ SizesOK
  BY DEF Running, AgreeInv
<1>2. IsDecided(kept, t)
  BY <1>1 DEF Running, AgreeInv, AllSeen
<1> HIDE DEF kept, t
<1>3. PICK D \in SUBSET Experts : MayDrop(t, D) /\ kept = Sorted(Experts \ D)
  BY <1>2 DEF IsDecided
<1>4. Len(kept) = NumExperts - drop /\ Experts \ Range(kept) = D /\ FitsRouter(kept)
  BY <1>1, <1>3, KeptFacts
<1> QED
  BY <1>1, <1>3, <1>4 DEF kept, t

LEMMA UnprunedFits ==
  ASSUME SizesOK PROVE FitsRouter(Unpruned)
<1>1. Len(Unpruned) = NumExperts /\ DOMAIN Unpruned = 1 .. NumExperts /\ NumExperts \in Nat
      /\ \A i \in 1 .. NumExperts : Unpruned[i] = i - 1
  BY ReapAssumption DEF Unpruned
<1>2. drop \in Nat
  BY <1>1 DEF SizesOK
<1>3. CASE router.nGroup = 0
  <2>1. router.topK \in Nat /\ router.topK <= NumExperts - drop
    BY <1>3, RouterTypes DEF SizesOK
  <2> QED
    BY <1>1, <1>2, <1>3, <2>1 DEF FitsRouter
<1>4. CASE router.nGroup # 0
  <2> DEFINE each == Len(Unpruned) \div router.nGroup
  <2>1. each = GroupSize
    BY <1>1 DEF GroupSize
  <2>2. router.topK <= router.topKGroup * each
    <3> DEFINE w == GroupSize
               z == w - dropInGroup
               k == router.topKGroup
    <3>1. w \in Nat /\ z \in Nat /\ z <= w /\ k \in Nat /\ router.topK \in Nat
          /\ router.topK <= k * z
      BY <1>4, RouterTypes DEF SizesOK
    <3> HIDE DEF w, z, k
    <3>2. k * z \in Nat /\ k * w \in Nat /\ k * z <= k * w
      BY <3>1, ProductsGrow
    <3>3. router.topK <= k * w
      BY <3>1, <3>2
    <3> QED
      BY <2>1, <3>3 DEF k, w
  <2>3. \A i \in DOMAIN Unpruned : (i - 1) \div each = Unpruned[i] \div GroupSize
    BY <1>1, <2>1
  <2> QED
    BY <1>4, <2>2, <2>3 DEF FitsRouter
<1> QED
  BY <1>3, <1>4

LEMMA UnprunedElsewhere ==
  ASSUME NEW r \in Ranks, NEW l \in Layers, l \notin Pruned(r)
  PROVE  experts[r][l] = Unpruned
BY DEF Pruned, PrunedIn

LEMMA PrunedByAll == ASSUME ReapInv PROVE PrunedByAllSamples
<1> SUFFICES ASSUME NEW l \in Layers
             PROVE  /\ Cardinality({experts[r][l] : r \in Ranks} \ {Unpruned}) <= 1
                    /\ \A kept \in {experts[r][l] : r \in Ranks} \ {Unpruned} :
                         MayDrop(AllSeen(l), Experts \ Range(kept))
  BY DEF PrunedByAllSamples
<1> DEFINE all == {experts[r][l] : r \in Ranks} \ {Unpruned}
           decided == experts[Source][l]
<1>1. ASSUME NEW kept \in all
      PROVE  kept = decided /\ MayDrop(AllSeen(l), Experts \ Range(kept))
  <2>1. PICK r \in Ranks : kept = experts[r][l]
    OBVIOUS
  <2>2. l \in Pruned(r)
    BY <2>1 DEF Pruned, PrunedIn
  <2>3. Running /\ ReapTypes
    BY <2>2 DEF ReapInv, Untouched
  <2> QED
    BY <2>1, <2>2, <2>3, WhatIsPruned
<1>2. all \in SUBSET {decided}
  BY <1>1
<1>3. Cardinality(all) <= 1
  <2> HIDE DEF all, decided
  <2> QED
    <3>1. IsFiniteSet({decided}) /\ Cardinality({decided}) = 1
      BY FS_Singleton
    <3> QED
      BY <1>2, <3>1, FS_Subset
<1> QED
  BY <1>1, <1>3

LEMMA RoutersFit == ASSUME ReapInv PROVE RouterFitsExperts
<1> SUFFICES ASSUME NEW r \in Ranks, NEW l \in Layers
             PROVE  /\ gate[r][l] = experts[r][l]
                    /\ pc[r] \notin {"initialize", "rejected"} => FitsRouter(experts[r][l])
  BY DEF RouterFitsExperts, FitsRouter
<1>1. ReapTypes /\ gate = experts
  BY DEF ReapInv, ReapTypes
<1>2. ASSUME pc[r] \notin {"initialize", "rejected"} PROVE FitsRouter(experts[r][l])
  <2>1. Running /\ SizesOK
    BY <1>2, RankRuns DEF Running
  <2>2. CASE l \in Pruned(r)
    BY <1>1, <2>1, <2>2, WhatIsPruned
  <2>3. CASE l \notin Pruned(r)
    BY <2>1, <2>3, UnprunedElsewhere, UnprunedFits
  <2> QED
    BY <2>2, <2>3
<1> QED
  BY <1>1, <1>2

LEMMA ConfigsFit == ASSUME ReachesAgree, ReapInv PROVE ConfigFitsLayers
<1> SUFFICES ASSUME NEW r \in Ranks, pc[r] = "done", NEW l \in names,
                    NEW i \in DOMAIN plan, l \in plan[i], l \in reach[r]
             PROVE  Len(experts[r][l]) = config[r] /\ config[r] < NumExperts
  BY DEF ConfigFitsLayers
<1>1. Running /\ ReapTypes /\ SetupTypes /\ SizesOK
  BY RankRuns DEF ReapInv, Running, ReapTypes
<1>2. Pruned(r) = AllPruned /\ config[r] = NumExperts - drop
  BY <1>1, StageAt DEF StageOK
<1>3. i <= Len(plan) /\ reach[r] = reach[Source]
  BY <1>1, UptoFacts, SameReach
<1>4. l \in AllPruned
  BY <1>3 DEF AllPruned, Upto
<1>5. Len(experts[r][l]) = NumExperts - drop
  BY <1>1, <1>2, <1>4, WhatIsPruned
<1>6. NumExperts \in Nat /\ drop \in Nat /\ drop > 0
  BY <1>1, ReapAssumption DEF SizesOK
<1> QED
  BY <1>2, <1>5, <1>6

(* Pruning is consistent: each layer loses the experts that are least salient by the
   samples of all ranks, on all ranks alike, its router fits what is left, and so does the
   config of a model that is done.  It rests on ranks whose samples reach the same layers,
   which the code does not ensure. *)
THEOREM PruningIsAlwaysConsistent == ReachesAgree => (ReapSpec => []PruningIsConsistent)
<1> SUFFICES ASSUME ReachesAgree PROVE ReapSpec => []PruningIsConsistent
  OBVIOUS
<1>1. ReapInit => ReapInv
  BY ReapInitial
<1>2. ReapInv /\ [ReapNext]_reapVars => ReapInv'
  <2> SUFFICES ASSUME ReapInv, [ReapNext]_reapVars PROVE ReapInv'
    OBVIOUS
  <2>1. CASE Initialize
    BY <2>1, InitializeKeeps
  <2>2. CASE Decide
    BY <2>2, DecideKeeps
  <2>3. ASSUME NEW r \in Ranks, RankStep(r) PROVE ReapInv'
    <3>1. CASE RunBatch(r)
      BY <3>1, RunBatchKeeps
    <3>2. CASE StartEpochEnd(r)
      BY <3>2, StartEpochEndKeeps
    <3>3. CASE Reduce(r)
      BY <3>3, ReduceKeeps
    <3>4. CASE Receive(r)
      BY <3>4, ReceiveKeeps
    <3>5. CASE EndEpoch(r)
      BY <3>5, EndEpochKeeps
    <3>6. CASE Finalize(r)
      BY <3>6, FinalizeKeeps
    <3> QED
      BY <2>3, <3>1, <3>2, <3>3, <3>4, <3>5, <3>6 DEF RankStep
  <2>4. CASE UNCHANGED reapVars
    BY <2>4, ReapStutters
  <2> QED
    BY <2>1, <2>2, <2>3, <2>4 DEF ReapNext
<1>3. ReapInv => PruningIsConsistent
  BY PrunedByAll, RoutersFit, ConfigsFit DEF PruningIsConsistent
<1> QED
  BY <1>1, <1>2, <1>3, PTL DEF ReapSpec

-----------------------------------------------------------------------------
(***************************************************************************)
(* Linearizing, quantizing and repacking the experts keeps every row, and  *)
(* the packed scales follow the rows, for any number of experts of any     *)
(* size, where the fused tensors hold halves and a projection has one      *)
(* scale or one per row.                                                   *)
(***************************************************************************)

ExpertsSupported ==
  /\ Layouts \subseteq {"halves"} /\ Sizes \subseteq Nat \ {0}
  /\ ScaleShapes \subseteq {"scalar", "vector"}

ExpertsSetupOK ==
  /\ layout = "halves" /\ size \in Nat \ {0} /\ hasGate \in BOOLEAN
  /\ shape \in {"scalar", "vector"}
  /\ targeted \subseteq ExpertIds \X Projections

(* The weight_scale of a quantized projection. *)
ScaleOf(e, p) ==
  IF shape = "scalar" THEN << RowScales(e, p, 1) >> ELSE [r \in ExpertRows |-> RowScales(e, p, r)]

Scales == {Unset} \cup
  {RowScales(x[1], x[2], x[3]) : x \in ExpertIds \X Projections \X ExpertRows}
Rows == [from : ExpertIds \X Nat, scale : Scales]

(* The linear rows come from the fused rows, and a projection that has a scale has rows
   that were quantized with it. *)
LinearOK ==
  /\ linear \in [ExpertIds -> [Projections -> [ExpertRows -> Rows]]]
  /\ scales = [e \in ExpertIds |-> [p \in Projections |-> scales[e][p]]]
  /\ \A e \in ExpertIds : \A p \in Projections :
       /\ \A r \in ExpertRows : linear[e][p][r].from = <<e, SourceRow(p, r)>>
       /\ scales[e][p] # Unset =>
            /\ scales[e][p] = ScaleOf(e, p)
            /\ \A r \in ExpertRows : linear[e][p][r].scale = RowScales(e, p, r)

RepackedOK ==
  fused = [e \in ExpertIds |-> [r \in FusedRows |->
    IF ~ hasGate THEN linear[e]["up"][r]
    ELSE IF r <= size THEN linear[e]["gate"][r] ELSE linear[e]["up"][r - size]]]

PackedOK ==
  packed # Unset =>
    /\ \A e \in ExpertIds : \A p \in Projections : scales[e][p] # Unset
    /\ packed = [e \in ExpertIds |->
         IF hasGate THEN scales[e]["gate"] \o scales[e]["up"] ELSE scales[e]["up"]]

(* The inductive invariant: what is known at each stage. *)
ExpertsInv ==
  /\ ExpertsSetupOK
  /\ stage \in {"linearize", "quantize", "repack", "pack", "done"}
  /\ stage = "linearize" =>
       fused = [e \in ExpertIds |-> [r \in FusedRows |-> [from |-> <<e, r>>, scale |-> Unset]]]
  /\ stage # "linearize" => LinearOK
  /\ stage \in {"pack", "done"} => RepackedOK
  /\ stage # "done" => packed = Unset
  /\ stage = "done" => PackedOK

LEMMA ProjectionNames ==
  /\ "up" \in Projections /\ (hasGate => "gate" \in Projections)
  /\ \A p \in Projections : p \in {"gate", "up"} /\ (p = "gate" => hasGate)
BY DEF Projections

(* Where the rows of a projection come from. *)
LEMMA SourceRows ==
  ASSUME ExpertsSetupOK, NEW p \in Projections, NEW r \in ExpertRows
  PROVE  /\ SourceRow(p, r) = IF p = "gate" \/ ~ hasGate THEN r ELSE size + r
         /\ SourceRow(p, r) \in FusedRows
BY ProjectionNames DEF ExpertsSetupOK, SourceRow, ExpertRows, FusedRows

LEMMA FusedHalves ==
  ASSUME ExpertsSetupOK, NEW r \in FusedRows
  PROVE  /\ ~ hasGate => r \in ExpertRows
         /\ hasGate /\ r <= size => r \in ExpertRows
         /\ hasGate /\ ~ r <= size => r - size \in ExpertRows /\ size + (r - size) = r
         /\ r \in Nat
BY DEF ExpertsSetupOK, ExpertRows, FusedRows

-----------------------------------------------------------------------------
(* The invariant is enough *)

LEMMA InvMeansInverse == ExpertsInv => RepackIsInverse
<1> SUFFICES ASSUME ExpertsInv, stage \in {"pack", "done"}, NEW e \in ExpertIds, NEW r \in FusedRows
             PROVE  fused[e][r].from = <<e, r>>
  BY DEF RepackIsInverse
<1>1. LinearOK /\ RepackedOK /\ ExpertsSetupOK
  BY DEF ExpertsInv
<1>2. \A p \in Projections : \A i \in ExpertRows : linear[e][p][i].from = <<e, SourceRow(p, i)>>
  BY <1>1 DEF LinearOK
<1>3. CASE ~ hasGate
  <2>1. fused[e][r] = linear[e]["up"][r] /\ r \in ExpertRows /\ "up" \in Projections
    BY <1>1, <1>3, FusedHalves, ProjectionNames DEF RepackedOK
  <2> QED
    BY <1>1, <1>2, <1>3, <2>1, SourceRows
<1>4. CASE hasGate /\ r <= size
  <2>1. fused[e][r] = linear[e]["gate"][r] /\ r \in ExpertRows /\ "gate" \in Projections
    BY <1>1, <1>4, FusedHalves, ProjectionNames DEF RepackedOK
  <2> QED
    BY <1>1, <1>2, <2>1, SourceRows
<1>5. CASE hasGate /\ ~ r <= size
  <2>1. /\ fused[e][r] = linear[e]["up"][r - size] /\ r - size \in ExpertRows
        /\ "up" \in Projections /\ size + (r - size) = r
    BY <1>1, <1>5, FusedHalves, ProjectionNames DEF RepackedOK
  <2> QED
    BY <1>1, <1>2, <1>5, <2>1, SourceRows
<1> QED
  BY <1>1, <1>3, <1>4, <1>5 DEF ExpertsSetupOK

(* A weight_scale is a sequence with a place for each row, or one for all. *)
LEMMA ScaleIsSequence ==
  ASSUME ExpertsSetupOK, NEW e, NEW p
  PROVE  /\ ScaleOf(e, p) \in Seq({RowScales(e, p, r) : r \in ExpertRows})
         /\ Len(ScaleOf(e, p)) = IF shape = "scalar" THEN 1 ELSE size
         /\ shape = "scalar" => ScaleOf(e, p)[1] = RowScales(e, p, 1)
         /\ shape # "scalar" => \A r \in ExpertRows : ScaleOf(e, p)[r] = RowScales(e, p, r)
         /\ \A r \in ExpertRows : shape = "scalar" => RowScales(e, p, r) = RowScales(e, p, 1)
<1>1. size \in Nat /\ 1 \in ExpertRows
  BY DEF ExpertsSetupOK, ExpertRows
<1>2. CASE shape = "scalar"
  BY <1>1, <1>2 DEF ScaleOf, RowScales
<1>3. CASE shape # "scalar"
  <2>1. ScaleOf(e, p) = [r \in 1 .. size |-> RowScales(e, p, r)]
    BY <1>3 DEF ScaleOf, ExpertRows
  <2> QED
    BY <1>1, <1>3, <2>1 DEF ExpertRows
<1> QED
  BY <1>2, <1>3

LEMMA ScaleAt ==
  ASSUME ExpertsSetupOK, NEW e, NEW p, NEW r \in ExpertRows,
         NEW i, i = IF shape = "scalar" THEN 1 ELSE r
  PROVE  i \in 1 .. Len(ScaleOf(e, p)) /\ ScaleOf(e, p)[i] = RowScales(e, p, r)
<1>1. r \in 1 .. size /\ size \in Nat \ {0}
  BY DEF ExpertsSetupOK, ExpertRows
<1>2. Len(ScaleOf(e, p)) = IF shape = "scalar" THEN 1 ELSE size
  BY ScaleIsSequence
<1>3. i \in 1 .. Len(ScaleOf(e, p))
  BY <1>1, <1>2
<1>4. CASE shape = "scalar"
  <2>1. ScaleOf(e, p)[1] = RowScales(e, p, 1)
    BY <1>4, ScaleIsSequence
  <2>2. RowScales(e, p, r) = RowScales(e, p, 1)
    BY <1>4 DEF RowScales
  <2> QED
    BY <1>3, <1>4, <2>1, <2>2
<1>5. CASE shape # "scalar"
  <2>1. ScaleOf(e, p)[r] = RowScales(e, p, r)
    BY <1>5 DEF ScaleOf
  <2> QED
    BY <1>3, <1>5, <2>1
<1> QED
  BY <1>4, <1>5

LEMMA InvMeansScales == ExpertsInv => ScalesFollowRows
<1> SUFFICES ASSUME ExpertsInv, packed # Unset, NEW e \in ExpertIds, NEW r \in FusedRows,
                    NEW i, i = IF shape # "scalar" THEN r ELSE IF r <= size THEN 1 ELSE 2
             PROVE  i \in DOMAIN packed[e] /\ packed[e][i] = fused[e][r].scale
  BY DEF ScalesFollowRows
<1>1. stage = "done" /\ LinearOK /\ RepackedOK /\ PackedOK /\ ExpertsSetupOK
  BY DEF ExpertsInv
<1>2. \A p \in Projections :
        /\ scales[e][p] = ScaleOf(e, p)
        /\ \A x \in ExpertRows : linear[e][p][x].scale = RowScales(e, p, x)
  BY <1>1 DEF LinearOK, PackedOK
<1>3. size \in Nat \ {0} /\ ExpertRows = 1 .. size
  BY <1>1 DEF ExpertsSetupOK, ExpertRows
<1>4. CASE ~ hasGate
  <2>1. fused[e][r] = linear[e]["up"][r] /\ r \in ExpertRows /\ "up" \in Projections
    BY <1>1, <1>4, FusedHalves, ProjectionNames DEF RepackedOK
  <2>2. packed[e] = ScaleOf(e, "up") /\ fused[e][r].scale = RowScales(e, "up", r)
    BY <1>1, <1>2, <1>4, <2>1 DEF PackedOK
  <2>3. /\ ScaleOf(e, "up") \in Seq({RowScales(e, "up", x) : x \in ExpertRows})
        /\ Len(ScaleOf(e, "up")) = IF shape = "scalar" THEN 1 ELSE size
        /\ ScaleOf(e, "up")[i] = RowScales(e, "up", r)
        /\ i \in 1 .. Len(ScaleOf(e, "up"))
    <3>1. r \in 1 .. size /\ i = IF shape # "scalar" THEN r ELSE 1
      BY <1>3, <2>1
    <3> QED
      BY <1>1, <1>3, <2>1, <3>1, ScaleIsSequence, ScaleAt
  <2> QED
    BY <2>2, <2>3
<1>5. CASE hasGate
  <2> DEFINE a == ScaleOf(e, "gate")
             b == ScaleOf(e, "up")
             A == {RowScales(e, "gate", x) : x \in ExpertRows}
             B == {RowScales(e, "up", x) : x \in ExpertRows}
             n == IF shape = "scalar" THEN 1 ELSE size
  <2>1. packed[e] = a \o b /\ "up" \in Projections /\ "gate" \in Projections
    BY <1>1, <1>2, <1>5, ProjectionNames DEF PackedOK
  <2>2. a \in Seq(A) /\ b \in Seq(B) /\ Len(a) = n /\ Len(b) = n /\ n \in Nat
    BY <1>1, <1>3, ScaleIsSequence
  <2>3. a \in Seq(A \cup B) /\ b \in Seq(A \cup B)
    BY <2>2
  <2>4. /\ a \o b \in Seq(A \cup B) /\ Len(a \o b) = n + n
        /\ \A k \in 1 .. n + n : (a \o b)[k] = IF k <= n THEN a[k] ELSE b[k - n]
    <3> HIDE DEF a, b, A, B, n
    <3> QED
      <4> DEFINE T == A \cup B
      <4>1. a \in Seq(T) /\ b \in Seq(T)
        BY <2>3
      <4> HIDE DEF T
      <4>2. /\ a \o b \in Seq(T) /\ Len(a \o b) = Len(a) + Len(b)
            /\ \A k \in 1 .. Len(a) + Len(b) :
                 (a \o b)[k] = IF k <= Len(a) THEN a[k] ELSE b[k - Len(a)]
        BY <4>1, ConcatProperties
      <4> QED
        BY <2>2, <4>2 DEF T
  <2>5. DOMAIN packed[e] = 1 .. n + n
    <3> HIDE DEF a, b, A, B, n
    <3> QED
      BY <2>1, <2>4
  <2>6. CASE r <= size
    <3>1. fused[e][r].scale = RowScales(e, "gate", r) /\ r \in ExpertRows
      BY <1>1, <1>2, <1>5, <2>1, <2>6, FusedHalves DEF RepackedOK
    <3>2. i = IF shape = "scalar" THEN 1 ELSE r
      BY <2>6
    <3>3. i \in 1 .. Len(a) /\ a[i] = RowScales(e, "gate", r)
      BY <1>1, <3>1, <3>2, ScaleAt
    <3>4. i \in 1 .. n
      BY <2>2, <3>3
    <3> HIDE DEF a, b, A, B, n
    <3> QED
      BY <2>1, <2>2, <2>4, <2>5, <3>1, <3>3, <3>4
  <2>7. CASE ~ r <= size
    <3>1. fused[e][r].scale = RowScales(e, "up", r - size) /\ r - size \in ExpertRows
      BY <1>1, <1>2, <1>5, <2>1, <2>7, FusedHalves DEF RepackedOK
    <3>2. r \in Nat
      BY <1>1, FusedHalves
    <3>3. i - n = IF shape = "scalar" THEN 1 ELSE r - size
      BY <2>7
    <3>4. i - n \in 1 .. Len(b) /\ b[i - n] = RowScales(e, "up", r - size)
      BY <1>1, <3>1, <3>3, ScaleAt
    <3>5. i \in Nat
      BY <3>2
    <3>6. i \in n + 1 .. n + n
      <4> HIDE DEF a, b, A, B, n
      <4> QED
        BY <2>2, <3>4, <3>5
    <3> HIDE DEF a, b, A, B, n
    <3> QED
      BY <2>1, <2>2, <2>4, <2>5, <3>1, <3>4, <3>6
  <2>8. r \in Nat
    BY <1>1, FusedHalves
  <2> QED
    BY <1>3, <2>6, <2>7, <2>8
<1> QED
  BY <1>1, <1>4, <1>5 DEF ExpertsSetupOK

-----------------------------------------------------------------------------
(* The invariant is inductive *)

LEMMA ExpertsInitOK == ExpertsSupported /\ ExpertsInit => ExpertsInv
<1> SUFFICES ASSUME ExpertsSupported, ExpertsInit PROVE ExpertsInv
  OBVIOUS
<1>1. ExpertsSetupOK
  BY DEF ExpertsSupported, ExpertsInit, ExpertsSetupOK
<1> QED
  BY <1>1 DEF ExpertsInit, ExpertsInv

(* What depends on the setup only stays as it is. *)
LEMMA SetupStays ==
  ASSUME UNCHANGED expertsSetup
  PROVE  /\ ExpertsSetupOK => ExpertsSetupOK'
         /\ Projections' = Projections /\ ExpertRows' = ExpertRows /\ FusedRows' = FusedRows
         /\ \A e, p, r : RowScales(e, p, r)' = RowScales(e, p, r)
         /\ \A e, p : ScaleOf(e, p)' = ScaleOf(e, p)
         /\ \A p, r : SourceRow(p, r)' = SourceRow(p, r)
         /\ Scales' = Scales /\ Rows' = Rows
BY DEF expertsSetup, ExpertsSetupOK, Scales, Rows, Projections, ExpertRows, FusedRows, RowScales,
   ScaleOf,
       SourceRow

LEMMA RowsStay ==
  ASSUME UNCHANGED <<expertsSetup, linear, scales>>
  PROVE  /\ LinearOK => LinearOK'
         /\ fused' = fused /\ RepackedOK => RepackedOK'
         /\ packed' = packed /\ PackedOK => PackedOK'
<1>1. LinearOK => LinearOK'
  BY SetupStays DEF LinearOK
<1>2. fused' = fused /\ RepackedOK => RepackedOK'
  BY SetupStays DEF RepackedOK, expertsSetup
<1>3. packed' = packed /\ PackedOK => PackedOK'
  BY SetupStays DEF PackedOK, expertsSetup
<1> QED
  BY <1>1, <1>2, <1>3

LEMMA LinearizeOK == ExpertsInv /\ Linearize => ExpertsInv'
<1> SUFFICES ASSUME ExpertsInv, Linearize PROVE ExpertsInv'
  OBVIOUS
<1>0. UNCHANGED expertsSetup /\ ExpertsSetupOK /\ stage = "linearize" /\ stage' = "quantize"
      /\ packed' = packed /\ packed = Unset
  BY DEF Linearize, ExpertsInv
<1>1. \A e \in ExpertIds : \A p \in Projections : \A r \in ExpertRows :
        fused[e][SourceRow(p, r)] = [from |-> <<e, SourceRow(p, r)>>, scale |-> Unset]
  <2>1. \A p \in Projections : \A r \in ExpertRows : SourceRow(p, r) \in FusedRows
    BY <1>0, SourceRows
  <2> QED
    BY <1>0, <2>1 DEF ExpertsInv
<1>2. linear' = [e \in ExpertIds |-> [p \in Projections |-> [r \in ExpertRows |->
                  [from |-> <<e, SourceRow(p, r)>>, scale |-> Unset]]]]
  BY <1>1 DEF Linearize
<1>3. scales' = [e \in ExpertIds |-> [p \in Projections |-> Unset]]
  BY DEF Linearize
<1>4. \A p \in Projections : \A r \in ExpertRows : SourceRow(p, r) \in Nat
  BY <1>0, SourceRows DEF FusedRows, ExpertsSetupOK
<1>5. linear' \in [ExpertIds -> [Projections -> [ExpertRows -> Rows]]]
  BY <1>2, <1>4 DEF Rows, Scales
<1>6. LinearOK'
  BY <1>0, <1>2, <1>3, <1>5, SetupStays DEF LinearOK
<1> QED
  BY <1>0, <1>6, SetupStays DEF ExpertsInv

LEMMA QuantizeOK ==
  ASSUME ExpertsInv, NEW e \in ExpertIds, NEW p \in Projections, QuantizeExpert(e, p)
  PROVE  ExpertsInv'
<1>0. UNCHANGED expertsSetup /\ ExpertsSetupOK /\ stage = "quantize" /\ stage' = "quantize"
      /\ packed' = packed /\ packed = Unset /\ LinearOK
  BY DEF QuantizeExpert, ExpertsInv
<1> DEFINE rows == [r \in ExpertRows |-> [linear[e][p][r] EXCEPT !.scale = RowScales(e, p, r)]]
<1>1. /\ rows \in [ExpertRows -> Rows]
      /\ \A r \in ExpertRows :
           rows[r].from = linear[e][p][r].from /\ rows[r].scale = RowScales(e, p, r)
  <2> SUFFICES ASSUME NEW r \in ExpertRows
               PROVE  /\ rows[r] \in Rows
                      /\ rows[r].from = linear[e][p][r].from
                      /\ rows[r].scale = RowScales(e, p, r)
    OBVIOUS
  <2>1. linear[e][p][r] \in [from : ExpertIds \X Nat, scale : Scales]
    BY <1>0 DEF LinearOK, Rows
  <2>2. RowScales(e, p, r) \in Scales
    <3>1. <<e, p, r>> \in ExpertIds \X Projections \X ExpertRows
      OBVIOUS
    <3> QED
      BY <3>1 DEF Scales
  <2> HIDE DEF Scales
  <2> QED
    BY <2>1, <2>2 DEF Rows
<1>2. linear' = [linear EXCEPT ![e][p] = rows]
  BY DEF QuantizeExpert
<1> HIDE DEF rows
<1>3. /\ linear' \in [ExpertIds -> [Projections -> [ExpertRows -> Rows]]]
      /\ linear'[e][p] = rows
      /\ \A x \in ExpertIds : \A y \in Projections :
           x # e \/ y # p => linear'[x][y] = linear[x][y]
  BY <1>0, <1>1, <1>2 DEF LinearOK
<1>4. scales' = [scales EXCEPT ![e][p] = ScaleOf(e, p)]
  BY DEF QuantizeExpert, ScaleOf
<1>5. /\ scales' = [x \in ExpertIds |-> [y \in Projections |-> scales'[x][y]]]
      /\ scales'[e][p] = ScaleOf(e, p)
      /\ \A x \in ExpertIds : \A y \in Projections :
           x # e \/ y # p => scales'[x][y] = scales[x][y]
  <2> DEFINE s == ScaleOf(e, p)
  <2> HIDE DEF s
  <2>1. scales = [x \in ExpertIds |-> [y \in Projections |-> scales[x][y]]]
    BY <1>0 DEF LinearOK
  <2>2. scales' = [x \in ExpertIds |-> [y \in Projections |->
                     IF x = e /\ y = p THEN s ELSE scales[x][y]]]
    BY <1>4, <2>1 DEF s
  <2> QED
    BY <2>2 DEF s
<1>6. ASSUME NEW x \in ExpertIds, NEW y \in Projections
      PROVE  /\ \A r \in ExpertRows : linear'[x][y][r].from = <<x, SourceRow(y, r)>>
             /\ scales'[x][y] # Unset =>
                  /\ scales'[x][y] = ScaleOf(x, y)
                  /\ \A r \in ExpertRows : linear'[x][y][r].scale = RowScales(x, y, r)
  <2>1. CASE x = e /\ y = p
    BY <1>0, <1>1, <1>3, <1>5, <2>1 DEF LinearOK
  <2>2. CASE x # e \/ y # p
    BY <1>0, <1>3, <1>5, <2>2 DEF LinearOK
  <2> QED
    BY <2>1, <2>2
<1>7. LinearOK'
  BY <1>0, <1>3, <1>5, <1>6, SetupStays DEF LinearOK
<1> QED
  BY <1>0, <1>7, SetupStays DEF ExpertsInv

LEMMA QuantizationEndsOK == ExpertsInv /\ QuantizationEnds => ExpertsInv'
<1> SUFFICES ASSUME ExpertsInv, QuantizationEnds PROVE ExpertsInv'
  OBVIOUS
<1>1. UNCHANGED <<expertsSetup, linear, scales, packed>> /\ stage' = "repack" /\ LinearOK
      /\ ExpertsSetupOK /\ packed = Unset
  BY DEF QuantizationEnds, ExpertsInv
<1>2. LinearOK'
  BY <1>1, RowsStay
<1> QED
  BY <1>1, <1>2, SetupStays DEF ExpertsInv

LEMMA RepackOK == ExpertsInv /\ Repack => ExpertsInv'
<1> SUFFICES ASSUME ExpertsInv, Repack PROVE ExpertsInv'
  OBVIOUS
<1>1. UNCHANGED <<expertsSetup, linear, scales, packed>> /\ stage' = "pack" /\ LinearOK
      /\ ExpertsSetupOK /\ packed = Unset
  BY DEF Repack, ExpertsInv
<1>2. LinearOK'
  BY <1>1, RowsStay
<1>3. RepackedOK'
  BY <1>1, SetupStays DEF Repack, RepackedOK, expertsSetup
<1> QED
  BY <1>1, <1>2, <1>3, SetupStays DEF ExpertsInv

LEMMA PackOK == ExpertsInv /\ Pack => ExpertsInv'
<1> SUFFICES ASSUME ExpertsInv, Pack PROVE ExpertsInv'
  OBVIOUS
<1>1. UNCHANGED <<expertsSetup, fused, linear, scales>> /\ stage' = "done" /\ LinearOK
      /\ ExpertsSetupOK /\ RepackedOK
  BY DEF Pack, ExpertsInv
<1>2. LinearOK' /\ RepackedOK'
  BY <1>1, RowsStay
<1>3. PackedOK'
  <2> SUFFICES ASSUME packed' # Unset PROVE PackedOK'
    BY DEF PackedOK
  <2>1. \A x \in ExpertIds : \A y \in Projections : scales[x][y] # Unset
    BY DEF Pack, HasAll
  <2>2. packed' = [x \in ExpertIds |->
          IF hasGate THEN scales[x]["gate"] \o scales[x]["up"] ELSE scales[x]["up"]]
    BY <1>1 DEF Pack, Join, ExpertsSetupOK
  <2> QED
    BY <1>1, <2>1, <2>2, SetupStays DEF PackedOK, expertsSetup
<1> QED
  BY <1>1, <1>2, <1>3, SetupStays DEF ExpertsInv

LEMMA ExpertsStepOK == ExpertsInv /\ [ExpertsNext]_expertsVars => ExpertsInv'
<1>1. ASSUME ExpertsInv, UNCHANGED expertsVars PROVE ExpertsInv'
  <2>1. UNCHANGED <<expertsSetup, linear, scales, fused, packed, stage>>
    BY <1>1 DEF expertsVars
  <2> QED
    BY <1>1, <2>1, SetupStays, RowsStay DEF ExpertsInv
<1> QED
  BY <1>1, LinearizeOK, QuantizeOK, QuantizationEndsOK, RepackOK, PackOK DEF ExpertsNext

(* Repacking the experts puts every row where the fused module had it, with the scale it
   was quantized with (linear_experts.py), for any number of experts of any size. *)
THEOREM RepackKeepsRowsThm == ExpertsSupported /\ ExpertsSpec => []RepackKeepsRows
<1>1. ExpertsInv => RepackKeepsRows
  BY InvMeansInverse, InvMeansScales DEF RepackKeepsRows
<1>2. ExpertsSupported /\ ExpertsSpec => []ExpertsInv
  BY ExpertsInitOK, ExpertsStepOK, PTL DEF ExpertsSpec
<1> QED
  BY <1>1, <1>2, PTL

-----------------------------------------------------------------------------
(***************************************************************************)
(* Pruning with masks keeps its sparsity, for any modifiers, schedules and *)
(* weights, whatever the optimizer does; magnitude pruning takes no        *)
(* element back while its schedule grows; and finalization removes every   *)
(* mask, or none if they are saved.                                        *)
(*                                                                         *)
(* Between two events the weights of a layer are zero where its mask is,   *)
(* or the mask has just been computed from them.  Only from an optimizer   *)
(* step until its modifier has been told of it is neither so.  A schedule  *)
(* asks for no more elements than there are as long as its modifier is     *)
(* within its range: the batch that reaches the end of the range is the    *)
(* last.                                                                   *)
(***************************************************************************)

(* Powers *)

(* What the recursive function of Power computes. *)
LEMMA PowerIsRecursive ==
  ASSUME NEW a \in Nat
  PROVE  /\ Power(a, 0) = 1
         /\ \A n \in Nat : Power(a, n) \in Nat /\ Power(a, n + 1) = a * Power(a, n)
<1> DEFINE D(f) == [k \in Nat |-> IF k = 0 THEN 1 ELSE a * f[k - 1]]
           h == CHOOSE f : f = D(f)
           times == [p \in Nat \X Nat |-> a * p[2]]
<1>1. \A n : Power(a, n) = h[n]
  BY DEF Power
<1>2. times \in [Nat \X Nat -> Nat]
  <2>1. \A k \in Nat : a * k \in Nat
    OBVIOUS
  <2> QED
    BY <2>1
<1>3. \E f : f = D(f)
  <2>1. \A n, k \in Nat : times[<<n, k>>] = a * k
    OBVIOUS
  <2> HIDE DEF times
  <2>2. PICK f : f \in [Nat -> Nat] /\ f[0] = 1 /\ \A n \in Nat : f[n + 1] = times[<<n, f[n]>>]
    <3>1. \E f : IsRecursive(f, Nat, 1, times)
      BY <1>2, RecursionExists
    <3> QED
      BY <3>1 DEF IsRecursive
  <2>3. ASSUME NEW k \in Nat PROVE f[k] = IF k = 0 THEN 1 ELSE a * f[k - 1]
    <3>1. CASE k # 0
      <4>1. k - 1 \in Nat /\ (k - 1) + 1 = k
        BY <3>1
      <4>2. f[(k - 1) + 1] = times[<<k - 1, f[k - 1]>>] /\ f[k - 1] \in Nat
        BY <2>2, <4>1
      <4>3. f[(k - 1) + 1] = a * f[k - 1]
        BY <2>1, <4>1, <4>2
      <4> QED
        BY <3>1, <4>1, <4>3
    <3> QED
      BY <2>2, <3>1
  <2>4. f = D(f)
    BY <2>2, <2>3
  <2> QED
    BY <2>4
<1>4. h = D(h)
  <2> HIDE DEF D
  <2> QED
    BY <1>3, Zenon
<1> HIDE DEF h
<1>5. h[0] = 1 /\ \A n \in Nat : h[n + 1] = a * h[n]
  <2> DEFINE d == D(h)
  <2>1. d[0] = 1
    OBVIOUS
  <2>2. ASSUME NEW n \in Nat PROVE d[n + 1] = a * h[n]
    <3>1. n + 1 \in Nat /\ n + 1 # 0 /\ (n + 1) - 1 = n
      OBVIOUS
    <3> QED
      BY <3>1
  <2>3. h = d
    BY <1>4
  <2> HIDE DEF d
  <2> QED
    BY <2>1, <2>2, <2>3
<1> DEFINE T == {n \in Nat : h[n] \in Nat}
<1>6. \A n \in Nat : n \in T
  <2>1. 0 \in T
    BY <1>5
  <2>2. ASSUME NEW n \in Nat, n \in T PROVE n + 1 \in T
    <3>1. \A k \in Nat : a * k \in Nat
      OBVIOUS
    <3> QED
      BY <1>5, <2>2, <3>1
  <2> HIDE DEF T
  <2> QED
    BY <2>1, <2>2, NumberInduction
<1> QED
  BY <1>1, <1>5, <1>6

(* A power grows with its base, and is positive if the base is. *)
LEMMA PowersGrow ==
  ASSUME NEW a \in Nat, NEW b \in Nat, a <= b, NEW n \in Nat
  PROVE  /\ Power(a, n) \in Nat /\ Power(b, n) \in Nat /\ Power(a, n) <= Power(b, n)
         /\ a > 0 => Power(a, n) > 0
<1> DEFINE T == {k \in Nat : Power(a, k) <= Power(b, k) /\ (a > 0 => Power(a, k) > 0)}
<1>1. 0 \in T
  BY PowerIsRecursive
<1>2. ASSUME NEW k \in Nat, k \in T PROVE k + 1 \in T
  <2> DEFINE p == Power(a, k)
             q == Power(b, k)
  <2>1. /\ p \in Nat /\ q \in Nat /\ p <= q /\ (a > 0 => p > 0)
        /\ Power(a, k + 1) = a * p /\ Power(b, k + 1) = b * q
    BY <1>2, PowerIsRecursive
  <2> HIDE DEF p, q
  <2>2. a * p <= a * q
    BY <2>1, ProductsGrow
  <2>3. q * a <= q * b
    BY <2>1, ProductsGrow
  <2>4. a * q = q * a /\ b * q = q * b /\ a * p \in Int /\ q * a \in Int /\ q * b \in Int
    BY <2>1
  <2>5. a * p <= b * q
    BY <2>2, <2>3, <2>4
  <2>6. a > 0 => a * p > 0
    <3> SUFFICES ASSUME a > 0 PROVE a * p > 0
      OBVIOUS
    <3>1. p * 1 <= p * a
      BY <2>1, ProductsGrow
    <3> QED
      BY <2>1, <3>1
  <2> QED
    BY <2>1, <2>5, <2>6
<1>3. \A k \in Nat : k \in T
  <2> HIDE DEF T
  <2> QED
    BY <1>1, <1>2, NumberInduction
<1> QED
  BY <1>3, PowerIsRecursive

-----------------------------------------------------------------------------
(* What a schedule asks for *)

InRange(m, s) ==
  /\ modifiers[m].start <= s /\ s <= modifiers[m].end
  /\ modifiers[m].start < modifiers[m].end

(* What MaskingAssumption says of a modifier. *)
LEMMA ModifierFields ==
  ASSUME modifiers \in MaskRecipes, NEW m \in Mods
  PROVE  LET r == modifiers[m] IN
         /\ r.kind \in {"constant", "magnitude"} /\ r.targets \subseteq LayerParams
         /\ r.start \in Nat /\ r.end \in Nat /\ r.power \in Nat
         /\ r.from \in Nat /\ r.to \in Nat
         /\ r.from <= SparsityUnits /\ r.to <= SparsityUnits
<1>1. modifiers \in Seq(Modifier)
  BY MaskingAssumption
<1>2. modifiers[m] \in Modifier
  <2> DEFINE R == Modifier
  <2>1. modifiers \in Seq(R)
    BY <1>1
  <2> HIDE DEF R
  <2>2. modifiers[m] \in R
    BY <2>1 DEF Mods
  <2> QED
    BY <2>2 DEF R
<1> DEFINE r == modifiers[m]
           U == SparsityUnits
<1>3. r \in [kind : {"constant", "magnitude"}, targets : SUBSET LayerParams, start : Nat,
             end : Nat, from : 0 .. U, to : 0 .. U, power : Nat \ {0}]
  BY <1>2 DEF Modifier
<1>4. U \in Nat
  BY MaskingAssumption
<1> HIDE DEF r, U
<1>5. /\ r.kind \in {"constant", "magnitude"} /\ r.targets \subseteq LayerParams
      /\ r.start \in Nat /\ r.end \in Nat /\ r.power \in Nat
      /\ r.from \in 0 .. U /\ r.to \in 0 .. U
  BY <1>3
<1> QED
  BY <1>4, <1>5 DEF r, U

(* How much of the range of a schedule is left. *)
LEMMA RangeLeft ==
  ASSUME modifiers \in MaskRecipes, NEW m \in Mods, NEW s \in Nat, InRange(m, s)
  PROVE  LET left == Power(modifiers[m].end - s, modifiers[m].power) IN
         /\ left \in Nat /\ Span(m) \in Nat \ {0} /\ left <= Span(m)
         /\ \A t \in Nat : InRange(m, t) /\ s <= t =>
              Power(modifiers[m].end - t, modifiers[m].power) <= left
<1> DEFINE p == modifiers[m].power
           e == modifiers[m].end
           b == modifiers[m].start
<1>1. p \in Nat /\ e \in Nat /\ b \in Nat /\ b <= s /\ s <= e /\ b < e
  BY ModifierFields DEF InRange
<1>2. Span(m) = Power(e - b, p)
  BY DEF Span
<1> HIDE DEF p, e, b
<1>3. e - s \in Nat /\ e - b \in Nat /\ e - s <= e - b /\ e - b > 0
  BY <1>1
<1>4. Power(e - s, p) \in Nat /\ Power(e - b, p) \in Nat \ {0} /\ Power(e - s, p) <= Power(e - b, p)
  <2>1. Power(e - s, p) \in Nat /\ Power(e - b, p) \in Nat /\ Power(e - s, p) <= Power(e - b, p)
    BY <1>1, <1>3, PowersGrow
  <2>2. e - b <= e - b
    BY <1>3
  <2>3. Power(e - b, p) > 0
    BY <1>1, <1>3, <2>2, PowersGrow
  <2> QED
    BY <2>1, <2>3
<1>5. ASSUME NEW t \in Nat, t <= e, s <= t PROVE Power(e - t, p) <= Power(e - s, p)
  <2>1. e - t \in Nat /\ e - t <= e - s
    BY <1>1, <1>5
  <2> QED
    BY <1>1, <1>3, <2>1, PowersGrow
<1> QED
  BY <1>2, <1>4, <1>5 DEF p, e, InRange

(* Within its range a schedule stays within its limits, and grows if it is to grow. *)
LEMMA ScheduleInLimits ==
  ASSUME modifiers \in MaskRecipes, NEW m \in Mods, NEW s \in Nat, InRange(m, s)
  PROVE  Scheduled(m, s) \in Nat /\ Scheduled(m, s) <= SparsityUnits * Span(m)
<1> DEFINE left == Power(modifiers[m].end - s, modifiers[m].power)
           S == Span(m)
           f == modifiers[m].from
           t == modifiers[m].to
<1>1. /\ left \in Nat /\ S \in Nat /\ left <= S /\ f \in Nat /\ t \in Nat
      /\ f <= SparsityUnits /\ t <= SparsityUnits /\ SparsityUnits \in Nat
  BY RangeLeft, ModifierFields, MaskingAssumption
<1>2. Scheduled(m, s) = f * S + (t - f) * (S - left)
  BY DEF Scheduled
<1> HIDE DEF left, S, f, t
<1> DEFINE done == S - left
<1>3. done \in Nat /\ S = left + done
  BY <1>1
<1> HIDE DEF done
<1>4. f * S + (t - f) * done = left * f + done * t
  BY <1>1, <1>3
<1>5. left * f <= left * SparsityUnits /\ done * t <= done * SparsityUnits
  BY <1>1, <1>3, ProductsGrow
<1>6. left * f \in Nat /\ done * t \in Nat
  BY <1>1, <1>3
<1>7. left * SparsityUnits + done * SparsityUnits = SparsityUnits * S
  BY <1>1, <1>3
<1> DEFINE u == left * SparsityUnits
           v == done * SparsityUnits
           x == left * f
           y == done * t
<1>8. u \in Nat /\ v \in Nat
  BY <1>1, <1>3
<1>9. x + y \in Nat /\ x + y <= u + v
  <2> HIDE DEF u, v, x, y
  <2>1. x \in Nat /\ y \in Nat /\ x <= u /\ y <= v
    BY <1>5, <1>6 DEF u, v, x, y
  <2> QED
    BY <1>8, <2>1
<1> QED
  BY <1>2, <1>4, <1>7, <1>9 DEF done, S

LEMMA ScheduleGrows ==
  ASSUME modifiers \in MaskRecipes, NEW m \in Mods, modifiers[m].from <= modifiers[m].to,
         NEW s \in Nat, NEW r \in Nat, s <= r, InRange(m, s), InRange(m, r)
  PROVE  Scheduled(m, s) <= Scheduled(m, r)
<1> DEFINE a == Power(modifiers[m].end - s, modifiers[m].power)
           b == Power(modifiers[m].end - r, modifiers[m].power)
           S == Span(m)
           f == modifiers[m].from
           t == modifiers[m].to
<1>1. /\ a \in Nat /\ b \in Nat /\ S \in Nat /\ a <= S /\ b <= a /\ f \in Nat /\ t \in Nat
      /\ f <= t
  BY RangeLeft, ModifierFields
<1>2. Scheduled(m, s) = f * S + (t - f) * (S - a) /\ Scheduled(m, r) = f * S + (t - f) * (S - b)
  BY DEF Scheduled
<1> HIDE DEF a, b, S, f, t
<1>3. t - f \in Nat /\ S - a \in Int /\ S - b \in Int /\ S - a <= S - b
  BY <1>1
<1>4. (t - f) * (S - a) <= (t - f) * (S - b)
  BY <1>3, ProductsGrow
<1>5. f * S \in Int /\ (t - f) * (S - a) \in Int /\ (t - f) * (S - b) \in Int
  BY <1>1
<1> QED
  BY <1>2, <1>4, <1>5

(* The number of elements to prune is not more than there are, and grows with a sparsity. *)
LEMMA PruneElementsInLimits ==
  ASSUME modifiers \in MaskRecipes, NEW m \in Mods, NEW s \in Nat, InRange(m, s),
         NEW x \in Nat, NEW y \in Nat, x <= y, y <= SparsityUnits * Span(m)
  PROVE  /\ PruneElements(m, x) \in Nat /\ PruneElements(m, y) \in Nat
         /\ PruneElements(m, x) <= PruneElements(m, y)
         /\ PruneElements(m, y) <= Cardinality(Elements)
<1> DEFINE c == Cardinality(Elements)
           w == SparsityUnits * Span(m)
<1>1. c \in Nat
  BY MaskingAssumption, FS_CardinalityType
<1>2. w \in Nat \ {0}
  <2> DEFINE S == Span(m)
  <2>1. S \in Nat \ {0} /\ SparsityUnits \in Nat \ {0}
    BY RangeLeft, MaskingAssumption
  <2> HIDE DEF S
  <2>2. SparsityUnits * S \in Nat /\ SparsityUnits * S # 0
    BY <2>1
  <2> QED
    BY <2>2 DEF S
<1>3. PruneElements(m, x) = (x * c) \div w /\ PruneElements(m, y) = (y * c) \div w /\ y <= w
  BY DEF PruneElements
<1> HIDE DEF c, w
<1>4. c * x <= c * y /\ c * y <= c * w
  BY <1>1, <1>2, <1>3, ProductsGrow
<1>5. /\ x * c = c * x /\ y * c = c * y
      /\ x * c \in Nat /\ y * c \in Nat /\ c * w \in Nat
  BY <1>1, <1>2
<1>6. (x * c) \div w <= (y * c) \div w /\ (y * c) \div w <= (c * w) \div w
  BY <1>2, <1>4, <1>5, DivisionGrows
<1>7. (c * w) \div w = c
  BY <1>1, <1>2, DivisionOfMultiple
<1>8. (x * c) \div w \in Nat /\ (y * c) \div w \in Nat
  BY <1>2, <1>5, Division
<1> QED
  BY <1>3, <1>6, <1>7, <1>8 DEF c

-----------------------------------------------------------------------------
(* Masks of unstructured_pruning *)

(* A larger number of elements is pruned by a smaller mask. *)
LEMMA PruneMore ==
  ASSUME NEW w, NEW n \in Nat, NEW k \in Nat, n <= k
  PROVE  PruneWith(w, k) \subseteq PruneWith(w, n)
<1> SUFFICES ASSUME NEW e \in PruneWith(w, k), n > 0
             PROVE  Cardinality({f \in Elements : w[f] < w[e]}) >= n
  BY DEF PruneWith
<1> DEFINE c == Cardinality({f \in Elements : w[f] < w[e]})
<1>1. c >= k
  BY DEF PruneWith
<1>2. c \in Nat
  BY MaskingAssumption, FS_Subset, FS_CardinalityType
<1> HIDE DEF c
<1>3. c >= n
  BY <1>1, <1>2
<1> QED
  BY <1>3 DEF c

(* At least n elements are pruned: otherwise the smallest element that is kept would have
   less than n elements below it. *)
LEMMA PrunedAreEnough ==
  ASSUME NEW w \in [Elements -> Nat], NEW n \in Nat, n <= Cardinality(Elements)
  PROVE  Cardinality(Elements \ PruneWith(w, n)) >= n
<1> DEFINE kept == PruneWith(w, n)
           gone == Elements \ kept
<1>1. /\ kept \subseteq Elements /\ IsFiniteSet(gone)
      /\ Cardinality(gone) \in Nat /\ Cardinality(Elements) \in Nat
  BY MaskingAssumption, FS_Subset, FS_CardinalityType DEF PruneWith
<1>2. CASE kept = {}
  BY <1>1, <1>2
<1>3. CASE kept # {} /\ n > 0
  <2> DEFINE T == {w[e] : e \in kept}
  <2>1. T \subseteq Nat /\ T # {}
    BY <1>1, <1>3
  <2>2. PICK x \in T : \A y \in T : x <= y
    BY <2>1, LeastNumber
  <2>3. PICK e \in kept : \A f \in kept : w[e] <= w[f]
    BY <2>2
  <2> DEFINE below == {f \in Elements : w[f] < w[e]}
  <2>4. Cardinality(below) >= n
    BY <1>3, <2>3 DEF PruneWith
  <2>5. below \subseteq gone
    <3> SUFFICES ASSUME NEW f \in Elements, w[f] < w[e], f \in kept PROVE FALSE
      OBVIOUS
    <3>1. w[f] \in Nat /\ w[e] \in Nat /\ w[e] <= w[f]
      BY <1>1, <2>3
    <3> QED
      BY <3>1
  <2>6. Cardinality(below) <= Cardinality(gone) /\ Cardinality(below) \in Nat
    BY <1>1, <2>5, FS_Subset, FS_CardinalityType
  <2> QED
    BY <1>1, <2>4, <2>6
<1>4. CASE n = 0
  BY <1>1, <1>4
<1> QED
  BY <1>2, <1>3, <1>4

(* An element that is zero is pruned, if any is. *)
LEMMA ZerosArePruned ==
  ASSUME NEW w \in [Elements -> Nat], NEW n \in Nat, n > 0, NEW e \in PruneWith(w, n)
  PROVE  w[e] # 0
<1> DEFINE below == {f \in Elements : w[f] < w[e]}
<1>1. Cardinality(below) >= n
  BY DEF PruneWith
<1>2. below # {}
  <2> SUFFICES ASSUME below = {} PROVE FALSE
    OBVIOUS
  <2>1. Cardinality(below) = 0
    BY FS_EmptySet
  <2> HIDE DEF below
  <2> QED
    BY <1>1, <2>1
<1>3. PICK f \in Elements : w[f] < w[e]
  BY <1>2
<1>4. w[f] \in Nat
  OBVIOUS
<1> QED
  BY <1>3, <1>4

-----------------------------------------------------------------------------
(* The inductive invariant *)

MaskEvents == {"batch_start", "optim_pre_step", "optim_post_step", "batch_end"}
IsActive == phase \in {"initialize", "train"}
IsNext(m) == m \in ToSet(visits)

MaskingTypeOK ==
  /\ modifiers \in MaskRecipes /\ visits \in Seq(Mods)
  /\ phase \in {"initialize", "train", "finalize", "done", "raised"}
  /\ event \in MaskEvents \cup {"none", "finalize"} /\ step \in Nat
  /\ started \subseteq Mods /\ ended \subseteq Mods /\ enabled \subseteq Mods
  /\ DOMAIN sparsities = Mods
  /\ masked \in [Mods -> SUBSET LayerParams]
  /\ masks \in [LayerParams -> (SUBSET Elements) \cup {NoMask}]
  /\ weight \in [LayerParams -> [Elements -> Nat]]
  /\ zeros \in [Mods -> [LayerParams -> SUBSET Elements]]

(* A modifier that has started and not ended is in its range, and at the end of it
   until the batch is over. *)
RunningInRange(m) ==
  /\ step <= modifiers[m].end
  /\ step = modifiers[m].end =>
       event \in MaskEvents /\ (event = "batch_end" => IsNext(m))

RangesInv ==
  /\ phase = "initialize" => step = 0 /\ event = "none"
  /\ phase = "train" => event \in MaskEvents
  /\ enabled \subseteq started \ ended
  /\ \A m \in ended : modifiers[m].end <= step
  /\ \A m \in started :
       /\ modifiers[m].start <= step /\ modifiers[m].start < modifiers[m].end
       /\ masked[m] = modifiers[m].targets
  /\ \A m \in started \ ended : RunningInRange(m)
  /\ \A m \in Mods : phase = "train" \/ ~ IsNext(m) => masked[m] = modifiers[m].targets

(* What a mask does not keep is zero. *)
IsClear(l) == \A e \in Elements \ masks[l] : weight[l][e] = 0

(* Until a modifier has been told of a step of the optimizer, weights are anything. *)
IsUntold(m) == event = "optim_post_step" /\ IsNext(m)

ConstantMaskOK(m, l) ==
  /\ masks[l] \in SUBSET Elements /\ masks[l] \cap zeros[m][l] = {}
  /\ IsUntold(m) \/ zeros[m][l] \subseteq Zeros(weight)[l]

(* After the optimizer the mask is applied; before it, it may be new. *)
MagnitudeMaskOK(m, l) ==
  LET n == PruneElements(m, sparsities[m]) IN
  /\ masks[l] \in SUBSET Elements /\ Cardinality(Elements \ masks[l]) >= n
  /\ n = 0 => masks[l] = Elements
  /\ \/ IsUntold(m) \/ IsClear(l)
     \/ event # "optim_post_step" /\ masks[l] = PruneWith(weight[l], n)

IsScheduled(m) == \E s \in 0 .. step : InRange(m, s) /\ sparsities[m] = Scheduled(m, s)

EnabledOK(m) ==
  /\ modifiers[m].kind = "magnitude" => IsScheduled(m)
  /\ \A l \in Own(m) :
       IF modifiers[m].kind = "constant" THEN ConstantMaskOK(m, l) ELSE MagnitudeMaskOK(m, l)

MasksOK == \A m \in enabled : EnabledOK(m)

(* Where masks are, and that they are removed once. *)
Unshared == \A m \in Mods : Own(m) = modifiers[m].targets
RemovalInv ==
  /\ \A m \in Mods : masked[m] \subseteq modifiers[m].targets
  /\ \A l \in LayerParams : masks[l] # NoMask => \E m \in Mods : l \in modifiers[m].targets
  /\ phase # "raised" /\ ~ persistent =>
       \A l \in LayerParams : masks[l] # NoMask => \E m \in Mods : l \in masked[m]
  /\ phase \in {"finalize", "done"} => \A m \in Mods : IsNext(m) \/ masked[m] = {}
  /\ phase = "done" => visits = <<>>
  /\ event \in MaskEvents => phase = "train"
  /\ phase # "raised" /\ Unshared => \A m \in Mods : \A l \in masked[m] : masks[l] # NoMask
  /\ phase = "raised" => useHooks \/ ~ Unshared

MaskingInv == MaskingTypeOK /\ RemovalInv /\ (IsActive => RangesInv /\ MasksOK)

-----------------------------------------------------------------------------
(* Visits, and the first layer of some *)

LEMMA FirstVisit ==
  ASSUME MaskingTypeOK, visits # <<>>
  PROVE  /\ Head(visits) \in Mods /\ Tail(visits) \in Seq(Mods)
         /\ \A m : m \in ToSet(visits) <=> m = Head(visits) \/ m \in ToSet(Tail(visits))
<1> DEFINE q == visits
           R == Mods
<1>1. q \in Seq(R) /\ q # <<>>
  BY DEF MaskingTypeOK
<1> HIDE DEF q, R
<1>2. Head(q) \in R /\ Tail(q) \in Seq(R) /\ Len(q) \in Nat /\ Len(q) # 0
  BY <1>1
<1>3. DOMAIN q = 1 .. Len(q) /\ DOMAIN Tail(q) = 1 .. Len(q) - 1
  BY <1>1, <1>2
<1>4. Head(q) = q[1] /\ \A i \in 1 .. Len(q) - 1 : Tail(q)[i] = q[i + 1]
  BY <1>1, <1>2
<1>5. ASSUME NEW m, m \in ToSet(q) PROVE m = Head(q) \/ m \in ToSet(Tail(q))
  <2>1. PICK i \in 1 .. Len(q) : q[i] = m
    BY <1>3, <1>5 DEF ToSet
  <2>2. CASE i > 1
    <3>1. i - 1 \in 1 .. Len(q) - 1 /\ (i - 1) + 1 = i
      BY <1>2, <2>2
    <3> QED
      BY <1>3, <1>4, <2>1, <3>1 DEF ToSet
  <2> QED
    BY <1>4, <2>1, <2>2
<1>6. ASSUME NEW m, m \in ToSet(Tail(q)) PROVE m \in ToSet(q)
  <2>1. PICK i \in 1 .. Len(q) - 1 : q[i + 1] = m
    BY <1>3, <1>4, <1>6 DEF ToSet
  <2>2. i + 1 \in 1 .. Len(q)
    BY <1>2
  <2> QED
    BY <1>3, <2>1, <2>2 DEF ToSet
<1>7. Head(q) \in ToSet(q)
  BY <1>2, <1>3, <1>4 DEF ToSet
<1> QED
  BY <1>2, <1>5, <1>6, <1>7 DEF q, R

LEMMA AllVisits ==
  ASSUME modifiers \in MaskRecipes
  PROVE  /\ [m \in Mods |-> m] \in Seq(Mods)
         /\ \A m : m \in ToSet([o \in Mods |-> o]) <=> m \in Mods
<1> DEFINE n == Len(modifiers)
<1>1. n \in Nat /\ Mods = 1 .. n
  <2> DEFINE R == Modifier
  <2>1. modifiers \in Seq(R)
    BY MaskingAssumption
  <2> HIDE DEF R
  <2> QED
    BY <2>1 DEF Mods
<1> HIDE DEF n
<1>2. [m \in 1 .. n |-> m] \in Seq(1 .. n)
  BY <1>1
<1> QED
  BY <1>1, <1>2 DEF ToSet

LEMMA FirstParamIsOne ==
  ASSUME NEW S \in SUBSET LayerParams, S # {}
  PROVE  FirstParam(S) \in S
<1> DEFINE T == {i \in DOMAIN LayerParamOrder : LayerParamOrder[i] \in S}
           q == LayerParamOrder
<1>1. q \in Seq(LayerParams)
  BY MaskingAssumption
<1>2. DOMAIN q = 1 .. Len(q) /\ Len(q) \in Nat
  BY <1>1
<1>3. T \in SUBSET Nat /\ T # {}
  BY <1>2 DEF LayerParams, ToSet
<1>4. PICK i \in T : \A j \in T : i <= j
  <2> HIDE DEF T
  <2> QED
    BY <1>3, LeastNumber
<1>5. i \in DOMAIN q /\ q[i] \in S /\ \A j \in 1 .. i - 1 : q[j] \notin S
  <2> SUFFICES ASSUME NEW j \in 1 .. i - 1, q[j] \in S PROVE FALSE
    BY <1>4
  <2>1. i \in 1 .. Len(q)
    BY <1>2, <1>4
  <2>2. j \in DOMAIN q /\ j < i
    BY <1>2, <2>1
  <2>3. i <= j
    BY <1>4, <2>2
  <2> QED
    BY <2>1, <2>2, <2>3
<1> QED
  BY <1>5 DEF FirstParam

-----------------------------------------------------------------------------
(* What the callbacks leave of masks and weights *)

AreMasks(k) == k \in [LayerParams -> (SUBSET Elements) \cup {NoMask}]

LEMMA NewMasks ==
  ASSUME MaskingTypeOK, NEW m \in Mods, NEW sp, NEW k, AreMasks(k),
         NEW c, c = MagnitudeMasks(m, sp, k) \/ c = ConstantMasks(m, k)
  PROVE  /\ AreMasks(c)
         /\ \A l \in LayerParams :
              IF l \in modifiers[m].targets THEN c[l] \in SUBSET Elements ELSE c[l] = k[l]
  BY DEF AreMasks, MagnitudeMasks, ConstantMasks, PruneWith, Nonzero

LEMMA AddedMasks ==
  ASSUME MaskingTypeOK, NEW m \in Mods, NEW S \in SUBSET LayerParams
  PROVE  /\ AreMasks(AddMasks(m, S))
         /\ \A l \in S : AddMasks(m, S)[l] # NoMask
         /\ \A l \in LayerParams \ S : AddMasks(m, S)[l] = masks[l]
  BY MaskingAssumption DEF MaskingTypeOK, AreMasks, AddMasks

(* A modifier that has its masks from the present weights is as it should be. *)
LEMMA NewMasksOK ==
  ASSUME MaskingTypeOK, NEW m \in Mods, NEW s \in Nat, InRange(m, s),
         modifiers' = modifiers, weight' = weight, s <= step', step' \in Nat,
         event' # "optim_post_step", NEW k, AreMasks(k),
         \/ /\ modifiers[m].kind = "constant"
            /\ masks' = ConstantMasks(m, k) /\ zeros'[m] = Zeros(weight)
         \/ /\ modifiers[m].kind = "magnitude"
            /\ masks' = MagnitudeMasks(m, Scheduled(m, s), k) /\ sparsities'[m] = Scheduled(m, s)
  PROVE  EnabledOK(m)'
<1>1. modifiers \in MaskRecipes /\ weight \in [LayerParams -> [Elements -> Nat]]
  BY DEF MaskingTypeOK
<1>2. Own(m)' = Own(m) /\ Own(m) \subseteq modifiers[m].targets /\ Own(m) \subseteq LayerParams
  BY <1>1, ModifierFields DEF Own, Mods
<1>3. CASE modifiers[m].kind = "constant"
  <2>1. masks' = ConstantMasks(m, k) /\ zeros'[m] = Zeros(weight)
    BY <1>3
  <2>2. ASSUME NEW l \in Own(m) PROVE ConstantMaskOK(m, l)'
    <3>1. masks'[l] = Nonzero(weight[l])
      BY <1>2, <2>1 DEF ConstantMasks
    <3>2. zeros'[m][l] = Zeros(weight)[l] /\ Zeros(weight)' = Zeros(weight)
      BY <2>1 DEF Zeros
    <3>3. Zeros(weight)[l] = {e \in Elements : weight[l][e] = 0}
      BY <1>2 DEF Zeros
    <3>4. Nonzero(weight[l]) \cap Zeros(weight)[l] = {} /\ Nonzero(weight[l]) \in SUBSET Elements
      BY <3>3 DEF Nonzero
    <3> QED
      BY <3>1, <3>2, <3>4 DEF ConstantMaskOK
  <2> QED
    BY <1>2, <1>3, <2>2 DEF EnabledOK
<1>4. CASE modifiers[m].kind = "magnitude"
  <2> DEFINE x == Scheduled(m, s)
             n == PruneElements(m, x)
  <2>1. masks' = MagnitudeMasks(m, x, k) /\ sparsities'[m] = x
    BY <1>4
  <2>2. x \in Nat /\ x <= SparsityUnits * Span(m)
    BY <1>1, ScheduleInLimits
  <2>3. n \in Nat /\ n <= Cardinality(Elements)
    <3>1. x <= x
      BY <2>2
    <3> HIDE DEF x
    <3> QED
      BY <1>1, <2>2, <3>1, PruneElementsInLimits
  <2>4. IsScheduled(m)'
    <3>1. Scheduled(m, s)' = Scheduled(m, s)
      BY DEF Scheduled, Span
    <3>2. InRange(m, s)'
      BY DEF InRange
    <3>3. s \in 0 .. step'
      OBVIOUS
    <3> HIDE DEF x
    <3>4. \E t \in 0 .. step' : InRange(m, t)' /\ sparsities'[m] = Scheduled(m, t)'
      BY <2>1, <3>1, <3>2, <3>3 DEF x
    <3> QED
      BY <3>4 DEF IsScheduled
  <2>5. PruneElements(m, sparsities[m])' = n
    BY <2>1 DEF PruneElements, Span
  <2> HIDE DEF n, x
  <2>6. ASSUME NEW l \in Own(m) PROVE MagnitudeMaskOK(m, l)'
    <3>1. masks'[l] = PruneWith(weight[l], n)
      BY <1>2, <2>1 DEF MagnitudeMasks, n
    <3>2. weight[l] \in [Elements -> Nat]
      BY <1>1, <1>2
    <3>3. Cardinality(Elements \ masks'[l]) >= n
      BY <2>3, <3>1, <3>2, PrunedAreEnough
    <3>4. masks'[l] \in SUBSET Elements /\ (n = 0 => masks'[l] = Elements)
      BY <3>1 DEF PruneWith
    <3>5. masks'[l] = PruneWith(weight'[l], n)
      BY <3>1
    <3> QED
      BY <2>5, <3>3, <3>4, <3>5 DEF MagnitudeMaskOK
  <2> QED
    BY <1>2, <1>4, <2>4, <2>6 DEF EnabledOK
<1> QED
  BY <1>3, <1>4

(* What keeps a modifier as it should be: its layers keep their masks, and zeros stay. *)
LEMMA StaysOK ==
  ASSUME MaskingTypeOK, NEW m \in Mods, EnabledOK(m), modifiers' = modifiers,
         modifiers[m].kind = "magnitude" => sparsities'[m] = sparsities[m],
         modifiers[m].kind = "constant" => zeros'[m] = zeros[m],
         step' \in Nat, step <= step',
         event' = "optim_post_step" => event = "optim_post_step", IsUntold(m) => IsUntold(m)',
         \A l \in Own(m) :
           /\ masks'[l] = masks[l]
           /\ weight'[l] = weight[l]
              \/ /\ event = "optim_post_step"
                 /\ \A e \in Elements : weight[l][e] = 0 => weight'[l][e] = 0
  PROVE  EnabledOK(m)'
<1>1. /\ modifiers \in MaskRecipes /\ step \in Nat
      /\ zeros \in [Mods -> [LayerParams -> SUBSET Elements]]
  BY DEF MaskingTypeOK
<1>2. Own(m)' = Own(m) /\ Own(m) \subseteq LayerParams
  BY <1>1, ModifierFields DEF Own, Mods
<1>3. \A l \in Own(m), e \in Elements : weight[l][e] = 0 => weight'[l][e] = 0
  OBVIOUS
<1>4. CASE modifiers[m].kind = "constant"
  <2>1. ASSUME NEW l \in Own(m) PROVE ConstantMaskOK(m, l)'
    <3>1. ConstantMaskOK(m, l)
      BY <1>4 DEF EnabledOK
    <3>2. masks'[l] = masks[l] /\ zeros'[m][l] = zeros[m][l]
      BY <1>4
    <3>3. Zeros(weight)[l] \subseteq Zeros(weight')[l]
      BY <1>2, <1>3 DEF Zeros
    <3>4. Zeros(weight)' = Zeros(weight')
      BY DEF Zeros
    <3> QED
      BY <3>1, <3>2, <3>3, <3>4 DEF ConstantMaskOK
  <2> QED
    BY <1>2, <1>4, <2>1 DEF EnabledOK
<1>5. CASE modifiers[m].kind # "constant"
  <2>1. modifiers[m].kind = "magnitude"
    BY <1>1, <1>5, ModifierFields
  <2>2. IsScheduled(m)'
    <3>1. PICK s \in 0 .. step : InRange(m, s) /\ sparsities[m] = Scheduled(m, s)
      BY <2>1 DEF EnabledOK, IsScheduled
    <3>2. Scheduled(m, s)' = Scheduled(m, s) /\ InRange(m, s)' = InRange(m, s)
      BY DEF Scheduled, Span, InRange
    <3>3. s \in 0 .. step'
      BY <1>1
    <3> QED
      BY <2>1, <3>1, <3>2, <3>3 DEF IsScheduled
  <2>3. ASSUME NEW l \in Own(m) PROVE MagnitudeMaskOK(m, l)'
    <3> DEFINE n == PruneElements(m, sparsities[m])
    <3>1. MagnitudeMaskOK(m, l)
      BY <1>5 DEF EnabledOK
    <3>2. n' = n
      BY <2>1 DEF PruneElements, Span
    <3>3. masks'[l] = masks[l]
      OBVIOUS
    <3>4. IsClear(l) => IsClear(l)'
      BY <1>3, <3>3 DEF IsClear
    <3>5. event # "optim_post_step" /\ masks[l] = PruneWith(weight[l], n) =>
            event' # "optim_post_step" /\ masks'[l] = PruneWith(weight'[l], n)
      BY <3>3
    <3>6. PruneElements(m, sparsities[m])' = n
      BY <3>2
    <3> HIDE DEF n
    <3>7. /\ masks[l] \in SUBSET Elements /\ Cardinality(Elements \ masks[l]) >= n
          /\ n = 0 => masks[l] = Elements
          /\ \/ IsUntold(m) \/ IsClear(l)
             \/ event # "optim_post_step" /\ masks[l] = PruneWith(weight[l], n)
      BY <3>1 DEF MagnitudeMaskOK, n
    <3>8. \/ IsUntold(m)' \/ IsClear(l)'
          \/ event' # "optim_post_step" /\ masks'[l] = PruneWith(weight'[l], n)
      BY <3>4, <3>5, <3>7
    <3> QED
      BY <3>3, <3>6, <3>7, <3>8 DEF MagnitudeMaskOK
  <2> QED
    BY <1>2, <1>5, <2>2, <2>3 DEF EnabledOK
<1> QED
  BY <1>4, <1>5

(* Layers of its own are those of no other modifier. *)
LEMMA OwnIsApart ==
  ASSUME NEW m \in Mods, NEW o \in Mods, m # o, NEW l \in Own(o)
  PROVE  l \in modifiers[o].targets /\ l \notin modifiers[m].targets
  BY DEF Own

LEMMA NoMaskIsNoMask == \A K \in SUBSET Elements : K # NoMask
  BY MaskingAssumption

(* The invariant holds at first, and every step keeps it. *)
LEMMA MaskingStarts == MaskingInit => MaskingInv
<1> SUFFICES ASSUME MaskingInit PROVE MaskingInv
  OBVIOUS
<1>1. modifiers \in MaskRecipes
  BY DEF MaskingInit
<1>2. visits \in Seq(Mods) /\ \A m \in Mods : IsNext(m)
  BY <1>1, AllVisits DEF MaskingInit, IsNext
<1>3. weight \in [LayerParams -> [Elements -> Nat]]
  BY MaskingAssumption DEF MaskingInit
<1>4. MaskingTypeOK
  <2>1. masked \in [Mods -> SUBSET LayerParams] /\ DOMAIN sparsities = Mods
    BY DEF MaskingInit
  <2>2. /\ masks \in [LayerParams -> (SUBSET Elements) \cup {NoMask}]
        /\ zeros \in [Mods -> [LayerParams -> SUBSET Elements]]
    BY DEF MaskingInit
  <2>3. /\ phase = "initialize" /\ event = "none" /\ step \in Nat
        /\ started = {} /\ ended = {} /\ enabled = {}
    BY DEF MaskingInit
  <2> QED
    BY <1>1, <1>2, <1>3, <2>1, <2>2, <2>3 DEF MaskingTypeOK
<1>5. RemovalInv
  BY <1>2 DEF MaskingInit, RemovalInv, MaskEvents
<1>6. RangesInv /\ MasksOK
  BY <1>2 DEF MaskingInit, RangesInv, MasksOK
<1> QED
  BY <1>4, <1>5, <1>6 DEF MaskingInv

(* What on_start leaves. *)
LEMMA OnStartLeaves ==
  ASSUME MaskingTypeOK, NEW m \in Mods, NEW s \in Nat, StartsAt(m, s), NEW k, AreMasks(k),
         OnStart(m, s, k), modifiers' = modifiers, weight' = weight,
         step' \in Nat, s <= step', event' # "optim_post_step"
  PROVE  /\ AreMasks(masks')
         /\ \A l \in LayerParams :
              IF l \in modifiers[m].targets THEN masks'[l] \in SUBSET Elements ELSE masks'[l] = k[l]
         /\ DOMAIN sparsities' = Mods /\ zeros' \in [Mods -> [LayerParams -> SUBSET Elements]]
         /\ \A o \in Mods \ {m} : sparsities'[o] = sparsities[o] /\ zeros'[o] = zeros[o]
         /\ EnabledOK(m)'
<1>1. /\ modifiers \in MaskRecipes /\ DOMAIN sparsities = Mods
      /\ zeros \in [Mods -> [LayerParams -> SUBSET Elements]]
  BY DEF MaskingTypeOK
<1>2. modifiers[m].kind \in {"constant", "magnitude"} /\ InRange(m, s)
  <2>1. modifiers[m].start \in Nat /\ modifiers[m].end \in Nat
    BY <1>1, ModifierFields
  <2> QED
    BY <1>1, <2>1, ModifierFields DEF StartsAt, InRange
<1>3. \/ /\ modifiers[m].kind = "constant" /\ sparsities' = sparsities
         /\ masks' = ConstantMasks(m, k) /\ zeros' = [zeros EXCEPT ![m] = Zeros(weight)]
      \/ /\ modifiers[m].kind = "magnitude"
         /\ masks' = MagnitudeMasks(m, Scheduled(m, s), k)
         /\ sparsities' = [sparsities EXCEPT ![m] = Scheduled(m, s)]
         /\ zeros' = [zeros EXCEPT ![m] = Zeros(weight)]
  BY <1>2 DEF OnStart
<1>4. Zeros(weight) \in [LayerParams -> SUBSET Elements]
  BY DEF Zeros
<1>5. EnabledOK(m)'
  <2>1. \/ /\ modifiers[m].kind = "constant"
           /\ masks' = ConstantMasks(m, k) /\ zeros'[m] = Zeros(weight)
        \/ /\ modifiers[m].kind = "magnitude"
           /\ masks' = MagnitudeMasks(m, Scheduled(m, s), k) /\ sparsities'[m] = Scheduled(m, s)
    BY <1>1, <1>3
  <2> QED
    BY <1>2, <2>1, NewMasksOK
<1>6. /\ AreMasks(masks')
      /\ \A l \in LayerParams :
           IF l \in modifiers[m].targets THEN masks'[l] \in SUBSET Elements ELSE masks'[l] = k[l]
  BY <1>3, NewMasks
<1>7. DOMAIN sparsities' = Mods /\ zeros' \in [Mods -> [LayerParams -> SUBSET Elements]]
  BY <1>1, <1>3, <1>4
<1>8. \A o \in Mods \ {m} : sparsities'[o] = sparsities[o] /\ zeros'[o] = zeros[o]
  BY <1>1, <1>3
<1> QED
  BY <1>5, <1>6, <1>7, <1>8

-----------------------------------------------------------------------------
(* initialize *)

LEMMA InitializeMasksKeeps == MaskingInv /\ InitializeMasks => MaskingInv'
<1> SUFFICES ASSUME MaskingInv, InitializeMasks PROVE MaskingInv'
  OBVIOUS
<1>1. /\ MaskingTypeOK /\ RemovalInv /\ RangesInv /\ MasksOK
      /\ phase = "initialize" /\ step = 0 /\ event = "none" /\ visits # <<>>
  BY DEF MaskingInv, InitializeMasks, IsActive, RangesInv
<1>2. PICK m \in Mods : /\ m = Head(visits)
                       /\ visits' = Tail(visits) /\ Tail(visits) \in Seq(Mods)
                       /\ \A o \in Mods : IsNext(o) => o = m \/ IsNext(o)'
  BY <1>1, FirstVisit DEF InitializeMasks, IsNext
<1> DEFINE L == modifiers[m].targets
           k == AddMasks(m, L)
<1>3. /\ modifiers' = modifiers /\ useHooks' = useHooks /\ persistent' = persistent
      /\ phase' = phase /\ event' = event /\ step' = step /\ ended' = ended /\ weight' = weight
      /\ masked' = [masked EXCEPT ![m] = L]
      /\ IF StartsAt(m, 0) THEN OnStart(m, 0, k)
         ELSE masks' = k /\ UNCHANGED <<sparsities, enabled, started, zeros>>
  BY <1>2 DEF InitializeMasks, maskingSetup
<1>4. L \subseteq LayerParams /\ AreMasks(k)
      /\ \A l \in LayerParams : IF l \in L THEN k[l] # NoMask ELSE k[l] = masks[l]
  <2>1. L \subseteq LayerParams
    BY <1>1, <1>2, ModifierFields DEF MaskingTypeOK
  <2> QED
    BY <1>1, <1>2, <2>1, AddedMasks
<1> HIDE DEF L, k
<1> DEFINE S == IF StartsAt(m, 0) THEN {m} ELSE {}
<1>5. /\ AreMasks(masks')
      /\ \A l \in LayerParams : IF l \in L THEN masks'[l] # NoMask ELSE masks'[l] = masks[l]
      /\ DOMAIN sparsities' = Mods /\ zeros' \in [Mods -> [LayerParams -> SUBSET Elements]]
      /\ \A o \in Mods \ S : sparsities'[o] = sparsities[o] /\ zeros'[o] = zeros[o]
      /\ enabled' = enabled \cup S /\ started' = started \cup S
      /\ m \in S => EnabledOK(m)'
  <2>1. CASE StartsAt(m, 0)
    <3>1. OnStart(m, 0, k) /\ 0 \in Nat /\ 0 <= step' /\ step' \in Nat /\ event' # "optim_post_step"
      BY <1>1, <1>3, <2>1
    <3>2. /\ AreMasks(masks')
          /\ \A l \in LayerParams :
               IF l \in L THEN masks'[l] \in SUBSET Elements ELSE masks'[l] = k[l]
          /\ DOMAIN sparsities' = Mods /\ zeros' \in [Mods -> [LayerParams -> SUBSET Elements]]
          /\ \A o \in Mods \ {m} : sparsities'[o] = sparsities[o] /\ zeros'[o] = zeros[o]
          /\ EnabledOK(m)'
      BY <1>1, <1>2, <1>3, <1>4, <2>1, <3>1, OnStartLeaves DEF L
    <3>3. enabled' = enabled \cup {m} /\ started' = started \cup {m}
      BY <3>1 DEF OnStart
    <3> QED
      BY <1>4, <2>1, <3>2, <3>3, NoMaskIsNoMask
  <2>2. CASE ~ StartsAt(m, 0)
    BY <1>1, <1>3, <1>4, <2>2 DEF MaskingTypeOK
  <2> QED
    BY <2>1, <2>2
<1>6. m \in S => /\ modifiers[m].start \in Nat /\ modifiers[m].end \in Nat
                 /\ modifiers[m].start <= 0 /\ 0 < modifiers[m].end
  BY <1>1, <1>2, ModifierFields DEF StartsAt, MaskingTypeOK
<1>7. m \in enabled => m \in S
  <2> SUFFICES ASSUME m \in enabled PROVE StartsAt(m, 0)
    OBVIOUS
  <2>1. m \in started /\ modifiers[m].start <= 0 /\ modifiers[m].start < modifiers[m].end
    BY <1>1 DEF RangesInv
  <2>2. modifiers[m].start \in Nat /\ modifiers[m].end \in Nat
    BY <1>1, <1>2, ModifierFields DEF MaskingTypeOK
  <2> QED
    BY <2>1, <2>2 DEF StartsAt
<1>8. S \subseteq {m}
  OBVIOUS
<1> HIDE DEF S
<1>9. Mods' = Mods /\ masked'[m] = L /\ \A o \in Mods \ {m} : masked'[o] = masked[o]
  BY <1>1, <1>2, <1>3 DEF MaskingTypeOK, Mods
<1>10. MaskingTypeOK'
  BY <1>1, <1>2, <1>3, <1>4, <1>5, <1>8, <1>9 DEF MaskingTypeOK, AreMasks
<1>11. MasksOK'
  <2> SUFFICES ASSUME NEW o \in enabled' PROVE EnabledOK(o)'
    BY DEF MasksOK
  <2>1. CASE o \in S
    BY <1>5, <1>8, <2>1
  <2>2. CASE o \notin S
    <3>1. o \in Mods /\ EnabledOK(o) /\ o # m
      BY <1>1, <1>5, <1>7, <2>2 DEF MasksOK, MaskingTypeOK
    <3>2. \A l \in Own(o) : l \in LayerParams /\ l \notin L
      BY <1>1, <1>2, <3>1, OwnIsApart, ModifierFields DEF MaskingTypeOK, L
    <3>3. \A l \in Own(o) : masks'[l] = masks[l] /\ weight'[l] = weight[l]
      BY <1>3, <1>5, <3>2
    <3>4. IsUntold(o) => IsUntold(o)'
      BY <1>1 DEF IsUntold
    <3>5. sparsities'[o] = sparsities[o] /\ zeros'[o] = zeros[o]
      BY <1>5, <2>2, <3>1
    <3>6. step' \in Nat /\ step <= step' /\ event' = event
      BY <1>1, <1>3
    <3> QED
      BY <1>1, <1>3, <3>1, <3>3, <3>4, <3>5, <3>6, StaysOK
  <2> QED
    BY <2>1, <2>2
<1>12. RangesInv'
  <2>1. enabled' \subseteq started' \ ended'
    <3>1. m \in S => m \notin ended
      BY <1>1, <1>6 DEF RangesInv
    <3> QED
      BY <1>1, <1>3, <1>5, <1>8, <3>1 DEF RangesInv
  <2>2. \A o \in ended' : modifiers'[o].end <= step'
    BY <1>1, <1>3 DEF RangesInv
  <2>3. ASSUME NEW o \in started'
        PROVE  /\ modifiers'[o].start <= step' /\ modifiers'[o].start < modifiers'[o].end
               /\ masked'[o] = modifiers'[o].targets
    <3>1. CASE o \in S
      <4>1. o = m /\ modifiers[m].start < modifiers[m].end
        BY <1>6, <1>8, <3>1
      <4> QED
        BY <1>1, <1>3, <1>6, <1>9, <3>1, <4>1 DEF L
    <3>2. CASE o \notin S
      BY <1>1, <1>3, <1>5, <1>9, <3>2 DEF RangesInv, MaskingTypeOK, L
    <3> QED
      BY <3>1, <3>2
  <2>4. ASSUME NEW o \in started' \ ended' PROVE RunningInRange(o)'
    <3>1. CASE o \in S
      <4>1. o = m /\ modifiers[m].end # step' /\ step' <= modifiers[m].end
        BY <1>1, <1>3, <1>6, <1>8, <3>1
      <4> QED
        BY <1>3, <4>1 DEF RunningInRange
    <3>2. CASE o \notin S
      <4>1. RunningInRange(o)
        BY <1>1, <1>3, <1>5, <3>2 DEF RangesInv
      <4> QED
        BY <1>1, <1>3, <4>1 DEF RunningInRange, MaskEvents
    <3> QED
      BY <3>1, <3>2
  <2>5. ASSUME NEW o \in Mods, phase' = "train" \/ ~ IsNext(o)'
        PROVE  masked'[o] = modifiers'[o].targets
    BY <1>1, <1>2, <1>3, <1>9, <2>5 DEF RangesInv, L
  <2> QED
    BY <1>1, <1>3, <1>9, <2>1, <2>2, <2>3, <2>4, <2>5 DEF RangesInv
<1>13. RemovalInv'
  <2>1. Unshared' = Unshared
    BY <1>3, <1>9 DEF Unshared, Own
  <2>2. \A l \in LayerParams : masks'[l] # NoMask => l \in L \/ masks[l] # NoMask
    BY <1>5
  <2>3. \A o \in Mods : masked'[o] \subseteq modifiers'[o].targets
    BY <1>1, <1>3, <1>9 DEF RemovalInv, L
  <2>4. ASSUME NEW l \in LayerParams, masks'[l] # NoMask
        PROVE  \E o \in Mods : l \in modifiers'[o].targets
    BY <1>1, <1>2, <1>3, <2>2, <2>4 DEF RemovalInv, L
  <2>5. ASSUME ~ persistent', NEW l \in LayerParams, masks'[l] # NoMask
        PROVE  \E o \in Mods : l \in masked'[o]
    <3>1. CASE l \in L
      BY <1>2, <1>9, <3>1
    <3>2. CASE l \notin L
      <4>1. PICK o \in Mods : l \in masked[o]
        BY <1>1, <1>3, <2>2, <2>5, <3>2 DEF RemovalInv
      <4>2. masked[m] \subseteq L
        BY <1>1, <1>2 DEF RemovalInv, L
      <4> QED
        BY <1>9, <3>2, <4>1, <4>2
    <3> QED
      BY <3>1, <3>2
  <2>6. ASSUME Unshared', NEW o \in Mods, NEW l \in masked'[o]
        PROVE  masks'[l] # NoMask
    <3>1. l \in LayerParams
      BY <1>10, <1>9 DEF MaskingTypeOK
    <3>2. CASE l \in L
      BY <1>5, <3>1, <3>2
    <3>3. CASE l \notin L
      BY <1>1, <1>5, <1>9, <2>1, <2>6, <3>1, <3>3 DEF RemovalInv
    <3> QED
      BY <3>2, <3>3
  <2> QED
    BY <1>1, <1>3, <1>9, <2>3, <2>4, <2>5, <2>6 DEF RemovalInv, MaskEvents
<1> QED
  BY <1>10, <1>11, <1>12, <1>13 DEF MaskingInv

LEMMA InitializeHooksKeeps == MaskingInv /\ InitializeHooks => MaskingInv'
<1> SUFFICES ASSUME MaskingInv, InitializeHooks PROVE MaskingInv'
  OBVIOUS
<1>1. /\ MaskingTypeOK /\ RemovalInv /\ phase = "initialize" /\ event = "none" /\ visits # <<>>
  BY DEF MaskingInv, InitializeHooks, IsActive, RangesInv
<1>2. PICK m \in Mods : m = Head(visits)
  BY <1>1, FirstVisit
<1>3. PICK l \in modifiers[m].targets : l = FirstParam(modifiers[m].targets)
  BY <1>1, <1>2, FirstParamIsOne, ModifierFields DEF InitializeHooks, MaskingTypeOK
<1>4. /\ modifiers' = modifiers /\ useHooks' = useHooks /\ useHooks /\ phase' = "raised"
      /\ UNCHANGED <<visits, event, step, started, ended, enabled, sparsities, weight, zeros>>
      /\ masked' = [masked EXCEPT ![m] = {l}]
      /\ masks' = AddMasks(m, {l})
  BY <1>2, <1>3 DEF InitializeHooks, maskingSetup, flags, schedules
<1>5. l \in LayerParams /\ Mods' = Mods
  BY <1>1, <1>3, <1>4, ModifierFields DEF MaskingTypeOK, Mods
<1>6. /\ AreMasks(masks')
      /\ \A o \in LayerParams : o # l => masks'[o] = masks[o]
  BY <1>1, <1>4, <1>5, AddedMasks
<1>7. MaskingTypeOK'
  BY <1>1, <1>4, <1>5, <1>6 DEF MaskingTypeOK, AreMasks
<1>8. RemovalInv'
  <2>1. \A o \in Mods : masked'[o] \subseteq modifiers'[o].targets
    BY <1>1, <1>3, <1>4 DEF RemovalInv, MaskingTypeOK
  <2>2. \A o \in LayerParams : masks'[o] # NoMask => \E n \in Mods : o \in modifiers'[n].targets
    BY <1>1, <1>3, <1>4, <1>6 DEF RemovalInv
  <2> QED
    BY <1>1, <1>4, <1>5, <2>1, <2>2 DEF RemovalInv, MaskEvents
<1> QED
  BY <1>4, <1>7, <1>8 DEF MaskingInv, IsActive

-----------------------------------------------------------------------------
(* Events of the training loop *)

LEMMA EventsKeep ==
  MaskingInv /\ (BatchStart \/ OptimPreStep \/ OptimPostStep \/ BatchEnd) => MaskingInv'
<1> SUFFICES ASSUME MaskingInv, BatchStart \/ OptimPreStep \/ OptimPostStep \/ BatchEnd
             PROVE  MaskingInv'
  OBVIOUS
<1>1. /\ MaskingTypeOK /\ RemovalInv /\ RangesInv /\ MasksOK
      /\ phase \in {"initialize", "train"} /\ visits = <<>>
  BY DEF MaskingInv, BatchStart, OptimPreStep, OptimPostStep, BatchEnd, Quiet, IsActive
<1>2. /\ modifiers \in MaskRecipes /\ modifiers' = modifiers /\ Mods' = Mods
      /\ useHooks' = useHooks /\ persistent' = persistent
      /\ UNCHANGED <<started, ended, enabled, sparsities, masked, masks, zeros>>
      /\ visits' = [m \in Mods |-> m]
  BY <1>1 DEF BatchStart, OptimPreStep, OptimPostStep, BatchEnd, Post, maskingSetup, flags,
              schedules, buffers, MaskingTypeOK, Mods
<1>3. /\ event \in MaskEvents => phase = "train"
      /\ phase = "train" => event \in MaskEvents
  BY <1>1 DEF RemovalInv, RangesInv
<1>4. \/ /\ event \in {"none", "batch_end"} /\ event' = "batch_start"
         /\ step' \in {step, step + 1} /\ weight' = weight /\ phase' = "train"
      \/ event = "batch_start" /\ event' = "optim_pre_step" /\ step' = step /\ weight' = weight
      \/ /\ event = "optim_pre_step" /\ event' = "optim_post_step" /\ step' = step
         /\ weight' \in [LayerParams -> Values]
      \/ /\ event \in {"batch_start", "optim_post_step"} /\ event' = "batch_end"
         /\ step' = step /\ weight' = weight
  BY DEF BatchStart, OptimPreStep, OptimPostStep, BatchEnd, Post
<1>5. phase' = "train" /\ event' \in MaskEvents
  BY <1>3, <1>4 DEF BatchStart, OptimPreStep, OptimPostStep, BatchEnd, Post, MaskEvents
<1>6. step' \in Nat /\ step \in Nat /\ step <= step'
  BY <1>1, <1>4 DEF MaskingTypeOK
<1>7. visits' \in Seq(Mods) /\ (\A m \in Mods : IsNext(m)') /\ \A m : ~ IsNext(m)
  <2>1. \A m : m \in ToSet(visits') <=> m \in Mods
    BY <1>2, AllVisits
  <2>2. ToSet(visits) = {}
    BY <1>1 DEF ToSet
  <2> QED
    BY <1>2, <2>1, <2>2, AllVisits DEF IsNext
<1>8. weight' \in [LayerParams -> [Elements -> Nat]]
  BY <1>1, <1>4, MaskingAssumption DEF MaskingTypeOK
<1>9. MaskingTypeOK'
  BY <1>1, <1>2, <1>5, <1>6, <1>7, <1>8 DEF MaskingTypeOK
<1>10. RemovalInv'
  <2>1. Unshared' = Unshared
    BY <1>2 DEF Unshared, Own
  <2> QED
    BY <1>1, <1>2, <1>5, <2>1 DEF RemovalInv
<1>11. RangesInv'
  <2>1. ASSUME NEW m \in started \ ended PROVE RunningInRange(m)'
    <3>1. RunningInRange(m) /\ m \in Mods
      BY <1>1 DEF RangesInv, MaskingTypeOK
    <3>2. modifiers[m].end \in Nat
      BY <1>2, <3>1, ModifierFields
    <3>3. CASE event' = "batch_start"
      <4>1. step # modifiers[m].end
        BY <1>4, <1>7, <3>1, <3>3 DEF RunningInRange, MaskEvents
      <4>2. step' <= modifiers[m].end
        BY <1>4, <1>6, <3>1, <3>2, <3>3, <4>1 DEF RunningInRange
      <4> QED
        BY <1>2, <3>3, <4>2 DEF RunningInRange, MaskEvents
    <3>4. CASE event' # "batch_start"
      <4>1. step' = step
        BY <1>4, <3>4
      <4> QED
        BY <1>2, <1>5, <1>7, <3>1, <4>1 DEF RunningInRange
    <3> QED
      BY <3>3, <3>4
  <2>2. \A m \in ended : modifiers[m].end <= step'
    <3> SUFFICES ASSUME NEW m \in ended PROVE modifiers[m].end <= step'
      OBVIOUS
    <3>1. modifiers[m].end <= step /\ modifiers[m].end \in Nat
      BY <1>1, <1>2, ModifierFields DEF RangesInv, MaskingTypeOK
    <3> QED
      BY <1>6, <3>1
  <2>3. \A m \in started : /\ modifiers[m].start <= step' /\ modifiers[m].start < modifiers[m].end
                           /\ masked[m] = modifiers[m].targets
    <3> SUFFICES ASSUME NEW m \in started PROVE modifiers[m].start <= step'
      BY <1>1 DEF RangesInv
    <3>1. modifiers[m].start <= step /\ modifiers[m].start \in Nat
      BY <1>1, <1>2, ModifierFields DEF RangesInv, MaskingTypeOK
    <3> QED
      BY <1>6, <3>1
  <2>4. \A m \in Mods : masked[m] = modifiers[m].targets
    BY <1>1, <1>7 DEF RangesInv
  <2> QED
    BY <1>1, <1>2, <1>5, <2>1, <2>2, <2>3, <2>4 DEF RangesInv
<1>12. MasksOK'
  <2> SUFFICES ASSUME NEW m \in enabled PROVE EnabledOK(m)'
    BY <1>2 DEF MasksOK
  <2>1. m \in Mods /\ EnabledOK(m)
    BY <1>1 DEF MasksOK, MaskingTypeOK
  <2>2. ~ IsUntold(m)
    BY <1>7 DEF IsUntold
  <2>3. CASE event' # "optim_post_step"
    <3>1. weight' = weight
      BY <1>4, <2>3
    <3> QED
      BY <1>1, <1>2, <1>6, <2>1, <2>2, <2>3, <3>1, StaysOK
  <2>4. CASE event' = "optim_post_step"
    <3>1. IsUntold(m)' /\ step' = step
      BY <1>4, <1>7, <2>1, <2>4 DEF IsUntold
    <3>2. Own(m)' = Own(m)
      BY <1>2 DEF Own
    <3>3. CASE modifiers[m].kind = "constant"
      <4>1. ASSUME NEW l \in Own(m) PROVE ConstantMaskOK(m, l)'
        BY <1>2, <2>1, <3>1, <3>3 DEF EnabledOK, ConstantMaskOK
      <4> QED
        BY <1>2, <3>2, <3>3, <4>1 DEF EnabledOK
    <3>4. CASE modifiers[m].kind # "constant"
      <4>1. ASSUME NEW l \in Own(m) PROVE MagnitudeMaskOK(m, l)'
        <5>1. MagnitudeMaskOK(m, l)
          BY <2>1, <3>4 DEF EnabledOK
        <5>2. PruneElements(m, sparsities[m])' = PruneElements(m, sparsities[m])
          BY <1>2 DEF PruneElements, Span
        <5> QED
          BY <1>2, <3>1, <5>1, <5>2 DEF MagnitudeMaskOK
      <4>2. IsScheduled(m) => IsScheduled(m)'
        BY <1>2, <3>1 DEF IsScheduled, InRange, Scheduled, Span
      <4> QED
        BY <1>2, <2>1, <3>2, <3>4, <4>1, <4>2 DEF EnabledOK
    <3> QED
      BY <3>3, <3>4
  <2> QED
    BY <2>3, <2>4
<1> QED
  BY <1>9, <1>10, <1>11, <1>12 DEF MaskingInv

-----------------------------------------------------------------------------
(* finalize *)

LEMMA FinalizeMasksKeeps == MaskingInv /\ FinalizeMasks => MaskingInv'
<1> SUFFICES ASSUME MaskingInv, FinalizeMasks PROVE MaskingInv'
  OBVIOUS
<1>1. MaskingTypeOK /\ RemovalInv /\ phase # "raised"
  BY DEF MaskingInv, FinalizeMasks, Quiet
<1>2. /\ modifiers \in MaskRecipes /\ modifiers' = modifiers /\ Mods' = Mods
      /\ phase' = "finalize" /\ event' = "finalize" /\ visits' = [m \in Mods |-> m]
      /\ UNCHANGED <<useHooks, persistent, step, started, ended, enabled, sparsities, masked,
                     masks, weight, zeros>>
  BY <1>1 DEF FinalizeMasks, maskingSetup, flags, schedules, buffers, MaskingTypeOK, Mods
<1>3. visits' \in Seq(Mods) /\ \A m \in Mods : IsNext(m)'
  BY <1>2, AllVisits DEF IsNext
<1>4. MaskingTypeOK'
  BY <1>1, <1>2, <1>3 DEF MaskingTypeOK
<1>5. Unshared' = Unshared
  BY <1>2 DEF Unshared, Own
<1>6. RemovalInv'
  BY <1>1, <1>2, <1>3, <1>5 DEF RemovalInv, MaskEvents
<1> QED
  BY <1>2, <1>4, <1>6 DEF MaskingInv, IsActive

LEMMA RemoveMaskKeeps == MaskingInv /\ RemoveMask => MaskingInv'
<1> SUFFICES ASSUME MaskingInv, RemoveMask PROVE MaskingInv'
  OBVIOUS
<1>1. MaskingTypeOK /\ RemovalInv /\ phase = "finalize" /\ visits # <<>>
  BY DEF MaskingInv, RemoveMask
<1>2. PICK m \in Mods : m = Head(visits)
  BY <1>1, FirstVisit
<1>3. PICK l \in masked[m] : l = FirstParam(masked[m])
  <2>1. masked[m] \in SUBSET LayerParams /\ masked[m] # {}
    BY <1>1, <1>2 DEF RemoveMask, MaskingTypeOK
  <2> QED
    BY <2>1, FirstParamIsOne
<1>4. /\ modifiers' = modifiers /\ Mods' = Mods /\ Unshared' = Unshared
      /\ UNCHANGED <<useHooks, persistent, visits, event, step, started, ended, enabled,
                     sparsities, weight, zeros>>
  BY DEF RemoveMask, maskingSetup, flags, schedules, Mods, Unshared, Own
<1>5. \/ /\ ~ persistent /\ masks[l] = NoMask /\ phase' = "raised"
         /\ masked' = masked /\ masks' = masks
      \/ /\ masks' = IF persistent THEN masks ELSE [masks EXCEPT ![l] = NoMask]
         /\ masked' = [masked EXCEPT ![m] = @ \ {l}] /\ phase' = phase
  BY <1>2, <1>3 DEF RemoveMask
<1>6. MaskingTypeOK'
  <2>1. masks' \in [LayerParams -> (SUBSET Elements) \cup {NoMask}]
    BY <1>1, <1>5 DEF MaskingTypeOK
  <2>2. masked' \in [Mods -> SUBSET LayerParams]
    <3>1. masked \in [Mods -> SUBSET LayerParams]
      BY <1>1 DEF MaskingTypeOK
    <3>2. masked' = masked \/ masked' = [masked EXCEPT ![m] = masked[m] \ {l}]
      BY <1>5
    <3>3. masked[m] \ {l} \in SUBSET LayerParams
      BY <3>1
    <3> QED
      BY <3>1, <3>2, <3>3
  <2>3. phase' \in {"finalize", "raised"}
    BY <1>1, <1>5
  <2> QED
    BY <1>1, <1>4, <2>1, <2>2, <2>3 DEF MaskingTypeOK
<1>7. \A o \in Mods : masked'[o] \subseteq masked[o]
  BY <1>1, <1>5 DEF MaskingTypeOK
<1>8. \A o \in LayerParams : masks'[o] = masks[o] \/ masks'[o] = NoMask
  BY <1>1, <1>5 DEF MaskingTypeOK
<1>9. IsNext(m) /\ \A o \in Mods : IsNext(o)' <=> IsNext(o)
  <2>1. m \in ToSet(visits)
    BY <1>1, <1>2, FirstVisit
  <2>2. ToSet(visits)' = ToSet(visits)
    BY <1>4
  <2> QED
    BY <2>1, <2>2 DEF IsNext
<1>10. RemovalInv'
  <2>1. \A o \in Mods : masked'[o] \subseteq modifiers'[o].targets
    BY <1>1, <1>4, <1>7 DEF RemovalInv
  <2>2. \A o \in LayerParams : masks'[o] # NoMask => \E n \in Mods : o \in modifiers'[n].targets
    BY <1>1, <1>4, <1>8 DEF RemovalInv
  <2>3. ASSUME phase' # "raised", ~ persistent', NEW o \in LayerParams, masks'[o] # NoMask
        PROVE  \E n \in Mods : o \in masked'[n]
    <3>1. PICK n \in Mods : o \in masked[n]
      BY <1>1, <1>4, <1>8, <2>3 DEF RemovalInv
    <3>2. o # l
      BY <1>1, <1>4, <1>5, <2>3 DEF MaskingTypeOK
    <3> QED
      BY <1>1, <1>5, <2>3, <3>1, <3>2 DEF MaskingTypeOK
  <2>4. ASSUME phase' \in {"finalize", "done"}, NEW o \in Mods PROVE IsNext(o)' \/ masked'[o] = {}
    BY <1>1, <1>7, <1>9 DEF RemovalInv
  <2>5. phase' # "done" /\ (event' \in MaskEvents => phase' = "train")
    BY <1>1, <1>4, <1>5 DEF RemovalInv
  <2>6. ASSUME phase' # "raised", Unshared', NEW n \in Mods, NEW o \in masked'[n]
        PROVE  masks'[o] # NoMask
    <3>1. o \in masked[n] /\ masks[o] # NoMask /\ o \in LayerParams
      BY <1>1, <1>4, <1>7, <2>6 DEF RemovalInv, MaskingTypeOK
    <3>2. CASE o = l
      <4>1. n # m
        BY <1>1, <1>5, <2>6, <3>2 DEF MaskingTypeOK
      <4>2. l \in modifiers[m].targets /\ l \in modifiers[n].targets
        BY <1>1, <1>3, <3>1, <3>2 DEF RemovalInv
      <4>3. Own(m) = modifiers[m].targets
        BY <1>4, <2>6 DEF Unshared
      <4> QED
        BY <4>1, <4>2, <4>3, OwnIsApart
    <3>3. CASE o # l
      BY <1>1, <1>5, <3>1, <3>3 DEF MaskingTypeOK
    <3> QED
      BY <3>2, <3>3
  <2>7. phase' = "raised" => useHooks' \/ ~ Unshared'
    BY <1>1, <1>3, <1>4, <1>5 DEF RemovalInv
  <2> QED
    BY <1>4, <2>1, <2>2, <2>3, <2>4, <2>5, <2>6, <2>7 DEF RemovalInv
<1>11. ~ IsActive'
  BY <1>1, <1>5 DEF IsActive
<1> QED
  BY <1>6, <1>10, <1>11 DEF MaskingInv

LEMMA FinalizeNextKeeps == MaskingInv /\ FinalizeNext => MaskingInv'
<1> SUFFICES ASSUME MaskingInv, FinalizeNext PROVE MaskingInv'
  OBVIOUS
<1>1. MaskingTypeOK /\ RemovalInv /\ phase = "finalize" /\ visits # <<>>
  BY DEF MaskingInv, FinalizeNext
<1>2. PICK m \in Mods : /\ m = Head(visits) /\ masked[m] = {}
                        /\ visits' = Tail(visits) /\ Tail(visits) \in Seq(Mods)
                        /\ \A o \in Mods : IsNext(o) => o = m \/ IsNext(o)'
  BY <1>1, FirstVisit DEF FinalizeNext, IsNext
<1>3. /\ modifiers' = modifiers /\ Mods' = Mods /\ Unshared' = Unshared
      /\ phase' = IF visits' # <<>> THEN "finalize" ELSE "done"
      /\ UNCHANGED <<useHooks, persistent, event, step, started, ended, enabled, masked, masks,
                     sparsities, weight, zeros>>
  BY <1>2 DEF FinalizeNext, maskingSetup, schedules, buffers, Mods, Unshared, Own
<1>4. MaskingTypeOK'
  BY <1>1, <1>2, <1>3 DEF MaskingTypeOK
<1>5. \A o \in Mods : IsNext(o)' \/ masked'[o] = {}
  BY <1>1, <1>2, <1>3 DEF RemovalInv
<1>6. RemovalInv'
  BY <1>1, <1>3, <1>5 DEF RemovalInv, MaskEvents
<1> QED
  BY <1>3, <1>4, <1>6 DEF MaskingInv, IsActive

(* A running modifier is within its range. *)
LEMMA RunningIsInRange ==
  ASSUME MaskingTypeOK, RangesInv, NEW m \in started \ ended
  PROVE  m \in Mods /\ InRange(m, step)
  BY DEF MaskingTypeOK, RangesInv, RunningInRange, InRange

(* What an event makes of a modifier: of its masks and schedule, of the zeros of the
   weights, and of the other modifiers. *)
LEMMA UpdateLeaves ==
  ASSUME MaskingTypeOK, RangesInv, MasksOK, UpdateEvent, phase = "train",
         NEW m \in Mods, m = Head(visits)
  PROVE  /\ AreMasks(masks') /\ DOMAIN sparsities' = Mods
         /\ weight' \in [LayerParams -> [Elements -> Nat]]
         /\ zeros' \in [Mods -> [LayerParams -> SUBSET Elements]]
         /\ \A l \in LayerParams :
              masks'[l] = masks[l] \/ (l \in modifiers[m].targets /\ masks'[l] \in SUBSET Elements)
         /\ \A l \in LayerParams :
              \/ weight'[l] = weight[l]
              \/ /\ event = "optim_post_step"
                 /\ \A e \in Elements : weight[l][e] = 0 => weight'[l][e] = 0
         /\ \A o \in Mods \ {m} : sparsities'[o] = sparsities[o] /\ zeros'[o] = zeros[o]
         /\ m \in enabled' => EnabledOK(m)'
<1>1. /\ modifiers' = modifiers /\ event' = event /\ step' = step /\ visits' = Tail(visits)
      /\ modifiers \in MaskRecipes /\ step \in Nat /\ masked' = masked
      /\ AreMasks(masks) /\ DOMAIN sparsities = Mods
      /\ weight \in [LayerParams -> [Elements -> Nat]]
      /\ zeros \in [Mods -> [LayerParams -> SUBSET Elements]]
  BY DEF UpdateEvent, maskingSetup, MaskingTypeOK, AreMasks
<1>2. step' \in Nat /\ step <= step'
  BY <1>1
<1>3. m \in enabled => m \in started \ ended /\ EnabledOK(m)
  BY DEF RangesInv, MasksOK
<1>4. CASE Starts(m) /\ OnStart(m, step, masks) /\ UNCHANGED <<ended, weight>>
  <2>1. StartsAt(m, step) /\ event' # "optim_post_step"
    BY <1>1, <1>4 DEF Starts
  <2> QED
    BY <1>1, <1>2, <1>4, <2>1, OnStartLeaves
<1>5. CASE Ends(m) /\ enabled' = enabled \ {m} /\ UNCHANGED <<sparsities, masks, weight, zeros>>
  BY <1>1, <1>5
<1>6. CASE /\ m \in started \ ended /\ event = "batch_start"
           /\ modifiers[m].kind = "magnitude" /\ Scheduled(m, step) # sparsities[m]
           /\ sparsities' = [sparsities EXCEPT ![m] = Scheduled(m, step)]
           /\ masks' = MagnitudeMasks(m, Scheduled(m, step), masks)
           /\ UNCHANGED <<enabled, weight, zeros>>
  <2>1. /\ AreMasks(masks')
        /\ \A l \in LayerParams : IF l \in modifiers[m].targets THEN masks'[l] \in SUBSET Elements
                                  ELSE masks'[l] = masks[l]
    BY <1>1, <1>6, NewMasks
  <2>2. sparsities'[m] = Scheduled(m, step) /\ InRange(m, step) /\ event' # "optim_post_step"
    BY <1>1, <1>6, RunningIsInRange
  <2>3. EnabledOK(m)'
    BY <1>1, <1>2, <1>6, <2>2, NewMasksOK
  <2> QED
    BY <1>1, <1>6, <2>1, <2>3
<1>7. CASE /\ m \in started \ ended /\ event = "optim_post_step" /\ Apply(m)
           /\ UNCHANGED <<enabled, sparsities, masks, zeros>>
  <2>1. weight' = [l \in LayerParams |->
          IF /\ masks[l] # NoMask
             /\ modifiers[m].kind = "constant" \/ (m \in enabled /\ l \in masked[m])
          THEN Masked(weight[l], masks[l]) ELSE weight[l]]
    BY <1>7 DEF Apply
  <2>2. ASSUME NEW l \in LayerParams, NEW K
        PROVE  /\ Masked(weight[l], K) \in [Elements -> Nat]
               /\ \A e \in Elements : weight[l][e] = 0 => Masked(weight[l], K)[e] = 0
               /\ \A e \in Elements \ K : Masked(weight[l], K)[e] = 0
    BY <1>1 DEF Masked
  <2>3. weight' \in [LayerParams -> [Elements -> Nat]]
    BY <1>1, <2>1, <2>2
  <2>4. \A l \in LayerParams : \A e \in Elements : weight[l][e] = 0 => weight'[l][e] = 0
    BY <2>1, <2>2
  <2>5. ASSUME m \in enabled' PROVE EnabledOK(m)'
    <3>1. /\ m \in enabled /\ EnabledOK(m) /\ Own(m)' = Own(m)
          /\ Own(m) \subseteq modifiers[m].targets /\ masked[m] = modifiers[m].targets
          /\ modifiers[m].targets \subseteq LayerParams
      BY <1>1, <1>3, <1>7, <2>5, ModifierFields DEF Own, RangesInv, Mods
    <3>2. ASSUME NEW l \in Own(m), masks[l] \in SUBSET Elements
          PROVE  \A e \in Elements \ masks[l] : weight'[l][e] = 0
      <4>1. weight'[l] = Masked(weight[l], masks[l])
        BY <2>1, <3>1, <3>2, NoMaskIsNoMask
      <4> QED
        BY <2>2, <3>1, <4>1
    <3>3. CASE modifiers[m].kind = "constant"
      <4>1. ASSUME NEW l \in Own(m) PROVE ConstantMaskOK(m, l)'
        <5>1. masks[l] \in SUBSET Elements /\ masks[l] \cap zeros[m][l] = {}
          BY <3>1, <3>3 DEF EnabledOK, ConstantMaskOK
        <5>2. zeros[m][l] \subseteq Elements /\ l \in LayerParams
          BY <1>1, <3>1
        <5>3. zeros[m][l] \subseteq {e \in Elements : weight'[l][e] = 0}
          BY <3>2, <5>1, <5>2
        <5>4. Zeros(weight)'[l] = {e \in Elements : weight'[l][e] = 0}
          BY <5>2 DEF Zeros
        <5>5. masks' = masks /\ zeros' = zeros
          BY <1>7
        <5> QED
          BY <5>1, <5>3, <5>4, <5>5 DEF ConstantMaskOK
      <4> QED
        BY <1>1, <3>1, <3>3, <4>1 DEF EnabledOK
    <3>4. CASE modifiers[m].kind # "constant"
      <4>1. ASSUME NEW l \in Own(m) PROVE MagnitudeMaskOK(m, l)'
        <5>1. MagnitudeMaskOK(m, l)
          BY <3>1, <3>4 DEF EnabledOK
        <5>2. PruneElements(m, sparsities[m])' = PruneElements(m, sparsities[m])
          BY <1>1, <1>7 DEF PruneElements, Span
        <5>3. masks' = masks /\ IsClear(l)'
          BY <1>7, <3>2, <5>1 DEF MagnitudeMaskOK, IsClear
        <5> QED
          BY <5>1, <5>2, <5>3 DEF MagnitudeMaskOK
      <4>2. IsScheduled(m) => IsScheduled(m)'
        BY <1>1, <1>7 DEF IsScheduled, InRange, Scheduled, Span
      <4> QED
        BY <1>1, <3>1, <3>4, <4>1, <4>2 DEF EnabledOK
    <3> QED
      BY <3>3, <3>4
  <2> QED
    BY <1>1, <1>7, <2>3, <2>4, <2>5
<1>8. CASE /\ ~ (m \in started \ ended /\ event = "optim_post_step")
           /\ UNCHANGED <<enabled, sparsities, masks, weight, zeros>>
  <2>1. ASSUME m \in enabled' PROVE EnabledOK(m)'
    <3>1. EnabledOK(m) /\ event # "optim_post_step"
      BY <1>3, <1>8, <2>1
    <3>2. ~ IsUntold(m)
      BY <3>1 DEF IsUntold
    <3> QED
      BY <1>1, <1>2, <1>8, <3>1, <3>2, StaysOK
  <2> QED
    BY <1>1, <1>8, <2>1
<1> QED
  <2>1. \/ /\ Starts(m) /\ OnStart(m, step, masks) /\ UNCHANGED <<ended, weight>>
        \/ /\ Ends(m) /\ enabled' = enabled \ {m} /\ UNCHANGED <<sparsities, masks, weight, zeros>>
        \/ /\ IF m \in started \ ended /\ event = "batch_start" THEN OnBatchStart(m)
              ELSE UNCHANGED <<sparsities, masks>>
           /\ IF m \in started \ ended /\ Applies(m, event) THEN Apply(m) ELSE UNCHANGED weight
           /\ UNCHANGED <<enabled, zeros>>
    BY DEF UpdateEvent
  <2> QED
    BY <1>4, <1>5, <1>6, <1>7, <1>8, <2>1 DEF OnBatchStart, Applies

LEMMA UpdateEventKeeps == MaskingInv /\ UpdateEvent => MaskingInv'
<1> SUFFICES ASSUME MaskingInv, UpdateEvent PROVE MaskingInv'
  OBVIOUS
<1>1. MaskingTypeOK /\ RemovalInv /\ RangesInv /\ MasksOK /\ phase = "train" /\ visits # <<>>
  BY DEF MaskingInv, UpdateEvent, IsActive
<1>2. PICK m \in Mods : /\ m = Head(visits)
                        /\ visits' = Tail(visits) /\ Tail(visits) \in Seq(Mods)
                        /\ \A o \in Mods : IsNext(o) => o = m \/ IsNext(o)'
  BY <1>1, FirstVisit DEF UpdateEvent, IsNext
<1>3. /\ modifiers' = modifiers /\ Mods' = Mods /\ Unshared' = Unshared
      /\ UNCHANGED <<useHooks, persistent, phase, event, step, masked>>
      /\ event \in MaskEvents /\ step \in Nat /\ modifiers \in MaskRecipes
      /\ \A o \in Mods : masked[o] = modifiers[o].targets
  BY <1>1 DEF UpdateEvent, maskingSetup, Mods, Unshared, Own, RangesInv, MaskingTypeOK
<1>4. /\ AreMasks(masks') /\ DOMAIN sparsities' = Mods
      /\ weight' \in [LayerParams -> [Elements -> Nat]]
      /\ zeros' \in [Mods -> [LayerParams -> SUBSET Elements]]
      /\ \A l \in LayerParams :
           masks'[l] = masks[l] \/ (l \in modifiers[m].targets /\ masks'[l] \in SUBSET Elements)
      /\ \A l \in LayerParams :
           \/ weight'[l] = weight[l]
           \/ /\ event = "optim_post_step"
              /\ \A e \in Elements : weight[l][e] = 0 => weight'[l][e] = 0
      /\ \A o \in Mods \ {m} : sparsities'[o] = sparsities[o] /\ zeros'[o] = zeros[o]
      /\ m \in enabled' => EnabledOK(m)'
  BY <1>1, <1>2, UpdateLeaves
<1>5. \/ /\ Starts(m) /\ ended' = ended
         /\ started' = started \cup {m} /\ enabled' = enabled \cup {m}
      \/ /\ Ends(m) /\ started' = started
         /\ ended' = ended \cup {m} /\ enabled' = enabled \ {m}
      \/ ~ Starts(m) /\ ~ Ends(m) /\ UNCHANGED <<started, ended, enabled>>
  BY <1>2 DEF UpdateEvent, OnStart
<1>6. /\ modifiers[m].start \in Nat /\ modifiers[m].end \in Nat
      /\ modifiers[m].targets \subseteq LayerParams
  BY <1>3, ModifierFields
<1>7. Starts(m) => /\ event = "batch_start" /\ m \notin ended
                   /\ modifiers[m].start <= step /\ step < modifiers[m].end
  BY <1>1, <1>3, <1>6 DEF Starts, StartsAt, RangesInv
<1>8. MaskingTypeOK'
  BY <1>1, <1>2, <1>3, <1>4, <1>5 DEF MaskingTypeOK, AreMasks
<1>9. RemovalInv'
  <2>1. \A l \in LayerParams : masks'[l] # NoMask => masks[l] # NoMask \/ l \in masked[m]
    BY <1>3, <1>4
  <2>2. \A l \in LayerParams : masks[l] # NoMask => masks'[l] # NoMask
    BY <1>4, NoMaskIsNoMask
  <2>3. \A o \in Mods : masked[o] \subseteq LayerParams
    BY <1>1 DEF MaskingTypeOK
  <2>4. \A l \in LayerParams : masks'[l] # NoMask => \E o \in Mods : l \in modifiers'[o].targets
    BY <1>1, <1>3, <2>1 DEF RemovalInv
  <2>5. ASSUME ~ persistent', NEW l \in LayerParams, masks'[l] # NoMask
        PROVE  \E o \in Mods : l \in masked'[o]
    BY <1>1, <1>3, <2>1, <2>5 DEF RemovalInv
  <2>6. Unshared' => \A o \in Mods : \A l \in masked'[o] : masks'[l] # NoMask
    BY <1>1, <1>3, <2>2, <2>3 DEF RemovalInv
  <2> QED
    BY <1>1, <1>3, <2>4, <2>5, <2>6 DEF RemovalInv
<1>10. RangesInv'
  <2>1. enabled' \subseteq started' \ ended'
    BY <1>1, <1>5, <1>7 DEF RangesInv
  <2>2. \A o \in ended' : modifiers[o].end <= step
    BY <1>1, <1>5 DEF RangesInv, Ends, EndsAt
  <2>3. \A o \in started' : modifiers[o].start <= step /\ modifiers[o].start < modifiers[o].end
    BY <1>1, <1>3, <1>5, <1>6, <1>7 DEF RangesInv
  <2>4. ASSUME NEW o \in started' \ ended' PROVE RunningInRange(o)'
    <3>1. CASE Starts(m) /\ o = m
      <4>1. step' <= modifiers'[m].end /\ step' # modifiers'[m].end
        BY <1>3, <1>6, <1>7, <3>1
      <4> QED
        BY <3>1, <4>1 DEF RunningInRange
    <3>2. CASE ~ (Starts(m) /\ o = m)
      <4>1. o \in started \ ended /\ RunningInRange(o) /\ o \in Mods
        BY <1>1, <1>5, <2>4, <3>2 DEF RangesInv, MaskingTypeOK
      <4>2. ASSUME step = modifiers[o].end, event = "batch_end" PROVE IsNext(o)'
        <5>1. IsNext(o)
          BY <4>1, <4>2 DEF RunningInRange
        <5>2. o # m
          <6>1. o = m => Ends(m)
            BY <1>6, <4>1, <4>2 DEF Ends, EndsAt
          <6> QED
            BY <1>5, <2>4, <6>1, <4>2 DEF Starts
        <5> QED
          BY <1>2, <4>1, <5>1, <5>2
      <4> QED
        BY <1>3, <4>1, <4>2 DEF RunningInRange
    <3> QED
      BY <3>1, <3>2
  <2>5. started' \subseteq Mods
    BY <1>8, <1>3 DEF MaskingTypeOK
  <2> QED
    BY <1>1, <1>3, <2>1, <2>2, <2>3, <2>4, <2>5 DEF RangesInv
<1>11. MasksOK'
  <2> SUFFICES ASSUME NEW o \in enabled', o # m PROVE EnabledOK(o)'
    BY <1>4 DEF MasksOK
  <2>1. o \in Mods /\ EnabledOK(o)
    BY <1>1, <1>5 DEF MasksOK, MaskingTypeOK
  <2>2. \A l \in Own(o) : l \in LayerParams /\ l \notin modifiers[m].targets
    BY <1>3, <2>1, OwnIsApart, ModifierFields
  <2>3. IsUntold(o) => IsUntold(o)'
    BY <1>2, <1>3, <2>1 DEF IsUntold
  <2>4. step' \in Nat /\ step <= step'
    BY <1>3
  <2> QED
    BY <1>1, <1>3, <1>4, <2>1, <2>2, <2>3, <2>4, StaysOK
<1> QED
  BY <1>8, <1>9, <1>10, <1>11 DEF MaskingInv

-----------------------------------------------------------------------------

LEMMA MaskingStutters == MaskingInv /\ UNCHANGED maskingVars => MaskingInv'
<1> SUFFICES ASSUME MaskingInv, UNCHANGED maskingVars PROVE MaskingInv'
  OBVIOUS
<1> USE DEF maskingVars, maskingSetup, flags, schedules, buffers
<1>1. MaskingTypeOK => MaskingTypeOK'
  BY DEF MaskingTypeOK, Mods
<1>2. RemovalInv => RemovalInv'
  BY DEF RemovalInv, Mods, IsNext, Unshared, Own
<1>3. RangesInv => RangesInv'
  BY DEF RangesInv, Mods, IsNext, RunningInRange
<1>4. MaskingTypeOK /\ MasksOK => MasksOK'
  <2> SUFFICES ASSUME MaskingTypeOK, MasksOK, NEW m \in enabled PROVE EnabledOK(m)'
    BY DEF MasksOK
  <2>1. m \in Mods /\ EnabledOK(m) /\ step \in Nat /\ step <= step'
    BY DEF MasksOK, MaskingTypeOK
  <2>2. IsUntold(m) => IsUntold(m)'
    BY DEF IsUntold, IsNext
  <2>3. UNCHANGED <<modifiers, sparsities, zeros, step, event, masks, weight>>
    OBVIOUS
  <2> QED
    BY <2>1, <2>2, <2>3, StaysOK
<1> QED
  BY <1>1, <1>2, <1>3, <1>4 DEF MaskingInv, IsActive

LEMMA MaskingStep == MaskingInv /\ [MaskingNext]_maskingVars => MaskingInv'
  BY InitializeMasksKeeps, InitializeHooksKeeps, EventsKeep, UpdateEventKeeps, FinalizeMasksKeeps,
     RemoveMaskKeeps, FinalizeNextKeeps, MaskingStutters DEF MaskingNext

(* The invariant says what is wanted. *)
LEMMA MasksOfInv == MaskingInv => MasksAreKept
<1> SUFFICES ASSUME MaskingInv PROVE SparsityIsKept /\ FinalizedIsClean
  BY DEF MasksAreKept
<1>1. MaskingTypeOK /\ RemovalInv /\ modifiers \in MaskRecipes
  BY DEF MaskingInv, MaskingTypeOK
<1>2. SparsityIsKept
  <2> SUFFICES ASSUME event = "optim_post_step", visits = <<>>,
                      NEW m \in enabled, NEW l \in Own(m)
               PROVE  IF modifiers[m].kind = "constant" THEN zeros[m][l] \subseteq Zeros(weight)[l]
                      ELSE Cardinality(Zeros(weight)[l]) >= PruneElements(m, sparsities[m])
    BY DEF SparsityIsKept
  <2>1. EnabledOK(m) /\ m \in Mods
    BY <1>1 DEF MaskingInv, RemovalInv, IsActive, MasksOK, MaskEvents, MaskingTypeOK
  <2>2. ~ IsUntold(m)
    BY DEF IsUntold, IsNext, ToSet
  <2>3. CASE modifiers[m].kind = "constant"
    BY <2>1, <2>2, <2>3 DEF EnabledOK, ConstantMaskOK
  <2>4. CASE modifiers[m].kind # "constant"
    <3> DEFINE n == PruneElements(m, sparsities[m])
    <3>1. MagnitudeMaskOK(m, l)
      BY <2>1, <2>4 DEF EnabledOK
    <3>2. Cardinality(Elements \ masks[l]) >= n /\ IsClear(l)
      BY <2>2, <3>1 DEF MagnitudeMaskOK
    <3>3. l \in LayerParams
      BY <1>1, <2>1, ModifierFields DEF Own
    <3>4. n \in Nat
      <4>1. modifiers[m].kind = "magnitude"
        BY <1>1, <2>1, <2>4, ModifierFields
      <4>2. PICK s \in 0 .. step : InRange(m, s) /\ sparsities[m] = Scheduled(m, s)
        BY <2>1, <4>1 DEF EnabledOK, IsScheduled
      <4>3. s \in Nat
        BY <1>1, <4>2 DEF MaskingTypeOK
      <4> DEFINE x == Scheduled(m, s)
      <4>4. x \in Nat /\ x <= SparsityUnits * Span(m)
        BY <1>1, <2>1, <4>2, <4>3, ScheduleInLimits
      <4>5. x <= x
        BY <4>4
      <4> HIDE DEF x
      <4>6. PruneElements(m, x) \in Nat
        BY <1>1, <2>1, <4>2, <4>3, <4>4, <4>5, PruneElementsInLimits
      <4> QED
        BY <4>2, <4>6 DEF x
    <3>5. Elements \ masks[l] \subseteq Zeros(weight)[l] /\ Zeros(weight)[l] \subseteq Elements
      BY <3>2, <3>3 DEF IsClear, Zeros
    <3>6. /\ Cardinality(Elements \ masks[l]) <= Cardinality(Zeros(weight)[l])
          /\ Cardinality(Elements \ masks[l]) \in Nat /\ Cardinality(Zeros(weight)[l]) \in Nat
      BY <3>5, MaskingAssumption, FS_Subset, FS_CardinalityType
    <3> HIDE DEF n
    <3>7. Cardinality(Zeros(weight)[l]) >= n
      BY <3>2, <3>4, <3>6
    <3> QED
      BY <2>4, <3>7 DEF n
  <2> QED
    BY <2>3, <2>4
<1>3. FinalizedIsClean
  <2>1. ASSUME phase = "done"
        PROVE  /\ \A m \in Mods : masked[m] = {}
               /\ \A l \in LayerParams : masks[l] = NoMask \/
                    (persistent /\ \E m \in Mods : l \in modifiers[m].targets)
    <3>1. \A m \in Mods : masked[m] = {}
      BY <1>1, <2>1 DEF RemovalInv, IsNext, ToSet
    <3> QED
      BY <1>1, <2>1, <3>1 DEF RemovalInv
  <2>2. phase = "raised" => useHooks \/ \E m \in Mods : Own(m) # modifiers[m].targets
    BY <1>1 DEF RemovalInv, Unshared
  <2> QED
    BY <2>1, <2>2 DEF FinalizedIsClean
<1> QED
  BY <1>2, <1>3

(* After every optimizer step has been handled, each enabled modifier finds its layers as
   sparse as it wants them (ConstantPruningModifier.on_update, MagnitudePruningModifier
   ._update_masks), and finalization leaves no mask behind unless masks are saved
   (LayerParamMasking.remove_mask). *)
THEOREM MasksAreAlwaysKept == MaskingSpec => []MasksAreKept
<1>1. MaskingSpec => []MaskingInv
  BY MaskingStarts, MaskingStep, PTL DEF MaskingSpec
<1> QED
  BY <1>1, MasksOfInv, PTL

(* A later step of a schedule that grows asks for no fewer elements. *)
LEMMA MoreIsAskedFor ==
  ASSUME MaskingTypeOK, NEW m \in Mods, modifiers[m].from <= modifiers[m].to,
         NEW s \in 0 .. step, InRange(m, s), InRange(m, step)
  PROVE  LET n == PruneElements(m, Scheduled(m, s))
             k == PruneElements(m, Scheduled(m, step))
         IN n \in Nat /\ k \in Nat /\ n <= k
<1> DEFINE x == Scheduled(m, s)
           y == Scheduled(m, step)
<1>1. modifiers \in MaskRecipes /\ step \in Nat /\ s \in Nat /\ s <= step
  BY DEF MaskingTypeOK
<1>2. x \in Nat /\ y \in Nat /\ x <= y /\ y <= SparsityUnits * Span(m)
  BY <1>1, ScheduleInLimits, ScheduleGrows
<1> HIDE DEF x, y
<1>3. /\ PruneElements(m, x) \in Nat /\ PruneElements(m, y) \in Nat
      /\ PruneElements(m, x) <= PruneElements(m, y)
  BY <1>1, <1>2, PruneElementsInLimits
<1> QED
  BY <1>3 DEF x, y

(* Masks that are computed anew keep no element that the last ones have pruned. *)
LEMMA PrunesOn ==
  ASSUME MaskingTypeOK, RangesInv, MasksOK, NEW m \in enabled,
         modifiers[m].kind = "magnitude", modifiers[m].from <= modifiers[m].to,
         event = "batch_start", NEW l \in Own(m)
  PROVE  PruneWith(weight[l], PruneElements(m, Scheduled(m, step))) \subseteq masks[l]
<1> DEFINE n == PruneElements(m, sparsities[m])
           k == PruneElements(m, Scheduled(m, step))
           w == weight[l]
<1>1. m \in Mods /\ m \in started \ ended /\ EnabledOK(m) /\ InRange(m, step)
  BY RunningIsInRange DEF RangesInv, MasksOK
<1>2. PICK s \in 0 .. step : InRange(m, s) /\ sparsities[m] = Scheduled(m, s)
  BY <1>1 DEF EnabledOK, IsScheduled
<1>3. n \in Nat /\ k \in Nat /\ n <= k
  BY <1>1, <1>2, MoreIsAskedFor
<1>4. MagnitudeMaskOK(m, l)
  BY <1>1 DEF EnabledOK
<1>5. /\ masks[l] \in SUBSET Elements /\ (n = 0 => masks[l] = Elements)
      /\ IsClear(l) \/ masks[l] = PruneWith(w, n)
  BY <1>4 DEF MagnitudeMaskOK, IsUntold
<1>6. w \in [Elements -> Nat]
  BY <1>1, ModifierFields DEF MaskingTypeOK, Own
<1> HIDE DEF n, k, w
<1>7. CASE masks[l] = PruneWith(w, n)
  BY <1>3, <1>7, PruneMore DEF k, w
<1>8. CASE IsClear(l) /\ n > 0
  <2> SUFFICES ASSUME NEW e \in PruneWith(w, k), e \notin masks[l] PROVE FALSE
    BY DEF k, w
  <2>1. w[e] = 0
    BY <1>8 DEF IsClear, PruneWith, w
  <2>2. k > 0
    BY <1>3, <1>8
  <2> QED
    BY <1>3, <1>6, <2>1, <2>2, ZerosArePruned
<1>9. CASE n = 0
  BY <1>5, <1>9 DEF PruneWith
<1> QED
  BY <1>3, <1>5, <1>7, <1>8, <1>9

(* Masks change while training only if a modifier starts or its schedule moves on. *)
LEMMA PrunesOnAtEveryStep ==
  MaskingInv /\ [MaskingNext]_maskingVars =>
    [\A m \in enabled \cap enabled' :
       modifiers[m].kind = "magnitude" /\ modifiers[m].from <= modifiers[m].to /\ phase = "train" =>
         \A l \in Own(m) : masks'[l] \subseteq masks[l]]_maskingVars
<1> SUFFICES ASSUME MaskingInv, MaskingNext, NEW m \in enabled \cap enabled',
                    modifiers[m].kind = "magnitude", modifiers[m].from <= modifiers[m].to,
                    phase = "train", NEW l \in Own(m)
             PROVE  masks'[l] \subseteq masks[l]
  OBVIOUS
<1>1. /\ MaskingTypeOK /\ RangesInv /\ MasksOK /\ m \in Mods /\ m \in started
      /\ l \in LayerParams /\ l \in modifiers[m].targets
  <2>1. MaskingTypeOK /\ RangesInv /\ MasksOK
    BY DEF MaskingInv, IsActive
  <2> QED
    BY <2>1, ModifierFields DEF MaskingTypeOK, RangesInv, Own
<1>2. CASE UpdateEvent
  <2>1. PICK o \in Mods : o = Head(visits)
    BY <1>1, <1>2, FirstVisit DEF UpdateEvent
  <2>2. CASE o = m
    <3>1. \/ masks' = masks
          \/ event = "batch_start" /\ masks' = MagnitudeMasks(m, Scheduled(m, step), masks)
      BY <1>1, <1>2, <2>1, <2>2 DEF UpdateEvent, Starts, OnBatchStart
    <3>2. MagnitudeMasks(m, Scheduled(m, step), masks)[l] =
            PruneWith(weight[l], PruneElements(m, Scheduled(m, step)))
      BY <1>1 DEF MagnitudeMasks
    <3> QED
      BY <1>1, <3>1, <3>2, PrunesOn
  <2>3. CASE o # m
    <3>1. masks'[l] = masks[l] \/ l \in modifiers[o].targets
      BY <1>1, <1>2, <2>1, UpdateLeaves
    <3> QED
      BY <1>1, <2>1, <2>3, <3>1, OwnIsApart
  <2> QED
    BY <2>2, <2>3
<1>3. CASE ~ UpdateEvent
  <2>1. masks' = masks
    BY <1>3 DEF MaskingNext, InitializeMasks, InitializeHooks, BatchStart, OptimPreStep,
       OptimPostStep, BatchEnd, FinalizeMasks, RemoveMask, FinalizeNext, buffers
  <2> QED
    BY <2>1
<1> QED
  BY <1>2, <1>3

(* While its sparsity grows, MagnitudePruningModifier.on_update computes masks that prune
   all that the last ones have pruned. *)
THEOREM PrunedAlwaysStaysPruned == MaskingSpec => PrunedStaysPruned
<1>1. MaskingSpec => []MaskingInv
  BY MaskingStarts, MaskingStep, PTL DEF MaskingSpec
<1> QED
  BY <1>1, PrunesOnAtEveryStep, PTL DEF MaskingSpec, PrunedStaysPruned
=============================================================================
