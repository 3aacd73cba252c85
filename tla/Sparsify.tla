------------------------------ MODULE Sparsify ------------------------------
(***************************************************************************)
(* Which elements of a weight SparseGPT and Wanda prune: sparsify_weight   *)
(* of modifiers/pruning/sparsegpt/sgpt_sparsify.py and of                  *)
(* modifiers/pruning/wanda/wanda_sparsify.py.                              *)
(*                                                                         *)
(* The model follows one row: rows are pruned independently under an N:M   *)
(* structure, and without one the elements of a block take part in one     *)
(* ranking.  SparseGPT goes through the columns block by block and spreads *)
(* the error of what it prunes over the columns to the right, so their     *)
(* scores are arbitrary when their turn comes; only elements that are      *)
(* known to be zero have a known score.                                    *)
(***************************************************************************)
EXTENDS Naturals, FiniteSets

CONSTANTS
  Widths,       \* numbers of columns
  BlockSizes,   \* values of block_size
  Structures,   \* pairs <<prune_n, prune_m>>, <<0, 0>> without a structure
  Units,        \* sparsities are given in parts of Units
  Methods       \* subset of {"sgpt", "wanda"}

ASSUME SparsifyAssumption ==
  /\ Widths \subseteq Nat \ {0} /\ BlockSizes \subseteq Nat \ {0}
  /\ \A s \in Structures : s = <<0, 0>> \/ (s[1] \in 1 .. s[2] /\ s[2] \in Nat)
  /\ Units \in Nat \ {0} /\ Methods \subseteq {"sgpt", "wanda"}

VARIABLES
  method, width, block, structure, sparsity,
  preserve,     \* preserve_sparsity_mask
  base,         \* columns that are zero at the start, dead ones included
  state,        \* "start", "pruning", "done", "raised"
  at,           \* the next column, i1 + i
  mask,         \* columns the mask marks
  pruned        \* columns that have become zero

sparsifySetup == <<method, width, block, structure, sparsity, preserve, base>>
sparsifyVars == <<sparsifySetup, state, at, mask, pruned>>

Columns == 0 .. width - 1
N == structure[1]
M == structure[2]
Structured == N > 0

SparsifyInit ==
  /\ method \in Methods /\ width \in Widths /\ block \in BlockSizes
  /\ structure \in Structures /\ sparsity \in 0 .. Units
  /\ preserve \in IF method = "sgpt" THEN BOOLEAN ELSE {FALSE}
  /\ base \in SUBSET Columns
  /\ state = "start" /\ at = 0 /\ mask = {} /\ pruned = {}

(* Wanda ranks a whole row. *)
BlockSize == IF method = "sgpt" THEN block ELSE width
BlockStart == at - (at % BlockSize)
BlockEnd == IF BlockStart + BlockSize < width THEN BlockStart + BlockSize ELSE width
Block == BlockStart .. BlockEnd - 1
Size(S) == Cardinality(S)

(* int(numel * sparsity) *)
Target(S) == (Size(S) * sparsity) \div Units

(* With preserve_sparsity_mask the mask starts as the zeros of the weight, which
   must not be more than the target. *)
StartPruning ==
  /\ state = "start"
  /\ IF preserve /\ Size(base) * Units > sparsity * width
     THEN state' = "raised" /\ UNCHANGED mask
     ELSE state' = "pruning" /\ mask' = IF preserve THEN base ELSE {}
  /\ UNCHANGED <<sparsifySetup, at, pruned>>

(* Zeros whose score is sure to be zero: at the start of the weight, and with
   preserve_sparsity_mask at the start of a block, no error has reached them. *)
SureZeros ==
  IF method = "wanda" \/ at = 0 \/ (preserve /\ at = BlockStart) THEN base ELSE {}

(* Mutant: one element less. *)
AreLowestFew(L, n, S, Z) ==
  L \subseteq S /\ Size(L) + 1 = n /\ (Z \cap S \subseteq L \/ L \subseteq Z)

(* The n lowest of S if those in Z have the score 0, which is the lowest. *)
MayBeLowest(L, n, S, Z) ==
  L \subseteq S /\ Size(L) = n /\ (Z \cap S \subseteq L \/ L \subseteq Z)

(* The columns from i to i + prune_m within the block, where prune_m columns are
   ranked together.  The mask of the zeros is read at the position within the block,
   not within the weight. *)
ColumnGroup == at .. (IF at + M < BlockEnd THEN at + M ELSE BlockEnd) - 1

Known ==
  SureZeros \cup {c \in ColumnGroup : preserve /\ (c - BlockStart) \in mask}

(* Mutant: the columns of the group replace the mask. *)
MarkedOver(L) == L

(* scatter_ adds to the mask of the block, which with preserve_sparsity_mask is a
   view of the mask of the weight. *)
Marked(L) == mask \cup L

(* The columns of the preserved mask that are multiplied with the scores of the group:
   a group that ends with its block, before the columns of the weight do, is narrower. *)
MaskSlice ==
  LET i == at - BlockStart IN i .. (IF i + M < width THEN i + M ELSE width) - 1

SliceDiffers == preserve /\ Size(MaskSlice) # Size(ColumnGroup)

(* One group of prune_m columns.  topk raises if fewer than prune_n are left, and the
   multiplication if the slice is wider.  A single column is widened to the slice instead,
   and scatter_ raises if another column than the first is among the lowest. *)
PruneGroup ==
  /\ state = "pruning" /\ at < width /\ Structured
  /\ \/ /\ Size(ColumnGroup) < N \/ SliceDiffers
        /\ state' = "raised" /\ UNCHANGED <<at, mask, pruned>>
     \/ /\ SliceDiffers => Size(ColumnGroup) = 1
        /\ \E Z \in SUBSET (base \cap ColumnGroup), L \in SUBSET ColumnGroup :
             /\ MayBeLowest(L, N, ColumnGroup, Known \cup Z)
             /\ mask' = Marked(L)
             /\ pruned' = pruned \cup (Marked(L) \cap ColumnGroup)
        /\ at' = at + Size(ColumnGroup)
        /\ UNCHANGED state
  /\ UNCHANGED sparsifySetup

Extends == ~ preserve \/ Target(Block) > Size(mask \cap Block)

(* One block without a structure.  SparseGPT prunes what is not above the score at
   position int(numel * sparsity) of the sorted block, at least one element more
   than that many, and has no such score if the sparsity is 1; elements of a
   preserved mask score 0.  Wanda prunes exactly that many. *)
PruneBlock ==
  /\ state = "pruning" /\ at < width /\ ~ Structured
  /\ IF method = "sgpt" /\ Extends /\ Target(Block) = Size(Block)
     THEN state' = "raised" /\ UNCHANGED <<at, pruned>>
     ELSE \E L \in SUBSET Block :
            /\ IF ~ Extends THEN L = mask \cap Block
               ELSE \E n \in Target(Block) .. Size(Block) :
                      /\ method = "sgpt" => n > Target(Block)
                      /\ method = "wanda" => n = Target(Block)
                      /\ MayBeLowest(L, n, Block, SureZeros \cup (mask \cap Block))
            /\ pruned' = pruned \cup L
            /\ at' = BlockEnd
            /\ UNCHANGED state
  /\ UNCHANGED <<sparsifySetup, mask>>

Finish ==
  /\ state = "pruning" /\ at >= width
  /\ state' = "done"
  /\ UNCHANGED <<sparsifySetup, at, mask, pruned>>

SparsifyNext == StartPruning \/ PruneGroup \/ PruneBlock \/ Finish
SparsifySpec == SparsifyInit /\ [][SparsifyNext]_sparsifyVars

-----------------------------------------------------------------------------
(* Properties *)

(* The zeros of a model that was pruned before stay zero when its mask is preserved
   (tests/sparsity/sparsegpt/test_mask_structure_preservation.py asserts it). *)
BasePruningIsKept == state = "done" /\ preserve => base \subseteq pruned

GroupAt(i) == i .. (IF i + M < width THEN i + M ELSE width) - 1
Groups == {GroupAt(i) : i \in {j \in Columns : j % M = 0}}

(* Every group of M columns loses N elements; without a preserved mask no group loses
   more, so that the weight has the N:M structure that was asked for. *)
GroupsLoseN ==
  state = "done" /\ Structured /\ BlockSize % M = 0 =>
    \A G \in Groups :
      /\ Size(pruned \cap G) >= N
      /\ ~ preserve => Size(pruned \cap G) = N

(* Without a structure as much of a block is pruned as its share of the sparsity. *)
BlocksReachSparsity ==
  state = "done" /\ ~ Structured =>
    \A i \in {j \in Columns : j % BlockSize = 0} :
      LET B == i .. (IF i + BlockSize < width THEN i + BlockSize ELSE width) - 1
      IN Size(pruned \cap B) >= Target(B)

(* As much is pruned as was asked for, with a structure or without. *)
SparsityIsReached == GroupsLoseN /\ BlocksReachSparsity

(* A weight that has an N:M structure and is pruned with the same structure keeps it
   ("respect the sparsity of other groups", sgpt_sparsify.py:202). *)
StructureIsPreserved ==
  state = "done" /\ Structured /\ preserve /\ BlockSize % M = 0
    /\ (\A G \in Groups : Size(base \cap G) = N) => pruned = base
=============================================================================
