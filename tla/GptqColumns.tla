---------------------------- MODULE GptqColumns ----------------------------
(***************************************************************************)
(* The order in which GPTQ quantizes the columns of a weight:              *)
(* quantize_weight of modifiers/gptq/gptq_quantize.py with the helpers of  *)
(* modifiers/gptq/helpers.py.                                              *)
(*                                                                         *)
(* With activation ordering the columns are permuted, quantized from left  *)
(* to right in blocks, and put back.  The error of a column is subtracted  *)
(* from the columns right of it: at once within the block, which is a      *)
(* copy, and when the block is complete from all columns right of it.      *)
(* A block is done by eager Torch or, where the kernel supports its width, *)
(* by a fused kernel.                                                      *)
(*                                                                         *)
(* A value is represented by the column it comes from, by how often the    *)
(* error of each position has been subtracted from it, and, once it is     *)
(* quantized, by the scale it was quantized with.                          *)
(***************************************************************************)
EXTENDS Integers

CONSTANTS
  Widths,       \* numbers of columns
  BlockSizes,   \* values of blocksize
  GroupSizes,   \* columns that share a scale
  FusedWidths   \* block widths the fused kernel supports: powers of two

ASSUME GptqColumnsAssumption ==
  /\ Widths \subseteq Nat \ {0} /\ BlockSizes \subseteq Nat \ {0}
  /\ GroupSizes \subseteq Nat \ {0}

VARIABLES
  columns,      \* the number of columns
  blockSize,
  groupSize,    \* 0: one scale for all columns, strategies TENSOR and CHANNEL
  perm,         \* perm[p]: the column at position p
  isFactorized, \* FALSE: the Hessian is not positive definite, its factor the identity
  phase,        \* "start", "block", "column", "restore", "done"
  next,         \* the next position
  first, stop,  \* the block, i1 and i2
  held,         \* W
  window,       \* W1, a copy of the block
  rounded       \* Q1, its quantized columns

gptqSetup == <<columns, blockSize, groupSize, perm, isFactorized>>
gptqVars == <<gptqSetup, phase, next, first, stop, held, window, rounded>>

Positions == 0 .. columns - 1
Unquantized == -1
Fresh(c) == [col |-> c, errors |-> [q \in Positions |-> 0], scale |-> Unquantized]

(* Orders of the columns: by descending activation, or as they are. *)
IsOrder(f) ==
  /\ f \in [Positions -> Positions]
  /\ \A p, q \in Positions : f[p] = f[q] => p = q
  /\ \A c \in Positions : \E p \in Positions : f[p] = c

GptqColumnsInit ==
  /\ columns \in Widths /\ blockSize \in BlockSizes /\ groupSize \in GroupSizes \cup {0}
  /\ perm \in [Positions -> Positions] /\ IsOrder(perm)
  /\ isFactorized \in BOOLEAN
  /\ phase = "start" /\ next = 0 /\ first = 0 /\ stop = 0
  /\ held = [p \in Positions |-> Fresh(p)]
  /\ window = held /\ rounded = held

(* apply_activation_ordering *)
Permute ==
  /\ phase = "start"
  /\ held' = [p \in Positions |-> held[perm[p]]]
  /\ phase' = "block"
  /\ UNCHANGED <<gptqSetup, next, first, stop, window, rounded>>

(* Mutant: the groups are those of the positions. *)
GroupOfPosition(p) == p \div groupSize

(* g_idx, permuted with the columns. *)
GroupIndex(p) == perm[p] \div groupSize

(* column_scale_window *)
ColumnScale(p) == IF groupSize = 0 THEN 0 ELSE GroupIndex(p)

BeginBlock ==
  /\ phase = "block"
  /\ first' = next
  /\ stop' = IF next + blockSize < columns THEN next + blockSize ELSE columns
  /\ window' = held
  /\ phase' = "column"
  /\ UNCHANGED <<gptqSetup, next, held, rounded>>

(* The value without the errors of the positions S; an identity spreads none
   beyond the position itself. *)
Subtract(v, p, S) ==
  [v EXCEPT !.errors = [q \in Positions |->
     IF q \in S /\ (isFactorized \/ q = p) THEN @[q] + 1 ELSE @[q]]]

(* The next column of the block is quantized, and its error subtracted from the
   positions of the window in S. *)
QuantizeColumn(S) ==
  /\ phase = "column" /\ next < stop
  /\ rounded' = [rounded EXCEPT ![next] = [window[next] EXCEPT !.scale = ColumnScale(next)]]
  /\ window' = [p \in Positions |-> IF p \in S THEN Subtract(window[p], p, {next}) ELSE window[p]]
  /\ next' = next + 1
  /\ UNCHANGED <<gptqSetup, phase, first, stop, held>>

TorchColumn == QuantizeColumn(next .. stop - 1)

FusedColumn ==
  /\ stop - first \in FusedWidths
  /\ QuantizeColumn(next + 1 .. stop - 1)

(* Mutant: the last column of the block is left out. *)
BlockButLast == first .. stop - 2

(* The positions whose errors the columns right of the block get at its end. *)
BlockErrors == first .. stop - 1

EndBlock ==
  /\ phase = "column" /\ next = stop
  /\ held' = [p \in Positions |->
       IF p < first THEN held[p]
       ELSE IF p < stop THEN rounded[p] ELSE Subtract(held[p], p, BlockErrors)]
  /\ phase' = IF next < columns THEN "block" ELSE "restore"
  /\ UNCHANGED <<gptqSetup, next, first, stop, window, rounded>>

Restore ==
  /\ phase = "restore"
  /\ held' = [c \in Positions |-> held[CHOOSE p \in Positions : perm[p] = c]]
  /\ phase' = "done"
  /\ UNCHANGED <<gptqSetup, next, first, stop, window, rounded>>

GptqColumnsNext ==
  Permute \/ BeginBlock \/ TorchColumn \/ FusedColumn \/ EndBlock \/ Restore

GptqColumnsSpec == GptqColumnsInit /\ [][GptqColumnsNext]_gptqVars

-----------------------------------------------------------------------------
(* Properties *)

(* Whatever the order in which they are quantized, every column comes back to its
   place, quantized with the scale of the group that place belongs to. *)
ColumnsKeepTheirGroup ==
  phase = "done" =>
    \A c \in Positions :
      /\ held[c].col = c
      /\ held[c].scale = IF groupSize = 0 THEN 0 ELSE c \div groupSize

(* Every column is quantized after the errors of all columns quantized before it, each
   subtracted once, and of no other column; without a factor it is rounded as it is. *)
ErrorsReachOnce ==
  phase = "restore" =>
    \A p, q \in Positions :
      held[p].errors[q] = IF isFactorized /\ q < p THEN 1 ELSE 0
=============================================================================
