------------------------------ MODULE Experts ------------------------------
(***************************************************************************)
(* Linearizing and repacking the experts of a mixture of experts:          *)
(* modeling/moe/linear_experts.py, with the layout of modeling/moe/        *)
(* gpt_oss.py.                                                             *)
(*                                                                         *)
(* The fused module holds the gate and the up projection of an expert in   *)
(* one tensor, in halves or interleaved.  Linearizing copies them to       *)
(* modules of their own, which are quantized or not; repacking copies them *)
(* back and packs their scales.  A row is an output feature, the column of *)
(* a transposed tensor.                                                    *)
(*                                                                         *)
(* A row is represented by the expert and the fused row it comes from and  *)
(* by the scale it was quantized with.                                     *)
(***************************************************************************)
EXTENDS Integers, Sequences

CONSTANTS
  ExpertIds,    \* indices of the experts
  Sizes,        \* values of intermediate_size
  Layouts,      \* layouts of gate_up_proj: "halves", "interleaved"
  ScaleShapes   \* shapes of weight_scale: "scalar", "vector", "matrix"

VARIABLES
  layout, size, hasGate, shape,
  targeted,     \* the projections that a modifier quantizes
  stage,        \* "linearize", "quantize", "repack", "pack", "done"
  fused,        \* fused[e]: the rows of gate_up_proj[e], or of up_proj[e]
  linear,       \* linear[e][p]: the rows of projection p of expert e
  scales,       \* scales[e][p]: its weight_scale
  packed        \* packed[e]: gate_up_proj_scale[e], or up_proj_scale[e]

expertsSetup == <<layout, size, hasGate, shape, targeted>>
expertsVars == <<expertsSetup, stage, fused, linear, scales, packed>>

Projections == IF hasGate THEN {"gate", "up"} ELSE {"up"}
ExpertRows == 1 .. size
FusedRows == 1 .. (IF hasGate THEN 2 * size ELSE size)
Unset == <<>>

ExpertsInit ==
  /\ layout \in Layouts /\ size \in Sizes /\ hasGate \in BOOLEAN /\ shape \in ScaleShapes
  /\ targeted \in SUBSET (ExpertIds \X Projections)
  /\ stage = "linearize"
  /\ fused = [e \in ExpertIds |-> [r \in FusedRows |-> [from |-> <<e, r>>, scale |-> Unset]]]
  /\ linear = Unset /\ scales = Unset /\ packed = Unset

(* Mutant: the rows are interleaved in every layout. *)
SourceInterleaved(p, r) ==
  IF ~hasGate THEN r ELSE IF p = "gate" THEN 2 * r - 1 ELSE 2 * r

(* The fused row that copy_from_experts_module takes row r of projection p from. *)
SourceRow(p, r) ==
  IF hasGate /\ layout = "interleaved" THEN IF p = "gate" THEN 2 * r - 1 ELSE 2 * r
  ELSE IF p = "gate" \/ ~hasGate THEN r ELSE size + r

Linearize ==
  /\ stage = "linearize"
  /\ linear' = [e \in ExpertIds |-> [p \in Projections |->
                  [r \in ExpertRows |-> fused[e][SourceRow(p, r)]]]]
  /\ scales' = [e \in ExpertIds |-> [p \in Projections |-> Unset]]
  /\ stage' = "quantize"
  /\ UNCHANGED <<expertsSetup, fused, packed>>

(* The scales of one row: one for the module, one for the row, or one for each group of
   the row, here two; the observers return a matrix also for one scale per row. *)
RowScales(e, p, r) ==
  CASE shape = "scalar" -> << <<e, p>> >>
    [] shape = "vector" -> << <<e, p, r>> >>
    [] shape = "matrix" -> << <<e, p, r, 1>>, <<e, p, r, 2>> >>

(* A modifier quantizes a projection: weight_scale is a scalar, a vector over the rows
   or a matrix of rows and groups. *)
QuantizeExpert(e, p) ==
  /\ stage = "quantize"
  /\ <<e, p>> \in targeted /\ scales[e][p] = Unset
  /\ linear' = [linear EXCEPT ![e][p] = [r \in ExpertRows |->
                  [@[r] EXCEPT !.scale = RowScales(e, p, r)]]]
  /\ scales' = [scales EXCEPT ![e][p] =
                  IF shape = "scalar" THEN << RowScales(e, p, 1) >>
                  ELSE [r \in ExpertRows |-> RowScales(e, p, r)]]
  /\ UNCHANGED <<expertsSetup, stage, fused, packed>>

QuantizationEnds ==
  /\ stage = "quantize"
  /\ \A t \in targeted : scales[t[1]][t[2]] # Unset
  /\ stage' = "repack"
  /\ UNCHANGED <<expertsSetup, fused, linear, scales, packed>>

(* copy_to_experts_module writes halves: GptOssExpertMLP inherits it. *)
Repack ==
  /\ stage = "repack"
  /\ fused' = [e \in ExpertIds |-> [r \in FusedRows |->
       IF ~hasGate THEN linear[e]["up"][r]
       ELSE IF r <= size THEN linear[e]["gate"][r] ELSE linear[e]["up"][r - size]]]
  /\ stage' = "pack"
  /\ UNCHANGED <<expertsSetup, linear, scales, packed>>

(* Scalars are stacked to [E, 2]; anything else is joined on the last axis, the rows of
   a vector and the groups of a matrix. *)
Join(gate, up) ==
  IF shape = "matrix" THEN [r \in ExpertRows |-> gate[r] \o up[r]] ELSE gate \o up

(* _pack_weight_qparams: a projection that one expert lacks the scale of has none. *)
HasAll(p) == \A e \in ExpertIds : scales[e][p] # Unset

Pack ==
  /\ stage = "pack"
  /\ packed' = IF \E p \in Projections : ~HasAll(p) THEN Unset
               ELSE [e \in ExpertIds |->
                 IF hasGate THEN Join(scales[e]["gate"], scales[e]["up"]) ELSE scales[e]["up"]]
  /\ stage' = "done"
  /\ UNCHANGED <<expertsSetup, fused, linear, scales>>

ExpertsNext ==
  \/ Linearize \/ QuantizationEnds \/ Repack \/ Pack
  \/ \E e \in ExpertIds, p \in Projections : QuantizeExpert(e, p)

ExpertsSpec == ExpertsInit /\ [][ExpertsNext]_expertsVars

-----------------------------------------------------------------------------
(* Properties *)

(* copy_to_experts_module is the inverse of copy_from_experts_module: after repacking
   every row is where the fused module had it. *)
RepackIsInverse ==
  stage \in {"pack", "done"} =>
    \A e \in ExpertIds : \A r \in FusedRows : fused[e][r].from = <<e, r>>

(* The packed scales follow the packed rows: a reader of the fused tensors finds for
   every row the scales it was quantized with. *)
ScalesFollowRows ==
  packed # Unset =>
    \A e \in ExpertIds : \A r \in FusedRows :
      LET i == IF shape # "scalar" THEN r ELSE IF r <= size THEN 1 ELSE 2
      IN  i \in DOMAIN packed[e] /\ packed[e][i] = fused[e][r].scale

(* Repacking keeps the rows of the fused module, each with its scales. *)
RepackKeepsRows == RepackIsInverse /\ ScalesFollowRows
=============================================================================
