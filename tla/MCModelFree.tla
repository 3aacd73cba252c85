----------------------------- MODULE MCModelFree -----------------------------
(* Two attention layers, or an MLP with experts, divided in every way among
   three shards. *)
EXTENDS ModelFree

Tensor(l, f, p) == [layer |-> l, family |-> f, proj |-> p]

MCFamilies == {"self_attn", "mlp", "experts", "experts.0", "experts.1"}
MCShards == 1 .. 3

AttentionNames ==
  << Tensor(1, "self_attn", "k_proj"), Tensor(1, "self_attn", "q_proj"),
     Tensor(1, "self_attn", "v_proj"), Tensor(2, "self_attn", "k_proj"),
     Tensor(2, "self_attn", "q_proj"), Tensor(2, "self_attn", "v_proj") >>
MlpNames ==
  << Tensor(1, "mlp", "down_proj"), Tensor(1, "mlp", "gate_proj"),
     Tensor(1, "mlp", "up_proj") >>
ExpertNames ==
  << Tensor(2, "experts", "gate_up_proj"),
     Tensor(2, "experts.0", "gate_proj"), Tensor(2, "experts.0", "up_proj"),
     Tensor(2, "experts.1", "gate_proj"), Tensor(2, "experts.1", "up_proj") >>
MCNameOrder == AttentionNames \o MlpNames \o ExpertNames

(* The last of these is a layer whose keys are its values. *)
MCCheckpoints ==
  [ToSet(AttentionNames) -> MCShards]
    \cup [ToSet(MlpNames) \cup {ExpertNames[1]} -> MCShards]
    \cup [ToSet(AttentionNames) \ {AttentionNames[3]} -> {1, 2}]

Group(targets, microscale) == [targets |-> targets, microscale |-> microscale]

(* One scheme with global scales or without, and two schemes in one config. *)
MCConfigs ==
  { << Group(Names, TRUE) >>, << Group(Names, FALSE) >>,
    << Group({t \in Names : t.proj \in {"k_proj", "down_proj"}}, FALSE),
       Group(Names \ {ExpertNames[2]}, TRUE) >> }

(* What CheckpointProofs assumes. *)
ASSUME NamesAreApart /\ NamesAreSorted /\ FusedSetsSupported

MCUnquantizable == {MlpNames[1], AttentionNames[6]}
=============================================================================
