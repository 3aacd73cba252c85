---------------------------- MODULE MCQuantizers ----------------------------
(* The attention and the MLP of a decoder layer, and every recipe of up to three
   modifiers for them, the one of quantization_multiple_modifiers.py among them. *)
EXTENDS Quantizers

MCQuantModules == {"attn", "mlp"}

Modifier(kind, L, c) == [kind |-> kind, targets |-> L, configures |-> c]

MCQuantModifiers ==
  {Modifier(kind, L, c) : kind \in {"gptq", "quantization", "awq"},
                          L \in (SUBSET MCQuantModules) \ {{}}, c \in BOOLEAN}
MCQuantRecipes ==
  {r \in UNION {[1 .. n -> MCQuantModifiers] : n \in 1 .. 3} : IsQuantRecipe(r)}

MultipleModifiers ==
  { << Modifier("gptq", {"attn"}, TRUE), Modifier("awq", {"mlp"}, FALSE),
       Modifier("quantization", {"mlp"}, TRUE) >> }

(* GPTQ for the attention and round-to-nearest for the MLP. *)
TwoQuantizers ==
  { << Modifier("gptq", {"attn"}, TRUE), Modifier("quantization", {"mlp"}, TRUE) >> }

(* One subgraph, as in the basic pipeline, or one for each module. *)
MCSubgraphings == { << {"attn", "mlp"} >>, << {"attn"}, {"mlp"} >> }
=============================================================================
