----------------------------- MODULE MCSmoothing -----------------------------
(* A layer of a decoder on one rank, with two mappings whose balance layers have the
   same parent. *)
EXTENDS Smoothing

MCLayers == {"norm1", "q1", "v1", "o1", "up1"}
MCParents == {"attn1"}
MCInside == [attn1 |-> {"q1", "v1", "o1"}]

Mapping(smooth, balance, parent, hook) ==
  [smooth |-> smooth, balance |-> balance, parent |-> parent, hook |-> hook,
   compatible |-> TRUE, targeted |-> TRUE]

RepeatedParents ==
  { << Mapping("norm1", {"q1"}, "attn1", "q1"), Mapping("up1", {"v1", "o1"}, "attn1", "v1") >> }

MCLayouts == {[subgraph |-> [l \in MCLayers |-> 1], calls |-> [p \in MCParents |-> 1]]}
AllReached == {<<"norm1", "q1", "v1", "o1", "up1">>}
=============================================================================
