----------------------------- MODULE MCSparsify -----------------------------
EXTENDS Sparsify

MCStructures == {<<0, 0>>, <<1, 2>>, <<2, 3>>}
=============================================================================
