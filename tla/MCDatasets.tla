----------------------------- MODULE MCDatasets -----------------------------
(* Datasets of up to five samples, of which two are the same and two have a sample of the
   same length. *)
EXTENDS Datasets, TLC

MCTokens ==
  "empty" :> <<>> @@ "small" :> <<3, 1, 2>> @@ "copy" :> <<3, 1, 2>>
  @@ "large" :> <<2, 2, 1, 3, 1>>
MCFingerprint == [t \in DOMAIN MCTokens |-> IF t = "copy" THEN "small" ELSE t]
MCRoundsDown == {<<55, 3, 11>>, <<55, 6, 11>>}

=============================================================================
