------------------------------ MODULE Rotations ------------------------------
(***************************************************************************)
(* SpinQuantModifier and QuIPModifier: matrices fused into the weights of  *)
(* a model, and applied online by hooks, that cancel in what the model     *)
(* computes; with what has to be done to norms and embeddings first        *)
(* (modeling/fuse.py, modeling/offset_norm.py, utils/transformers.py and   *)
(* prepare_cohere2_moe_for_spinquant).                                     *)
(*                                                                         *)
(* A weight W is <<into, W, from>>: its input passes the matrices of       *)
(* "into", then the original W, then the matrices of "from".  A matrix is  *)
(* a name of its own, or the inverse of one, and cancels with nothing but  *)
(* its inverse.  Centering is a matrix too, which cancels with nothing:    *)
(* RMS norms do not absorb it.  All layers of a model are alike, so one    *)
(* layer stands for them.                                                  *)
(***************************************************************************)
EXTENDS Integers, Sequences, SequencesExt

CONSTANTS
  Archs,    \* architectures: subset of {"llama", "cohere2moe"}
  Recipes   \* sequences of modifiers: "spinquant", "quip"

ASSUME RotationsAssumption ==
  /\ Archs \subseteq {"llama", "cohere2moe"}
  /\ \A recipe \in Recipes : recipe \in Seq({"spinquant", "quip"})

VARIABLES
  arch, recipe,    \* the model and the modifiers
  rotations,       \* of SpinQuant: subset of {"R1", "R2", "R3", "R4"}
  sides,           \* of QuIP: subset of {"v", "u"}
  ignoresHead,     \* of QuIP: whether lm_head is in "ignore", as it is by default
  isOverridden,    \* SpinQuant has got a transform_config and infers no mappings
  isShared,        \* the embedding and lm_head are one tensor
  into, from,      \* the matrices fused into each weight
  before, after,   \* the matrices hooks apply to the input and the output
  attention,       \* the matrices hooks apply to the queries and the keys
  norms,           \* each norm module: its weight is factor + shift
  replaced,        \* the norms norm_calibration_context has replaced
  rotStage,        \* how far oneshot is
  modifiersLeft,   \* modifiers whose calibration has not started
  steps            \* what is left to do at a calibration start

rotSetup == <<arch, recipe, rotations, sides, ignoresHead, isOverridden>>
rotWeights == <<isShared, into, from, before, after, attention, norms, replaced>>
rotVars == <<rotSetup, rotWeights, rotStage, modifiersLeft, steps>>

-----------------------------------------------------------------------------
(* The models *)

Linears == {"q", "k", "v", "o", "gate", "up", "down", "head"} \cup
           IF arch = "cohere2moe" THEN {"router"} ELSE {}
Weights == Linears \cup {"embed"}

(* The parallel block of Cohere has one norm. *)
Norms == {"input", "final"} \cup IF arch = "llama" THEN {"post"} ELSE {}

NormOf == [w \in {"q", "k", "v", "gate", "up", "router", "head"} |->
  IF w = "head" THEN "final"
  ELSE IF arch = "llama" /\ w \in {"gate", "up"} THEN "post" ELSE "input"]
Readers(n) == {w \in Linears \ {"o", "down"} : NormOf[w] = n}

Matrix(name, inverse) == [name |-> name, inverse |-> inverse]
Scale(n) == Matrix(n, FALSE)

(* What subtracts the mean of each vector; it is the same for every model. *)
Centering == Matrix("mean", FALSE)

(* Rotations have inverses.  Scales are diagonal and centering is symmetric: they stay
   the same when transposed. *)
IsRotation(m) == m.name \notin Norms \cup {Centering.name}
Transposed(m) == IF IsRotation(m) THEN [m EXCEPT !.inverse = ~@] ELSE m

(* What a norm module multiplies by; offset norms add one to their weight. *)
Multiplier(n) ==
  LET shift == norms[n].shift + IF norms[n].isOffset THEN 1 ELSE 0
  IN IF norms[n].factor = "one" /\ shift = 0 THEN <<>>
     ELSE IF shift = 0 THEN <<Scale(n)>> ELSE <<Scale("wrong")>>

RotationsInit ==
  /\ arch \in Archs /\ recipe \in Recipes
  /\ rotations \in SUBSET {"R1", "R2", "R3", "R4"} /\ sides \in SUBSET {"v", "u"}
  /\ ignoresHead \in BOOLEAN /\ isOverridden \in BOOLEAN /\ isShared \in BOOLEAN
  /\ into = [w \in Weights |-> <<>>] /\ from = [w \in Weights |-> <<>>]
  /\ before = [w \in Weights |-> <<>>] /\ after = [w \in Weights |-> <<>>]
  /\ attention = [w \in {"q", "k"} |-> <<>>]
  /\ \E isOffset \in IF arch = "llama" THEN BOOLEAN ELSE {FALSE} :
       norms = [n \in Norms |-> [factor |-> "own", isOffset |-> isOffset,
                                 shift |-> IF isOffset THEN -1 ELSE 0]]
  /\ replaced = {}
  /\ rotStage = IF arch = "cohere2moe" THEN "loaded" ELSE "prepared"
  /\ modifiersLeft = recipe
  /\ steps = <<>>

-----------------------------------------------------------------------------
(* Changes of weights *)

Twin(w) == IF w = "embed" THEN "head" ELSE "embed"
IsTied(w) == isShared /\ w \in {"embed", "head"}

(* Matrices m on the input, or on the output, of the weights S.  A tied weight is read
   transposed by its twin, which is thereby changed on the other side. *)
Fuse(S, m, side) ==
  LET Tied == {Twin(w) : w \in {x \in S : IsTied(x)}}
      own == [weights |-> S, matrix |-> m]
      twin == [weights |-> Tied, matrix |-> Transposed(m)]
      ins == IF side = "in" THEN own ELSE twin
      outs == IF side = "in" THEN twin ELSE own
  IN /\ into' = [w \in Weights |->
          IF w \in ins.weights THEN <<ins.matrix>> \o into[w] ELSE into[w]]
     /\ from' = [w \in Weights |->
          IF w \in outs.weights THEN Append(from[w], outs.matrix) ELSE from[w]]

(* fuse_norm_linears: inside of norm_calibration_context the weight is the multiplier. *)
FuseNorm(n, linears) ==
  /\ IF Multiplier(n) = <<>> THEN UNCHANGED <<into, from>>
     ELSE Fuse(linears, Multiplier(n)[1], "in")
  /\ norms' = [norms EXCEPT ![n].factor = "one", ![n].shift = 0]

(* apply_transform_config for one TransformArgs *)
ApplyTransform(args) ==
  LET m == Matrix(args.name, args.inverse) IN
  CASE args.location = "weight_input" ->
         Fuse(args.targets, m, "in") /\ UNCHANGED <<before, after, attention>>
    [] args.location = "weight_output" ->
         Fuse(args.targets, m, "out") /\ UNCHANGED <<before, after, attention>>
    [] args.location = "input" ->
         /\ before' = [w \in Weights |->
              IF w \in args.targets THEN Append(before[w], m) ELSE before[w]]
         /\ UNCHANGED <<into, from, after, attention>>
    [] args.location = "output" ->
         /\ after' = [w \in Weights |->
              IF w \in args.targets THEN Append(after[w], m) ELSE after[w]]
         /\ UNCHANGED <<into, from, before, attention>>
    [] args.location \in {"q_attn", "k_cache"} ->
         /\ attention' = [attention EXCEPT
              ![IF args.location = "q_attn" THEN "q" ELSE "k"] = Append(@, m)]
         /\ UNCHANGED <<into, from, before, after>>

-----------------------------------------------------------------------------
(* The modifiers *)

Args(name, location, inverse, targets) ==
  [name |-> name, location |-> location, inverse |-> inverse, targets |-> targets]

MlpIn == {"gate", "up", "router"} \cap Linears

SpinQuantSchemes ==
  [R1 |-> << Args("R1", "weight_output", FALSE, {"embed", "o", "down"}),
             Args("R1", "weight_input", TRUE, {"q", "k", "v", "head"} \cup MlpIn) >>,
   R2 |-> << Args("R2", "weight_output", FALSE, {"v"}),
             Args("R2", "weight_input", TRUE, {"o"}) >>,
   R3 |-> << Args("R3", "q_attn", FALSE, {"attn"}),
             Args("R3", "k_cache", FALSE, {"attn"}) >>,
   R4 |-> << Args("R4", "input", FALSE, {"down"}),
             Args("R4", "weight_input", TRUE, {"down"}) >>]

(* The norm of a parallel block is not in the mapping: its readers have other parents. *)
MappedNorms == SelectSeq(<<"input", "post", "final">>,
                         LAMBDA n : n \in Norms /\ (arch = "cohere2moe" => n = "final"))

QuIPTargets == Linears \ IF ignoresHead THEN {"head"} ELSE {}
QuIPSchemes ==
  [v |-> << Args("V", "input", FALSE, QuIPTargets),
            Args("V", "weight_input", TRUE, QuIPTargets) >>,
   u |-> << Args("U", "weight_output", FALSE, QuIPTargets),
            Args("U", "output", TRUE, QuIPTargets) >>]

(* The arguments of the chosen schemes, in the order in which they are created. *)
Chosen(order, schemes, chosen) ==
  FlattenSeq([i \in DOMAIN order |->
    IF order[i] \in chosen
    THEN [j \in 1 .. 2 |-> [op |-> "apply", args |-> schemes[order[i]][j]]] ELSE <<>>])

SpinQuantSteps ==
  << [op |-> "center"] >> \o
  [i \in DOMAIN MappedNorms |-> [op |-> "fuse", norm |-> MappedNorms[i]]] \o
  Chosen(<<"R1", "R2", "R3", "R4">>, SpinQuantSchemes, rotations)
QuIPSteps == Chosen(<<"v", "u">>, QuIPSchemes, sides)

(* Mutant: the new parameters are those of the shared storage. *)
StayTied == UNCHANGED isShared

Untie == isShared' = FALSE

StartSpinQuant ==
  /\ rotStage = "calibrating" /\ steps = <<>>
  /\ modifiersLeft # <<>> /\ Head(modifiersLeft) = "spinquant"
  /\ Untie
  /\ IF isOverridden
     THEN \* there are no mappings to find the embedding by
          rotStage' = "raised" /\ UNCHANGED <<modifiersLeft, steps>>
     ELSE /\ steps' = SpinQuantSteps
          /\ modifiersLeft' = Tail(modifiersLeft)
          /\ UNCHANGED rotStage
  /\ UNCHANGED <<rotSetup, into, from, before, after, attention, norms, replaced>>

StartQuIP ==
  /\ rotStage = "calibrating" /\ steps = <<>>
  /\ modifiersLeft # <<>> /\ Head(modifiersLeft) = "quip"
  /\ IF sides # {} /\ "head" \in QuIPTargets THEN Untie ELSE UNCHANGED isShared
  /\ steps' = QuIPSteps
  /\ modifiersLeft' = Tail(modifiersLeft)
  /\ UNCHANGED <<rotSetup, into, from, before, after, attention, norms, replaced, rotStage>>

CenterEmbeddings ==
  /\ steps # <<>> /\ steps[1].op = "center"
  /\ Fuse({"embed"}, Centering, "out")
  /\ steps' = Tail(steps)
  /\ UNCHANGED <<rotSetup, isShared, before, after, attention, norms, replaced, rotStage,
                 modifiersLeft>>

FuseStep ==
  /\ steps # <<>> /\ steps[1].op = "fuse"
  /\ FuseNorm(steps[1].norm, Readers(steps[1].norm))
  /\ steps' = Tail(steps)
  /\ UNCHANGED <<rotSetup, isShared, before, after, attention, replaced, rotStage, modifiersLeft>>

ApplyStep ==
  /\ steps # <<>> /\ steps[1].op = "apply"
  /\ ApplyTransform(steps[1].args)
  /\ steps' = Tail(steps)
  /\ UNCHANGED <<rotSetup, isShared, norms, replaced, rotStage, modifiersLeft>>

-----------------------------------------------------------------------------
(* oneshot around them *)

PrepareCohere ==
  /\ rotStage = "loaded"
  /\ FuseNorm("input", Readers("input"))
  /\ rotStage' = "prepared"
  /\ UNCHANGED <<rotSetup, isShared, before, after, attention, replaced, modifiersLeft, steps>>

EnterNormContext ==
  /\ rotStage = "prepared"
  /\ replaced' = {n \in Norms : norms[n].isOffset}
  /\ norms' = [n \in Norms |->
       IF norms[n].isOffset
       THEN [norms[n] EXCEPT !.shift = @ + 1, !.isOffset = FALSE] ELSE norms[n]]
  /\ rotStage' = "calibrating"
  /\ UNCHANGED <<rotSetup, isShared, into, from, before, after, attention, modifiersLeft, steps>>

(* CalibrationOffsetNorm.restore *)
Restored(norm) == [norm EXCEPT !.shift = @ - 1, !.isOffset = TRUE]

(* The context ends after the last modifier, and also when one raises. *)
ExitNormContext ==
  /\ \/ rotStage = "calibrating" /\ steps = <<>> /\ modifiersLeft = <<>>
     \/ rotStage = "raised"
  /\ norms' = [n \in Norms |-> IF n \in replaced THEN Restored(norms[n]) ELSE norms[n]]
  /\ replaced' = {}
  /\ rotStage' = IF rotStage = "raised" THEN "failed" ELSE "done"
  /\ UNCHANGED <<rotSetup, isShared, into, from, before, after, attention, modifiersLeft, steps>>

RotationsNext ==
  \/ PrepareCohere \/ EnterNormContext \/ StartSpinQuant \/ StartQuIP
  \/ CenterEmbeddings \/ FuseStep \/ ApplyStep \/ ExitNormContext

RotationsSpec == RotationsInit /\ [][RotationsNext]_rotVars

-----------------------------------------------------------------------------
(* What the model computes *)

(* A word of matrices without those that cancel. *)
Reduce(word) ==
  FoldLeft(LAMBDA reduced, m :
             IF reduced # <<>> /\ IsRotation(m)
                /\ Last(reduced) = [m EXCEPT !.inverse = ~@]
             THEN Front(reduced) ELSE Append(reduced, m),
           <<>>, word)

Entering(w) == before[w] \o into[w]
Leaving(w) == from[w] \o after[w]

(* The modifiers that have started to calibrate. *)
Started == SubSeq(recipe, 1, Len(recipe) - Len(modifiersLeft))
Centered == IF Contains(Started, "spinquant") THEN <<Centering>> ELSE <<>>

(* The residual stream is in one basis: whoever writes to it agrees with the others,
   and its readers undo the basis and scale by the norm.  The embeddings enter it centered
   if SpinQuant has started. *)
Basis == Reduce(Leaving("o"))

ResidualsCancel ==
  /\ Reduce(Leaving("embed")) = Centered \o Basis /\ Reduce(Leaving("down")) = Basis
  /\ \A n \in Norms : \A w \in Readers(n) :
       Reduce(Basis \o Multiplier(n) \o Entering(w)) = <<Scale(n)>>

(* The embedding looks rows up, an activation comes before down, and the experts and
   the words are chosen from what router and head return. *)
NothingElseIsRotated ==
  /\ Reduce(Entering("embed")) = <<>> /\ Reduce(Entering("down")) = <<>>
  /\ \A w \in {"gate", "up", "head", "router"} \cap Linears : Reduce(Leaving(w)) = <<>>

(* The values are mixed between v and o; queries meet keys after their rotary
   embedding. *)
AttentionCancels ==
  /\ Reduce(Leaving("v") \o Entering("o")) = <<>>
  /\ Reduce(Leaving("q")) = <<>> /\ Reduce(Leaving("k")) = <<>>
  /\ Reduce(attention["q"]) = Reduce(attention["k"])

(* Whenever no modifier is at work the model computes what it did, or what it would with
   centered embeddings once SpinQuant has started, whatever was fused and applied online,
   however the embeddings are tied and the norms are defined. *)
RotationsCancel ==
  steps = <<>> => ResidualsCancel /\ NothingElseIsRotated /\ AttentionCancels
=============================================================================
