------------------------------ MODULE MCOneshot ------------------------------
(* Small instances of Oneshot: gptq and owl stand for modifiers that calibrate
   with data through hooks, rtn for a data-free one. *)
EXTENDS Oneshot, TLC

CONSTANTS gptq, rtn, owl, none

MCModifiers == {gptq, rtn, owl}
MCRecipes == {<<rtn, gptq>>, <<owl>>}

HookModifiers == {gptq, owl}
JustGptq == {gptq}
JustOwl == {owl}
OwlRecipes == {<<owl>>}
NoModifiers == {}

AllPipelines == {"none", "independent", "sequential", "basic", "datafree"}
Independent == {"none", "independent"}

Always == [m \in Modifiers |-> NoIndex]
=============================================================================
