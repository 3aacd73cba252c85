-------------------------- MODULE ModifierProtocol ---------------------------
(***************************************************************************)
(* What a modifier's author may rely on when a recipe is applied with      *)
(* oneshot: the order of the callbacks of one modifier object.  It is      *)
(* initialized once, calibrated in one calibration epoch, receives its     *)
(* sequential epoch ends inside that epoch, at least one of them, and is   *)
(* finalized once, after which nothing reaches it.                         *)
(***************************************************************************)
EXTENDS Naturals

CONSTANT Modifiers

VARIABLES
  phase,   \* phase[m]: how far modifier m has come
  epochs   \* epochs[m]: sequential epoch ends m has received

vars == <<phase, epochs>>

Phases == {"new", "initialized", "calibrating", "calibrated", "finalized"}

Init ==
  /\ phase = [m \in Modifiers |-> "new"]
  /\ epochs = [m \in Modifiers |-> 0]

Move(m, from, to) ==
  /\ phase[m] = from
  /\ phase' = [phase EXCEPT ![m] = to]
  /\ UNCHANGED epochs

Initialize(m) == Move(m, "new", "initialized")

CalibrationStart(m) == Move(m, "initialized", "calibrating")

SequentialEpochEnd(m) ==
  /\ phase[m] = "calibrating"
  /\ epochs' = [epochs EXCEPT ![m] = @ + 1]
  /\ UNCHANGED phase

CalibrationEnd(m) == epochs[m] > 0 /\ Move(m, "calibrating", "calibrated")

(* A session that failed is finalized when it is reset, whatever its modifiers
   were doing. *)
Finalize(m) ==
  \E from \in Phases \ {"new", "finalized"} : Move(m, from, "finalized")

Next ==
  \E m \in Modifiers :
    \/ Initialize(m)
    \/ CalibrationStart(m)
    \/ SequentialEpochEnd(m)
    \/ CalibrationEnd(m)
    \/ Finalize(m)

Spec == Init /\ [][Next]_vars
=============================================================================
