------------------------ MODULE MCWeightCalibration ------------------------
(* Three fused projections and another weight on up to two ranks, in one epoch
   or in several. *)
EXTENDS WeightCalibration

CONSTANTS q, k, v, o, r1, r2

MCModules == {q, k, v, o}
MCFusedGroups == {{q, k, v}}
MCRanks == {r1, r2}

MCSchedules == 
  {<< <<q, k, v, o>> >>, << <<q, k, v>>, <<o>> >>, << <<q>>, <<k>>, <<v, o>> >>,
   << <<q, o>>, <<k, v>> >>}

(* The orders in which the hooks of some modules run first. *)
MCOrders == {<<q, k, v, o>>, <<o, v, k, q>>, <<q, v, o>>}

(* The data of all ranks reaches the same modules in the same order. *)
MCCoverages == {[r \in Ranks |-> s] : s \in MCOrders}

(* What WeightCalibrationProofs assumes of schedules and data. *)
ASSUME MCWeightAssumption == SchedulesAreSound /\ DataIsBalanced

MCHomes == [Modules -> Ranks]
=============================================================================
