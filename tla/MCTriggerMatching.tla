------------------------- MODULE MCTriggerMatching -------------------------
(* Instances of TriggerMatching for TLC. *)
EXTENDS TriggerMatching

CONSTANTS reset, setVariables

mcActions == {reset, setVariables}
mcTwoSockets == {1, 2}

=============================================================================
