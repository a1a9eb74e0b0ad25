-------------------------- MODULE MCEventController --------------------------
(* Instances of EventController for TLC. *)
EXTENDS EventController

mcAnswers == {"CALLRESULT"}
mcCommands == {"random", "rule", "scenario"}
mcFirstSet == {1}

=============================================================================
