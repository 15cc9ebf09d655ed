-------------------------- MODULE MCActionHandler --------------------------
(* A single action and a sine that is loaded as a preset.                  *)
EXTENDS ActionHandler
CONSTANTS single, sine
MCActions == {single, sine}
MCSingles == {single}
MCSins == {sine}
MCPresets == <<sine>>
=============================================================================
