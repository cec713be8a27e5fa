------------------------ MODULE MCFirmwareRefinement ------------------------
(* The instance of MCStartup for the refinement, restricted to the tasks   *)
(* that TwoPhaseUpdate speaks of.                                          *)
EXTENDS FirmwareRefinement, MCStartup

TwoPhaseTasks == {"upgrade", "validate", "prevent-revert"}
TwoPhaseObligations == {"exclusive", "healthy", "settled"}
=============================================================================
