-------------------------- MODULE MCFirmwareUpdate --------------------------
(***************************************************************************)
(* Instances of FirmwareUpdate for TLC: one good factory image, one good   *)
(* update and one that crashes are the least that tells a failover from a  *)
(* validated upgrade.                                                      *)
(***************************************************************************)
EXTENDS FirmwareUpdate, TLC

CONSTANTS j1, j2, factory, update, broken

OneJob == {j1}
TwoJobs == {j1, j2}
ThreeImages == {factory, update, broken}
GoodImages == {factory, update}

(* Nothing but care about what is validated, and a reboot after a switch.  *)
ConcurrentObligations == {"healthy", "reboot"}

(* All obligations but one, for the runs that show what it is needed for.  *)
NoPreventRevert == TaskNames \ {"prevent-revert"}
AnyKnownGood == ObligationNames \ {"known-good"}

(* Fwup processes are interchangeable.                                     *)
Symmetry == Permutations(Jobs)
=============================================================================
