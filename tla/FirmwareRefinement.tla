------------------------- MODULE FirmwareRefinement -------------------------
(***************************************************************************)
(* FirmwareUpdate implements TwoPhaseUpdate: slots, environment variables  *)
(* and fwup processes add up to one committed image and one on trial.      *)
(***************************************************************************)
EXTENDS FirmwareUpdate

Committed == rootfs[IF env.validated = 1 THEN env.active ELSE Other(env.active)]

Trial == IF env.validated = 1 THEN NoImage ELSE rootfs[env.active]

Chance ==
  IF env.validated = 1 THEN "none"
  ELSE IF env.booted = 0 THEN "new"
  ELSE IF power = "kernel" THEN "taken" ELSE "spent"

Live == IF power = "up" THEN rootfs[mounted] ELSE NoImage

Abstract == INSTANCE TwoPhaseUpdate WITH
              committed <- Committed, trial <- Trial, chance <- Chance,
              live <- Live

(* Every behaviour of fwup, U-Boot and the power supply is one of the      *)
(* two-phase update: no interruption exposes a half-written image, gives a *)
(* trial a second chance or commits an image that has not run.             *)
ImplementsTwoPhaseUpdate == Abstract!Spec
=============================================================================
