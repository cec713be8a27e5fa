------------------------------ MODULE Startup ------------------------------
(***************************************************************************)
(* From the kernel to the application, beside the A/B firmware of          *)
(* FirmwareUpdate: erlinit mounts the data partition p4, on-start.sh waits *)
(* for wlan0, nerves_runtime has a second look at p4, the application runs.*)
(*                                                                         *)
(* Both slots share p4.  fwup blanks it (complete, factory-reset), erlinit *)
(* mounts it as the image in the active slot says, and nerves_runtime, if  *)
(* that mount failed, mounts or formats it as the environment says.  The   *)
(* environment describes it once per slot, and complete is the only task   *)
(* that sets the description.                                              *)
(***************************************************************************)
EXTENDS FirmwareUpdate, Integers

CONSTANTS
  Fs,     \* the file system the erlinit.config of each image names
  Blank,  \* p4 without a file system that can be mounted
  Unset   \* a description of p4 that is not in the environment

FileSystems == {"ext4", "f2fs"}

ASSUME FsAssumption ==
  Fs \in [Images -> FileSystems] /\ {Blank, Unset} \cap FileSystems = {}

VARIABLES
  fstype,   \* X.nerves_fw_application_part0_fstype, for each slot X
  p4,       \* the file system on the partition
  saved,    \* does it hold what an application has saved there
  data,     \* is it mounted on /root
  startup,  \* who is to act next on the way from the kernel to the application
  wlan0,    \* has the interface appeared
  waited,   \* seconds on-start.sh has waited for it
  eraser    \* progress of a fwup process that runs factory-reset

partition == <<fstype, p4, saved>>
wait == <<wlan0, waited>>
userland == <<data, startup, wait, eraser>>
allVars == <<vars, partition, userland>>

(* for i in {1..60}: sh is BusyBox ash, which does not expand braces, so   *)
(* the loop has one word to go through.                                    *)
Rounds == 1

StartupInit ==
  /\ Init
  /\ fstype = [s \in Slot |-> IF s = "a" THEN Fs[Factory] ELSE Unset]
  /\ p4 = Blank /\ saved = FALSE
  /\ data = FALSE /\ startup = "down" /\ eraser = "none"
  /\ wlan0 = FALSE /\ waited = 0

Blanked == p4' = Blank /\ saved' = FALSE

-----------------------------------------------------------------------------
(* The steps of FirmwareUpdate, with what they do to the partition.        *)

(* Applications start fwup, hence only once they run.                      *)
CallsFwup ==
  /\ startup = "app"
  /\ Operator
  /\ UNCHANGED <<partition, userland>>

(* Mutant: upgrade blanks the partition as complete does.                  *)
ErasesOnUpgrade(j) ==
  /\ JobStep(j)
  /\ IF At(j, "upgrade", {"finish"}) THEN Blanked ELSE UNCHANGED <<p4, saved>>
  /\ UNCHANGED <<fstype, userland>>

FwupStep(j) ==
  /\ JobStep(j)
  /\ UNCHANGED <<partition, userland>>

BootStep ==
  /\ Boot
  /\ startup' = IF power' = "up" THEN "erlinit" ELSE startup
  /\ UNCHANGED <<partition, data, wait, eraser>>

GoesDown ==
  /\ Reboot \/ PowerLoss
  /\ data' = FALSE /\ startup' = "down" /\ eraser' = "none"
  /\ wlan0' = FALSE /\ waited' = 0
  /\ UNCHANGED partition

(* Mutant: complete leaves the description of slot a out.                  *)
NeverDescribed ==
  /\ Flash
  /\ fstype' = [s \in Slot |-> Unset]
  /\ IF flash' = "done" THEN Blanked ELSE UNCHANGED <<p4, saved>>
  /\ UNCHANGED userland

(* uboot-env.bin describes nothing; on-finish describes p4 for slot a and  *)
(* zero-fills it.                                                          *)
FlashStepData ==
  /\ Flash
  /\ fstype' = [s \in Slot |->
                  IF s = "a" /\ flash' = "done" THEN Fs[Factory] ELSE Unset]
  /\ IF flash' = "done" THEN Blanked ELSE UNCHANGED <<p4, saved>>
  /\ UNCHANGED userland

-----------------------------------------------------------------------------
(* From the kernel to the application.                                     *)

Starts(from, to) == power = "up" /\ startup = from /\ startup' = to

ErlinitMount ==
  /\ Starts("erlinit", "script")
  /\ data' = (p4 = Fs[rootfs[mounted]])
  /\ UNCHANGED <<vars, partition, wait, eraser>>

(* The driver, which on-start.sh loads, creates the interface some time    *)
(* later or never.                                                         *)
WlanAppears ==
  /\ startup \in {"script", "runtime", "app"}
  /\ ~wlan0 /\ wlan0' = TRUE
  /\ UNCHANGED <<vars, partition, data, startup, waited, eraser>>

(* Mutant: nothing counts the rounds.                                      *)
SleepsOn ==
  /\ startup = "script"
  /\ ~wlan0
  /\ waited' = waited + 1
  /\ UNCHANGED <<vars, partition, data, startup, wlan0, eraser>>

ScriptSleeps ==
  /\ startup = "script"
  /\ ~wlan0 /\ waited < Rounds
  /\ waited' = waited + 1
  /\ UNCHANGED <<vars, partition, data, startup, wlan0, eraser>>

(* Mutant: until ifconfig wlan0; do sleep 1; done.                         *)
WaitsForEver ==
  /\ Starts("script", "runtime")
  /\ wlan0
  /\ UNCHANGED <<vars, partition, data, wait, eraser>>

ScriptEnds ==
  /\ Starts("script", "runtime")
  /\ wlan0 \/ waited = Rounds
  /\ UNCHANGED <<vars, partition, data, wait, eraser>>

(* nerves_runtime looks up the description of the active slot: without one *)
(* it does nothing; else it mounts, formats if that fails, and mounts.     *)
RuntimeMount ==
  /\ Starts("runtime", "app")
  /\ IF data \/ fstype[env.active] = Unset
       THEN UNCHANGED <<p4, saved, data>>
       ELSE /\ data' = TRUE
            /\ p4' = fstype[env.active]
            /\ saved' = (saved /\ p4 = p4')
  /\ UNCHANGED <<vars, fstype, wait, eraser>>

(* What is written after a factory-reset does not outlive the mount.       *)
AppSaves ==
  /\ startup = "app" /\ data
  /\ p4 # Blank
  /\ saved' = TRUE
  /\ UNCHANGED <<vars, fstype, p4, userland>>

(* The file system is damaged beyond mounting.                             *)
Corruption ==
  /\ p4 # Blank
  /\ Blanked
  /\ UNCHANGED <<vars, fstype, userland>>

-----------------------------------------------------------------------------
(* factory-reset, while p4 is mounted.  A card need not heed the trim, the *)
(* memset is what makes the partition blank.                               *)

Erases(from, to) == eraser = from /\ eraser' = to

StartReset ==
  /\ startup = "app"
  /\ Erases("none", "trim")
  /\ UNCHANGED <<vars, partition, data, startup, wait>>

ResetTrim ==
  /\ Erases("trim", "memset")
  /\ Blanked \/ UNCHANGED <<p4, saved>>
  /\ UNCHANGED <<vars, fstype, data, startup, wait>>

ResetErase ==
  /\ Erases("memset", "none")
  /\ Blanked
  /\ UNCHANGED <<vars, fstype, data, startup, wait>>

ResetAborts ==
  /\ eraser # "none" /\ eraser' = "none"
  /\ UNCHANGED <<vars, partition, data, startup, wait>>

FactoryReset == StartReset \/ ResetTrim \/ ResetErase \/ ResetAborts

-----------------------------------------------------------------------------
StartupNext ==
  \/ CallsFwup
  \/ \E j \in Jobs : FwupStep(j)
  \/ BootStep
  \/ GoesDown
  \/ FlashStepData
  \/ ErlinitMount
  \/ WlanAppears \/ ScriptSleeps \/ ScriptEnds
  \/ RuntimeMount
  \/ AppSaves
  \/ Corruption
  \/ FactoryReset

StartupSpec == StartupInit /\ [][StartupNext]_allVars

(* Power stays on often enough for every stage of booting to get its turn  *)
(* again and again, and a healthy trial gets to call validate.             *)
FairSpec ==
  /\ StartupSpec
  /\ Fairness
  /\ SF_allVars(ErlinitMount) /\ SF_allVars(ScriptSleeps)
  /\ SF_allVars(ScriptEnds) /\ SF_allVars(RuntimeMount)
  /\ SF_allVars(env.validated = 0 /\ CallsFwup
                  /\ \E j \in Jobs : StartValidate(j))

-----------------------------------------------------------------------------
(* Properties.                                                             *)

StartupTypeOK ==
  /\ fstype \in [Slot -> FileSystems \cup {Unset}]
  /\ p4 \in FileSystems \cup {Blank}
  /\ saved \in BOOLEAN /\ data \in BOOLEAN
  /\ startup \in {"down", "erlinit", "script", "runtime", "app"}
  /\ wlan0 \in BOOLEAN /\ waited \in 0..Rounds
  /\ eraser \in {"none", "trim", "memset"}

(* What an application has saved is lost to a factory reset, to complete   *)
(* or to corruption, and to nothing else: no upgrade, failover, revert or  *)
(* power loss leads to a format of a partition in use, whatever file       *)
(* systems the images expect, as all formats follow one description.  (The *)
(* CHANGELOG announces such a format: see ReformattedAtBoot.)              *)
DataSurvives ==
  [][saved /\ ~saved' => FactoryReset \/ FlashStepData \/ Corruption]_allVars

(* On a finished card an application finds /root mounted, across upgrades, *)
(* failovers, resets and corruption, as long as it runs from slot a, or    *)
(* from slot b with p4 as its image expects it.                            *)
DataAvailable ==
  flash = "done" /\ startup = "app" =>
    data \/ (mounted = "b" /\ p4 # Fs[rootfs["b"]])

(* However often the power fails, whatever image is installed and whether  *)
(* or not wlan0 and the data partition are there, an application on a good *)
(* image gets to run again and again.                                      *)
ServiceResumes == []<>(startup = "app" /\ rootfs[mounted] \in Good)

(* "If this mount fails due to corruption, etc., nerves_runtime will       *)
(* auto-format it": once applications run, the partition is mounted.       *)
AutoFormatted == flash = "done" /\ startup = "app" => data

(* "On the first boot after this update the data partition fails to mount  *)
(* as F2FS and is reformatted": when nerves_runtime is done with it, a     *)
(* partition with another file system than the running image expects has   *)
(* been given that one.                                                    *)
ReformattedAtBoot ==
  [][RuntimeMount /\ p4 # Blank => p4' = Fs[rootfs[mounted]]]_allVars
=============================================================================
