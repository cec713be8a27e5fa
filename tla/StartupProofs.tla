---------------------------- MODULE StartupProofs ----------------------------
(***************************************************************************)
(* Proofs about Startup, for every set of images, whatever file systems    *)
(* they expect, and every set of fwup processes.  The data partition does  *)
(* not disturb the firmware: every step of Startup is a step of            *)
(* FirmwareUpdate or leaves its variables alone, so what is proved about   *)
(* that module holds here.                                                 *)
(***************************************************************************)
EXTENDS Startup, FirmwareUpdateProofs

USE DEF Slot

LEMMA FlashesWithPowerOff ==
  ASSUME Flash
  PROVE  power = "off" /\ UNCHANGED <<power, mounted, job>>
BY DEF Flash, FlashEnv, FlashRootfs, FlashWritten, FlashFinish, FlashStep

LEMMA StepIsFirmwareStep == [StartupNext]_allVars => [Next]_vars
<1>1. CASE UNCHANGED allVars
  BY <1>1 DEF allVars
<1>2. CASE CallsFwup \/ \E j \in Jobs : FwupStep(j)
  BY <1>2 DEF CallsFwup, FwupStep, Next
<1>3. CASE BootStep \/ GoesDown \/ FlashStepData
  BY <1>3 DEF BootStep, GoesDown, FlashStepData, Next
<1>4. CASE \/ ErlinitMount \/ WlanAppears \/ ScriptSleeps \/ ScriptEnds
           \/ RuntimeMount \/ AppSaves \/ Corruption \/ FactoryReset
  BY <1>4 DEF ErlinitMount, WlanAppears, ScriptSleeps, ScriptEnds,
              RuntimeMount, AppSaves, Corruption, FactoryReset, StartReset,
              ResetTrim, ResetErase, ResetAborts
<1> QED
  BY <1>1, <1>2, <1>3, <1>4 DEF StartupNext

(* Startup implements FirmwareUpdate.                                      *)
THEOREM StartupIsFirmware == StartupSpec => Spec
<1>1. StartupInit => Init
  BY DEF StartupInit
<1> QED
  BY <1>1, StepIsFirmwareStep, PTL DEF StartupSpec, Spec

-----------------------------------------------------------------------------
(* Type correctness.                                                       *)

LEMMA FsFacts ==
  /\ Fs[Factory] \in FileSystems /\ Fs[Factory] # Unset /\ Fs[Factory] # Blank
  /\ \A i \in Images : Fs[i] # Blank
BY ImagesAssumption, FsAssumption

LEMMA NextWaited ==
  ASSUME waited \in 0..Rounds, [StartupNext]_allVars
  PROVE  waited' \in 0..Rounds
<1>1. CASE GoesDown
  BY <1>1 DEF GoesDown, Rounds
<1>2. CASE ScriptSleeps
  BY <1>2 DEF ScriptSleeps, Rounds
<1>3. CASE UNCHANGED waited
  BY <1>3
<1>4. CASE \/ CallsFwup \/ (\E j \in Jobs : FwupStep(j)) \/ BootStep
           \/ FlashStepData
  BY <1>3, <1>4
  DEF CallsFwup, FwupStep, BootStep, FlashStepData, userland, wait
<1>5. CASE ErlinitMount \/ WlanAppears \/ ScriptEnds \/ RuntimeMount
  BY <1>3, <1>5
  DEF ErlinitMount, WlanAppears, ScriptEnds, RuntimeMount, wait
<1>6. CASE AppSaves \/ Corruption \/ FactoryReset
  BY <1>3, <1>6
  DEF AppSaves, Corruption, FactoryReset, StartReset, ResetTrim, ResetErase,
      ResetAborts, userland, wait
<1>7. CASE UNCHANGED allVars
  BY <1>3, <1>7 DEF allVars, userland, wait
<1> QED
  BY <1>1, <1>2, <1>4, <1>5, <1>6, <1>7 DEF StartupNext

LEMMA NextStartupTypeOK ==
  ASSUME TypeOK, StartupTypeOK, [StartupNext]_allVars
  PROVE  StartupTypeOK'
<1> USE DEF StartupTypeOK
<1> HIDE DEF Rounds
<1>w. waited' \in 0..Rounds
  BY NextWaited
<1>1. CASE UNCHANGED allVars
  BY <1>1, <1>w DEF allVars, partition, userland, wait
<1>2. CASE CallsFwup \/ (\E j \in Jobs : FwupStep(j)) \/ BootStep \/ GoesDown
  BY <1>2, <1>w DEF CallsFwup, FwupStep, BootStep, GoesDown, partition,
                    userland, wait
<1>3. CASE FlashStepData
  BY <1>3, <1>w, FsFacts DEF FlashStepData, Blanked, userland, wait
<1>4. CASE ErlinitMount \/ WlanAppears \/ ScriptSleeps \/ ScriptEnds
  BY <1>4, <1>w DEF ErlinitMount, WlanAppears, ScriptSleeps, ScriptEnds,
                    Starts, partition, wait
<1>5. CASE RuntimeMount
  <2>1. fstype[env.active] \in FileSystems \cup {Unset}
    BY DEF TypeOK, Env
  <2>2. p4' \in FileSystems \cup {Blank} /\ saved' \in BOOLEAN
        /\ data' \in BOOLEAN
    BY <1>5, <2>1 DEF RuntimeMount
  <2> QED
    BY <1>5, <1>w, <2>2 DEF RuntimeMount, Starts, wait
<1>6. CASE AppSaves \/ Corruption \/ FactoryReset
  BY <1>6, <1>w DEF AppSaves, Corruption, FactoryReset, StartReset, ResetTrim,
                    ResetErase, ResetAborts, Erases, Blanked, partition,
                    userland, wait
<1> QED
  BY <1>1, <1>2, <1>3, <1>4, <1>5, <1>6 DEF StartupNext

(* The state of the partition and of user land stays of its type.          *)
THEOREM StartupTypeCorrect == StartupSpec => []StartupTypeOK
<1>1. StartupInit => StartupTypeOK
  <2>1. ASSUME StartupInit PROVE waited \in 0..Rounds
    BY <2>1 DEF StartupInit, Rounds
  <2> QED
    BY <2>1, FsFacts DEF StartupInit, StartupTypeOK
<1>2. TypeOK /\ StartupTypeOK /\ [StartupNext]_allVars => StartupTypeOK'
  BY NextStartupTypeOK
<1> QED
  BY <1>1, <1>2, StartupIsFirmware, TypeCorrect, PTL DEF StartupSpec

-----------------------------------------------------------------------------
(* The partition only ever has the file system of the image complete wrote,*)
(* as both slots' descriptions are that one or missing.                    *)
PartitionInv ==
  /\ \A s \in Slot : fstype[s] \in {Fs[Factory], Unset}
  /\ p4 \in {Fs[Factory], Blank}
  /\ saved => p4 # Blank

LEMMA NextPartitionInv ==
  ASSUME TypeOK, PartitionInv, [StartupNext]_allVars
  PROVE  PartitionInv'
<1> USE DEF PartitionInv
<1>1. CASE UNCHANGED partition
  BY <1>1 DEF partition
<1>2. CASE FlashStepData
  BY <1>2 DEF FlashStepData, Blanked
<1>3. CASE RuntimeMount
  <2>1. env.active \in Slot
    BY DEF TypeOK, Env
  <2> QED
    BY <1>3, <2>1, FsFacts DEF RuntimeMount
<1>4. CASE AppSaves \/ Corruption \/ FactoryReset
  BY <1>4 DEF AppSaves, Corruption, FactoryReset, StartReset, ResetTrim,
              ResetErase, ResetAborts, Blanked, partition
<1> QED
  BY <1>1, <1>2, <1>3, <1>4
  DEF StartupNext, allVars, CallsFwup, FwupStep, BootStep, GoesDown,
      ErlinitMount, WlanAppears, ScriptSleeps, ScriptEnds, partition

LEMMA PartitionInvHolds == StartupSpec => []PartitionInv
<1>1. StartupInit => PartitionInv
  BY DEF StartupInit, PartitionInv
<1>2. TypeOK /\ PartitionInv /\ [StartupNext]_allVars => PartitionInv'
  BY NextPartitionInv
<1> QED
  BY <1>1, <1>2, StartupIsFirmware, TypeCorrect, PTL DEF StartupSpec

(* What an application has saved is lost to a factory reset, to complete   *)
(* or to corruption only, with no obligation on the callers of fwup.       *)
THEOREM DataKept == StartupSpec => DataSurvives
<1> DEFINE Kept == saved /\ ~saved'
                     => FactoryReset \/ FlashStepData \/ Corruption
<1>1. ASSUME TypeOK, PartitionInv, StartupNext PROVE Kept
  <2>1. CASE UNCHANGED saved
    BY <2>1
  <2>2. CASE RuntimeMount
    <3>1. env.active \in Slot
      BY <1>1 DEF TypeOK, Env
    <3>2. fstype[env.active] \in {Fs[Factory], Unset}
      BY <1>1, <3>1 DEF PartitionInv
    <3>3. saved => p4 = Fs[Factory]
      BY <1>1 DEF PartitionInv
    <3> QED
      BY <2>2, <3>2, <3>3 DEF RuntimeMount
  <2>3. CASE AppSaves
    BY <2>3 DEF AppSaves
  <2> QED
    BY <1>1, <2>1, <2>2, <2>3
    DEF StartupNext, CallsFwup, FwupStep, BootStep, GoesDown, ErlinitMount,
        WlanAppears, ScriptSleeps, ScriptEnds, partition
<1>2. TypeOK /\ PartitionInv /\ [StartupNext]_allVars => [Kept]_allVars
  BY <1>1
<1> HIDE DEF Kept
<1> QED
  BY <1>2, StartupIsFirmware, TypeCorrect, PartitionInvHolds, PTL
  DEF StartupSpec, DataSurvives, Kept

-----------------------------------------------------------------------------
(* Until applications run, no fwup process does and the mounted slot is the*)
(* active one.                                                             *)
StageInv ==
  /\ power = "up" <=> startup # "down"
  /\ startup \in {"erlinit", "script", "runtime"} =>
       mounted = env.active /\ \A j \in Jobs : job[j] = Idle
  /\ startup # "down" => mounted \in Slot /\ rootfs[mounted] \in Images

DescribedInv ==
  flash = "done" => fstype["a"] = Fs[Factory] /\ fstype["b"] = Unset

MountInv ==
  /\ startup \in {"script", "runtime", "app"} =>
       data \/ p4 # Fs[rootfs[mounted]]
  /\ flash = "done" /\ startup = "app" /\ mounted = "a" => data

ServiceInv == StageInv /\ DescribedInv /\ MountInv

LEMMA FwupServiceInv ==
  ASSUME TypeOK, StartupTypeOK, RunningInv, ServiceInv,
         CallsFwup \/ \E j \in Jobs : FwupStep(j)
  PROVE  ServiceInv'
<1> USE DEF ServiceInv, StageInv, DescribedInv, MountInv
<1>1. CASE CallsFwup
  <2>1. UNCHANGED <<rootfs, flash, power, mounted>>
    BY <1>1 DEF CallsFwup, Operator, StartUpgrade, StartPreventRevert,
                StartRevert, StartValidate, Start, Abort
  <2> QED
    BY <1>1, <2>1 DEF CallsFwup, partition, userland
<1>2. ASSUME NEW j \in Jobs, FwupStep(j) PROVE ServiceInv'
  <2>1. job[j] # Idle /\ UNCHANGED <<flash, power, mounted>>
    <3>1. JobStep(j)
      BY <1>2 DEF FwupStep
    <3> QED
      BY <3>1 DEF JobStep, UpgradeInit, UpgradeWrite, UpgradeFinish, At, Idle,
                  PreventRevertUnset, PreventRevertTrim, Revert, Validate
  <2>2. power = "up" /\ startup = "app" /\ mounted \in Slot
    <3>1. power = "up"
      BY <2>1 DEF RunningInv
    <3> QED
      BY <2>1, <3>1 DEF StartupTypeOK
  <2>3. rootfs'[mounted] = rootfs[mounted]
    <3>1. Next
      BY <1>2 DEF FwupStep, Next
    <3> QED
      BY <2>2, <3>1, RunningStep
  <2> QED
    BY <1>2, <2>1, <2>2, <2>3 DEF FwupStep, partition, userland
<1> QED
  BY <1>1, <1>2

LEMMA PowerServiceInv ==
  ASSUME TypeOK, RunningInv, ServiceInv, BootStep \/ GoesDown \/ FlashStepData
  PROVE  ServiceInv'
<1> USE DEF ServiceInv, StageInv, DescribedInv, MountInv
<1>1. CASE GoesDown
  BY <1>1 DEF GoesDown, Reboot, PowerLoss, Down, partition
<1>2. CASE FlashStepData
  BY <1>2, FlashesWithPowerOff DEF FlashStepData, userland
<1>3. CASE BootStep
  <2>1. /\ power # "up" /\ startup = "down" /\ fstype' = fstype
        /\ flash' = "done" => flash = "done"
    BY <1>3 DEF BootStep, Boot, PowerOn, NervesInit, HandOver, KernelPanic,
                partition
  <2>2. CASE HandOver
    <3>1. env.active \in Slot /\ rootfs[env.active] \in Images
      BY <2>2 DEF HandOver, TypeOK, Env
    <3>2. \A j \in Jobs : job[j] = Idle
      BY <2>1 DEF RunningInv
    <3> QED
      BY <1>3, <2>1, <2>2, <3>1, <3>2 DEF BootStep, HandOver
  <2>3. CASE PowerOn \/ NervesInit \/ KernelPanic
    BY <1>3, <2>1, <2>3 DEF BootStep, PowerOn, NervesInit, KernelPanic
  <2> QED
    BY <1>3, <2>2, <2>3 DEF BootStep, Boot
<1> QED
  BY <1>1, <1>2, <1>3

LEMMA StageServiceInv ==
  ASSUME TypeOK, ServiceInv,
         \/ ErlinitMount \/ WlanAppears \/ ScriptSleeps \/ ScriptEnds
         \/ RuntimeMount \/ AppSaves
  PROVE  ServiceInv'
<1> USE DEF ServiceInv, StageInv, DescribedInv, MountInv
<1>1. CASE ErlinitMount
  BY <1>1 DEF ErlinitMount, Starts, vars, partition
<1>2. CASE WlanAppears \/ ScriptSleeps \/ ScriptEnds \/ AppSaves
  BY <1>2 DEF WlanAppears, ScriptSleeps, ScriptEnds, AppSaves, Starts, vars,
              partition, userland
<1>3. CASE RuntimeMount
  <2>1. /\ startup = "runtime" /\ startup' = "app" /\ power = "up"
        /\ mounted = env.active /\ UNCHANGED <<vars, fstype>>
    BY <1>3 DEF RuntimeMount, Starts
  <2>2. StageInv' /\ DescribedInv'
    BY <2>1 DEF vars
  <2>3. CASE data \/ fstype[mounted] = Unset
    <3>1. UNCHANGED <<p4, data>>
      BY <1>3, <2>1, <2>3 DEF RuntimeMount
    <3>2. flash = "done" /\ mounted = "a" => data
      BY <2>3, FsFacts
    <3> QED
      BY <2>1, <2>2, <3>1, <3>2 DEF vars
  <2>4. CASE ~(data \/ fstype[mounted] = Unset)
    <3>1. data' = TRUE
      BY <1>3, <2>1, <2>4 DEF RuntimeMount
    <3> QED
      BY <2>2, <3>1
  <2> QED
    BY <2>3, <2>4
<1> QED
  BY <1>1, <1>2, <1>3

LEMMA ErasedServiceInv ==
  ASSUME ServiceInv, Corruption \/ FactoryReset
  PROVE  ServiceInv'
<1>1. /\ UNCHANGED <<vars, fstype, data, startup>>
      /\ p4' = Blank \/ p4' = p4
  BY DEF Corruption, FactoryReset, StartReset, ResetTrim, ResetErase,
         ResetAborts, Blanked, userland, partition
<1> QED
  BY <1>1, FsFacts DEF vars, ServiceInv, StageInv, DescribedInv, MountInv

LEMMA NextServiceInv ==
  ASSUME TypeOK, StartupTypeOK, RunningInv, ServiceInv, [StartupNext]_allVars
  PROVE  ServiceInv'
<1>1. CASE UNCHANGED allVars
  BY <1>1 DEF allVars, vars, partition, userland, ServiceInv, StageInv,
              DescribedInv, MountInv
<1> QED
  BY <1>1, FwupServiceInv, PowerServiceInv, StageServiceInv, ErasedServiceInv
  DEF StartupNext

(* On a finished card an application finds its data mounted, unless it runs*)
(* from slot b on a partition its image does not expect, as long as no     *)
(* caller starts a task between a switch of slots and the reboot.          *)
THEOREM DataMounted ==
  "reboot" \in Obligations => (StartupSpec => []DataAvailable)
<1> SUFFICES ASSUME "reboot" \in Obligations
             PROVE  StartupSpec => []DataAvailable
  OBVIOUS
<1>1. StartupInit => ServiceInv
  <2> SUFFICES ASSUME StartupInit PROVE ServiceInv
    OBVIOUS
  <2>1. power = "off" /\ startup = "down"
    BY DEF StartupInit, Init
  <2>2. fstype["a"] = Fs[Factory] /\ fstype["b"] = Unset
    BY DEF StartupInit
  <2> QED
    BY <2>1, <2>2 DEF ServiceInv, StageInv, DescribedInv, MountInv
<1>2. TypeOK /\ StartupTypeOK /\ RunningInv /\ ServiceInv
        /\ [StartupNext]_allVars => ServiceInv'
  BY NextServiceInv
<1>3. ServiceInv => DataAvailable
  BY DEF ServiceInv, StageInv, MountInv, DataAvailable
<1> QED
  BY <1>1, <1>2, <1>3, StartupIsFirmware, TypeCorrect, StartupTypeCorrect,
     RunningInvHolds, PTL
  DEF StartupSpec
=============================================================================
