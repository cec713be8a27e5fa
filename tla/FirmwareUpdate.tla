--------------------------- MODULE FirmwareUpdate ---------------------------
(***************************************************************************)
(* The A/B life cycle of the firmware: the fwup tasks of fwup.conf and     *)
(* fwup-ops.conf (run as processes on the device), the U-Boot scripts of   *)
(* uboot-config/uboot.env, the U-Boot environment block both sides share,  *)
(* and power loss between any two of their steps.  The eMMC files          *)
(* (fwup-emmc.conf, fwup-ops-emmc.conf, uboot-emmc.env) differ in device   *)
(* names only, so the module models them too.                              *)
(*                                                                         *)
(* The slots are named as in the environment variables.  A slot's rootfs   *)
(* is the image it holds, or NoImage from the moment it is trimmed until   *)
(* the last block of a new image is on the card.                           *)
(***************************************************************************)
CONSTANTS
  Jobs,        \* the fwup processes that may be alive at once
  Images,      \* the firmware images that can be installed
  Good,        \* the images that come up and stay up; the others crash
  Factory,     \* the image the task complete writes
  NoImage,     \* a trimmed or half-written rootfs
  Tasks,       \* the fwup tasks used on this device
  Obligations  \* what the callers of the tasks take care of, see MayStart

TaskNames == {"complete", "upgrade", "prevent-revert", "revert", "validate"}

(* Things no task checks by itself; a caller that keeps one restricts when *)
(* it starts a task.                                                       *)
ObligationNames ==
  {"exclusive",    \* starts no task while another fwup process is alive
   "reboot",       \* starts no task between a switch of slots and the reboot
   "healthy",      \* validates only from the active slot, once it is up
   "settled",      \* prevents a revert only when no trial is under way
   "known-good"}   \* reverts only to a slot that has been validated

ASSUME ImagesAssumption ==
  Good \subseteq Images /\ Factory \in Good /\ NoImage \notin Images
ASSUME TasksAssumption ==
  Tasks \subseteq TaskNames /\ Obligations \subseteq ObligationNames

VARIABLES
  env,      \* the saved U-Boot environment
  rootfs,   \* what each slot holds
  life,     \* history: what has happened to each slot since it was trimmed
  flash,    \* progress of the task complete on this card
  power,    \* "off", in "uboot", "kernel" (handed over), or "up"
  mounted,  \* the slot the running system booted from, "none" when not up
  job       \* the state of each fwup process

vars == <<env, rootfs, life, flash, power, mounted, job>>

Slot == {"a", "b"}
Other(s) == IF s = "a" THEN "b" ELSE "a"

None == [s \in Slot |-> NoImage]
Idle == [task |-> "none", slot |-> "a", image |-> NoImage, stage |-> "init"]

(* uboot-env.bin as built from uboot.env: no X.nerves_fw_* variable is set.*)
(* platform[s] stands for the pair s.nerves_fw_platform and                *)
(* s.nerves_fw_architecture; version[s] for s.nerves_fw_version and uuid.  *)
BlankEnv ==
  [active |-> "a", validated |-> 1, booted |-> 0, autovalidate |-> 0,
   platform |-> [s \in Slot |-> FALSE], version |-> None]

(* The environment after on-finish of complete.                            *)
FactoryEnv ==
  [BlankEnv EXCEPT !.platform["a"] = TRUE, !.version["a"] = Factory]

Init ==
  /\ env = FactoryEnv
  /\ rootfs = [None EXCEPT !["a"] = Factory]
  /\ life = [s \in Slot |-> IF s = "a" THEN "proven" ELSE "torn"]
  /\ flash = "done"
  /\ power = "off"
  /\ mounted = "none"
  /\ job = [j \in Jobs |-> Idle]

-----------------------------------------------------------------------------
(* Starting and ending a fwup process.                                     *)

MayStart(t) ==
  /\ "exclusive" \in Obligations => \A j \in Jobs : job[j] = Idle
  /\ "reboot" \in Obligations => mounted = env.active

Start(j, t, s, i) ==
  /\ power = "up"
  /\ t \in Tasks
  /\ job[j] = Idle
  /\ MayStart(t)
  /\ job' = [job EXCEPT ![j] =
               [task |-> t, slot |-> s, image |-> i, stage |-> "init"]]
  /\ UNCHANGED <<env, rootfs, life, flash, power, mounted>>

At(j, t, stages) == job[j].task = t /\ job[j].stage \in stages

GoTo(j, stage) == job' = [job EXCEPT ![j].stage = stage]
Done(j) == job' = [job EXCEPT ![j] = Idle]

(* fwup gives up: a bad archive, a lost connection, a write error, a kill. *)
Abort(j) ==
  /\ job[j] # Idle
  /\ Done(j)
  /\ UNCHANGED <<env, rootfs, life, flash, power, mounted>>

Trim(s) ==
  /\ rootfs' = [rootfs EXCEPT ![s] = NoImage]
  /\ life' = [life EXCEPT ![s] = "torn"]

-----------------------------------------------------------------------------
(* upgrade.a and upgrade.b: fwup takes the first task of the prefix whose  *)
(* requirements hold; with validated = 0 that is upgrade.unvalidated, which*)
(* only reports an error.                                                  *)

(* Mutant: no require-uboot-variable on nerves_fw_active.                  *)
UpgradesAnySlot(j, s, i) ==
  /\ env.validated = 1
  /\ Start(j, "upgrade", s, i)

StartUpgrade(j, s, i) ==
  /\ env.active = Other(s)
  /\ env.validated = 1
  /\ Start(j, "upgrade", s, i)

(* Mutant: the switch of slots moves from on-finish to on-init.            *)
SwitchesFirst(j) ==
  /\ At(j, "upgrade", {"init"})
  /\ Trim(job[j].slot)
  /\ env' = [env EXCEPT !.active = job[j].slot, !.validated = 0, !.booted = 0]
  /\ GoTo(j, "write")
  /\ UNCHANGED <<flash, power, mounted>>

UpgradeInit(j) ==
  /\ At(j, "upgrade", {"init"})
  /\ Trim(job[j].slot)
  /\ GoTo(j, "write")
  /\ UNCHANGED <<env, flash, power, mounted>>

UpgradeWrite(j) ==
  /\ At(j, "upgrade", {"write"})
  /\ rootfs' = [rootfs EXCEPT ![job[j].slot] = job[j].image]
  /\ life' = [life EXCEPT ![job[j].slot] = "fresh"]
  /\ GoTo(j, "finish")
  /\ UNCHANGED <<env, flash, power, mounted>>

(* Mutants: one uboot_setenv of on-finish is forgotten.                    *)
KeepsValidated(e, s, i) ==
  [e EXCEPT !.version[s] = i, !.active = s, !.booted = 0]
KeepsBooted(e, s, i) ==
  [e EXCEPT !.version[s] = i, !.active = s, !.validated = 0]
KeepsVersion(e, s, i) ==
  [e EXCEPT !.active = s, !.validated = 0, !.booted = 0]

UpgradedEnv(e, s, i) ==
  [e EXCEPT !.version[s] = i, !.active = s, !.validated = 0, !.booted = 0]

UpgradeFinish(j) ==
  /\ At(j, "upgrade", {"finish"})
  /\ env' = UpgradedEnv(env, job[j].slot, job[j].image)
  /\ Done(j)
  /\ UNCHANGED <<rootfs, life, flash, power, mounted>>

-----------------------------------------------------------------------------
(* prevent-revert.a and prevent-revert.b.  fwup caches the environment, so *)
(* the unset variables and the trim may reach the card in either order.    *)

StartPreventRevert(j, s) ==
  /\ env.active = Other(s)
  /\ "settled" \in Obligations => env.validated = 1
  /\ Start(j, "prevent-revert", s, NoImage)

PreventRevertUnset(j) ==
  /\ At(j, "prevent-revert", {"init", "unset"})
  /\ env' = [env EXCEPT !.platform[job[j].slot] = FALSE]
  /\ IF job[j].stage = "init" THEN GoTo(j, "trim") ELSE Done(j)
  /\ UNCHANGED <<rootfs, life, flash, power, mounted>>

PreventRevertTrim(j) ==
  /\ At(j, "prevent-revert", {"init", "trim"})
  /\ Trim(job[j].slot)
  /\ IF job[j].stage = "init" THEN GoTo(j, "unset") ELSE Done(j)
  /\ UNCHANGED <<env, flash, power, mounted>>

-----------------------------------------------------------------------------
(* revert.a and revert.b: neither looks at what the slot holds, and booted *)
(* keeps its value.                                                        *)

StartRevert(j, s) ==
  /\ env.active = Other(s)
  /\ env.platform[s]
  /\ "known-good" \in Obligations => life[s] = "proven"
  /\ Start(j, "revert", s, NoImage)

Revert(j) ==
  /\ At(j, "revert", {"init"})
  /\ env' = [env EXCEPT !.active = job[j].slot, !.validated = 1]
  /\ Done(j)
  /\ UNCHANGED <<rootfs, life, flash, power, mounted>>

(* validate has no requirement at all.  A system that validates the slot it*)
(* runs from vouches for it, which life records.                           *)
StartValidate(j) ==
  /\ "healthy" \in Obligations =>
       mounted = env.active /\ rootfs[mounted] \in Good
  /\ Start(j, "validate", env.active, NoImage)

Validate(j) ==
  /\ At(j, "validate", {"init"})
  /\ env' = [env EXCEPT !.validated = 1]
  /\ life' = IF mounted = env.active /\ rootfs[mounted] \in Good
               THEN [life EXCEPT ![mounted] = "proven"]
               ELSE life
  /\ Done(j)
  /\ UNCHANGED <<rootfs, flash, power, mounted>>

JobStep(j) ==
  \/ UpgradeInit(j) \/ UpgradeWrite(j) \/ UpgradeFinish(j)
  \/ PreventRevertUnset(j) \/ PreventRevertTrim(j)
  \/ Revert(j) \/ Validate(j)

-----------------------------------------------------------------------------
(* Booting: bootcmd runs fit_boot, that is init_mmc, nerves_init,          *)
(* set_bootargs, load_fit and bootm.                                       *)

PowerOn ==
  /\ power = "off"
  /\ power' = "uboot"
  /\ flash' = IF flash = "done" THEN "done" ELSE "partial"
  /\ UNCHANGED <<env, rootfs, life, mounted, job>>

(* Mutants: the active slot is set to its device, booted is not saved, the *)
(* unvalidated firmware is booted again.                                   *)
RevertsToDevice(e) == [e EXCEPT !.active = "rootfs_b", !.validated = 1]
BootedNotSaved(e) ==
  IF e.booted = 1 /\ e.validated = 0
    THEN [e EXCEPT !.active = Other(e.active), !.validated = 1]
    ELSE e
NeverReverts(e) == [e EXCEPT !.booted = 1]

NervesRevert(e) == [e EXCEPT !.active = Other(e.active), !.validated = 1]

NervesInitEnv(e) ==
  IF e.booted = 1
    THEN IF e.validated = 0 THEN NervesRevert(e) ELSE e
    ELSE [e EXCEPT !.booted = 1,
                   !.validated = IF e.autovalidate = 1 THEN 1 ELSE @]

NervesInit ==
  /\ power = "uboot"
  /\ env' = NervesInitEnv(env)
  /\ power' = "kernel"
  /\ UNCHANGED <<rootfs, life, flash, mounted, job>>

(* set_rootvars picks root= from nerves_fw_active.                         *)
HandOver ==
  /\ power = "kernel"
  /\ rootfs[env.active] # NoImage
  /\ power' = "up"
  /\ mounted' = env.active
  /\ life' = [life EXCEPT ![env.active] = IF @ = "fresh" THEN "tried" ELSE @]
  /\ UNCHANGED <<env, rootfs, flash, job>>

(* panic=-1: a kernel that cannot mount its root reboots at once.          *)
KernelPanic ==
  /\ power = "kernel"
  /\ rootfs[env.active] = NoImage
  /\ power' = "uboot"
  /\ UNCHANGED <<env, rootfs, life, flash, mounted, job>>

Down(p) ==
  /\ power' = p
  /\ mounted' = "none"
  /\ job' = [j \in Jobs |-> Idle]
  /\ UNCHANGED <<env, rootfs, life, flash>>

Reboot == power = "up" /\ Down("uboot")
PowerLoss == power # "off" /\ Down("off")

-----------------------------------------------------------------------------
(* The task complete, run on a card (or by mix emmc_flash on an eMMC) that *)
(* is not in use.  Resources are written in the order of the file-resource *)
(* declarations: the environment before the rootfs.                        *)

FlashStep(from, to) == power = "off" /\ flash \in from /\ flash' = to

FlashEnv ==
  /\ "complete" \in Tasks
  /\ FlashStep({"done", "partial", "env", "write", "finish"}, "env")
  /\ env' = BlankEnv
  /\ UNCHANGED <<rootfs, life, power, mounted, job>>

FlashRootfs ==
  /\ FlashStep({"env"}, "write")
  /\ Trim("a")
  /\ UNCHANGED <<env, power, mounted, job>>

FlashWritten ==
  /\ FlashStep({"write"}, "finish")
  /\ rootfs' = [rootfs EXCEPT !["a"] = Factory]
  /\ life' = [life EXCEPT !["a"] = "proven"]
  /\ UNCHANGED <<env, power, mounted, job>>

FlashFinish ==
  /\ FlashStep({"finish"}, "done")
  /\ env' = FactoryEnv
  /\ Trim("b")
  /\ UNCHANGED <<power, mounted, job>>

-----------------------------------------------------------------------------
Operator ==
  \E j \in Jobs :
    \/ \E s \in Slot :
         \/ \E i \in Images : StartUpgrade(j, s, i)
         \/ StartPreventRevert(j, s)
         \/ StartRevert(j, s)
    \/ StartValidate(j)
    \/ Abort(j)

Boot == PowerOn \/ NervesInit \/ HandOver \/ KernelPanic

Flash == FlashEnv \/ FlashRootfs \/ FlashWritten \/ FlashFinish

Next ==
  \/ Operator
  \/ \E j \in Jobs : JobStep(j)
  \/ Boot
  \/ Reboot
  \/ PowerLoss
  \/ Flash

Spec == Init /\ [][Next]_vars

(* Power stays on often enough for U-Boot to do its work, a broken image   *)
(* does crash, a switch of slots is followed by a reboot, and a fwup       *)
(* process ends: what erlinit and nerves_runtime do, which are not part of *)
(* this repository.  The validation of a healthy trial is in Startup.      *)
Fairness ==
  /\ WF_vars(PowerOn)
  /\ SF_vars(NervesInit)
  /\ SF_vars(HandOver)
  /\ WF_vars(KernelPanic)
  /\ WF_vars(power = "up" /\ rootfs[mounted] \notin Good /\ Reboot)
  /\ WF_vars(mounted # env.active /\ Reboot)
  /\ SF_vars(\E j \in Jobs : Validate(j))
  /\ \A j \in Jobs : WF_vars(JobStep(j) \/ Abort(j))

-----------------------------------------------------------------------------
Env ==
  [active : Slot, validated : {0, 1}, booted : {0, 1}, autovalidate : {0, 1},
   platform : [Slot -> BOOLEAN], version : [Slot -> Images \cup {NoImage}]]

TypeOK ==
  /\ env \in Env
  /\ rootfs \in [Slot -> Images \cup {NoImage}]
  /\ life \in [Slot -> {"torn", "fresh", "tried", "proven"}]
  /\ flash \in {"env", "write", "finish", "done", "partial"}
  /\ power \in {"off", "uboot", "kernel", "up"}
  /\ mounted \in Slot \cup {"none"}
  /\ job \in [Jobs -> [task : TaskNames \cup {"none"}, slot : Slot,
                       image : Images \cup {NoImage},
                       stage : {"init", "write", "finish", "trim", "unset"}]]

(* Whatever power loss interrupts, a fallback is left: an environment that *)
(* claims validated firmware names a slot that once ran and was validated, *)
(* and during a trial the other slot, where nerves_revert goes, is one.    *)
FailoverSafe ==
  flash = "done" =>
    life[IF env.validated = 1 THEN env.active ELSE Other(env.active)] = "proven"

(* U-Boot never hands over to a slot that is trimmed or half written, on   *)
(* any card whose flashing was completed.                                  *)
NeverPanics ==
  flash = "done" /\ power = "kernel" => rootfs[env.active] # NoImage

(* nerves_fw_booted is there so that firmware on trial runs once: U-Boot   *)
(* never starts an unvalidated image a second time.                        *)
TrialBootedOnce ==
  [][power = "kernel" /\ power' = "up" /\ env.validated = 0
       => life[env.active] = "fresh"]_vars

(* "OTA upgrades - write to the inactive slot": while the device is on, no *)
(* step touches the slot it runs from or the slot it would boot next.      *)
WritesInactiveOnly ==
  [][\A s \in Slot : power # "off" /\ rootfs'[s] # rootfs[s]
       => s # mounted /\ s # env.active]_vars

(* Without any lock between fwup processes, the slot the device runs from  *)
(* is still never touched as long as a switch of slots leads to a reboot.  *)
RunningSlotKept ==
  [][\A s \in Slot : power = "up" /\ rootfs'[s] # rootfs[s] => s # mounted]_vars

(* The version and uuid reported for the active slot are those of the image*)
(* in it, across interrupted upgrades and failovers.                       *)
ActiveMetadata ==
  flash = "done" => env.version[env.active] = rootfs[env.active]

(* "revert - go back to the previous validated slot".                      *)
RevertGoesToValidated ==
  [][\A j \in Jobs : Revert(j) => life[job[j].slot] = "proven"]_vars

(* The same sentence read as a promise: from validated firmware, a slot    *)
(* that still holds validated firmware can be reverted to.                 *)
PreviousSlotRevertible ==
  \A s \in Slot :
    flash = "done" /\ env.active = Other(s) /\ env.validated = 1
      /\ life[s] = "proven" => env.platform[s]

(* A trial ends, with the new image validated or the old one active again. *)
TrialResolved == env.validated = 0 ~> env.validated = 1
=============================================================================
