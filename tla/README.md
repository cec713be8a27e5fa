# Verification of nerves_system_sg2002

TLA+ models of the parts of this repository that decide something at run time, the TLC
instances that check them and the TLAPS proofs about them. The repository is a Nerves system
(Buildroot configuration, boot environment, fwup configuration, overlay scripts, small C tools)
for the SG2002 boards, with an example application (firmware and Phoenix UI).

Check an instance with `tlc -config X.cfg M`, a proof module with `tlapm M.tla`;
`PROJECT.json` lists which instance belongs to which module, what it shows, and which source
lines each definition models.

## 1. The system

| Part | State it keeps | Operations | Interacts with |
|---|---|---|---|
| fwup tasks (`fwup*.conf`, `fwup-ops*.conf`) | slots A and B, data partition, U-Boot environment | complete, upgrade, prevent-revert, revert, validate, factory-reset, status | run by the application or by hand; share the environment with U-Boot |
| U-Boot scripts (`uboot-config/*.env`) | the environment (`nerves_fw_active`, `_validated`, `_booted`, `_autovalidate`) | nerves_init, nerves_revert, set_rootvars, fit_boot | hand over to the kernel, which mounts a slot |
| boot script (`on-start.sh`, `erlinit.config`) | GPIOs, modules, wlan0, `nerves_serial_number` | runs once before the BEAM | erlinit mounts the data partition before it, nerves_runtime after it |
| data partition | file system at p4, its description in the environment | mount, format on failure, factory-reset | erlinit, nerves_runtime (external), fwup |
| USB gadget scripts (two copies of `run_usb.sh`, `S05usbdev`) | configfs: functions, links, UDC; mounts of functionfs | probe, start, stop, UDC, restart | called by on-start.sh |
| example: LED controller, camera state | GenServer state, timers, mailbox, GPIO 15 | poll, turn_off_led; update, get | camera daemon posts to the UI, LED polls the state |
| example: camera page | LiveView assigns, MJPEG response, canvas, white LED | fetch_update, toggle_led, the stream of frames | calls Ui.CameraState from two processes; browser |
| tools: cvi_pinmux, fbtools, memory map generator, emmc_flash | registers, framebuffer, generated headers, eMMC | see source | cvi_pinmux finds the registers as `cvi_board_init.c` leaves them |

Phoenix scaffolding, Buildroot packaging, device trees and kernel and U-Boot patches have no run-time
logic of this project and are not modelled; of the vendored player (mjpeg.js) the camera page's
model has what the page depends on.

### What is hard here, and what correctness means

* **Update and failover.** Several fwup processes (nothing locks them), U-Boot and the power
  switch act on the same two slots and the same environment, and power may fail between any two
  steps. Correct means: there is always a validated slot to fall back to; trial firmware is
  started at most once unless it validates itself; nothing overwrites what is running; every
  trial ends; the device keeps coming back.
* **Startup and data.** Both slots share one data partition. erlinit mounts it as the image says,
  nerves_runtime formats it as the environment says, fwup blanks it under a running application.
  Correct means: nothing but a reset loses what was saved, an application finds its data mounted,
  and neither the data nor wlan0 keeps the application from starting.
* **LED controller.** Timer messages race with the polls that cancel them; a poll blocks in a
  call to another process. Correct means: exactly one poll at a time, no off timer lost, LED and
  pin agree across restarts, and the LED ends up telling the truth.
* **USB gadget.** A sequence of commands builds up kernel state; endpoint accounting decides what
  is accepted; restart must bring back what stop removed.
* **Pin multiplexer.** Name lookup by prefix in a table where one pin's name is another's prefix;
  option arguments parsed into buffers that survive from one option to the next.
* **Framebuffer tools and memory map.** Processes draw on one framebuffer without a lock; coordinates
  are clipped in 16 bits and addressed in 32. Correct means: nothing is stored beside the screen,
  each bar ends up showing its last line, the pattern its tiles. The map that reserves the memory
  is computed from both ends of DRAM; two assertions have to catch every overlap.
* **Camera page.** Two processes of one viewer call a server that may die under them, and the
  browser combines what both deliver. Correct means: nobody waits for an answer that cannot come, and
  page, boxes and picture end up telling what the camera sees, whatever crashed before.

`PROJECT.json` lists the hazards one by one, each with its line and the properties on it.

## 2. Modules

### FirmwareUpdate

The core. One action per atomic step: starting a fwup process (fwup picks the first task of the
prefix whose `require-uboot-variable` lines hold, at that instant), each step of a running task,
each step of booting, power failing at any time, and the flashing of a card.

* `env` is the saved environment. `platform[s]` stands for the pair `s.nerves_fw_platform` and
  `s.nerves_fw_architecture` (set and unset together), `version[s]` for `s.nerves_fw_version` and
  `uuid`. fwup writes the environment block once when a task ends, so an on-finish is one step.
  `prevent-revert` has both unsets and a trim in its on-init; the cached environment may reach
  the card before or after the trim, so both orders are steps of their own.
* `rootfs[s]` is the image in slot s or `NoImage`, from the trim to the last block of an upgrade.
* `life[s]` is a history variable: torn, fresh (written, never started), tried, proven (validated
  by the system that ran from it, or flashed by `complete`).
* `job[j]` is a fwup process: the task, its slot and image, and the stage it has reached. `Abort`
  is fwup giving up anywhere: bad archive, lost connection, kill.
* `power` is the boot stage; `KernelPanic` is `panic=-1` with a root that cannot be mounted.
* `flash` is the progress of `complete`. A card whose flashing was interrupted is `partial`; it
  claims to be validated and holds no firmware, so the invariants speak of finished cards.

`Obligations` names what no task checks and callers have to: `exclusive` (no second fwup process),
`reboot` (no task between a switch of slots and the reboot), `healthy` (validate only from the
active slot once it is up), `settled` (no prevent-revert on trial firmware), `known-good` (revert
only to a validated slot). The passing runs and the theorems keep the obligations they need. Of the
violation runs `revert_target` alone drops one, `known-good`: there a comment of the repository
promises what needs it. The others keep them all.

### Startup

The way from the kernel to the application, beside the steps of `FirmwareUpdate`, which it extends:
each action is either a step of that module with what it does to the data partition, or leaves its
variables alone (`StartupIsFirmware` proves so).

* `p4` is the file system on the partition, `saved` whether it holds something an application saved,
  `fstype[s]` the description of the partition that the environment has for slot s. `complete` sets
  `fstype["a"]` and no task sets another, `Fs[i]` is the file system in the erlinit.config of image i.
* `startup` is who acts next: erlinit mounts (`ErlinitMount`), on-start.sh waits for wlan0
  (`ScriptSleeps`, `ScriptEnds`), nerves_runtime mounts or formats (`RuntimeMount`, an external
  library), then applications run and may start fwup (`CallsFwup`). `GoesDown` is a reboot or a power
  loss, at any stage.
* factory-reset is a trim and a memset on a partition that is in use. The trim need not blank
  anything, the reset may stop between the two, and what applications write meanwhile is lost with
  the mount.
* `Corruption` damages the file system at any time, so that it cannot be mounted.

### TwoPhaseUpdate, FirmwareRefinement

`TwoPhaseUpdate` is the promise of the A/B scheme: one committed image, at most one on trial, one
chance to run it, then commit by itself or give up. `FirmwareRefinement` maps slots, environment
and boot stage to it: `Committed` is the slot nerves_revert would choose, `Trial` the active slot
while not validated, `Chance` is read off `nerves_fw_booted` and the boot stage, `Live` is what is
running.

### LedController

`Example.LedController` with `Ui.CameraState`. Time advances in ticks of 100 ms; a timer at zero
must fire before the clock moves on, but the process may take any time to handle a message.
`Poll`, `Get` and `HandlePoll` split `handle_info(:poll)` at the blocking `GenServer.call`, so a
timer can fire in the middle; the message then waits in the mailbox although `cancel_timer` was
called. `CameraStateCrash` is the only fault: a call in progress exits, `terminate` runs and the
supervisor starts the controller again.

### CameraPage

One viewer's page: `UiWeb.CameraLive`, the endless response of `UiWeb.CameraController`, and what
the browser draws. `Ui.CameraState` handles its mailbox in order: `Update`, `Get` and `GetFrame` are
its handlers, and the two halves of each `GenServer.call` are steps of their own (`FetchUpdate` and
`ShowState`, `AskFrame` and `SendChunk` or `NoFrame`), so that updates, crashes and the other
process come between. `Crash` makes every caller that waits exit, and a call to a process that is not
there exits at once; the browser joins a LiveView again (`Rejoin`), while nothing but a `Reload` of
the page asks for an ended stream. The player knows that a picture is complete when the next part of
the stream arrives, and makes the one before the source of an image. When that is loaded
(`LoadEvent`), the page's script draws it with the boxes the page has by then. A source may be replaced
while it is still loading. If the event of the old one comes all the same (`LateLoadEvent`), the script
sets its flag `drawing`, finds an image that is not complete and returns; nothing resets the flag, and
the canvas stands still until the page is loaded again.

### UsbGadget

One action per command of `run_usb.sh` and of its callers `S05usbdev`, which uses the copy in `/etc`,
and `on-start.sh`, which uses the other one. That in `/etc` neither knows the class ncm nor counts what
is there of it (`Known`, `Sees`). A command runs to its end, so what can go wrong is the order of commands and the steps that fail in them. The
scripts ignore the errors of single steps, so each step is modelled with what configfs refuses:
a directory that is not empty stays, a link to a bound configuration is refused, removing a link
unbinds. These facts about the kernel are external, and so are the endpoints its function drivers
claim (`ClaimedIn`, `ClaimedOut`); the scripts' own two tables are `Counted...` and `Added...`.

`Obligations` again names what the scripts leave to their callers: `adb-last` (nothing is probed
after adb, which takes no number), `probe-unbound` (nothing is probed while the host sees the
gadget), `udc-for-adb` (the UDC command is what start leaves undone with adb).

`functionfs` is what is mounted on `/dev/usb-ffs/adb`. start mounts it and stop does not unmount it, so
when the function goes a mount without one stays (`Outlive`), and each later start mounts the new
function's on top. StopLeavesMountsOnly says that this is all that stays; it needs no obligation.

### PinMux, PinTable

`cvi_pinmux`: one action per option that writes (`WriteOption`), the others only print. A row of
`func.h` is a name made of a pin and the value of its register. A name is split into its stem and
the digits it ends with, so that one can begin another as VIVO_D1 begins VIVO_D10. `Candidates` is
the lookup by prefix of `convert_func_to_value`, `Marked` the exact one of `print_fun`. The buffers
`pin` and `func` start with anything and keep their contents from one option to the next, also when
`sscanf` finds nothing. A write may fail without a word (`DevmemWrite`).

`PinTable` is the whole of both tables: 122 pins and 664 rows, of which PTEST has a row and is not
among the pins; and what the boot loader's `cvi_board_init` selects before the tool runs. `PinMux`
takes the tables as constants and says in two assumptions what it needs of them; `FunctionsApart` is
the one that matters: no other row for a pin's function begins with the pin's name. TLC evaluates
both on the real tables.

### Framebuffer, MemoryMap

`Framebuffer` models a drawing operation as a *paint*, a function from pixels to colours: `Solid`,
`Str`, `Tile` and `TileLabel` are the primitives with the loops' bounds as they are in the code
(solids include their last row and column), and `Draw` puts a paint on the screen through the clip
of `draw_pixel`. A paint is one step. What can interleave is what lies between two paints: an
`fbbar` reads a line, clears, writes; `fbpattern` draws tile after tile. `fgets` reads what fits, and
the rest of a longer line the next time; when it fails, the bar draws what memset has left in the
buffer. `stray` remembers a store that passed the clip and was not
to the screen.

`MemoryMap` takes the names and formulas of `memmap.py` as they are. Its actions are the choices of
`Config.in` and the build, which the two assertions stop; `SoundMap` says what a map owes its users:
regions in use together lie in DRAM and apart, the parts of the ION buffer inside it and apart, all
but FreeRTOS in the kernel's memory. `MCDisplay` puts the two together: a map is chosen and built,
and the tools then run on the default one.

`MCTools` is the instance for all tools and for `UsbGadget`, with `PinMux` on `PinTable`. None of them
reads what another writes, so each is followed on its own, from one initial state.

## 3. Runs

| Run | Shows |
|---|---|
| ota_all | all tasks, two jobs, all obligations, up to the running application, factory image with ext4 and updates with f2fs: TypeOK, StartupTypeOK, FailoverSafe, NeverPanics, ActiveMetadata, WritesInactiveOnly, DataAvailable, DataSurvives |
| ota_concurrent | all tasks, two jobs without exclusion, only healthy and reboot kept: TrialBootedOnce, RunningSlotKept |
| refinement | FirmwareUpdate implements TwoPhaseUpdate; TrialResolved and ServiceResumes under repeated power loss, crashing images, damaged data and an absent wlan0 |
| led | TypeOK, OnePollAtATime, OffIsOnItsWay, PinFollowsState, OffNotEarly, LedFollowsScene |
| page | TypeOK, PageConsistent, NobodyWaitsInVain, PageFollowsScene, PictureFollowsScene over any number of crashes and reloads |
| tools | GadgetTypeOK, StartsWhole, StopLeavesMountsOnly, CompositeDevice, AcceptedComesUp over all sequences of commands to both copies of run_usb.sh; TypeOK, NothingStray, BarShowsLine, PatternShown; MapSound for every order of choices; PinTypeOK, WriteThenRead, ForeignRefused over all sequences of options on the real tables |
| revert_target | finding: `revert.a` accepts a half-written or rejected slot and declares it validated |
| revert_to_b | finding: `revert.b` can never run, nothing sets `b.nerves_fw_platform` |
| data_unformatted | finding: from slot b, a damaged data partition is never formatted, contrary to the comment in erlinit.config |
| data_reformat | finding: an update to another file system does not reformat the data partition at the first boot, contrary to the CHANGELOG |
| led_flicker | finding: a late `:turn_off_led` switches the LED off in front of a person |
| glyphs | finding: characters are shifted right by a pixel and lose their last column |

**Bounds.** *Update:* two jobs are the least that interleave, and more only repeat the same conflicts
on two slots. Three images (factory, a good update, a broken one) are the least that tells a failover
from a success and an old good image from a new one. Power loss, reboots, flashing and upgrades
are unbounded: the state space is finite without counters. *Startup:* two assignments of file systems
to images, one that changes with an update as it did with a release (`FsChanges`) and one that does
not (`FsStays`); corruption and resets are unbounded. *LED:* the delays of the code in ticks of
100 ms; one crash is enough to reach every state after a restart, and `quiet` stops counting at
`LongQuiet`, the longest delay it is compared with. *Page:* two scenes, one without detections, tell a
stale picture or result from a fresh one; crashes and reloads are unbounded, and at most one
post waits beside the two requests, as the daemon waits for an answer. *Gadget:* all classes but
cvg, which the script counts as it does mass_storage; the endpoint limit of the code bounds the functions. *Pins:* the whole tables; the fourteen arguments
of `-w` concern VIVO_D1, VIVO_D10, which alone are ambiguous (an ASSUME of the instance), two pins the
boot loader sets, unknown names, and arguments with parts missing. *Display:* a
screen of 24 by 11 pixels with a font of 3 by 2, so that tiles and labels overlap; one bar cut by the
edge, one at the least distance from the other and from the pattern; a short line, the longest that
is read at once, and a longer one. Of the heap sizes there are none at all, the default, and the last that
fits and the first that does not for both boards.

**Fairness.** `Fairness` of FirmwareUpdate: power comes back, and stays on often enough for the
boot steps to happen again and again (strong fairness on `NervesInit` and `HandOver`, because
power loss disables them); a crashing image reboots (panic=-1, erlinit reboots when the BEAM
exits); a switch of slots is followed by a reboot; a fwup process makes progress or gives up.
`FairSpec` of Startup adds the same of the stages after the kernel, and that a trial that reached the
application gets to call validate (nerves_runtime). None of it says that a trial succeeds, that
wlan0 appears, or that the data can be mounted. `FairSpec` of LedController: the daemon keeps
posting, timers fire, the scheduler runs every process with work to do. `FairSpec` of CameraPage: the
daemon keeps posting, processes that can run do, the supervisor restarts Ui.CameraState, and the
browser joins again and loads its images (a picture's blob is in memory). `LateLoadEvent` is not fair: browsers
that keep to the HTML standard discard the event of an image that was replaced. That crashes and reloads stop is no fairness but the premise `Calm` of the
two properties, as no system shows the latest while it keeps crashing.

## 4. Proofs

| Theorem | Establishes |
|---|---|
| FirmwareUpdateProofs!TypeCorrect | TypeOK, without assumptions |
| Failover | FailoverSafe under `Careful` |
| NoPanic, Metadata | NeverPanics, ActiveMetadata under `Orderly`, whatever is validated |
| TrialOnce | TrialBootedOnce under `exclusive` or `reboot`, either alone |
| InactiveOnly | WritesInactiveOnly under `exclusive` and `reboot` |
| RunningKept | RunningSlotKept under `reboot` alone: any number of fwup processes without a lock |
| Refinement | ImplementsTwoPhaseUpdate under `OtaOnly` |
| StartupProofs!StartupIsFirmware | StartupSpec implements FirmwareUpdate's Spec, so all of the above hold of it |
| StartupTypeCorrect, DataKept | StartupTypeOK, DataSurvives, without obligations, for any file systems the images name |
| DataMounted | DataAvailable under the reboot obligation |
| LedControllerProofs!TypeCorrect, PollChain, OffComes, Pin, NotEarly | TypeOK, OnePollAtATime, OffIsOnItsWay, PinFollowsState, OffNotEarly for all delays |
| CameraPageProofs!TypeCorrect, Consistently | TypeOK, PageConsistent for all scenes |
| EveryRequestWaits | NobodyWaitsInVain for all scenes |
| UsbGadgetProofs!TypeCorrect, StopClean | GadgetTypeOK, StopLeavesMountsOnly for all classes and endpoint limits, without obligations |
| StartComplete | StartsWhole under the three obligations |
| AcceptedStarts | AcceptedComesUp for all classes and endpoint limits, without obligations |
| CodeOfComposite | CompositeDevice under `adb-last` alone, with four endpoints or more |
| PinMuxProofs!TypeCorrect | PinTypeOK: a register holds only values that rows name |
| ForeignRefusedAlways, WriteThenReadAlways | ForeignRefused and WriteThenRead for every table with functions apart, whatever the buffers hold |
| FramebufferProofs!TypeCorrect, NothingStrayAlways, BarShowsLineAlways | TypeOK, NothingStray, BarShowsLine for every screen, font, number and place of bars |
| PatternShownAlways | PatternShown for the same |
| MemoryMapProofs!MapSoundAlways | MapSound for all heap sizes and every order of choices |

They hold for all values of the constants that satisfy the modules' assumptions. `Orderly` says that
the callers keep `exclusive`, and `settled` and `known-good` if they use the tasks these are about;
`Careful` adds `healthy`. `OtaOnly` adds that revert and complete are not used: TwoPhaseUpdate does not
speak of them. No safety theorem asks for more than it needs: without any one of its obligations (of the
two of TrialOnce, without both) TLC finds a counterexample with two jobs and three images.

*FirmwareUpdate.* FailoverSafe alone is not inductive: an upgrade that
finishes must have written a whole image into the slot that is not the fallback, so `JobInv` ties
every running job to the slot it may touch and to what that slot holds at its stage; `SlotInv`
ties `life` to `rootfs` (fresh, tried and proven slots hold an image, proven ones a good image);
`TrialInv` ties `booted`, the boot stage and `life` of the active slot; `FlashInv` does the same for
flashing.

The other properties need less of the callers, so each has an invariant of its own. `WholeInv`
(NoPanic, Metadata) says that the slot U-Boot starts, the one it would fall back to, and every proven one
are whole: an image is there and the version variables name it. It never asks whether the image is
good, so a broken one may be validated; but a job must still find at its end what it checked at its
start (`JobWhole`). `AloneInv` (InactiveOnly) says that there is one job, whose slot stays the one
beside the active slot; that the active slot is the mounted one while that job writes comes from
`reboot`. `ChanceInv` (TrialOnce) says that what U-Boot may still start on trial has never run. An upgrade
that finishes must then not put a slot on trial that has been validated since it was written. Only the
running slot's image is ever vouched for: that takes a second job, which `exclusive` rules out, and the
slot being written to be the running one, which `reboot` rules out.

RunningSlotKept needs none of that, since nothing is known of jobs that overlap: `RunningInv` says
only that an upgrade or prevent-revert under way is not about the slot that runs. That holds when it
starts, as the reboot obligation keeps `mounted` and the active slot together until then, and lasts, as
no job outlives the system it runs on.

*Startup.* DataKept rests on `PartitionInv`: the partition is blank, and then nothing is saved, or has
the file system of the factory image, which is also the only one ever described. So when nerves_runtime
formats there was nothing to lose, and otherwise it mounts. DataMounted follows the stages:
`StageInv` ties `startup` to the boot stage of FirmwareUpdate and to the image that was mounted,
`DescribedInv` says that a finished card describes slot a alone, and `MountInv` what the stages so
far have done: from erlinit on data are mounted unless the image expects another file system, and
once slot a's application runs they are.

*PinMux.* For an unambiguous pin a row that begins with its name is its own, which gives ForeignRefused.
For WriteThenRead the pin may be ambiguous: it has a row for the function, that row is among the
candidates, and `FunctionsApart` makes it the only one, so the value written is the one whose row
`print_fun` marks; that one name has one row makes the mark unique.

*LedController.* OffIsOnItsWay needs that no second off timer starts
while the message of the first is waiting. `StaleFirst` gives the reason: a message whose timer
was cancelled too late stands in the mailbox before the next poll, so it is gone by the time a
poll could start a timer. `OneOff` excludes a running timer beside a waiting message.
OffNotEarly compares an end with the time since a person was seen, so `Paced` keeps the two together:
until the poll that starts the off timer, and from then until that timer ends, time passes in the
timers as it does in `quiet`.

*CameraPage.* PageConsistent is carried by `ConsistentInv`: what holds of the process's state holds of
the answer on its way and so of the page, also when the process has crashed in between.
NobodyWaitsInVain counts the requests of a viewer: `OneRequest` says that there is one in the mailbox
or its answer is on its way, never both and never two, and `WaitInv` that it is there when the viewer
waits. The mailbox is a sequence from which messages leave at the head and, at a reload of the page, in
the middle. What `OnlyUpdates` leaves is a statement about every length, so it needs induction. A
theorem with an operator for its hypothesis is of no use to this prover; `InductiveSet` says the same
of a set of naturals, and follows from the well-foundedness of < (`Least`).

*UsbGadget.* `Shape` says which parts of configfs can exist without which others, so that each
refusal on the way of stop is known not to happen, and that a function's own mount of functionfs goes
with the function, so that only mounts without one outlive it. `Whole` says that the number of each function but
adb is below their count, which is why the loop of start finds them all, and that a gadget that is
bound or has adb linked has everything linked. For CompositeDevice `CodeTrue` ties the class code to the
functions present. probe writes the code before the resource check, so it is true only if that
check then accepts: with one function present the second always fits four endpoints
(`SecondAccepted`), and a third changes the code no more. AcceptedComesUp compares sums: `Total` of the
kernel's claims with `Total` of the script's counts. A set of finite sets has a smallest member
(`SmallestSet`), which is the induction by which `TotalWithout` and `TotalGrows` are proved. `Countable`
and `Fits` then hold whatever the callers do: the kernel claims no more for a function than the script
counts for it once it is there, and for none but ncm more than the script adds for it at first.

*Framebuffer.* The arithmetic comes first: where a coordinate fits 16 bits `Clip` is membership of
the screen (`ClipExact`), and division by the width of a character decides whether a pixel lies
in a string (`DivBound`). TypeOK has the bound on the text in the buffer. `BarInv` then follows a line on its way: a line that was read whole is
in the buffer, before a write the bar is cleared, after it the line is shown; `OthersApart` keeps
all that others draw off its rows. The pattern is no such case: labels and tiles are drawn over one
another. But each is drawn right of and below the upper left corner of its tile only
(`SpillsForwards`), and every earlier tile ends left of it or above it (`EarlierApart`), so a tile that is
shown stays shown; `PatternInv` says so of the tiles before the current one.

*MemoryMap.* `MapInv` says that choices stay in their ranges and that what is built has passed the
assertions; the regions then lie in a row.

Only model-checked: liveness (TrialResolved, ServiceResumes, LedFollowsScene, PageFollowsScene,
PictureFollowsScene), for which the prover has no rules (fairness, ENABLED), and what MCTools
says of the pin tables as they are. Every other property of a passing run is a theorem.

## 5. Limits

* The write of the environment block is atomic and ordered after the rootfs it vouches for; a torn
  block is not modelled (one copy, no fallback: see the hazards).
* boot.vfat (kernel and device tree) is outside A/B: only `complete` writes it.
* A system that hangs without rebooting is outside the fairness assumed: no code here arms a
  watchdog.
* `upgrade_available` and `bootcount` are written by validate and read by nothing here.
* `nerves_serial_number` is not modelled: every upgrade sets it from an environment variable
  (provisioning.conf), and on-start.sh writes the board's own again at the next boot (line 61).
* DataAvailable excludes slot b with an image that expects another file system than p4 has: nothing
  describes the partition there, so nerves_runtime cannot help.
* The camera page leaves out the white LED and its button, the snapshot and the temperature, which only
  read, a call that times out, images that cannot be decoded, and exceptions in the page's script.
  PictureFollowsScene speaks of streams that have not ended and of scripts whose flag has not stayed set,
  PageFollowsScene of pages that can join again.
* The supervisors' restart limits are out of all models: a child that crashes too often would take the
  application down, and with it the device reboots.
* The eMMC files are the same program with other device names and are covered by the same modules.
* BarShowsLine speaks of lines that fgets reads at once and of bars a row apart from what others
  draw; the pattern of bars that stay above it.

Seen while modelling, and not carried as a run of its own:

* After a revert and before the reboot, an upgrade writes the slot the system runs from (obligation
  `reboot`); a validate that overlaps with an upgrade validates the new image before it ran
  (obligation `exclusive`).
* The moduledoc of the LED controller speaks of five seconds; the delay is 200 ms.
* `run_usb.sh` counts ncm as one IN endpoint when it adds it (line 133) and as two when it is there
  (lines 96-98); AcceptedComesUp leaves ncm out for that reason.
* `run_usb.sh stop` never unmounts `/dev/usb-ffs/adb`: each start with adb after a stop mounts one
  more functionfs on top of those before.
* updateCanvas sets its flag before its early returns and never resets it there (line 334): an event
  that finds an image incomplete would freeze the canvas.
* The button of the white LED shows what its own page read or set last, not what another viewer has
  done since.
* `S05usbdev restart` prints OK and leaves the gadget down: start finds no functions after stop.
* `cvi_pinmux -w VIVO_D1/<a function of VIVO_D10>` is accepted (ambiguous pins are exempt from
  ForeignRefused), and a malformed `-w` still writes what an earlier option left.
* `fbbar` clears a row below its text, the first row of a bar right below it; of a line longer than
  the screen it shows the tail only, and after a line of exactly as many characters as fit, nothing.
* `on-start.sh` means to wait 60 seconds for wlan0; BusyBox ash does not expand `{1..60}`, so it waits
  for one.
* Board "Test" can be chosen in the menu, but has no memmap.py.
* prevent-revert on trial firmware deletes the slot that nerves_revert goes back to (obligation
  `settled`).
* Slot b never gets a description of the data partition; AutoFormatted and ReformattedAtBoot are the
  findings, DataAvailable says what is left of it. CHANGELOG v3.0.0 announces that the update to f2fs has
  the partition reformatted and its data erased. DataSurvives holds because that does not happen:
  nerves_runtime formats as `complete` has described the partition, and no upgrade describes it.
* All pins that `cvi_board_init` selects a function for are in `func.h` with that function.

**Not modelled, and why.**

* `uni_vga.h`: 55102 lines of bitmaps of one font, the constant `Font` of Framebuffer. It is by far the
  longest source file, so the share of all lines that any model stands for stays small.
* `mmap_conv.py` prints what MemoryMap computes as headers and linker scripts.
* `fbdaemon.c` keeps the device open and draws nothing; `fbabgr1555.h` is a 16-bit copy of the
  primitives that nothing includes.
* The scripts in `etc/init.d` but S05usbdev: on a Nerves image erlinit is init, and runs none of them.
* `emmc_flash.ex`: its ssh upload and its checks on the host; the fwup run it starts is `complete`.
* Phoenix scaffolding, Buildroot packaging, device trees, kernel and U-Boot patches: no logic of this
  project at run time.

## 6. Plan

1. Done: update core with its abstract specification, startup and data partition, LED controller,
   camera page, USB gadget, pin multiplexer on its real tables, framebuffer tools, memory map; the
   proofs above.
2. Next, model: `nerves_serial_number` beside the environment's other writers; the host side of
   emmc_flash.
3. Then, prove: an abstract specification of the gadget and of the LED, and that they implement it.
