----------------------------- MODULE UsbGadget -----------------------------
(***************************************************************************)
(* The USB gadget scripts.  run_usb.sh builds a composite device out of    *)
(* directories and links in configfs, one command at a time: probe adds a  *)
(* function, start links the functions to the configuration and binds the  *)
(* controller or mounts functionfs for adb, stop takes configfs down again.*)
(* There are two copies, of which S05usbdev calls the one in /etc and      *)
(* on-start.sh the other.  Every command ignores the errors of its steps,  *)
(* so a step is modelled together with what the kernel refuses.            *)
(***************************************************************************)
EXTENDS Integers, FiniteSets, FiniteSetsExt

CONSTANTS
  Classes,     \* the classes there are; the copy in /etc does not know ncm
  MaxEp,       \* MAX_EP_NUM
  Obligations  \* what callers keep, of the following:

(* adb-last: nothing is probed after adb.  probe-unbound: nothing is probed*)
(* while the host sees the gadget.  udc-for-adb: the UDC command is used   *)
(* for what start leaves undone with adb, and for nothing else.            *)
AllObligations == {"adb-last", "probe-unbound", "udc-for-adb"}

AllClasses == {"acm", "mass_storage", "cvg", "ncm", "rndis", "uvc", "uac1",
               "ffs.adb"}

ASSUME GadgetAssumption ==
  /\ Classes \subseteq AllClasses
  /\ MaxEp \in Nat
  /\ Obligations \subseteq AllObligations

VARIABLES
  gadget,      \* what configfs holds
  functionfs,  \* what is mounted on /dev/usb-ffs/adb
  command,     \* the last command
  status,      \* its exit status
  report       \* what the init script printed for it

gadgetVars == <<gadget, functionfs, command, status, report>>

(* A function is named class.usbN, but for ffs.adb, which has no number.   *)
Function(c, n) == [class |-> c, num |-> n]
NoNumber == -1
Adb == Function("ffs.adb", NoNumber)

(* mounted: configfs is mounted on /tmp/usb.  made, config, labels: the    *)
(* gadget, its configuration c.1, and their string directories exist.      *)
(* composite: the class code is that of a composite device.  os: the OS    *)
(* descriptors are linked and the rndis functions carry properties.        *)
(* bound: the controller presents the linked functions to the host.        *)
Fresh == [dir |-> FALSE, mounted |-> FALSE, made |-> FALSE, config |-> FALSE,
          labels |-> {}, composite |-> FALSE, os |-> FALSE,
          functions |-> {}, linked |-> {}, bound |-> FALSE, adbd |-> FALSE]

GadgetInit ==
  /\ gadget = Fresh /\ functionfs = {}
  /\ command = "none" /\ status = "ok" /\ report = "none"

Copies == {"share", "etc"}
Known(copy) == IF copy = "etc" THEN Classes \ {"ncm"} ELSE Classes

-----------------------------------------------------------------------------
(* Endpoints.                                                              *)

(* The script's count of the functions that are there already.             *)
CountedIn(f) == IF f.class \in {"acm", "ncm", "rndis", "uvc", "uac1"} THEN 2 ELSE 1
CountedOut(f) == CASE f.class = "uvc" -> 0
                   [] f.class \in {"ncm", "uac1"} -> 2
                   [] OTHER -> 1

(* Its count of the one it is about to add; mutant: one for every class.   *)
AddsOneEach(c) == 1
AddedIn(c) == IF c \in {"acm", "rndis", "uvc"} THEN 2 ELSE 1
AddedOut(c) == IF c = "uvc" THEN 0 ELSE 1

(* What the kernel's function drivers claim when the gadget is bound.      *)
ClaimedIn(f) == IF f.class \in {"acm", "ncm", "rndis", "uvc"} THEN 2 ELSE 1
ClaimedOut(f) == IF f.class = "uvc" THEN 0 ELSE 1

(* The functions a copy looks for.                                         *)
Sees(copy, fs) == IF copy = "etc" THEN {f \in fs : f.class # "ncm"} ELSE fs

ResCheck(fs, c) ==
  /\ MapThenSumSet(CountedIn, fs) + AddedIn(c) <= MaxEp
  /\ MapThenSumSet(CountedOut, fs) + AddedOut(c) <= MaxEp

EndpointsSuffice(fs) ==
  /\ MapThenSumSet(ClaimedIn, fs) <= MaxEp
  /\ MapThenSumSet(ClaimedOut, fs) <= MaxEp

-----------------------------------------------------------------------------
(* configfs: what each step of the scripts does, refusals included.        *)

(* ln -s into c.1: refused while bound and for a function that is linked.  *)
Link(g, fs) ==
  IF g.bound \/ ~g.config THEN g ELSE [g EXCEPT !.linked = @ \cup fs]

(* Removing a link unbinds the gadget.                                     *)
Unlink(g, fs) ==
  [g EXCEPT !.linked = @ \ fs,
            !.bound = @ /\ g.linked \cap fs = {}]

CanBind(g) ==
  /\ g.mounted /\ ~g.bound
  /\ g.linked # {}
  /\ EndpointsSuffice(g.linked)
  /\ Adb \in g.linked => g.adbd

Bind(g) == IF CanBind(g) THEN [g EXCEPT !.bound = TRUE] ELSE g

RemoveConfig(g) ==
  IF g.linked = {} /\ "config" \notin g.labels /\ ~g.os
    THEN [g EXCEPT !.config = FALSE]
    ELSE g

RemoveFunctions(g) ==
  [g EXCEPT !.functions =
     {f \in @ : f \in g.linked \/ (f.class = "rndis" /\ g.os)}]

RemoveGadget(g) ==
  IF g.functions = {} /\ ~g.config /\ "gadget" \notin g.labels
    THEN [g EXCEPT !.made = FALSE, !.composite = FALSE]
    ELSE g

(* The mounts on /dev/usb-ffs/adb: that of the adb function there is, and  *)
(* those that were left when theirs was removed, which nothing unmounts.   *)
(* A function's own can be mounted once, and goes on top of the others.    *)
MountFunctionfs(g, mounts) ==
  IF Adb \in g.functions THEN mounts \cup {"own"} ELSE mounts

Outlive(mounts, g) ==
  IF "own" \in mounts /\ Adb \notin g.functions THEN {"left"} ELSE mounts

-----------------------------------------------------------------------------
(* run_usb.sh.                                                             *)

CalcFunc(g) == IF g.mounted THEN Cardinality(g.functions) ELSE 0

SetUp(g) ==
  IF g.mounted
    THEN g
    ELSE [g EXCEPT !.dir = TRUE, !.mounted = TRUE, !.made = TRUE,
                   !.config = TRUE, !.labels = {"gadget", "config"}]

(* Mutant: the class code is written for the third function only.          *)
LateClassCode(g) ==
  IF CalcFunc(g) > 1 THEN [g EXCEPT !.composite = TRUE] ELSE g

ClassCode(g) ==
  IF CalcFunc(g) # 0 THEN [g EXCEPT !.composite = TRUE] ELSE g

AddFunction(g, c) ==
  LET f == IF c = "ffs.adb" THEN Adb ELSE Function(c, CalcFunc(g))
      h == [g EXCEPT !.functions = @ \cup {f}, !.os = @ \/ c = "rndis"]
  IN IF c = "ncm" THEN Link(h, {f}) ELSE h

ProbeSucceeds(g, c, copy) ==
  c \in Known(copy) /\ ResCheck(Sees(copy, g.functions), c)

Probe(g, c, copy) ==
  IF c \notin Known(copy)
    THEN g
    ELSE LET h == ClassCode(SetUp(g))
         IN IF ResCheck(Sees(copy, h.functions), c) THEN AddFunction(h, c) ELSE h

(* Mutants: the loop stops one number early; it links what is not there.   *)
OneTooFew(g) ==
  LET n == CalcFunc(g) - IF Adb \in g.functions THEN 1 ELSE 0
  IN {f \in g.functions : f.num \in 0 .. n - 2}
AllNumbers(g) ==
  {Function(c, n) : c \in Classes, n \in 0 .. CalcFunc(g) - 1}

(* The functions the loop of start finds: seq 0 .. n - 1, n without adb.   *)
Numbered(g) ==
  LET n == CalcFunc(g) - IF Adb \in g.functions THEN 1 ELSE 0
  IN {f \in g.functions : f.num \in 0 .. n - 1}

(* The mount that goes with it is MountFunctionfs, where a refusal does not*)
(* change the status.                                                      *)
Start(g) ==
  IF CalcFunc(g) = 0
    THEN g
    ELSE LET h == Link(g, Numbered(g))
         IN IF Adb \in g.functions THEN Link(h, {Adb}) ELSE Bind(h)

(* Binding fails when the gadget is bound; with adb nothing is bound yet.  *)
StartSucceeds(g) ==
  /\ CalcFunc(g) # 0
  /\ Adb \in g.functions \/ CanBind(Link(g, Numbered(g)))

(* Mutant: the configuration is removed while it still has its strings.    *)
ConfigFirst(g) ==
  LET unbound == [Unlink(g, g.linked) EXCEPT !.adbd = FALSE]
      emptied == RemoveFunctions(RemoveConfig([unbound EXCEPT !.os = FALSE]))
  IN RemoveGadget([emptied EXCEPT !.labels = {}])

TakeDown(g) ==
  LET unbound == IF Adb \in g.linked
                   THEN [Unlink(g, {Adb}) EXCEPT !.adbd = FALSE]
                   ELSE [g EXCEPT !.bound = FALSE]
      unlinked == Unlink(unbound, {f \in unbound.linked : f # Adb})
      noStrings == [unlinked EXCEPT !.labels = @ \ {"config"}]
      noOs == [noStrings EXCEPT !.os = FALSE]
      emptied == RemoveFunctions(RemoveConfig(noOs))
  IN RemoveGadget([emptied EXCEPT !.labels = @ \ {"gadget"}])

Stop(g) ==
  IF g.mounted
    THEN [TakeDown(g) EXCEPT !.mounted = FALSE, !.dir = FALSE]
    ELSE [g EXCEPT !.dir = FALSE]

-----------------------------------------------------------------------------
(* The commands, from a shell or from the scripts that call run_usb.sh.    *)

Keeps(o, P) == o \in Obligations => P

MayProbe(g) ==
  /\ Keeps("adb-last", Adb \notin g.functions)
  /\ Keeps("probe-unbound", ~g.bound)

Exit(success) == status' = IF success THEN "ok" ELSE "failed"

ProbeCommand(c, copy) ==
  /\ MayProbe(gadget)
  /\ gadget' = Probe(gadget, c, copy)
  /\ command' = "probe"
  /\ Exit(ProbeSucceeds(gadget, c, copy))
  /\ report' = "none"
  /\ UNCHANGED functionfs

StartCommand ==
  /\ gadget' = Start(gadget)
  /\ functionfs' = MountFunctionfs(gadget, functionfs)
  /\ command' = "start"
  /\ Exit(StartSucceeds(gadget))
  /\ report' = "none"

(* What stop does for either caller.                                       *)
RunStop ==
  /\ gadget' = Stop(gadget)
  /\ functionfs' = Outlive(functionfs, Stop(gadget))
  /\ command' = "stop"
  /\ Exit(gadget.dir)

StopCommand == RunStop /\ report' = "none"

UdcCommand ==
  /\ Keeps("udc-for-adb", Adb \in gadget.linked)
  /\ gadget' = Bind(gadget)
  /\ command' = "UDC"
  /\ Exit(CanBind(gadget))
  /\ report' = "none"
  /\ UNCHANGED functionfs

(* adbd, started by start, opens its function's files some time later.     *)
AdbdOpens ==
  /\ Adb \in gadget.linked /\ "own" \in functionfs
  /\ ~gadget.adbd
  /\ gadget' = [gadget EXCEPT !.adbd = TRUE]
  /\ UNCHANGED <<functionfs, command, status, report>>

InitScriptStart ==
  LET probed == Probe(Probe(gadget, "acm", "etc"), "rndis", "etc")
  IN /\ MayProbe(gadget)
     /\ gadget' = Start(probed)
     /\ functionfs' = MountFunctionfs(probed, functionfs)
     /\ command' = "start"
     /\ Exit(StartSucceeds(probed))
     /\ report' = IF StartSucceeds(probed) THEN "OK" ELSE "FAIL"

InitScriptStop == RunStop /\ report' = "OK"

(* OK whatever the status of start, which finds no functions any more.     *)
InitScriptRestart ==
  LET stopped == Stop(gadget)
  IN /\ gadget' = Start(stopped)
     /\ functionfs' = MountFunctionfs(stopped, Outlive(functionfs, stopped))
     /\ command' = "restart"
     /\ Exit(StartSucceeds(stopped))
     /\ report' = "OK"

(* The machine restarts and on-start.sh runs.                              *)
DeviceBoots ==
  LET probed == Probe(Fresh, "ncm", "share")
  IN /\ gadget' = Start(probed)
     /\ functionfs' = MountFunctionfs(probed, {})
     /\ command' = "start"
     /\ Exit(StartSucceeds(probed))
     /\ report' = "none"

GadgetNext ==
  \/ \E c \in AllClasses, copy \in Copies : ProbeCommand(c, copy)
  \/ StartCommand \/ StopCommand \/ UdcCommand \/ AdbdOpens
  \/ InitScriptStart \/ InitScriptStop \/ InitScriptRestart
  \/ DeviceBoots

GadgetSpec == GadgetInit /\ [][GadgetNext]_gadgetVars

-----------------------------------------------------------------------------
(* Properties.                                                             *)

FunctionNames == [class : Classes \ {"ffs.adb"}, num : Nat] \cup {Adb}

Gadgets == [dir : BOOLEAN, mounted : BOOLEAN, made : BOOLEAN, config : BOOLEAN,
            labels : SUBSET {"gadget", "config"}, composite : BOOLEAN,
            os : BOOLEAN, functions : SUBSET FunctionNames,
            linked : SUBSET FunctionNames, bound : BOOLEAN, adbd : BOOLEAN]

(* The variables keep their types, and links point at functions that exist.*)
GadgetTypeOK ==
  /\ gadget \in Gadgets
  /\ IsFiniteSet(gadget.functions)
  /\ gadget.linked \subseteq gadget.functions
  /\ functionfs \subseteq {"own", "left"}
  /\ command \in {"none", "probe", "start", "stop", "restart", "UDC"}
  /\ status \in {"ok", "failed"}
  /\ report \in {"none", "OK", "FAIL"}

(* A start that reports success has left out no function: the numbers the  *)
(* loop counts through are those probe gave out, whatever was probed and   *)
(* refused before.  Without adb the host sees the gadget at once; with it  *)
(* adbd finds the files of this function, whatever earlier ones have left. *)
StartsWhole ==
  command = "start" /\ status = "ok" =>
    /\ gadget.linked = gadget.functions
    /\ gadget.bound \/ (Adb \in gadget.functions /\ "own" \in functionfs)

(* Nothing bound yet, and no ncm: see AcceptedComesUp.                     *)
Startable(g) ==
  /\ g.functions # {} /\ ~g.bound
  /\ \A f \in g.functions : f.class # "ncm"

(* Functions that probe accepted one by one can be started together: the   *)
(* endpoint count of res_check covers what the kernel will claim.  Not so  *)
(* with ncm, which is added as one IN endpoint and claims two.             *)
AcceptedComesUp ==
  [][StartCommand /\ Startable(gadget) => status' = "ok"]_gadgetVars

(* stop, which ignores every error on its way, takes down all there is in  *)
(* configfs, in an order in which configfs refuses no step.  What it leaves*)
(* behind is mounts of functionfs, and none whose function is still there. *)
StopLeavesMountsOnly ==
  command = "stop" => gadget = Fresh /\ functionfs \subseteq {"left"}

(* The host is shown the class code of a composite device exactly when the *)
(* gadget has several functions, even if some probe was refused halfway.   *)
CompositeDevice ==
  gadget.bound => (gadget.composite <=> Cardinality(gadget.functions) > 1)
=============================================================================
