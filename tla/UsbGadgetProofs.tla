-------------------------- MODULE UsbGadgetProofs --------------------------
(***************************************************************************)
(* Proofs about the USB gadget scripts, for every set of classes and every *)
(* number of endpoints.                                                    *)
(***************************************************************************)
EXTENDS UsbGadget, FiniteSetTheorems, WellFoundedInduction, TLAPS

(* What holds between two commands, whatever their order.                  *)
Shape(g) ==
  /\ g \in Gadgets
  /\ IsFiniteSet(g.functions)
  /\ g.linked \subseteq g.functions
  /\ g.adbd => Adb \in g.linked
  /\ g.mounted => g.dir /\ g.config
  /\ ~g.mounted => g = Fresh

LEMMA FreshFields ==
  ASSUME NEW g \in Gadgets,
         ~g.dir, ~g.mounted, ~g.made, ~g.config, g.labels = {}, ~g.composite,
         ~g.os, g.functions = {}, g.linked = {}, ~g.bound, ~g.adbd
  PROVE  g = Fresh
  BY DEF Gadgets, Fresh

LEMMA FreshShape == Shape(Fresh)
  BY FS_EmptySet DEF Shape, Fresh, Gadgets

LEMMA SetUpShape ==
  ASSUME NEW g, Shape(g)
  PROVE  /\ Shape(SetUp(g)) /\ SetUp(g).mounted
         /\ SetUp(g).functions = g.functions
         /\ SetUp(g).linked = g.linked
         /\ SetUp(g).bound = g.bound
  BY DEF Shape, SetUp, Gadgets, Fresh

LEMMA ClassCodeShape ==
  ASSUME NEW g, Shape(g), g.mounted
  PROVE  /\ Shape(ClassCode(g)) /\ ClassCode(g).mounted
         /\ ClassCode(g).functions = g.functions
         /\ ClassCode(g).linked = g.linked
         /\ ClassCode(g).bound = g.bound
  BY DEF Shape, ClassCode, Gadgets

LEMMA LinkShape ==
  ASSUME NEW g, Shape(g), NEW fs \in SUBSET g.functions
  PROVE  /\ Shape(Link(g, fs))
         /\ Link(g, fs).mounted = g.mounted
         /\ Link(g, fs).functions = g.functions
         /\ Link(g, fs).bound = g.bound
         /\ g.mounted /\ ~g.bound => Link(g, fs).linked = g.linked \cup fs
         /\ g.bound => Link(g, fs).linked = g.linked
<1>1. CASE ~g.mounted
  <2>1. ~g.config /\ ~g.bound
    BY <1>1 DEF Shape, Fresh
  <2> QED
    BY <1>1, <2>1 DEF Link
<1>2. CASE g.mounted /\ g.bound
  BY <1>2 DEF Shape, Link, Gadgets
<1>3. CASE g.mounted /\ ~g.bound
  <2>1. Link(g, fs) = [g EXCEPT !.linked = @ \cup fs]
    BY <1>3 DEF Shape, Link
  <2> QED
    BY <1>3, <2>1 DEF Shape, Gadgets
<1> QED
  BY <1>1, <1>2, <1>3 DEF Shape, Gadgets

LEMMA BindShape ==
  ASSUME NEW g, Shape(g)
  PROVE  /\ Shape(Bind(g))
         /\ Bind(g).mounted = g.mounted
         /\ Bind(g).functions = g.functions
         /\ Bind(g).linked = g.linked
         /\ Bind(g).bound = (g.bound \/ CanBind(g))
<1>1. CanBind(g) => g.mounted
  BY DEF CanBind
<1>2. CASE CanBind(g)
  BY <1>1, <1>2 DEF Shape, Bind, Gadgets
<1>3. CASE ~CanBind(g)
  BY <1>3 DEF Shape, Bind, Gadgets
<1> QED
  BY <1>2, <1>3

(* A new function is the only change a probe makes to the functions; ncm   *)
(* is linked at once.                                                      *)
LEMMA AddFunctionShape ==
  ASSUME NEW g, Shape(g), g.mounted, NEW c \in Classes
  PROVE  /\ Shape(AddFunction(g, c))
         /\ AddFunction(g, c).bound = g.bound
         /\ AddFunction(g, c).functions = g.functions \cup
              {IF c = "ffs.adb" THEN Adb ELSE Function(c, Cardinality(g.functions))}
         /\ AddFunction(g, c).linked \in
              {g.linked, g.linked \cup {Function(c, Cardinality(g.functions))}}
         /\ c = "ffs.adb" => AddFunction(g, c).linked = g.linked
<1> DEFINE f == IF c = "ffs.adb" THEN Adb ELSE Function(c, Cardinality(g.functions))
           h == [g EXCEPT !.functions = @ \cup {f}, !.os = @ \/ c = "rndis"]
<1>1. Cardinality(g.functions) \in Nat
  BY FS_CardinalityType DEF Shape
<1>2. f \in FunctionNames
  BY <1>1 DEF FunctionNames, Function, Adb
<1>3. IsFiniteSet(g.functions \cup {f})
  BY FS_AddElement DEF Shape
<1>4. /\ h \in Gadgets /\ h.functions = g.functions \cup {f}
      /\ h.linked = g.linked /\ h.bound = g.bound /\ h.mounted
      /\ h.adbd = g.adbd /\ h.dir = g.dir /\ h.config = g.config
  BY <1>2 DEF Shape, Gadgets
<1>5. Shape(h)
  BY <1>3, <1>4 DEF Shape
<1>6. AddFunction(g, c) = IF c = "ncm" THEN Link(h, {f}) ELSE h
  BY Zenon DEF AddFunction, CalcFunc
<1> HIDE DEF h
<1>7. {f} \in SUBSET h.functions
  BY <1>4
<1>8. CASE c = "ncm"
  <2>1. f = Function(c, Cardinality(g.functions))
    BY <1>8
  <2> QED
    <3> HIDE DEF f
    <3>1. /\ Shape(Link(h, {f})) /\ Link(h, {f}).bound = g.bound
          /\ Link(h, {f}).functions = g.functions \cup {f}
          /\ Link(h, {f}).linked \in {g.linked, g.linked \cup {f}}
      <4>1. /\ Shape(Link(h, {f}))
            /\ Link(h, {f}).functions = h.functions
            /\ Link(h, {f}).bound = h.bound
            /\ h.mounted /\ ~h.bound => Link(h, {f}).linked = h.linked \cup {f}
            /\ h.bound => Link(h, {f}).linked = h.linked
        BY <1>5, <1>7, LinkShape
      <4> QED
        BY <1>4, <4>1
    <3>2. AddFunction(g, c) = Link(h, {f})
      BY <1>6, <1>8
    <3> QED
      BY <1>8, <2>1, <3>1, <3>2 DEF f
<1>9. CASE c # "ncm"
  BY <1>4, <1>5, <1>6, <1>9
<1> QED
  BY <1>8, <1>9

LEMMA ProbeShape ==
  ASSUME NEW g, Shape(g), NEW c, NEW copy
  PROVE  Shape(Probe(g, c, copy))
<1> DEFINE h == ClassCode(SetUp(g))
<1>1. Shape(h) /\ h.mounted
  BY SetUpShape, ClassCodeShape
<1>2. CASE c \notin Known(copy)
  BY <1>2 DEF Probe
<1>3. CASE c \in Known(copy)
  <2>1. c \in Classes
    BY <1>3 DEF Known
  <2> QED
    BY <1>1, <1>3, <2>1, AddFunctionShape DEF Probe
<1> QED
  BY <1>2, <1>3

LEMMA StartShape ==
  ASSUME NEW g, Shape(g)
  PROVE  Shape(Start(g))
<1> DEFINE h == Link(g, Numbered(g))
<1>1. Numbered(g) \in SUBSET g.functions
  BY DEF Numbered
<1>2. Shape(h) /\ h.functions = g.functions
  BY <1>1, LinkShape
<1>3. Adb \in g.functions => Shape(Link(h, {Adb}))
  BY <1>2, LinkShape
<1>4. Shape(Bind(h))
  BY <1>2, BindShape
<1> QED
  BY <1>3, <1>4 DEF Start

-----------------------------------------------------------------------------
(* adbd opens its function only when it is linked.                         *)
LEMMA OpenShape ==
  ASSUME NEW g, Shape(g), Adb \in g.linked
  PROVE  /\ g # Fresh /\ Shape([g EXCEPT !.adbd = TRUE])
         /\ [g EXCEPT !.adbd = TRUE].functions = g.functions
         /\ [g EXCEPT !.adbd = TRUE].linked = g.linked
         /\ [g EXCEPT !.adbd = TRUE].bound = g.bound
<1>1. g # Fresh
  BY DEF Fresh
<1>2. g.mounted
  BY <1>1 DEF Shape
<1> QED
  BY <1>1, <1>2 DEF Shape, Gadgets

-----------------------------------------------------------------------------
(* stop takes everything down, step by step.                               *)

LEMMA StopFresh ==
  ASSUME NEW g, Shape(g)
  PROVE  Stop(g) = Fresh
<1>1. CASE ~g.mounted
  <2>1. g = Fresh /\ Stop(g) = [g EXCEPT !.dir = FALSE]
    BY <1>1 DEF Stop, Shape
  <2>2. Fresh \in Gadgets
    BY FreshShape DEF Shape
  <2>3. [Fresh EXCEPT !.dir = FALSE] = Fresh
    BY <2>2, FreshFields DEF Fresh, Gadgets
  <2> QED
    BY <2>1, <2>3
<1>2. CASE g.mounted
  <2> DEFINE
        a == IF Adb \in g.linked
               THEN [Unlink(g, {Adb}) EXCEPT !.adbd = FALSE]
               ELSE [g EXCEPT !.bound = FALSE]
        b == Unlink(a, {f \in a.linked : f # Adb})
        c == [b EXCEPT !.labels = @ \ {"config"}]
        d == [c EXCEPT !.os = FALSE]
        e == RemoveConfig(d)
        k == RemoveFunctions(e)
        l == [k EXCEPT !.labels = @ \ {"gadget"}]
  <2>1. a \in Gadgets /\ a.linked = g.linked \ {Adb} /\ ~a.bound /\ ~a.adbd
    BY DEF Shape, Gadgets, Unlink
  <2> HIDE DEF a
  <2>2. b \in Gadgets /\ b.linked = {} /\ ~b.bound /\ ~b.adbd
    BY <2>1 DEF Gadgets, Unlink
  <2> HIDE DEF b
  <2>3. /\ d \in Gadgets /\ d.linked = {} /\ ~d.bound /\ ~d.adbd /\ ~d.os
        /\ d.labels \subseteq {"gadget"}
    BY <2>2 DEF Gadgets
  <2> HIDE DEF d
  <2>4. /\ e \in Gadgets /\ e.linked = {} /\ ~e.bound /\ ~e.adbd /\ ~e.os
        /\ e.labels \subseteq {"gadget"} /\ ~e.config
    BY <2>3 DEF Gadgets, RemoveConfig
  <2> HIDE DEF e
  <2>5. /\ k \in Gadgets /\ k.linked = {} /\ ~k.bound /\ ~k.adbd /\ ~k.os
        /\ k.labels \subseteq {"gadget"} /\ ~k.config /\ k.functions = {}
    BY <2>4 DEF Gadgets, RemoveFunctions
  <2> HIDE DEF k
  <2>6. /\ l \in Gadgets /\ l.linked = {} /\ ~l.bound /\ ~l.adbd /\ ~l.os
        /\ l.labels = {} /\ ~l.config /\ l.functions = {}
    BY <2>5 DEF Gadgets
  <2> HIDE DEF l
  <2>7. TakeDown(g) = RemoveGadget(l)
    BY Zenon DEF TakeDown, l, k, e, d, b, a
  <2> DEFINE m == [RemoveGadget(l) EXCEPT !.mounted = FALSE, !.dir = FALSE]
  <2>8. /\ m \in Gadgets /\ m.linked = {} /\ ~m.bound /\ ~m.adbd /\ ~m.os
        /\ m.labels = {} /\ ~m.config /\ m.functions = {}
        /\ ~m.dir /\ ~m.mounted /\ ~m.made /\ ~m.composite
    BY <2>6 DEF Gadgets, RemoveGadget
  <2>9. m = Fresh
    BY <2>8, FreshFields
  <2> QED
    BY <1>2, <2>7, <2>9 DEF Stop
<1> QED
  BY <1>1, <1>2

-----------------------------------------------------------------------------
(* What every command keeps.                                               *)

(* A mount is the own one of a function only while there is that function. *)
Mounts(mounts, g) ==
  /\ mounts \subseteq {"own", "left"}
  /\ "own" \in mounts => Adb \in g.functions

StopInv ==
  /\ Shape(gadget) /\ Mounts(functionfs, gadget)
  /\ command = "stop" => gadget = Fresh

(* Only probe makes functions and only stop removes them.                  *)
LEMMA StartKeepsFunctions ==
  ASSUME NEW g, Shape(g)
  PROVE  Start(g).functions = g.functions
  BY DEF Start, Link, Bind, Shape, Gadgets

LEMMA ProbeKeepsFunctions ==
  ASSUME NEW g, Shape(g), NEW c, NEW copy
  PROVE  g.functions \subseteq Probe(g, c, copy).functions
<1> DEFINE h == ClassCode(SetUp(g))
<1>1. Shape(h) /\ h.mounted /\ h.functions = g.functions
  BY SetUpShape, ClassCodeShape
<1>2. /\ Known(copy) \subseteq Classes
      /\ Probe(g, c, copy) =
           IF c \notin Known(copy) THEN g
           ELSE IF ResCheck(Sees(copy, h.functions), c) THEN AddFunction(h, c) ELSE h
  BY DEF Probe, Known
<1> HIDE DEF h
<1>3. c \in Known(copy) => h.functions \subseteq AddFunction(h, c).functions
  BY <1>1, <1>2, AddFunctionShape
<1> QED
  BY <1>1, <1>2, <1>3

LEMMA MountsMounted ==
  ASSUME NEW mounts, NEW g, Shape(g), Mounts(mounts, g)
  PROVE  /\ Mounts(MountFunctionfs(g, mounts), Start(g))
         /\ Adb \in g.functions => "own" \in MountFunctionfs(g, mounts)
  BY StartKeepsFunctions DEF Mounts, MountFunctionfs

LEMMA MountsOutlive ==
  ASSUME NEW mounts, NEW g, Mounts(mounts, g)
  PROVE  Outlive(mounts, Fresh) \subseteq {"left"}
  BY DEF Mounts, Outlive, Fresh

LEMMA MountsLeft ==
  ASSUME NEW mounts \in SUBSET {"left"}, NEW g
  PROVE  Mounts(mounts, g)
  BY DEF Mounts

LEMMA StopInvInductive == StopInv /\ [GadgetNext]_gadgetVars => StopInv'
<1> SUFFICES ASSUME StopInv, [GadgetNext]_gadgetVars
             PROVE  StopInv'
  OBVIOUS
<1>1. Shape(gadget) /\ Mounts(functionfs, gadget)
  BY DEF StopInv
<1>2. ASSUME NEW c \in AllClasses, NEW copy \in Copies, ProbeCommand(c, copy)
      PROVE  StopInv'
  <2>1. Shape(gadget') /\ gadget.functions \subseteq gadget'.functions
    BY <1>1, <1>2, ProbeShape, ProbeKeepsFunctions DEF ProbeCommand
  <2> QED
    BY <1>1, <1>2, <2>1 DEF ProbeCommand, StopInv, Mounts
<1>3. CASE StartCommand
  BY <1>1, <1>3, StartShape, MountsMounted DEF StartCommand, StopInv
<1>4. CASE StopCommand \/ InitScriptStop
  <2>1. gadget' = Fresh /\ functionfs' \in SUBSET {"left"}
    BY <1>1, <1>4, StopFresh, MountsOutlive DEF StopCommand, InitScriptStop, RunStop
  <2> QED
    BY <2>1, FreshShape, MountsLeft DEF StopInv
<1>5. CASE UdcCommand
  <2>1. Shape(gadget') /\ gadget'.functions = gadget.functions
    BY <1>1, <1>5, BindShape DEF UdcCommand
  <2> QED
    BY <1>1, <1>5, <2>1 DEF UdcCommand, StopInv, Mounts
<1>6. CASE AdbdOpens
  <2>1. Shape(gadget') /\ gadget # Fresh /\ gadget'.functions = gadget.functions
    BY <1>1, <1>6, OpenShape DEF AdbdOpens
  <2> QED
    BY <1>1, <1>6, <2>1 DEF AdbdOpens, StopInv, Mounts
<1>7. CASE InitScriptStart
  <2> DEFINE p == Probe(gadget, "acm", "etc")
             q == Probe(p, "rndis", "etc")
  <2>1. Shape(p) /\ gadget.functions \subseteq p.functions
    BY <1>1, ProbeShape, ProbeKeepsFunctions
  <2>2. Shape(q) /\ p.functions \subseteq q.functions
    BY <2>1, ProbeShape, ProbeKeepsFunctions
  <2>3. Mounts(functionfs, q)
    BY <1>1, <2>1, <2>2 DEF Mounts
  <2>4. /\ gadget' = Start(q) /\ functionfs' = MountFunctionfs(q, functionfs)
        /\ command' = "start"
    BY <1>7 DEF InitScriptStart
  <2> HIDE DEF q
  <2> QED
    BY <2>2, <2>3, <2>4, StartShape, MountsMounted DEF StopInv
<1>8. CASE InitScriptRestart
  <2>1. Stop(gadget) = Fresh /\ Mounts(Outlive(functionfs, Fresh), Fresh)
    BY <1>1, StopFresh, MountsOutlive, MountsLeft
  <2> QED
    BY <1>8, <2>1, FreshShape, StartShape, MountsMounted
       DEF InitScriptRestart, StopInv
<1>9. CASE DeviceBoots
  <2> DEFINE p == Probe(Fresh, "ncm", "share")
  <2>1. Shape(p) /\ Mounts({}, p)
    BY FreshShape, ProbeShape, MountsLeft
  <2>2. /\ gadget' = Start(p) /\ functionfs' = MountFunctionfs(p, {})
        /\ command' = "start"
    BY <1>9 DEF DeviceBoots
  <2> HIDE DEF p
  <2> QED
    BY <2>1, <2>2, StartShape, MountsMounted DEF StopInv
<1>10. CASE UNCHANGED gadgetVars
  BY <1>10 DEF gadgetVars, StopInv
<1> QED
  BY <1>2, <1>3, <1>4, <1>5, <1>6, <1>7, <1>8, <1>9, <1>10 DEF GadgetNext

LEMMA StopInvAlways == GadgetSpec => []StopInv
<1>1. GadgetInit => StopInv
  BY FreshShape, MountsLeft DEF GadgetInit, StopInv
<1> QED
  BY <1>1, StopInvInductive, PTL DEF GadgetSpec

(* The state of configfs and what was reported about it keep their types:  *)
(* whatever the order of the commands, links point at existing functions.  *)
THEOREM TypeCorrect == GadgetSpec => []GadgetTypeOK
<1> DEFINE Reports == /\ command \in {"none", "probe", "start", "stop", "restart", "UDC"}
                      /\ status \in {"ok", "failed"}
                      /\ report \in {"none", "OK", "FAIL"}
<1>1. GadgetInit => Reports
  BY DEF GadgetInit
<1>2. Reports /\ [GadgetNext]_gadgetVars => Reports'
  <2> SUFFICES ASSUME Reports, [GadgetNext]_gadgetVars
               PROVE  Reports'
    OBVIOUS
  <2> USE DEF Exit
  <2>1. ASSUME NEW c \in AllClasses, NEW copy \in Copies, ProbeCommand(c, copy)
        PROVE  Reports'
    BY <2>1 DEF ProbeCommand
  <2>2. CASE StartCommand \/ StopCommand \/ UdcCommand \/ AdbdOpens
    BY <2>2 DEF StartCommand, StopCommand, RunStop, UdcCommand, AdbdOpens
  <2>3. CASE InitScriptStart \/ InitScriptStop \/ InitScriptRestart \/ DeviceBoots
    BY <2>3 DEF InitScriptStart, InitScriptStop, RunStop, InitScriptRestart,
                DeviceBoots
  <2>4. CASE UNCHANGED gadgetVars
    BY <2>4 DEF gadgetVars
  <2> QED
    BY <2>1, <2>2, <2>3, <2>4 DEF GadgetNext
<1>3. StopInv /\ Reports => GadgetTypeOK
  BY DEF StopInv, Shape, Mounts, GadgetTypeOK
<1> QED
  BY <1>1, <1>2, <1>3, StopInvAlways, PTL DEF GadgetSpec

(* After stop nothing is left in configfs, whatever was probed, refused,   *)
(* linked, mounted or bound before and without any obligation of the       *)
(* callers; what is left is mounts of functionfs whose function is gone.   *)
THEOREM StopClean == GadgetSpec => []StopLeavesMountsOnly
<1>1. StopInv => StopLeavesMountsOnly
  BY DEF StopInv, Mounts, StopLeavesMountsOnly, Fresh
<1> QED
  BY <1>1, StopInvAlways, PTL

-----------------------------------------------------------------------------
(* start finds every function by its number.                               *)

Plain(g) == g.functions \ {Adb}

(* Numbers stay below the count start loops over, and a gadget that the    *)
(* host sees, or that waits for adbd, has all its functions linked.        *)
Whole(g) ==
  /\ \A f \in Plain(g) : f.num < Cardinality(Plain(g))
  /\ g.bound \/ Adb \in g.linked => g.linked = g.functions

LEMMA FreshWhole == Whole(Fresh)
  BY DEF Whole, Plain, Fresh

LEMMA NumberedIsPlain ==
  ASSUME NEW g, Shape(g), Whole(g), g.mounted
  PROVE  Numbered(g) = Plain(g)
<1> DEFINE n == CalcFunc(g) - IF Adb \in g.functions THEN 1 ELSE 0
<1>1. IsFiniteSet(g.functions) /\ Cardinality(g.functions) \in Nat
  BY FS_CardinalityType DEF Shape
<1>2. n = Cardinality(Plain(g))
  <2>1. CASE Adb \in g.functions
    BY <1>1, <2>1, FS_RemoveElement DEF CalcFunc, Plain
  <2>2. CASE Adb \notin g.functions
    <3>1. Plain(g) = g.functions
      BY <2>2 DEF Plain
    <3> QED
      BY <1>1, <2>2, <3>1 DEF CalcFunc
  <2> QED
    BY <2>1, <2>2
<1>3. n \in Int
  BY <1>1 DEF CalcFunc
<1>4. \A f \in Plain(g) : f.num \in Nat
  BY DEF Plain, Shape, Gadgets, FunctionNames
<1>5. Adb.num \notin 0 .. n - 1
  BY DEF Adb, Function, NoNumber
<1>6. Numbered(g) = {f \in g.functions : f.num \in 0 .. n - 1}
  BY Zenon DEF Numbered
<1> HIDE DEF n
<1>7. \A f \in Plain(g) : f.num \in 0 .. n - 1
  BY <1>2, <1>3, <1>4 DEF Whole
<1> QED
  BY <1>5, <1>6, <1>7 DEF Plain

LEMMA StartWhole ==
  ASSUME NEW g, Shape(g), Whole(g)
  PROVE  /\ Whole(Start(g))
         /\ StartSucceeds(g) =>
              /\ Start(g).linked = Start(g).functions
              /\ Start(g).bound \/ Adb \in Start(g).functions
<1>1. CASE CalcFunc(g) = 0
  BY <1>1 DEF Start, StartSucceeds
<1>2. CASE CalcFunc(g) # 0
  <2> DEFINE h == Link(g, Numbered(g))
             k == IF Adb \in g.functions THEN Link(h, {Adb}) ELSE Bind(h)
  <2>1. g.mounted /\ k = Start(g)
    BY <1>2 DEF CalcFunc, Start
  <2>2. Numbered(g) = Plain(g) /\ Numbered(g) \in SUBSET g.functions
    BY <2>1, NumberedIsPlain DEF Plain
  <2>3. /\ Shape(h) /\ h.mounted /\ h.functions = g.functions /\ h.bound = g.bound
        /\ ~g.bound => h.linked = g.linked \cup Plain(g)
        /\ g.bound => h.linked = g.linked
    BY <2>1, <2>2, LinkShape
  <2> HIDE DEF h
  <2>4. g.linked \subseteq g.functions
    BY DEF Shape
  <2>5. k.functions = g.functions /\ k.linked = g.functions
    <3>1. CASE Adb \in g.functions
      <4>1. /\ k.functions = h.functions
            /\ ~h.bound => k.linked = h.linked \cup {Adb}
            /\ h.bound => k.linked = h.linked
        BY <2>3, <3>1, LinkShape
      <4> QED
        BY <2>3, <2>4, <3>1, <4>1 DEF Whole, Plain
    <3>2. CASE Adb \notin g.functions
      <4>1. k.functions = h.functions /\ k.linked = h.linked
        BY <2>3, <3>2, BindShape
      <4> QED
        BY <2>3, <2>4, <3>2, <4>1 DEF Whole, Plain
    <3> QED
      BY <3>1, <3>2
  <2>6. StartSucceeds(g) => k.bound \/ Adb \in g.functions
    <3>1. CASE Adb \notin g.functions
      <4>1. k.bound = (h.bound \/ CanBind(h))
        BY <2>3, <3>1, BindShape
      <4>2. StartSucceeds(g) => CanBind(h)
        BY <3>1, Zenon DEF StartSucceeds, h
      <4> QED
        BY <4>1, <4>2
    <3> QED
      BY <3>1
  <2> HIDE DEF k
  <2>7. Whole(k)
    BY <2>5 DEF Whole, Plain
  <2> QED
    BY <2>1, <2>5, <2>6, <2>7
<1> QED
  BY <1>1, <1>2

LEMMA AddFunctionWhole ==
  ASSUME NEW g, Shape(g), Whole(g), g.mounted, ~g.bound, Adb \notin g.functions,
         NEW c \in Classes
  PROVE  /\ Whole(AddFunction(g, c))
         /\ ~AddFunction(g, c).bound
         /\ c # "ffs.adb" => Adb \notin AddFunction(g, c).functions
<1> DEFINE k == AddFunction(g, c)
           n == Cardinality(g.functions)
<1> SUFFICES /\ Whole(k) /\ ~k.bound
             /\ c # "ffs.adb" => Adb \notin k.functions
  OBVIOUS
<1>1. IsFiniteSet(g.functions) /\ n \in Nat /\ Plain(g) = g.functions
  BY FS_CardinalityType DEF Shape, Plain
<1>2. Adb # Function(c, n)
  BY <1>1 DEF Adb, Function, NoNumber
<1>3. /\ k.bound = g.bound
      /\ k.functions = g.functions \cup {IF c = "ffs.adb" THEN Adb ELSE Function(c, n)}
      /\ k.linked \in {g.linked, g.linked \cup {Function(c, n)}}
  BY AddFunctionShape
<1>4. g.linked \subseteq g.functions
  BY DEF Shape
<1> HIDE DEF k
<1>5. ~k.bound /\ Adb \notin k.linked
  BY <1>2, <1>3, <1>4
<1>6. CASE c = "ffs.adb"
  <2>1. Plain(k) = Plain(g)
    BY <1>1, <1>3, <1>6 DEF Plain
  <2> QED
    BY <1>5, <1>6, <2>1 DEF Whole
<1>7. CASE c # "ffs.adb"
  <2>1. Plain(k) = g.functions \cup {Function(c, n)} /\ Adb \notin k.functions
    BY <1>1, <1>2, <1>3, <1>7 DEF Plain
  <2>2. \A f \in g.functions : f.num < n /\ f.num \in Int
    BY <1>1 DEF Whole, Shape, Gadgets, FunctionNames, Adb, Function, NoNumber
  <2>3. Function(c, n) \notin g.functions
    BY <1>1, <2>2 DEF Function
  <2>4. Cardinality(Plain(k)) = n + 1
    BY <1>1, <2>1, <2>3, FS_AddElement
  <2>5. \A f \in Plain(k) : f.num < n + 1
    BY <1>1, <2>1, <2>2 DEF Function
  <2> QED
    BY <1>5, <2>1, <2>4, <2>5 DEF Whole
<1> QED
  BY <1>6, <1>7, <1>5

LEMMA ProbeWhole ==
  ASSUME NEW g, Shape(g), Whole(g), ~g.bound, Adb \notin g.functions,
         NEW c, NEW copy
  PROVE  /\ Whole(Probe(g, c, copy)) /\ ~Probe(g, c, copy).bound
         /\ c # "ffs.adb" => Adb \notin Probe(g, c, copy).functions
<1> DEFINE h == ClassCode(SetUp(g))
<1>1. /\ Shape(h) /\ h.mounted /\ h.functions = g.functions
      /\ h.linked = g.linked /\ h.bound = g.bound
  BY SetUpShape, ClassCodeShape
<1>2. /\ Known(copy) \subseteq Classes
      /\ Probe(g, c, copy) =
           IF c \notin Known(copy) THEN g
           ELSE IF ResCheck(Sees(copy, h.functions), c) THEN AddFunction(h, c) ELSE h
  BY DEF Probe, Known
<1> HIDE DEF h
<1>3. Whole(h)
  BY <1>1 DEF Whole, Plain
<1>4. CASE c \in Known(copy) /\ ResCheck(Sees(copy, h.functions), c)
  BY <1>1, <1>2, <1>3, <1>4, AddFunctionWhole
<1>5. CASE ~(c \in Known(copy) /\ ResCheck(Sees(copy, h.functions), c))
  BY <1>1, <1>2, <1>3, <1>5
<1> QED
  BY <1>4, <1>5

(* Probing two classes and starting, as the init and boot scripts do.      *)
LEMMA TwoProbesWhole ==
  ASSUME NEW g, Shape(g), Whole(g), ~g.bound, Adb \notin g.functions
  PROVE  LET p == Probe(Probe(g, "acm", "etc"), "rndis", "etc")
         IN Shape(p) /\ Whole(p)
<1> DEFINE q == Probe(g, "acm", "etc")
<1>1. Shape(q) /\ Whole(q) /\ ~q.bound /\ Adb \notin q.functions
  BY ProbeShape, ProbeWhole
<1> QED
  BY <1>1, ProbeShape, ProbeWhole

StartInv == Whole(gadget) /\ StartsWhole

LEMMA StartInvAlways ==
  ASSUME AllObligations \subseteq Obligations
  PROVE  GadgetSpec => []StartInv
<1>1. GadgetInit => StartInv
  BY FreshWhole DEF GadgetInit, StartInv, StartsWhole
<1>2. StopInv /\ StartInv /\ [GadgetNext]_gadgetVars => StartInv'
  <2> SUFFICES ASSUME StopInv, StartInv, [GadgetNext]_gadgetVars
               PROVE  StartInv'
    OBVIOUS
  <2>1. Shape(gadget) /\ Whole(gadget) /\ Mounts(functionfs, gadget)
    BY DEF StopInv, StartInv
  <2>2. MayProbe(gadget) => ~gadget.bound /\ Adb \notin gadget.functions
    BY DEF MayProbe, Keeps, AllObligations
  <2>3. ASSUME NEW c \in AllClasses, NEW copy \in Copies, ProbeCommand(c, copy)
        PROVE  StartInv'
    BY <2>1, <2>2, <2>3, ProbeWhole DEF ProbeCommand, StartInv, StartsWhole
  <2>4. CASE StartCommand
    BY <2>1, <2>4, StartWhole, StartKeepsFunctions, MountsMounted
       DEF StartCommand, StartInv, StartsWhole, Exit
  <2>5. CASE StopCommand \/ InitScriptStop
    BY <2>1, <2>5, StopFresh, FreshWhole
       DEF StopCommand, InitScriptStop, RunStop, StartInv, StartsWhole
  <2>6. CASE UdcCommand
    <3>1. Adb \in gadget.linked
      BY <2>6 DEF UdcCommand, Keeps, AllObligations
    <3>2. Whole(gadget')
      BY <2>1, <2>6, <3>1, BindShape DEF UdcCommand, Whole, Plain
    <3> QED
      BY <2>6, <3>2 DEF UdcCommand, StartInv, StartsWhole
  <2>7. CASE AdbdOpens
    <3>1. /\ gadget'.functions = gadget.functions
          /\ gadget'.linked = gadget.linked
          /\ gadget'.bound = gadget.bound
      BY <2>1, <2>7, OpenShape DEF AdbdOpens
    <3> QED
      BY <2>7, <3>1 DEF AdbdOpens, StartInv, StartsWhole, Whole, Plain
  <2>8. CASE InitScriptStart
    <3> DEFINE p == Probe(gadget, "acm", "etc")
               q == Probe(p, "rndis", "etc")
    <3>1. Shape(p) /\ gadget.functions \subseteq p.functions
      BY <2>1, ProbeShape, ProbeKeepsFunctions
    <3>2. Shape(q) /\ p.functions \subseteq q.functions
      BY <3>1, ProbeShape, ProbeKeepsFunctions
    <3>3. Mounts(functionfs, q)
      BY <2>1, <3>1, <3>2 DEF Mounts
    <3>4. Whole(q)
      BY <2>1, <2>2, <2>8, TwoProbesWhole DEF InitScriptStart
    <3>5. /\ gadget' = Start(q) /\ functionfs' = MountFunctionfs(q, functionfs)
          /\ command' = "start" /\ Exit(StartSucceeds(q))
      BY <2>8 DEF InitScriptStart
    <3> HIDE DEF q
    <3> QED
      BY <3>2, <3>3, <3>4, <3>5, StartWhole, StartKeepsFunctions, MountsMounted
         DEF StartInv, StartsWhole, Exit
  <2>9. CASE InitScriptRestart
    BY <2>1, <2>9, StopFresh, FreshShape, FreshWhole, StartWhole
       DEF InitScriptRestart, StartInv, StartsWhole
  <2>10. CASE DeviceBoots
    <3>1. ~Fresh.bound /\ Adb \notin Fresh.functions
      BY DEF Fresh
    <3>2. Shape(Probe(Fresh, "ncm", "share")) /\ Whole(Probe(Fresh, "ncm", "share"))
      BY <3>1, FreshShape, FreshWhole, ProbeShape, ProbeWhole
    <3> DEFINE p == Probe(Fresh, "ncm", "share")
    <3>3. /\ gadget' = Start(p) /\ functionfs' = MountFunctionfs(p, {})
          /\ command' = "start" /\ Exit(StartSucceeds(p))
      BY <2>10 DEF DeviceBoots
    <3>4. Mounts({}, p)
      BY MountsLeft
    <3> HIDE DEF p
    <3> QED
      BY <3>2, <3>3, <3>4, StartWhole, StartKeepsFunctions, MountsMounted
         DEF p, StartInv, StartsWhole, Exit
  <2>11. CASE UNCHANGED gadgetVars
    BY <2>11 DEF gadgetVars, StartInv, StartsWhole, Whole, Plain
  <2> QED
    BY <2>3, <2>4, <2>5, <2>6, <2>7, <2>8, <2>9, <2>10, <2>11 DEF GadgetNext
<1> QED
  BY <1>1, <1>2, StopInvAlways, PTL DEF GadgetSpec

(* A start that reports success has linked every function, under the       *)
(* obligations and for any classes, endpoints and refusals.                *)
THEOREM StartComplete ==
  ASSUME AllObligations \subseteq Obligations
  PROVE  GadgetSpec => []StartsWhole
<1>1. StartInv => StartsWhole
  BY DEF StartInv
<1> QED
  BY <1>1, StartInvAlways, PTL

-----------------------------------------------------------------------------
(* Sums over finite sets, by induction: a set of finite sets has a smallest*)
(* member.                                                                 *)

LEMMA Least ==
  ASSUME NEW S \in SUBSET Nat, S # {}
  PROVE  \E n \in S : \A m \in S : n <= m
<1> DEFINE R == OpToRel(<, Nat)
<1>1. IsWellFoundedOn(R, Nat)
  BY NatLessThanWellFounded
<1>2. \A m, n \in Nat : <<m, n>> \in R <=> m < n
  BY DEF OpToRel
<1> HIDE DEF R
<1>3. PICK n \in S : \A m \in S : ~(<<m, n>> \in R)
  BY <1>1, WFMin
<1>4. \A m \in S : ~(m < n)
  BY <1>2, <1>3
<1> QED
  BY <1>4

LEMMA SmallestSet ==
  ASSUME NEW C, C # {}, \A s \in C : IsFiniteSet(s)
  PROVE  \E s \in C : \A t \in SUBSET s : t # s => t \notin C
<1> DEFINE Sizes == {Cardinality(s) : s \in C}
<1>1. \A s \in C : Cardinality(s) \in Nat
  BY FS_CardinalityType
<1>2. Sizes \in SUBSET Nat /\ Sizes # {}
  BY <1>1
<1>3. PICK n \in Sizes : \A m \in Sizes : n <= m
  BY <1>2, Least
<1>4. PICK s \in C : Cardinality(s) = n
  BY <1>3
<1>5. ASSUME NEW t \in SUBSET s, t # s, t \in C PROVE FALSE
  <2>1. Cardinality(t) <= Cardinality(s) /\ Cardinality(s) # Cardinality(t)
    BY <1>5, FS_Subset
  <2>2. Cardinality(s) <= Cardinality(t)
    BY <1>3, <1>4, <1>5
  <2> QED
    BY <1>1, <1>5, <2>1, <2>2
<1> QED
  BY <1>5

Pick(s) == CHOOSE x \in s : TRUE

(* h maps each subset of S to the sum of its weights.                      *)
Sums(h, w, S) ==
  h = [s \in SUBSET S |-> IF s = {} THEN 0 ELSE w[Pick(s)] + h[s \ {Pick(s)}]]

Total(w, S) == (CHOOSE h : Sums(h, w, S))[S]

LEMMA PickIn ==
  ASSUME NEW s, s # {}
  PROVE  Pick(s) \in s
  BY DEF Pick

LEMMA SumsAt ==
  ASSUME NEW h, NEW w, NEW S, Sums(h, w, S), NEW s \in SUBSET S
  PROVE  h[s] = IF s = {} THEN 0 ELSE w[Pick(s)] + h[s \ {Pick(s)}]
  BY DEF Sums

(* A sum does not depend on the set it is a part of.                       *)
LEMMA SumsAgree ==
  ASSUME NEW h, NEW k, NEW w, NEW S, NEW T, Sums(h, w, S), Sums(k, w, T),
         NEW s, IsFiniteSet(s), s \subseteq S, s \subseteq T
  PROVE  h[s] = k[s]
<1> DEFINE C == {u \in SUBSET s : h[u] # k[u]}
<1> SUFFICES ASSUME h[s] # k[s] PROVE FALSE
  OBVIOUS
<1>1. C # {} /\ \A u \in C : IsFiniteSet(u)
  BY FS_Subset
<1>2. PICK u \in C : \A t \in SUBSET u : t # u => t \notin C
  BY <1>1, SmallestSet
<1>3. u \in SUBSET S /\ u \in SUBSET T /\ h[u] # k[u]
  OBVIOUS
<1>4. CASE u = {}
  BY <1>3, <1>4, SumsAt
<1>5. CASE u # {}
  <2>1. Pick(u) \in u /\ u \ {Pick(u)} \in SUBSET s
    BY <1>5, PickIn
  <2>2. h[u \ {Pick(u)}] = k[u \ {Pick(u)}]
    BY <1>2, <2>1
  <2> QED
    BY <1>3, <1>5, <2>2, SumsAt
<1> QED
  BY <1>4, <1>5

LEMMA TotalStep ==
  ASSUME NEW w, NEW t, IsFiniteSet(t),
         \A u \in SUBSET t : \E h : Sums(h, w, u)
  PROVE  Total(w, t) = IF t = {} THEN 0 ELSE w[Pick(t)] + Total(w, t \ {Pick(t)})
<1> DEFINE Chosen(u) == CHOOSE h : Sums(h, w, u)
<1>1. \A u \in SUBSET t : Sums(Chosen(u), w, u)
  OBVIOUS
<1>2. \A u \in SUBSET t : Total(w, u) = Chosen(u)[u]
  BY DEF Total
<1> HIDE DEF Chosen
<1>3. Chosen(t)[t] = IF t = {} THEN 0
                     ELSE w[Pick(t)] + Chosen(t)[t \ {Pick(t)}]
  BY <1>1, SumsAt
<1> DEFINE v == t \ {Pick(t)}
<1>4. v \in SUBSET t /\ IsFiniteSet(v)
  BY FS_Subset
<1> HIDE DEF v
<1>5. Chosen(t)[v] = Chosen(v)[v]
  BY <1>1, <1>4, SumsAgree
<1> QED
  BY <1>2, <1>3, <1>4, <1>5 DEF v

LEMMA SumsExist ==
  ASSUME NEW w, NEW S, IsFiniteSet(S)
  PROVE  \E h : Sums(h, w, S)
<1> DEFINE C == {u \in SUBSET S : ~ \E h : Sums(h, w, u)}
<1> SUFFICES ASSUME ~ \E h : Sums(h, w, S) PROVE FALSE
  OBVIOUS
<1>1. C # {} /\ \A u \in C : IsFiniteSet(u)
  BY FS_Subset
<1>2. PICK u \in C : \A t \in SUBSET u : t # u => t \notin C
  BY <1>1, SmallestSet
<1>3. ASSUME NEW t \in SUBSET u, t # u PROVE \E h : Sums(h, w, t)
  BY <1>2, <1>3
<1> DEFINE g == [s \in SUBSET u |-> IF s = {} THEN 0
                                   ELSE w[Pick(s)] + Total(w, s \ {Pick(s)})]
<1>4. ASSUME NEW s \in SUBSET u, s # {}
      PROVE  g[s \ {Pick(s)}] = Total(w, s \ {Pick(s)})
  <2> DEFINE t == s \ {Pick(s)}
  <2>1. t \in SUBSET u /\ t # u
    BY <1>4, PickIn
  <2> HIDE DEF t
  <2>2. IsFiniteSet(t) /\ \A r \in SUBSET t : \E h : Sums(h, w, r)
    BY <1>1, <1>3, <2>1, FS_Subset
  <2>3. Total(w, t) = IF t = {} THEN 0 ELSE w[Pick(t)] + Total(w, t \ {Pick(t)})
    BY <2>2, TotalStep
  <2> QED
    BY <2>1, <2>3 DEF t
<1>5. Sums(g, w, u)
  <2> DEFINE Sum(s) == IF s = {} THEN 0 ELSE w[Pick(s)] + g[s \ {Pick(s)}]
  <2>1. \A s \in SUBSET u : g[s] = Sum(s)
    BY <1>4
  <2>2. g = [s \in SUBSET u |-> Sum(s)]
    <3> HIDE DEF Sum
    <3> QED
      BY <2>1
  <2> QED
    BY <2>2 DEF Sums
<1> HIDE DEF g
<1> QED
  BY <1>5

LEMMA TotalAt ==
  ASSUME NEW w, NEW S, IsFiniteSet(S)
  PROVE  Total(w, S) = IF S = {} THEN 0 ELSE w[Pick(S)] + Total(w, S \ {Pick(S)})
  BY SumsExist, TotalStep, FS_Subset

LEMMA TotalNat ==
  ASSUME NEW S, IsFiniteSet(S), NEW w, \A x \in S : w[x] \in Nat
  PROVE  Total(w, S) \in Nat
<1> DEFINE C == {u \in SUBSET S : Total(w, u) \notin Nat}
<1> SUFFICES ASSUME Total(w, S) \notin Nat PROVE FALSE
  OBVIOUS
<1>1. C # {} /\ \A u \in C : IsFiniteSet(u)
  BY FS_Subset
<1>2. PICK u \in C : \A t \in SUBSET u : t # u => t \notin C
  BY <1>1, SmallestSet
<1>3. Total(w, u) = IF u = {} THEN 0 ELSE w[Pick(u)] + Total(w, u \ {Pick(u)})
  BY <1>1, TotalAt
<1>4. CASE u # {}
  <2>1. Pick(u) \in u
    BY <1>4, PickIn
  <2>2. Total(w, u \ {Pick(u)}) \in Nat /\ w[Pick(u)] \in Nat
    BY <1>2, <2>1
  <2> QED
    BY <1>3, <1>4, <2>2
<1> QED
  BY <1>3, <1>4

(* Whatever element is taken out, the rest has the rest of the sum.        *)
LEMMA TotalWithout ==
  ASSUME NEW S, IsFiniteSet(S), NEW w, \A x \in S : w[x] \in Nat, NEW y \in S
  PROVE  Total(w, S) = w[y] + Total(w, S \ {y})
<1> DEFINE Splits(u, x) == Total(w, u) = w[x] + Total(w, u \ {x})
           C == {u \in SUBSET S : \E x \in u : ~Splits(u, x)}
<1> SUFFICES ASSUME ~Splits(S, y) PROVE FALSE
  OBVIOUS
<1>1. C # {} /\ \A u \in C : IsFiniteSet(u)
  BY FS_Subset
<1>2. PICK u \in C : \A t \in SUBSET u : t # u => t \notin C
  BY <1>1, SmallestSet
<1>3. PICK x \in u : ~Splits(u, x)
  BY <1>2
<1> DEFINE p == Pick(u)
<1>4. p \in u /\ Total(w, u) = w[p] + Total(w, u \ {p})
  BY <1>1, <1>3, PickIn, TotalAt
<1> HIDE DEF p
<1>5. x # p
  BY <1>3, <1>4
<1> DEFINE v == (u \ {x}) \ {p}
<1>6. v = (u \ {p}) \ {x}
  OBVIOUS
<1>7. Total(w, u \ {p}) = w[x] + Total(w, v)
  <2>1. u \ {p} \in SUBSET S /\ u \ {p} \notin C /\ x \in u \ {p}
    BY <1>2, <1>4, <1>5
  <2> QED
    BY <1>6, <2>1
<1>8. Total(w, u \ {x}) = w[p] + Total(w, v)
  <2>1. u \ {x} \in SUBSET S /\ u \ {x} \notin C /\ p \in u \ {x}
    BY <1>2, <1>4, <1>5
  <2> QED
    BY <2>1
<1>9. v \in SUBSET S /\ IsFiniteSet(v) /\ w[x] \in Nat /\ w[p] \in Nat
  BY <1>4, FS_Subset
<1>10. Total(w, v) \in Nat
  BY <1>9, TotalNat
<1> QED
  BY <1>3, <1>4, <1>7, <1>8, <1>9, <1>10

LEMMA TotalGrows ==
  ASSUME NEW S, IsFiniteSet(S), NEW v, NEW w,
         \A x \in S : v[x] \in Nat /\ w[x] \in Nat /\ v[x] <= w[x]
  PROVE  Total(v, S) <= Total(w, S)
<1> DEFINE C == {u \in SUBSET S : ~(Total(v, u) <= Total(w, u))}
<1> SUFFICES ASSUME ~(Total(v, S) <= Total(w, S)) PROVE FALSE
  OBVIOUS
<1>1. C # {} /\ \A u \in C : IsFiniteSet(u)
  BY FS_Subset
<1>2. PICK u \in C : \A t \in SUBSET u : t # u => t \notin C
  BY <1>1, SmallestSet
<1>3. /\ Total(v, u) = IF u = {} THEN 0 ELSE v[Pick(u)] + Total(v, u \ {Pick(u)})
      /\ Total(w, u) = IF u = {} THEN 0 ELSE w[Pick(u)] + Total(w, u \ {Pick(u)})
  BY <1>1, TotalAt
<1>4. CASE u # {}
  <2> DEFINE t == u \ {Pick(u)}
  <2>1. Pick(u) \in u
    BY <1>4, PickIn
  <2>2. t \in SUBSET S /\ IsFiniteSet(t) /\ Total(v, t) <= Total(w, t)
    BY <1>1, <1>2, <2>1, FS_Subset
  <2>3. Total(v, t) \in Nat /\ Total(w, t) \in Nat
    BY <2>2, TotalNat
  <2>4. /\ v[Pick(u)] \in Nat /\ w[Pick(u)] \in Nat
        /\ v[Pick(u)] <= w[Pick(u)]
    BY <2>1
  <2> QED
    BY <1>2, <1>3, <1>4, <2>2, <2>3, <2>4
<1> QED
  BY <1>2, <1>3, <1>4

(* The sums of the model are totals of weights.                            *)

LEMMA CountedInTotal ==
  ASSUME NEW S, IsFiniteSet(S), NEW w, \A x \in S : w[x] = CountedIn(x)
  PROVE  MapThenSumSet(CountedIn, S) = Total(w, S)
<1> DEFINE Sum(g, s) == IF s = {} THEN 0
                        ELSE CountedIn(CHOOSE x \in s : TRUE)
                               + g[s \ {CHOOSE x \in s : TRUE}]
           iter == CHOOSE g : g = [s \in SUBSET S |-> Sum(g, s)]
<1>1. MapThenSumSet(CountedIn, S) = iter[S]
  BY DEF MapThenSumSet, MapThenFoldSet
<1>2. ASSUME NEW g, NEW s \in SUBSET S
      PROVE  Sum(g, s) = IF s = {} THEN 0 ELSE w[Pick(s)] + g[s \ {Pick(s)}]
  BY PickIn DEF Pick
<1> HIDE DEF Sum
<1>3. ASSUME NEW g PROVE Sums(g, w, S) <=> g = [s \in SUBSET S |-> Sum(g, s)]
  BY <1>2 DEF Sums
<1>4. Sums(iter, w, S)
  BY <1>3, SumsExist
<1> HIDE DEF iter
<1>5. Total(w, S) = iter[S]
  <2> DEFINE h == CHOOSE g : Sums(g, w, S)
  <2>1. Sums(h, w, S)
    BY <1>4
  <2> HIDE DEF h
  <2>2. h[S] = iter[S]
    BY <1>4, <2>1, SumsAgree
  <2> QED
    BY <2>2 DEF Total, h
<1> QED
  BY <1>1, <1>5

LEMMA CountedOutTotal ==
  ASSUME NEW S, IsFiniteSet(S), NEW w, \A x \in S : w[x] = CountedOut(x)
  PROVE  MapThenSumSet(CountedOut, S) = Total(w, S)
<1> DEFINE Sum(g, s) == IF s = {} THEN 0
                        ELSE CountedOut(CHOOSE x \in s : TRUE)
                               + g[s \ {CHOOSE x \in s : TRUE}]
           iter == CHOOSE g : g = [s \in SUBSET S |-> Sum(g, s)]
<1>1. MapThenSumSet(CountedOut, S) = iter[S]
  BY DEF MapThenSumSet, MapThenFoldSet
<1>2. ASSUME NEW g, NEW s \in SUBSET S
      PROVE  Sum(g, s) = IF s = {} THEN 0 ELSE w[Pick(s)] + g[s \ {Pick(s)}]
  BY PickIn DEF Pick
<1> HIDE DEF Sum
<1>3. ASSUME NEW g PROVE Sums(g, w, S) <=> g = [s \in SUBSET S |-> Sum(g, s)]
  BY <1>2 DEF Sums
<1>4. Sums(iter, w, S)
  BY <1>3, SumsExist
<1> HIDE DEF iter
<1>5. Total(w, S) = iter[S]
  <2> DEFINE h == CHOOSE g : Sums(g, w, S)
  <2>1. Sums(h, w, S)
    BY <1>4
  <2> HIDE DEF h
  <2>2. h[S] = iter[S]
    BY <1>4, <2>1, SumsAgree
  <2> QED
    BY <2>2 DEF Total, h
<1> QED
  BY <1>1, <1>5

LEMMA ClaimedInTotal ==
  ASSUME NEW S, IsFiniteSet(S), NEW w, \A x \in S : w[x] = ClaimedIn(x)
  PROVE  MapThenSumSet(ClaimedIn, S) = Total(w, S)
<1> DEFINE Sum(g, s) == IF s = {} THEN 0
                        ELSE ClaimedIn(CHOOSE x \in s : TRUE)
                               + g[s \ {CHOOSE x \in s : TRUE}]
           iter == CHOOSE g : g = [s \in SUBSET S |-> Sum(g, s)]
<1>1. MapThenSumSet(ClaimedIn, S) = iter[S]
  BY DEF MapThenSumSet, MapThenFoldSet
<1>2. ASSUME NEW g, NEW s \in SUBSET S
      PROVE  Sum(g, s) = IF s = {} THEN 0 ELSE w[Pick(s)] + g[s \ {Pick(s)}]
  BY PickIn DEF Pick
<1> HIDE DEF Sum
<1>3. ASSUME NEW g PROVE Sums(g, w, S) <=> g = [s \in SUBSET S |-> Sum(g, s)]
  BY <1>2 DEF Sums
<1>4. Sums(iter, w, S)
  BY <1>3, SumsExist
<1> HIDE DEF iter
<1>5. Total(w, S) = iter[S]
  <2> DEFINE h == CHOOSE g : Sums(g, w, S)
  <2>1. Sums(h, w, S)
    BY <1>4
  <2> HIDE DEF h
  <2>2. h[S] = iter[S]
    BY <1>4, <2>1, SumsAgree
  <2> QED
    BY <2>2 DEF Total, h
<1> QED
  BY <1>1, <1>5

LEMMA ClaimedOutTotal ==
  ASSUME NEW S, IsFiniteSet(S), NEW w, \A x \in S : w[x] = ClaimedOut(x)
  PROVE  MapThenSumSet(ClaimedOut, S) = Total(w, S)
<1> DEFINE Sum(g, s) == IF s = {} THEN 0
                        ELSE ClaimedOut(CHOOSE x \in s : TRUE)
                               + g[s \ {CHOOSE x \in s : TRUE}]
           iter == CHOOSE g : g = [s \in SUBSET S |-> Sum(g, s)]
<1>1. MapThenSumSet(ClaimedOut, S) = iter[S]
  BY DEF MapThenSumSet, MapThenFoldSet
<1>2. ASSUME NEW g, NEW s \in SUBSET S
      PROVE  Sum(g, s) = IF s = {} THEN 0 ELSE w[Pick(s)] + g[s \ {Pick(s)}]
  BY PickIn DEF Pick
<1> HIDE DEF Sum
<1>3. ASSUME NEW g PROVE Sums(g, w, S) <=> g = [s \in SUBSET S |-> Sum(g, s)]
  BY <1>2 DEF Sums
<1>4. Sums(iter, w, S)
  BY <1>3, SumsExist
<1> HIDE DEF iter
<1>5. Total(w, S) = iter[S]
  <2> DEFINE h == CHOOSE g : Sums(g, w, S)
  <2>1. Sums(h, w, S)
    BY <1>4
  <2> HIDE DEF h
  <2>2. h[S] = iter[S]
    BY <1>4, <2>1, SumsAgree
  <2> QED
    BY <2>2 DEF Total, h
<1> QED
  BY <1>1, <1>5

LEMMA OneMore ==
  ASSUME NEW S, IsFiniteSet(S), NEW f, NEW v, NEW w, NEW a \in Nat, NEW m \in Nat,
         \A x \in S \cup {f} : v[x] \in Nat /\ w[x] \in Nat /\ v[x] <= w[x],
         v[f] <= a, Total(w, S) + a <= m
  PROVE  Total(v, S \cup {f}) <= m
<1>1. Total(v, S) \in Nat /\ Total(w, S) \in Nat /\ Total(v, S) <= Total(w, S)
  BY TotalNat, TotalGrows
<1>2. CASE f \in S
  <2>1. S \cup {f} = S
    BY <1>2
  <2>2. Total(v, S \cup {f}) = Total(v, S)
    BY <2>1
  <2>3. Total(v, S) <= m
    BY <1>1
  <2> QED
    BY <2>2, <2>3, Zenon
<1>3. CASE f \notin S
  <2> DEFINE T == S \cup {f}
  <2>1. IsFiniteSet(T) /\ T \ {f} = S /\ f \in T
    BY <1>3, FS_AddElement
  <2> HIDE DEF T
  <2>2. \A x \in T : v[x] \in Nat
    BY DEF T
  <2>3. Total(v, T) = v[f] + Total(v, T \ {f})
    BY <2>1, <2>2, TotalWithout
  <2>4. Total(v, T) = v[f] + Total(v, S)
    BY <2>1, <2>3
  <2>5. v[f] + Total(v, S) <= m
    BY <1>1
  <2> QED
    BY <2>4, <2>5, Zenon DEF T
<1> QED
  BY <1>2, <1>3

-----------------------------------------------------------------------------
(* What probe accepts has the endpoints to start.  The script counts every *)
(* function that is there with at least what the kernel claims for it, and *)
(* every new one but an ncm as well: an accepted function fits, however    *)
(* many were there.                                                        *)

LEMMA AcceptedFits ==
  ASSUME NEW fs, IsFiniteSet(fs), NEW c, NEW f, f.class = c, c # "ncm",
         ResCheck(fs, c)
  PROVE  EndpointsSuffice(fs \cup {f})
<1> DEFINE T == fs \cup {f}
           countedIn == [x \in T |-> CountedIn(x)]
           countedOut == [x \in T |-> CountedOut(x)]
           claimedIn == [x \in T |-> ClaimedIn(x)]
           claimedOut == [x \in T |-> ClaimedOut(x)]
<1>1. MaxEp \in Nat /\ IsFiniteSet(T)
  BY GadgetAssumption, FS_AddElement
<1>2. \A x \in T : /\ countedIn[x] \in Nat /\ claimedIn[x] \in Nat
                   /\ claimedIn[x] <= countedIn[x]
  BY DEF CountedIn, ClaimedIn
<1>3. \A x \in T : /\ countedOut[x] \in Nat /\ claimedOut[x] \in Nat
                   /\ claimedOut[x] <= countedOut[x]
  BY DEF CountedOut, ClaimedOut
<1>4. /\ AddedIn(c) \in Nat /\ claimedIn[f] <= AddedIn(c)
      /\ AddedOut(c) \in Nat /\ claimedOut[f] <= AddedOut(c)
  BY DEF AddedIn, AddedOut, ClaimedIn, ClaimedOut
<1>5. /\ \A x \in T : countedIn[x] = CountedIn(x) /\ countedOut[x] = CountedOut(x)
      /\ \A x \in T : claimedIn[x] = ClaimedIn(x) /\ claimedOut[x] = ClaimedOut(x)
  OBVIOUS
<1> HIDE DEF countedIn, countedOut, claimedIn, claimedOut
<1>6. /\ Total(countedIn, fs) + AddedIn(c) <= MaxEp
      /\ Total(countedOut, fs) + AddedOut(c) <= MaxEp
  <2>1. /\ MapThenSumSet(CountedIn, fs) = Total(countedIn, fs)
        /\ MapThenSumSet(CountedOut, fs) = Total(countedOut, fs)
    BY <1>5, CountedInTotal, CountedOutTotal
  <2>2. ResCheck(fs, c) =
          (/\ Total(countedIn, fs) + AddedIn(c) <= MaxEp
           /\ Total(countedOut, fs) + AddedOut(c) <= MaxEp)
    BY <2>1, Zenon DEF ResCheck
  <2> QED
    BY <2>2
<1>7. Total(claimedIn, T) <= MaxEp
  BY <1>1, <1>2, <1>4, <1>6, OneMore
<1>8. Total(claimedOut, T) <= MaxEp
  BY <1>1, <1>3, <1>4, <1>6, OneMore
<1>9. /\ MapThenSumSet(ClaimedIn, T) = Total(claimedIn, T)
      /\ MapThenSumSet(ClaimedOut, T) = Total(claimedOut, T)
  <2> HIDE DEF T
  <2> QED
    BY <1>1, <1>5, ClaimedInTotal, ClaimedOutTotal
<1>10. EndpointsSuffice(T)
  BY <1>7, <1>8, <1>9, Zenon DEF EndpointsSuffice
<1> QED
  BY <1>10 DEF T

(* Without adb the numbers probe gave out are those start counts through,  *)
(* and what was accepted has its endpoints, if there is no ncm: see        *)
(* AcceptedComesUp.  Both hold whatever the callers do.                    *)
Countable(g) ==
  Adb \notin g.functions => \A f \in g.functions : f.num < Cardinality(g.functions)

Fits(g) ==
  (\A f \in g.functions : f.class # "ncm") => EndpointsSuffice(g.functions)

Accepted(g) == Countable(g) /\ Fits(g)

LEMMA FreshAccepted == Accepted(Fresh)
<1>1. EndpointsSuffice({})
  <2> DEFINE w == [x \in {} |-> 0]
  <2>1. IsFiniteSet({}) /\ \A x \in {} : w[x] = ClaimedIn(x) /\ w[x] = ClaimedOut(x)
    BY FS_EmptySet
  <2> HIDE DEF w
  <2>2. Total(w, {}) = 0
    BY <2>1, TotalAt
  <2>3. /\ MapThenSumSet(ClaimedIn, {}) = Total(w, {})
        /\ MapThenSumSet(ClaimedOut, {}) = Total(w, {})
    BY <2>1, ClaimedInTotal, ClaimedOutTotal
  <2>4. 0 <= MaxEp
    BY GadgetAssumption
  <2> QED
    BY <2>2, <2>3, <2>4, Zenon DEF EndpointsSuffice
<1> QED
  BY <1>1 DEF Accepted, Countable, Fits, Fresh

(* A function that gets a number gets one that is not taken.               *)
LEMMA NewNumber ==
  ASSUME NEW g, Shape(g), Countable(g), Adb \notin g.functions, NEW c
  PROVE  Function(c, Cardinality(g.functions)) \notin g.functions
<1>1. Cardinality(g.functions) \in Nat
  BY FS_CardinalityType DEF Shape
<1> QED
  BY <1>1 DEF Countable, Function

LEMMA AddFunctionAccepted ==
  ASSUME NEW g, Shape(g), Accepted(g), g.mounted, NEW c \in Classes,
         NEW copy, ResCheck(Sees(copy, g.functions), c)
  PROVE  Accepted(AddFunction(g, c))
<1> DEFINE k == AddFunction(g, c)
           n == Cardinality(g.functions)
           f == IF c = "ffs.adb" THEN Adb ELSE Function(c, n)
<1>1. IsFiniteSet(g.functions) /\ n \in Nat
  BY FS_CardinalityType DEF Shape
<1>2. k.functions = g.functions \cup {f}
  BY AddFunctionShape
<1>3. f.class = c
  BY DEF Adb, Function
<1>4. Fits(k)
  <2> SUFFICES ASSUME \A x \in k.functions : x.class # "ncm"
               PROVE  EndpointsSuffice(k.functions)
    BY DEF Fits
  <2>1. c # "ncm"
    BY <1>2, <1>3
  <2>2. Sees(copy, g.functions) = g.functions
    BY <1>2 DEF Sees
  <2> HIDE DEF k, f
  <2>3. ResCheck(g.functions, c)
    BY <2>2
  <2>4. EndpointsSuffice(g.functions \cup {f})
    BY <1>1, <1>3, <2>1, <2>3, AcceptedFits
  <2> QED
    BY <1>2, <2>4, Zenon
<1>5. Countable(k)
  <2> SUFFICES ASSUME Adb \notin k.functions
               PROVE  \A x \in k.functions : x.num < Cardinality(k.functions)
    BY DEF Countable
  <2> HIDE DEF k
  <2>1. Adb \notin g.functions /\ f = Function(c, n)
    BY <1>2
  <2>2. f \notin g.functions
    BY <2>1, NewNumber DEF Accepted
  <2>3. Cardinality(k.functions) = n + 1
    BY <1>1, <1>2, <2>2, FS_AddElement
  <2>4. \A x \in g.functions : x.num < n /\ x.num \in Int
    BY <2>1 DEF Accepted, Countable, Shape, Gadgets, FunctionNames, Adb,
                Function, NoNumber
  <2>5. f.num = n
    BY <2>1 DEF Function
  <2> HIDE DEF f, n
  <2> QED
    BY <1>1, <1>2, <2>3, <2>4, <2>5
<1> QED
  BY <1>4, <1>5 DEF Accepted

LEMMA ProbeAccepted ==
  ASSUME NEW g, Shape(g), Accepted(g), NEW c, NEW copy
  PROVE  Accepted(Probe(g, c, copy))
<1> DEFINE h == ClassCode(SetUp(g))
<1>1. Shape(h) /\ h.mounted /\ h.functions = g.functions
  BY SetUpShape, ClassCodeShape
<1>2. /\ Known(copy) \subseteq Classes
      /\ Probe(g, c, copy) =
           IF c \notin Known(copy) THEN g
           ELSE IF ResCheck(Sees(copy, h.functions), c) THEN AddFunction(h, c) ELSE h
  BY DEF Probe, Known
<1> HIDE DEF h
<1>3. Accepted(h)
  BY <1>1 DEF Accepted, Countable, Fits
<1> QED
  BY <1>1, <1>2, <1>3, AddFunctionAccepted

LEMMA StartAccepted ==
  ASSUME NEW g, Shape(g), Accepted(g)
  PROVE  Accepted(Start(g))
  BY StartKeepsFunctions DEF Accepted, Countable, Fits

LEMMA AcceptedAlways == GadgetSpec => []Accepted(gadget)
<1>1. GadgetInit => Accepted(gadget)
  BY FreshAccepted DEF GadgetInit
<1>2. StopInv /\ Accepted(gadget) /\ [GadgetNext]_gadgetVars => Accepted(gadget)'
  <2> SUFFICES ASSUME Shape(gadget), Accepted(gadget), [GadgetNext]_gadgetVars
               PROVE  Accepted(gadget')
    BY DEF StopInv
  <2>1. ASSUME NEW c \in AllClasses, NEW copy \in Copies, ProbeCommand(c, copy)
        PROVE  Accepted(gadget')
    BY <2>1, ProbeAccepted DEF ProbeCommand
  <2>2. CASE StartCommand
    BY <2>2, StartAccepted DEF StartCommand
  <2>3. CASE StopCommand \/ InitScriptStop
    BY <2>3, StopFresh, FreshAccepted DEF StopCommand, InitScriptStop, RunStop
  <2>4. CASE UdcCommand
    BY <2>4, BindShape DEF UdcCommand, Accepted, Countable, Fits
  <2>5. CASE AdbdOpens
    BY <2>5, OpenShape DEF AdbdOpens, Accepted, Countable, Fits
  <2>6. CASE InitScriptStart
    BY <2>6, ProbeShape, ProbeAccepted, StartAccepted DEF InitScriptStart
  <2>7. CASE InitScriptRestart
    BY <2>7, StopFresh, FreshShape, FreshAccepted, StartAccepted
       DEF InitScriptRestart
  <2>8. CASE DeviceBoots
    BY <2>8, FreshShape, FreshAccepted, ProbeShape, ProbeAccepted, StartAccepted
       DEF DeviceBoots
  <2>9. CASE UNCHANGED gadgetVars
    BY <2>9 DEF gadgetVars
  <2> QED
    BY <2>1, <2>2, <2>3, <2>4, <2>5, <2>6, <2>7, <2>8, <2>9 DEF GadgetNext
<1> QED
  BY <1>1, <1>2, StopInvAlways, PTL DEF GadgetSpec

LEMMA StartComesUp ==
  ASSUME NEW g, Shape(g), Accepted(g), Startable(g)
  PROVE  StartSucceeds(g)
<1>1. g.mounted /\ CalcFunc(g) # 0
  <2>1. g.functions # {} /\ IsFiniteSet(g.functions)
    BY DEF Startable, Shape
  <2>2. g.mounted
    BY <2>1 DEF Shape, Fresh
  <2> QED
    BY <2>1, <2>2, FS_EmptySet DEF CalcFunc
<1>2. CASE Adb \notin g.functions
  <2> DEFINE h == Link(g, Numbered(g))
  <2>1. Cardinality(g.functions) \in Nat
    BY FS_CardinalityType DEF Shape
  <2>2. \A f \in g.functions : f.num \in 0 .. Cardinality(g.functions) - 1
    BY <1>2, <2>1 DEF Accepted, Countable, Shape, Gadgets, FunctionNames
  <2>3. Numbered(g) = g.functions
    BY <1>1, <1>2, <2>1, <2>2 DEF Numbered, CalcFunc
  <2>4. h.mounted /\ ~h.bound /\ h.linked = g.functions
    <3>1. Numbered(g) \in SUBSET g.functions
      BY <2>3
    <3>2. /\ h.mounted = g.mounted /\ h.bound = g.bound
          /\ g.mounted /\ ~g.bound => h.linked = g.linked \cup Numbered(g)
      BY <3>1, LinkShape
    <3> QED
      BY <1>1, <2>3, <3>2 DEF Startable, Shape
  <2>5. EndpointsSuffice(g.functions)
    BY DEF Accepted, Fits, Startable
  <2> HIDE DEF h
  <2>6. EndpointsSuffice(h.linked)
    BY <2>4, <2>5, Zenon
  <2>7. CanBind(h)
    BY <1>2, <2>4, <2>6, Zenon DEF CanBind, Startable
  <2> QED
    BY <1>1, <2>7, Zenon DEF StartSucceeds, h
<1> QED
  BY <1>1, <1>2 DEF StartSucceeds

(* Functions that probe accepted one by one, with no ncm among them, start *)
(* together: for any classes and any number of endpoints, and without any  *)
(* obligation of the callers.                                              *)
THEOREM AcceptedStarts == GadgetSpec => AcceptedComesUp
<1>1. StopInv /\ Accepted(gadget) /\ StartCommand /\ Startable(gadget)
        => status' = "ok"
  BY StartComesUp DEF StopInv, StartCommand, Exit
<1>2. StopInv /\ Accepted(gadget) /\ [GadgetNext]_gadgetVars
        => [StartCommand /\ Startable(gadget) => status' = "ok"]_gadgetVars
  BY <1>1
<1> QED
  BY <1>2, StopInvAlways, AcceptedAlways, PTL DEF GadgetSpec, AcceptedComesUp

-----------------------------------------------------------------------------
(* The class code tells a composite device.  probe writes it before the    *)
(* check that may refuse the second function, which four endpoints are     *)
(* enough for: what one function is counted as and what another adds.      *)

LEMMA OneFunction ==
  ASSUME NEW f, NEW w
  PROVE  Total(w, {f}) = w[f] + 0
<1>1. IsFiniteSet({f}) /\ IsFiniteSet({}) /\ Pick({f}) = f /\ {f} \ {f} = {}
  BY FS_Singleton, FS_EmptySet DEF Pick
<1>2. Total(w, {f}) = w[f] + Total(w, {})
  BY <1>1, TotalAt
<1>3. Total(w, {}) = 0
  BY <1>1, TotalAt
<1> QED
  BY <1>2, <1>3

LEMMA NoneCounted ==
  /\ MapThenSumSet(CountedIn, {}) = 0
  /\ MapThenSumSet(CountedOut, {}) = 0
<1> DEFINE w == [x \in {} |-> 0]
<1>1. IsFiniteSet({}) /\ \A x \in {} : w[x] = CountedIn(x) /\ w[x] = CountedOut(x)
  BY FS_EmptySet
<1> HIDE DEF w
<1>2. Total(w, {}) = 0
  BY <1>1, TotalAt
<1> QED
  BY <1>1, <1>2, CountedInTotal, CountedOutTotal

LEMMA OneCounted ==
  ASSUME NEW f
  PROVE  /\ MapThenSumSet(CountedIn, {f}) = CountedIn(f) + 0
         /\ MapThenSumSet(CountedOut, {f}) = CountedOut(f) + 0
<1> DEFINE v == [x \in {f} |-> CountedIn(x)]
           w == [x \in {f} |-> CountedOut(x)]
<1>1. /\ \A x \in {f} : v[x] = CountedIn(x)
      /\ \A x \in {f} : w[x] = CountedOut(x)
  OBVIOUS
<1> HIDE DEF v, w
<1>2. /\ MapThenSumSet(CountedIn, {f}) = Total(v, {f})
      /\ MapThenSumSet(CountedOut, {f}) = Total(w, {f})
  BY <1>1, FS_Singleton, CountedInTotal, CountedOutTotal
<1> QED
  BY <1>1, <1>2, OneFunction

(* Either copy accepts a second function, whether or not it sees the first.*)
LEMMA SecondAccepted ==
  ASSUME MaxEp >= 4, NEW f, NEW c, NEW copy
  PROVE  ResCheck(Sees(copy, {f}), c)
<1> DEFINE seen == Sees(copy, {f})
           ins == MapThenSumSet(CountedIn, seen)
           outs == MapThenSumSet(CountedOut, seen)
<1>1. MaxEp \in Nat
  BY GadgetAssumption
<1>2. /\ CountedIn(f) \in 0 .. 2 /\ CountedOut(f) \in 0 .. 2
      /\ AddedIn(c) \in 0 .. 2 /\ AddedOut(c) \in 0 .. 2
  BY DEF CountedIn, CountedOut, AddedIn, AddedOut
<1>3. seen = {} \/ seen = {f}
  BY DEF Sees
<1> HIDE DEF seen
<1>4. ins \in {0, CountedIn(f) + 0} /\ outs \in {0, CountedOut(f) + 0}
  <2>1. CASE seen = {}
    BY <2>1, NoneCounted
  <2>2. CASE seen = {f}
    BY <2>2, OneCounted
  <2> QED
    BY <1>3, <2>1, <2>2
<1> HIDE DEF ins, outs
<1>5. ins + AddedIn(c) <= MaxEp /\ outs + AddedOut(c) <= MaxEp
  BY <1>1, <1>2, <1>4
<1>6. ResCheck(seen, c)
  BY <1>5, Zenon DEF ResCheck, ins, outs
<1> QED
  BY <1>6 DEF seen

CodeTrue(g) == g.composite <=> Cardinality(g.functions) > 1

LEMMA FreshCodeTrue == CodeTrue(Fresh)
  BY FS_EmptySet DEF CodeTrue, Fresh

LEMMA AddFunctionCount ==
  ASSUME NEW g, Shape(g), Countable(g), g.mounted, Adb \notin g.functions,
         NEW c \in Classes
  PROVE  /\ AddFunction(g, c).composite = g.composite
         /\ Cardinality(AddFunction(g, c).functions)
              = Cardinality(g.functions) + 1
<1> DEFINE n == Cardinality(g.functions)
           f == IF c = "ffs.adb" THEN Adb ELSE Function(c, n)
<1>1. IsFiniteSet(g.functions) /\ n \in Nat
  BY FS_CardinalityType DEF Shape
<1>2. Function(c, n) \notin g.functions
  BY NewNumber
<1>3. AddFunction(g, c).functions = g.functions \cup {f}
  BY AddFunctionShape
<1>4. Cardinality(g.functions \cup {f}) = n + 1
  BY <1>1, <1>2, FS_AddElement
<1>5. AddFunction(g, c).composite = g.composite
  BY DEF AddFunction, Link, Shape, Gadgets
<1> QED
  BY <1>3, <1>4, <1>5

LEMMA ProbeCodeTrue ==
  ASSUME MaxEp >= 4, NEW g, Shape(g), Countable(g), Adb \notin g.functions,
         CodeTrue(g), NEW c, NEW copy
  PROVE  CodeTrue(Probe(g, c, copy))
<1> DEFINE h == ClassCode(SetUp(g))
           n == Cardinality(g.functions)
<1>1. IsFiniteSet(g.functions) /\ n \in Nat
  BY FS_CardinalityType DEF Shape
<1>2. /\ Shape(h) /\ h.mounted /\ h.functions = g.functions
      /\ h.linked = g.linked /\ h.bound = g.bound
  BY SetUpShape, ClassCodeShape
<1>3. h.composite <=> g.composite \/ n # 0
  <2>1. /\ SetUp(g).composite = g.composite /\ SetUp(g).functions = g.functions
        /\ SetUp(g).mounted /\ SetUp(g) \in Gadgets
    BY SetUpShape DEF SetUp, Shape, Gadgets
  <2> QED
    BY <2>1 DEF ClassCode, CalcFunc, Gadgets
<1>4. /\ Known(copy) \subseteq Classes
      /\ Probe(g, c, copy) =
           IF c \notin Known(copy) THEN g
           ELSE IF ResCheck(Sees(copy, h.functions), c) THEN AddFunction(h, c) ELSE h
  BY DEF Probe, Known
<1> HIDE DEF h
<1>5. Countable(h)
  BY <1>2 DEF Countable
<1>6. CASE c \in Known(copy) /\ ResCheck(Sees(copy, h.functions), c)
  <2>1. /\ Probe(g, c, copy).composite = h.composite
        /\ Cardinality(Probe(g, c, copy).functions) = n + 1
    BY <1>2, <1>4, <1>5, <1>6, AddFunctionCount
  <2> QED
    BY <1>1, <1>3, <2>1 DEF CodeTrue
<1>7. CASE c \in Known(copy) /\ ~ResCheck(Sees(copy, h.functions), c)
  <2>1. n # 1
    <3> SUFFICES ASSUME n = 1 PROVE FALSE
      OBVIOUS
    <3>1. PICK f : g.functions = {f}
      BY <1>1, FS_Singleton
    <3> QED
      BY <1>2, <1>7, <3>1, SecondAccepted
  <2> QED
    BY <1>1, <1>2, <1>3, <1>4, <1>7, <2>1 DEF CodeTrue
<1> QED
  BY <1>4, <1>6, <1>7

LEMMA StartCodeTrue ==
  ASSUME NEW g, Shape(g), CodeTrue(g)
  PROVE  CodeTrue(Start(g))
<1>1. g \in Gadgets
  BY DEF Shape
<1>2. Start(g).composite = g.composite /\ Start(g).functions = g.functions
  BY <1>1 DEF Start, Link, Bind, Gadgets
<1> QED
  BY <1>2 DEF CodeTrue

LEMMA NoneLeft == Adb \notin Fresh.functions /\ Countable(Fresh)
  BY FreshAccepted DEF Accepted, Fresh

LEMMA ProbedOnce ==
  ASSUME NEW g, Shape(g), Accepted(g), Adb \notin g.functions,
         NEW c, c # "ffs.adb", NEW copy
  PROVE  /\ Shape(Probe(g, c, copy)) /\ Accepted(Probe(g, c, copy))
         /\ Adb \notin Probe(g, c, copy).functions
<1> DEFINE h == ClassCode(SetUp(g))
<1>1. Shape(h) /\ h.mounted /\ h.functions = g.functions
  BY SetUpShape, ClassCodeShape
<1>2. /\ Known(copy) \subseteq Classes
      /\ Probe(g, c, copy) =
           IF c \notin Known(copy) THEN g
           ELSE IF ResCheck(Sees(copy, h.functions), c) THEN AddFunction(h, c) ELSE h
  BY DEF Probe, Known
<1> HIDE DEF h
<1>3. c \in Known(copy) => Adb \notin AddFunction(h, c).functions
  <2>1. Cardinality(h.functions) \in Nat
    BY <1>1, FS_CardinalityType DEF Shape
  <2> QED
    BY <1>1, <1>2, <2>1, AddFunctionShape DEF Adb, Function, NoNumber
<1> QED
  BY <1>1, <1>2, <1>3, ProbeShape, ProbeAccepted

(* Once the host sees a gadget, it is told a composite device exactly when *)
(* there are several functions, whatever was probed and refused before and *)
(* in whatever order the commands came, if nothing is probed after adb and *)
(* there are as many endpoints as the second function needs.               *)
THEOREM CodeOfComposite ==
  ASSUME MaxEp >= 4, "adb-last" \in Obligations
  PROVE  GadgetSpec => []CompositeDevice
<1>1. GadgetInit => CodeTrue(gadget)
  BY FreshCodeTrue DEF GadgetInit
<1>2. StopInv /\ Accepted(gadget) /\ CodeTrue(gadget) /\ [GadgetNext]_gadgetVars
        => CodeTrue(gadget)'
  <2> SUFFICES ASSUME Shape(gadget), Accepted(gadget), CodeTrue(gadget), [GadgetNext]_gadgetVars
               PROVE  CodeTrue(gadget')
    BY DEF StopInv
  <2>1. /\ Countable(gadget)
        /\ MayProbe(gadget) => Adb \notin gadget.functions
    BY DEF MayProbe, Keeps, Accepted
  <2>2. ASSUME NEW c \in AllClasses, NEW copy \in Copies, ProbeCommand(c, copy)
        PROVE  CodeTrue(gadget')
    BY <2>1, <2>2, ProbeCodeTrue DEF ProbeCommand
  <2>3. CASE StartCommand
    BY <2>3, StartCodeTrue DEF StartCommand
  <2>4. CASE StopCommand \/ InitScriptStop
    BY <2>4, StopFresh, FreshCodeTrue DEF StopCommand, InitScriptStop, RunStop
  <2>5. CASE UdcCommand
    BY <2>5 DEF UdcCommand, Bind, Shape, Gadgets, CodeTrue
  <2>6. CASE AdbdOpens
    BY <2>6 DEF AdbdOpens, Shape, Gadgets, CodeTrue
  <2>7. CASE InitScriptStart
    <3> DEFINE p == Probe(gadget, "acm", "etc")
               q == Probe(p, "rndis", "etc")
    <3>1. Shape(p) /\ Accepted(p) /\ Adb \notin p.functions /\ CodeTrue(p)
      BY <2>1, <2>7, ProbedOnce, ProbeCodeTrue DEF InitScriptStart
    <3>2. Shape(q) /\ CodeTrue(q)
      BY <3>1, ProbeShape, ProbeCodeTrue DEF Accepted
    <3> QED
      BY <2>7, <3>2, StartCodeTrue DEF InitScriptStart
  <2>8. CASE InitScriptRestart
    BY <2>8, StopFresh, FreshShape, FreshCodeTrue, StartCodeTrue
       DEF InitScriptRestart
  <2>9. CASE DeviceBoots
    <3>1. Shape(Probe(Fresh, "ncm", "share")) /\ CodeTrue(Probe(Fresh, "ncm", "share"))
      BY NoneLeft, FreshShape, FreshCodeTrue, ProbeShape, ProbeCodeTrue
    <3> QED
      BY <2>9, <3>1, StartCodeTrue DEF DeviceBoots
  <2>10. CASE UNCHANGED gadgetVars
    BY <2>10 DEF gadgetVars
  <2> QED
    BY <2>2, <2>3, <2>4, <2>5, <2>6, <2>7, <2>8, <2>9, <2>10 DEF GadgetNext
<1>3. CodeTrue(gadget) => CompositeDevice
  BY DEF CodeTrue, CompositeDevice
<1> QED
  BY <1>1, <1>2, <1>3, StopInvAlways, AcceptedAlways, PTL DEF GadgetSpec
=============================================================================
