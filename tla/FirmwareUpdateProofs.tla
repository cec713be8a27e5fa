------------------------ MODULE FirmwareUpdateProofs ------------------------
(***************************************************************************)
(* Proofs about FirmwareUpdate for every set of images and fwup processes, *)
(* and the proof that it implements TwoPhaseUpdate.                        *)
(***************************************************************************)
EXTENDS FirmwareRefinement, TLAPS

USE DEF Slot

LEMMA OtherFacts ==
  ASSUME NEW s \in Slot
  PROVE  Other(s) \in Slot /\ Other(s) # s /\ Other(Other(s)) = s
BY DEF Other

-----------------------------------------------------------------------------
(* Type correctness: every step keeps every variable in its set.           *)

LEMMA EnvFacts ==
  /\ BlankEnv \in Env
  /\ FactoryEnv \in Env
  /\ \A e \in Env, s \in Slot, i \in Images \cup {NoImage} :
       UpgradedEnv(e, s, i) \in Env
<1>1. BlankEnv \in Env
  BY DEF BlankEnv, None, Env
<1>2. FactoryEnv \in Env
  <2>1. [BlankEnv.platform EXCEPT !["a"] = TRUE] \in [Slot -> BOOLEAN]
    BY <1>1 DEF Env
  <2>2. [BlankEnv.version EXCEPT !["a"] = Factory]
          \in [Slot -> Images \cup {NoImage}]
    BY <1>1, ImagesAssumption DEF Env
  <2> QED
    BY <1>1, <2>1, <2>2 DEF FactoryEnv, Env
<1>3. ASSUME NEW e \in Env, NEW s \in Slot, NEW i \in Images \cup {NoImage}
      PROVE  UpgradedEnv(e, s, i) \in Env
  <2>1. [e.version EXCEPT ![s] = i] \in [Slot -> Images \cup {NoImage}]
    BY DEF Env
  <2> QED
    BY <2>1 DEF UpgradedEnv, Env
<1> QED
  BY <1>1, <1>2, <1>3

LEMMA FactoryFacts ==
  /\ FactoryEnv.validated = 1 /\ FactoryEnv.active = "a"
  /\ FactoryEnv.autovalidate = 0 /\ FactoryEnv.version["a"] = Factory
<1>1. BlankEnv \in Env
  BY EnvFacts
<1>2. /\ FactoryEnv.validated = BlankEnv.validated
      /\ FactoryEnv.active = BlankEnv.active
      /\ FactoryEnv.autovalidate = BlankEnv.autovalidate
      /\ FactoryEnv.version = [BlankEnv.version EXCEPT !["a"] = Factory]
  BY <1>1 DEF FactoryEnv, Env
<1>3. FactoryEnv.version["a"] = Factory
  BY <1>1, <1>2 DEF Env
<1> QED
  BY <1>2, <1>3 DEF BlankEnv

LEMMA InitTypeOK == Init => TypeOK
BY EnvFacts, ImagesAssumption DEF Init, TypeOK, None, Idle

LEMMA NextTypeOK == TypeOK /\ [Next]_vars => TypeOK'
<1> SUFFICES ASSUME TypeOK, [Next]_vars PROVE TypeOK'
  OBVIOUS
<1> USE ImagesAssumption, OtherFacts DEF TypeOK, Env
<1> Idle \in [task : TaskNames \cup {"none"}, slot : Slot,
              image : Images \cup {NoImage},
              stage : {"init", "write", "finish", "trim", "unset"}]
  BY DEF Idle
<1>1. CASE UNCHANGED vars
  BY <1>1 DEF vars
<1>2. CASE Operator
  <2> PICK j \in Jobs :
        \/ \E s \in Slot :
             \/ \E i \in Images : StartUpgrade(j, s, i)
             \/ StartPreventRevert(j, s)
             \/ StartRevert(j, s)
        \/ StartValidate(j)
        \/ Abort(j)
    BY <1>2 DEF Operator
  <2>1. ASSUME NEW t \in TaskNames, NEW s \in Slot,
               NEW i \in Images \cup {NoImage}, Start(j, t, s, i)
        PROVE  TypeOK'
    BY <2>1 DEF Start
  <2>2. CASE Abort(j)
    BY <2>2 DEF Abort, Done
  <2>3. CASE StartValidate(j)
    BY <2>1, <2>3 DEF StartValidate, TaskNames
  <2>4. ASSUME NEW s \in Slot,
               \/ \E i \in Images : StartUpgrade(j, s, i)
               \/ StartPreventRevert(j, s)
               \/ StartRevert(j, s)
        PROVE  TypeOK'
    BY <2>1, <2>4
    DEF StartUpgrade, StartPreventRevert, StartRevert, TaskNames
  <2> QED
    BY <2>2, <2>3, <2>4
<1>3. ASSUME NEW j \in Jobs, JobStep(j) PROVE TypeOK'
  <2> USE DEF At, GoTo, Done, Trim
  <2>1. CASE UpgradeInit(j)
    BY <2>1 DEF UpgradeInit
  <2>2. CASE UpgradeWrite(j)
    BY <2>2 DEF UpgradeWrite
  <2>3. CASE UpgradeFinish(j)
    <3>1. job[j].slot \in Slot /\ job[j].image \in Images \cup {NoImage}
      BY <1>3
    <3>2. UpgradedEnv(env, job[j].slot, job[j].image) \in Env
      BY <3>1, EnvFacts
    <3> QED
      BY <2>3, <3>2 DEF UpgradeFinish
  <2>4. CASE PreventRevertUnset(j)
    <3>1. [env.platform EXCEPT ![job[j].slot] = FALSE] \in [Slot -> BOOLEAN]
      OBVIOUS
    <3>2. env' \in Env
      BY <2>4, <3>1 DEF PreventRevertUnset
    <3>3. CASE job[j].stage = "init"
      BY <2>4, <3>2, <3>3 DEF PreventRevertUnset
    <3>4. CASE job[j].stage # "init"
      BY <2>4, <3>2, <3>4 DEF PreventRevertUnset
    <3> QED
      BY <3>3, <3>4
  <2>5. CASE PreventRevertTrim(j)
    BY <2>5 DEF PreventRevertTrim
  <2>6. CASE Revert(j)
    BY <2>6 DEF Revert
  <2>7. CASE Validate(j)
    BY <2>7 DEF Validate
  <2> QED
    BY <1>3, <2>1, <2>2, <2>3, <2>4, <2>5, <2>6, <2>7 DEF JobStep
<1>4. CASE Boot
  <2>1. CASE PowerOn
    BY <2>1 DEF PowerOn
  <2>2. CASE NervesInit
    BY <2>2 DEF NervesInit, NervesInitEnv, NervesRevert
  <2>3. CASE HandOver
    BY <2>3 DEF HandOver
  <2>4. CASE KernelPanic
    BY <2>4 DEF KernelPanic
  <2> QED
    BY <1>4, <2>1, <2>2, <2>3, <2>4 DEF Boot
<1>5. CASE Reboot \/ PowerLoss
  BY <1>5 DEF Reboot, PowerLoss, Down
<1>6. CASE Flash
  <2> USE DEF FlashStep, Trim
  <2>1. CASE FlashEnv
    BY <2>1 DEF FlashEnv, BlankEnv, None
  <2>2. CASE FlashRootfs
    BY <2>2 DEF FlashRootfs
  <2>3. CASE FlashWritten
    BY <2>3 DEF FlashWritten
  <2>4. CASE FlashFinish
    BY <2>4 DEF FlashFinish, FactoryEnv, BlankEnv, None
  <2> QED
    BY <1>6, <2>1, <2>2, <2>3, <2>4 DEF Flash
<1> QED
  BY <1>1, <1>2, <1>3, <1>4, <1>5, <1>6 DEF Next

(* Every reachable state of the device, the card and its fwup processes    *)
(* keeps the shape the code gives it.                                      *)
THEOREM TypeCorrect == Spec => []TypeOK
BY InitTypeOK, NextTypeOK, PTL DEF Spec

-----------------------------------------------------------------------------
(* What callers owe for the card to stay in order, and what failover asks *)
(* besides: that only healthy firmware is validated.  The last two are     *)
(* only needed where the tasks they are about are used.                    *)
Orderly ==
  /\ "exclusive" \in Obligations
  /\ "settled" \in Obligations \/ "prevent-revert" \notin Tasks
  /\ "known-good" \in Obligations \/ "revert" \notin Tasks

Careful == Orderly /\ "healthy" \in Obligations

(* life tells the truth about what a slot holds.                           *)
SlotInv ==
  \A s \in Slot :
    /\ life[s] = "torn" <=> rootfs[s] = NoImage
    /\ life[s] = "proven" => rootfs[s] \in Good

(* A card is flashed while it is not in use, and the environment on it is  *)
(* one without a trial from the first step on.                             *)
FlashInv ==
  /\ env.autovalidate = 0
  /\ flash \in {"env", "write", "finish"} => power = "off" /\ env.validated = 1
  /\ flash = "finish" => life["a"] = "proven" /\ rootfs["a"] = Factory

(* An image on trial that U-Boot may still start has never run, and the    *)
(* saved environment says so before U-Boot starts anything.                *)
TrialInv ==
  /\ env.validated = 0 /\ (env.booted = 0 \/ power = "kernel")
       => life[env.active] = "fresh"
  /\ power = "kernel" => env.booted = 1

(* What held when a task checked its requirements holds until it ends.     *)
JobOK(j) ==
  /\ job[j].task \in {"upgrade", "prevent-revert"} =>
       env.validated = 1 /\ env.active = Other(job[j].slot)
  /\ job[j].task = "upgrade" =>
       /\ job[j].image \in Images
       /\ job[j].stage = "finish" =>
            life[job[j].slot] = "fresh" /\ rootfs[job[j].slot] = job[j].image
  /\ job[j].task = "revert" =>
       life[job[j].slot] = "proven" /\ env.active = Other(job[j].slot)
  /\ job[j].task = "validate" =>
       mounted = env.active /\ rootfs[mounted] \in Good

JobInv ==
  /\ \A j \in Jobs : job[j] # Idle => power = "up"
  /\ \A j, k \in Jobs : job[j] # Idle /\ job[k] # Idle => j = k
  /\ \A j \in Jobs : JobOK(j)

IInv ==
  /\ TypeOK /\ SlotInv /\ FlashInv /\ TrialInv /\ JobInv /\ FailoverSafe

-----------------------------------------------------------------------------
(* The part of IInv that speaks of the card alone.                         *)
CardInv == SlotInv /\ FlashInv /\ TrialInv /\ FailoverSafe

LEMMA InitIInv == Init => IInv
<1> SUFFICES ASSUME Init PROVE IInv
  OBVIOUS
<1> USE ImagesAssumption DEF Init, FactoryEnv, BlankEnv, None
<1>1. TypeOK
  BY InitTypeOK
<1>2. SlotInv /\ FlashInv /\ TrialInv /\ FailoverSafe
  BY DEF SlotInv, FlashInv, TrialInv, FailoverSafe
<1>3. JobInv
  BY DEF JobInv, JobOK, Idle
<1> QED
  BY <1>1, <1>2, <1>3 DEF IInv

(* A task that starts leaves the card alone, and finds what JobOK says.    *)
LEMMA StartIInv ==
  ASSUME Careful, IInv, TypeOK', Operator
  PROVE  IInv'
<1> USE DEF IInv
<1> PICK j \in Jobs :
      \/ \E s \in Slot :
           \/ \E i \in Images : StartUpgrade(j, s, i)
           \/ StartPreventRevert(j, s)
           \/ StartRevert(j, s)
      \/ StartValidate(j)
      \/ Abort(j)
  BY DEF Operator
<1>1. ASSUME NEW t \in Tasks, NEW s \in Slot,
             NEW i \in Images \cup {NoImage}, Start(j, t, s, i),
             t \in {"upgrade", "prevent-revert"} =>
               env.validated = 1 /\ env.active = Other(s),
             t = "upgrade" => i \in Images,
             t = "revert" => life[s] = "proven" /\ env.active = Other(s),
             t = "validate" => mounted = env.active /\ rootfs[mounted] \in Good
      PROVE  IInv'
  <2>1. CardInv'
    BY <1>1 DEF Start, CardInv, SlotInv, FlashInv, TrialInv, FailoverSafe
  <2>2. \A k \in Jobs : job[k] = Idle
    BY <1>1 DEF Start, MayStart, Careful, Orderly
  <2>3. /\ job' = [job EXCEPT ![j] = [task |-> t, slot |-> s, image |-> i,
                                      stage |-> "init"]]
        /\ power = "up"
        /\ UNCHANGED <<env, rootfs, life, power, mounted>>
    BY <1>1 DEF Start
  <2>4. \A k \in Jobs \ {j} : job'[k] = Idle
    BY <2>2, <2>3 DEF TypeOK
  <2>5. /\ job'[j].task = t /\ job'[j].slot = s
        /\ job'[j].image = i /\ job'[j].stage = "init"
    BY <2>3 DEF TypeOK
  <2>6. JobOK(j)'
    BY <1>1, <2>3, <2>5 DEF JobOK, Start, MayStart
  <2>7. \A k \in Jobs \ {j} : JobOK(k)'
    BY <2>4 DEF JobOK, Idle
  <2> QED
    BY <2>1, <2>3, <2>4, <2>6, <2>7 DEF CardInv, JobInv
<1>2. ASSUME NEW s \in Slot, NEW i \in Images, StartUpgrade(j, s, i)
      PROVE  IInv'
  BY <1>1, <1>2 DEF StartUpgrade, Start
<1>3. ASSUME NEW s \in Slot, StartPreventRevert(j, s)
      PROVE  IInv'
  BY <1>1, <1>3 DEF StartPreventRevert, Start, Careful, Orderly
<1>4. ASSUME NEW s \in Slot, StartRevert(j, s)
      PROVE  IInv'
  BY <1>1, <1>4 DEF StartRevert, Start, Careful, Orderly
<1>5. CASE StartValidate(j)
  <2>1. env.active \in Slot
    BY DEF TypeOK, Env
  <2> QED
    BY <1>1, <1>5, <2>1 DEF StartValidate, Start, Careful, Orderly
<1>6. CASE Abort(j)
  <2>1. CardInv'
    BY <1>6 DEF Abort, CardInv, SlotInv, FlashInv, TrialInv, FailoverSafe
  <2>2. \A k \in Jobs : job'[k] = Idle \/ job'[k] = job[k]
    BY <1>6 DEF Abort, Done, TypeOK
  <2>3. JobInv'
    <3>1. ASSUME NEW k \in Jobs PROVE JobOK(k)'
      BY <1>6, <2>2 DEF JobInv, JobOK, Idle, Abort
    <3> QED
      BY <1>6, <2>2, <3>1 DEF JobInv, Abort
  <2> QED
    BY <2>1, <2>3 DEF CardInv
<1> QED
  BY <1>2, <1>3, <1>4, <1>5, <1>6

-----------------------------------------------------------------------------
(* While a process takes a step it is the only one and the device is up.   *)
LEMMA OnlyJob ==
  ASSUME IInv, NEW j \in Jobs, job[j] # Idle
  PROVE  power = "up" /\ \A k \in Jobs \ {j} : job[k] = Idle
BY DEF IInv, JobInv

(* JobInv after a step of the only process, from what became of that one.  *)
LEMMA JobInvStep ==
  ASSUME IInv, TypeOK', NEW j \in Jobs, job[j] # Idle, UNCHANGED power,
         \A k \in Jobs \ {j} : job'[k] = job[k], JobOK(j)'
  PROVE  JobInv'
<1>1. \A k \in Jobs \ {j} : job'[k] = Idle
  BY OnlyJob
<1>2. \A k \in Jobs \ {j} : JobOK(k)'
  BY <1>1 DEF JobOK, Idle
<1> QED
  BY <1>1, <1>2, OnlyJob DEF JobInv

LEMMA UpgradeIInv ==
  ASSUME IInv, TypeOK', NEW j \in Jobs,
         UpgradeInit(j) \/ UpgradeWrite(j) \/ UpgradeFinish(j)
  PROVE  IInv'
<1> USE DEF IInv
<1> DEFINE s == job[j].slot
           i == job[j].image
<1>1. /\ job[j].task = "upgrade" /\ job[j] # Idle
      /\ s \in Slot /\ i \in Images /\ i # NoImage
      /\ env.validated = 1 /\ env.active = Other(s)
      /\ env.active \in Slot /\ env.active # s
  BY OtherFacts, ImagesAssumption
  DEF UpgradeInit, UpgradeWrite, UpgradeFinish, At, Idle, JobInv, JobOK,
      TypeOK, Env
<1>2. power = "up" /\ flash \notin {"env", "write", "finish"}
  BY <1>1, OnlyJob DEF FlashInv
<1>3. CASE UpgradeInit(j)
  <2> USE <1>3 DEF UpgradeInit, Trim, GoTo, At
  <2>1. /\ rootfs' = [rootfs EXCEPT ![s] = NoImage]
        /\ life' = [life EXCEPT ![s] = "torn"]
        /\ UNCHANGED <<env, flash, power, mounted>>
    OBVIOUS
  <2>2. SlotInv' /\ FlashInv' /\ TrialInv'
    BY <1>1, <1>2, <2>1, ImagesAssumption
    DEF SlotInv, FlashInv, TrialInv, TypeOK
  <2>3. FailoverSafe'
    BY <1>1, <2>1 DEF FailoverSafe, TypeOK
  <2>4. /\ job'[j].task = "upgrade" /\ job'[j].slot = s
        /\ job'[j].image = i /\ job'[j].stage = "write"
    BY <1>1 DEF TypeOK
  <2>5. JobOK(j)'
    BY <1>1, <2>1, <2>4 DEF JobOK
  <2>6. \A k \in Jobs \ {j} : job'[k] = job[k]
    BY DEF TypeOK
  <2> QED
    BY <1>1, <2>1, <2>2, <2>3, <2>5, <2>6, JobInvStep
<1>4. CASE UpgradeWrite(j)
  <2> USE <1>4 DEF UpgradeWrite, GoTo, At
  <2>1. /\ rootfs' = [rootfs EXCEPT ![s] = i]
        /\ life' = [life EXCEPT ![s] = "fresh"]
        /\ UNCHANGED <<env, flash, power, mounted>>
    OBVIOUS
  <2>2. SlotInv' /\ FlashInv' /\ TrialInv'
    BY <1>1, <1>2, <2>1 DEF SlotInv, FlashInv, TrialInv, TypeOK
  <2>3. FailoverSafe'
    BY <1>1, <2>1 DEF FailoverSafe, TypeOK
  <2>4. /\ job'[j].task = "upgrade" /\ job'[j].slot = s
        /\ job'[j].image = i
    BY <1>1 DEF TypeOK
  <2>5. JobOK(j)'
    BY <1>1, <2>1, <2>4 DEF JobOK, TypeOK
  <2>6. \A k \in Jobs \ {j} : job'[k] = job[k]
    BY DEF TypeOK
  <2> QED
    BY <1>1, <2>1, <2>2, <2>3, <2>5, <2>6, JobInvStep
<1>5. CASE UpgradeFinish(j)
  <2> USE <1>5 DEF UpgradeFinish, Done, At
  <2>1. UNCHANGED <<rootfs, life, flash, power, mounted>>
    OBVIOUS
  <2>2. /\ env'.active = s /\ env'.validated = 0 /\ env'.booted = 0
        /\ env'.autovalidate = env.autovalidate
        /\ env'.version = [env.version EXCEPT ![s] = i]
    BY DEF UpgradedEnv, TypeOK, Env
  <2>3. life[s] = "fresh" /\ rootfs[s] = i
    BY <1>1 DEF JobInv, JobOK
  <2>4. SlotInv' /\ FlashInv' /\ TrialInv'
    BY <1>1, <1>2, <2>1, <2>2, <2>3 DEF SlotInv, FlashInv, TrialInv
  <2>5. FailoverSafe'
    BY <1>1, <2>1, <2>2 DEF FailoverSafe
  <2>6. /\ job'[j] = Idle
        /\ \A k \in Jobs \ {j} : job'[k] = job[k]
    BY DEF TypeOK
  <2>7. JobOK(j)'
    BY <2>6 DEF JobOK, Idle
  <2> QED
    BY <1>1, <2>1, <2>4, <2>5, <2>6, <2>7, JobInvStep
<1> QED
  BY <1>3, <1>4, <1>5

LEMMA PreventRevertIInv ==
  ASSUME IInv, TypeOK', NEW j \in Jobs,
         PreventRevertUnset(j) \/ PreventRevertTrim(j)
  PROVE  IInv'
<1> USE DEF IInv
<1> DEFINE s == job[j].slot
<1>1. /\ job[j].task = "prevent-revert" /\ job[j] # Idle
      /\ s \in Slot /\ env.validated = 1 /\ env.active = Other(s)
      /\ env.active \in Slot /\ env.active # s
  BY OtherFacts
  DEF PreventRevertUnset, PreventRevertTrim, At, Idle, JobInv, JobOK,
      TypeOK, Env
<1>2. power = "up" /\ flash \notin {"env", "write", "finish"}
  BY <1>1, OnlyJob DEF FlashInv
<1>3. /\ \/ job'[j].task = "prevent-revert" /\ job'[j].slot = s
         \/ job'[j] = Idle
      /\ \A k \in Jobs \ {j} : job'[k] = job[k]
  BY <1>1 DEF PreventRevertUnset, PreventRevertTrim, GoTo, Done, TypeOK
<1>4. CASE PreventRevertUnset(j)
  <2>1. /\ UNCHANGED <<rootfs, life, flash, power, mounted>>
        /\ env'.active = env.active /\ env'.validated = env.validated
        /\ env'.booted = env.booted /\ env'.autovalidate = env.autovalidate
        /\ env'.version = env.version
    BY <1>4 DEF PreventRevertUnset, TypeOK, Env
  <2>2. CardInv'
    BY <2>1 DEF CardInv, SlotInv, FlashInv, TrialInv, FailoverSafe
  <2>3. JobOK(j)'
    BY <1>1, <1>3, <2>1 DEF JobOK, Idle
  <2> QED
    BY <1>1, <1>3, <2>1, <2>2, <2>3, JobInvStep DEF CardInv
<1>5. CASE PreventRevertTrim(j)
  <2>1. /\ rootfs' = [rootfs EXCEPT ![s] = NoImage]
        /\ life' = [life EXCEPT ![s] = "torn"]
        /\ UNCHANGED <<env, flash, power, mounted>>
    BY <1>5 DEF PreventRevertTrim, Trim
  <2>2. SlotInv' /\ FlashInv' /\ TrialInv'
    BY <1>1, <1>2, <2>1, ImagesAssumption
    DEF SlotInv, FlashInv, TrialInv, TypeOK
  <2>3. FailoverSafe'
    BY <1>1, <2>1 DEF FailoverSafe, TypeOK
  <2>4. JobOK(j)'
    BY <1>1, <1>3, <2>1 DEF JobOK, Idle
  <2> QED
    BY <1>1, <1>3, <2>1, <2>2, <2>3, <2>4, JobInvStep
<1> QED
  BY <1>4, <1>5

LEMMA RevertIInv ==
  ASSUME IInv, TypeOK', NEW j \in Jobs, Revert(j)
  PROVE  IInv'
<1> USE DEF IInv
<1> DEFINE s == job[j].slot
<1>1. /\ job[j] # Idle /\ s \in Slot
      /\ life[s] = "proven" /\ env.active = Other(s)
  BY DEF Revert, At, Idle, JobInv, JobOK, TypeOK
<1>2. power = "up" /\ flash \notin {"env", "write", "finish"}
  BY <1>1, OnlyJob DEF FlashInv
<1>3. /\ UNCHANGED <<rootfs, life, flash, power, mounted>>
      /\ env'.active = s /\ env'.validated = 1
      /\ env'.autovalidate = env.autovalidate /\ env'.version = env.version
  BY DEF Revert, TypeOK, Env
<1>4. CardInv'
  BY <1>1, <1>2, <1>3
  DEF CardInv, SlotInv, FlashInv, TrialInv, FailoverSafe
<1>5. job'[j] = Idle /\ \A k \in Jobs \ {j} : job'[k] = job[k]
  BY DEF Revert, Done, TypeOK
<1>6. JobOK(j)'
  BY <1>5 DEF JobOK, Idle
<1> QED
  BY <1>1, <1>3, <1>4, <1>5, <1>6, JobInvStep DEF CardInv

LEMMA ValidateIInv ==
  ASSUME IInv, TypeOK', NEW j \in Jobs, Validate(j)
  PROVE  IInv'
<1> USE DEF IInv
<1>1. /\ job[j] # Idle /\ mounted = env.active /\ rootfs[mounted] \in Good
      /\ mounted \in Slot
  BY DEF Validate, At, Idle, JobInv, JobOK, TypeOK, Env
<1>2. power = "up" /\ flash \notin {"env", "write", "finish"}
  BY <1>1, OnlyJob DEF FlashInv
<1>3. /\ UNCHANGED <<rootfs, flash, power, mounted>>
      /\ life' = [life EXCEPT ![env.active] = "proven"]
      /\ env'.active = env.active /\ env'.validated = 1
      /\ env'.autovalidate = env.autovalidate /\ env'.version = env.version
  BY <1>1 DEF Validate, TypeOK, Env
<1>4. SlotInv' /\ FlashInv' /\ TrialInv' /\ FailoverSafe'
  BY <1>1, <1>2, <1>3, ImagesAssumption
  DEF SlotInv, FlashInv, TrialInv, FailoverSafe, TypeOK
<1>5. job'[j] = Idle /\ \A k \in Jobs \ {j} : job'[k] = job[k]
  BY DEF Validate, Done, TypeOK
<1>6. JobOK(j)'
  BY <1>5 DEF JobOK, Idle
<1> QED
  BY <1>1, <1>3, <1>4, <1>5, <1>6, JobInvStep

-----------------------------------------------------------------------------
(* No process runs while the device is not up, so the steps of the boot    *)
(* loader, of power and of flashing need not look at jobs.                 *)
LEMMA NoJobInv ==
  ASSUME \A j \in Jobs : job[j] = Idle
  PROVE  JobInv
BY DEF JobInv, JobOK, Idle

LEMMA BootIInv ==
  ASSUME IInv, TypeOK', Boot
  PROVE  IInv'
<1> USE DEF IInv
<1>1. power # "up" /\ job' = job
  BY DEF Boot, PowerOn, NervesInit, HandOver, KernelPanic
<1>2. \A j \in Jobs : job[j] = Idle
  BY <1>1 DEF JobInv
<1>3. JobInv'
  BY <1>1, <1>2, NoJobInv DEF JobInv, JobOK, Idle
<1>4. env.active \in Slot
  BY DEF TypeOK, Env
<1>5. CASE PowerOn
  <2>1. CardInv'
    BY <1>5 DEF PowerOn, CardInv, SlotInv, FlashInv, TrialInv, FailoverSafe,
                TypeOK
  <2> QED
    BY <1>3, <2>1 DEF CardInv
<1>6. CASE NervesInit
  <2>1. /\ UNCHANGED <<rootfs, life, flash>> /\ power' = "kernel"
        /\ power = "uboot"
        /\ env'.autovalidate = env.autovalidate /\ env'.version = env.version
        /\ env'.booted = 1
    BY <1>6 DEF NervesInit, NervesInitEnv, NervesRevert, TypeOK, Env
  <2>2. CASE env.booted = 1 /\ env.validated = 0
    <3>1. env'.active = Other(env.active) /\ env'.validated = 1
      BY <1>6, <2>2 DEF NervesInit, NervesInitEnv, NervesRevert, TypeOK, Env
    <3>2. CardInv'
      BY <1>4, <2>1, <2>2, <3>1, OtherFacts
      DEF CardInv, SlotInv, FlashInv, TrialInv, FailoverSafe
    <3> QED
      BY <1>3, <3>2 DEF CardInv
  <2>3. CASE env.booted = 1 /\ env.validated # 0
    <3>1. env' = env
      BY <1>6, <2>3 DEF NervesInit, NervesInitEnv
    <3>2. CardInv'
      BY <2>1, <2>3, <3>1
      DEF CardInv, SlotInv, FlashInv, TrialInv, FailoverSafe
    <3> QED
      BY <1>3, <3>2 DEF CardInv
  <2>4. CASE env.booted # 1
    <3>1. /\ env'.active = env.active /\ env'.validated = env.validated
          /\ env.booted = 0
      BY <1>6, <2>4
      DEF NervesInit, NervesInitEnv, TypeOK, Env, FlashInv
    <3>2. CardInv'
      BY <2>1, <2>4, <3>1
      DEF CardInv, SlotInv, FlashInv, TrialInv, FailoverSafe
    <3> QED
      BY <1>3, <3>2 DEF CardInv
  <2> QED
    BY <2>2, <2>3, <2>4
<1>7. CASE HandOver
  <2>1. /\ UNCHANGED <<env, rootfs, flash>>
        /\ power' = "up" /\ power = "kernel"
        /\ life' = [life EXCEPT ![env.active] =
                      IF @ = "fresh" THEN "tried" ELSE @]
    BY <1>7 DEF HandOver
  <2>2. life \in [Slot -> {"torn", "fresh", "tried", "proven"}]
    BY DEF TypeOK
  <2>3. ASSUME NEW s \in Slot
        PROVE  /\ life'[s] = "torn" <=> life[s] = "torn"
               /\ life'[s] = "proven" <=> life[s] = "proven"
    BY <1>4, <2>1, <2>2
  <2>4. SlotInv' /\ FlashInv' /\ TrialInv'
    BY <2>1, <2>3 DEF SlotInv, FlashInv, TrialInv
  <2>5. FailoverSafe'
    BY <1>4, <2>1, <2>3, OtherFacts DEF FailoverSafe
  <2> QED
    BY <1>3, <2>4, <2>5
<1>8. CASE KernelPanic
  <2>1. CardInv'
    BY <1>8 DEF KernelPanic, CardInv, SlotInv, FlashInv, TrialInv,
                FailoverSafe, TypeOK
  <2> QED
    BY <1>3, <2>1 DEF CardInv
<1> QED
  BY <1>5, <1>6, <1>7, <1>8 DEF Boot

LEMMA DownIInv ==
  ASSUME IInv, TypeOK', Reboot \/ PowerLoss
  PROVE  IInv'
<1> USE DEF IInv
<1>1. /\ UNCHANGED <<env, rootfs, life, flash>> /\ power # "off"
      /\ power' \in {"uboot", "off"} /\ job' = [j \in Jobs |-> Idle]
  BY DEF Reboot, PowerLoss, Down
<1>2. CardInv'
  BY <1>1 DEF CardInv, SlotInv, FlashInv, TrialInv, FailoverSafe
<1>3. JobInv'
  BY <1>1 DEF JobInv, JobOK, Idle
<1> QED
  BY <1>2, <1>3 DEF CardInv

LEMMA FlashIInv ==
  ASSUME IInv, TypeOK', Flash
  PROVE  IInv'
<1> USE ImagesAssumption DEF IInv
<1>1. power = "off" /\ power' = "off" /\ job' = job
  BY DEF Flash, FlashEnv, FlashRootfs, FlashWritten, FlashFinish, FlashStep
<1>2. \A j \in Jobs : job[j] = Idle
  BY <1>1 DEF JobInv
<1>3. JobInv'
  BY <1>1, <1>2 DEF JobInv, JobOK, Idle
<1>4. CASE FlashEnv
  <2>1. CardInv'
    BY <1>1, <1>4
    DEF FlashEnv, FlashStep, BlankEnv, CardInv, SlotInv, FlashInv, TrialInv,
        FailoverSafe
  <2> QED
    BY <1>3, <2>1 DEF CardInv
<1>5. CASE FlashRootfs
  <2>1. CardInv'
    BY <1>1, <1>5
    DEF FlashRootfs, FlashStep, Trim, CardInv, SlotInv, FlashInv, TrialInv,
        FailoverSafe, TypeOK
  <2> QED
    BY <1>3, <2>1 DEF CardInv
<1>6. CASE FlashWritten
  <2>1. CardInv'
    BY <1>1, <1>6
    DEF FlashWritten, FlashStep, CardInv, SlotInv, FlashInv, TrialInv,
        FailoverSafe, TypeOK
  <2> QED
    BY <1>3, <2>1 DEF CardInv
<1>7. CASE FlashFinish
  <2>1. /\ env'.validated = 1 /\ env'.active = "a" /\ env'.autovalidate = 0
        /\ env'.version["a"] = Factory
    BY <1>7, FactoryFacts DEF FlashFinish
  <2>2. /\ rootfs' = [rootfs EXCEPT !["b"] = NoImage]
        /\ life' = [life EXCEPT !["b"] = "torn"]
        /\ flash = "finish" /\ flash' = "done"
    BY <1>7 DEF FlashFinish, FlashStep, Trim
  <2>3. SlotInv' /\ FlashInv' /\ TrialInv'
    BY <1>1, <2>1, <2>2 DEF SlotInv, FlashInv, TrialInv, TypeOK
  <2>4. life'["a"] = "proven" /\ rootfs'["a"] = Factory /\ life'["b"] = "torn"
    BY <2>2 DEF FlashInv, TypeOK
  <2>5. FailoverSafe'
    BY <2>1, <2>4 DEF FailoverSafe
  <2> QED
    BY <1>3, <2>3, <2>5
<1> QED
  BY <1>4, <1>5, <1>6, <1>7 DEF Flash

LEMMA NextIInv == Careful /\ IInv /\ [Next]_vars => IInv'
<1> SUFFICES ASSUME Careful, IInv, [Next]_vars PROVE IInv'
  OBVIOUS
<1>1. TypeOK'
  BY NextTypeOK DEF IInv
<1>2. CASE UNCHANGED vars
  BY <1>1, <1>2
  DEF vars, IInv, SlotInv, FlashInv, TrialInv, JobInv, JobOK, FailoverSafe
<1>3. CASE Operator
  BY <1>1, <1>3, StartIInv
<1>4. ASSUME NEW j \in Jobs, JobStep(j) PROVE IInv'
  BY <1>1, <1>4, UpgradeIInv, PreventRevertIInv, RevertIInv, ValidateIInv
  DEF JobStep
<1>5. CASE Boot
  BY <1>1, <1>5, BootIInv
<1>6. CASE Reboot \/ PowerLoss
  BY <1>1, <1>6, DownIInv
<1>7. CASE Flash
  BY <1>1, <1>7, FlashIInv
<1> QED
  BY <1>2, <1>3, <1>4, <1>5, <1>6, <1>7 DEF Next

LEMMA IInvHolds == Careful => (Spec => []IInv)
<1> SUFFICES ASSUME Careful PROVE Spec => []IInv
  OBVIOUS
<1>1. IInv /\ [Next]_vars => IInv'
  BY NextIInv
<1> QED
  BY InitIInv, <1>1, PTL DEF Spec

-----------------------------------------------------------------------------
(* A fallback always exists: whatever the power supply, the images and the *)
(* callers within the obligations do, validated firmware is either active  *)
(* or is what nerves_revert switches to.                                   *)
THEOREM Failover == Careful => (Spec => []FailoverSafe)
<1>1. IInv => FailoverSafe
  BY DEF IInv
<1> QED
  BY <1>1, IInvHolds, PTL

-----------------------------------------------------------------------------
(* The running slot alone needs no lock between fwup processes: a task     *)
(* that writes was started from the slot beside its own, and no process    *)
(* outlives the system it was started on.                                  *)
RunningInv ==
  /\ \A j \in Jobs : job[j] # Idle => power = "up"
  /\ \A j \in Jobs : job[j].task \in {"upgrade", "prevent-revert"}
                       => job[j].slot # mounted

LEMMA RunningInvStep ==
  ASSUME "reboot" \in Obligations, TypeOK, RunningInv, [Next]_vars
  PROVE  RunningInv'
<1> USE DEF RunningInv
<1>1. CASE UNCHANGED vars
  BY <1>1 DEF vars
<1>2. ASSUME NEW j \in Jobs, NEW t \in TaskNames, NEW s \in Slot,
             NEW i \in Images \cup {NoImage}, Start(j, t, s, i),
             t \in {"upgrade", "prevent-revert"} => env.active = Other(s)
      PROVE  RunningInv'
  <2>1. mounted = env.active /\ power = "up" /\ UNCHANGED <<power, mounted>>
    BY <1>2 DEF Start, MayStart
  <2>2. t \in {"upgrade", "prevent-revert"} => s # mounted
    BY <1>2, <2>1, OtherFacts
  <2>3. \A k \in Jobs : job'[k] =
          IF k = j THEN [task |-> t, slot |-> s, image |-> i, stage |-> "init"]
                   ELSE job[k]
    BY <1>2 DEF Start, TypeOK
  <2> QED
    BY <2>1, <2>2, <2>3
<1>3. CASE Operator
  <2> PICK j \in Jobs :
        \/ \E s \in Slot :
             \/ \E i \in Images : StartUpgrade(j, s, i)
             \/ StartPreventRevert(j, s)
             \/ StartRevert(j, s)
        \/ StartValidate(j)
        \/ Abort(j)
    BY <1>3 DEF Operator
  <2>1. CASE Abort(j)
    <3>1. \A k \in Jobs : job'[k] = IF k = j THEN Idle ELSE job[k]
      BY <2>1 DEF Abort, Done, TypeOK
    <3>2. UNCHANGED <<power, mounted>>
      BY <2>1 DEF Abort
    <3> QED
      BY <3>1, <3>2 DEF Idle
  <2>2. CASE StartValidate(j)
    <3>1. env.active \in Slot
      BY DEF TypeOK, Env
    <3> QED
      BY <1>2, <2>2, <3>1 DEF StartValidate, TaskNames
  <2>3. ASSUME NEW s \in Slot, NEW i \in Images, StartUpgrade(j, s, i)
        PROVE  RunningInv'
    BY <1>2, <2>3 DEF StartUpgrade, TaskNames
  <2>4. ASSUME NEW s \in Slot, StartPreventRevert(j, s) PROVE RunningInv'
    BY <1>2, <2>4 DEF StartPreventRevert, TaskNames
  <2>5. ASSUME NEW s \in Slot, StartRevert(j, s) PROVE RunningInv'
    BY <1>2, <2>5 DEF StartRevert, TaskNames
  <2> QED
    BY <2>1, <2>2, <2>3, <2>4, <2>5
<1>4. ASSUME NEW j \in Jobs, JobStep(j) PROVE RunningInv'
  <2>1. job[j] # Idle /\ UNCHANGED <<power, mounted>>
    BY <1>4 DEF JobStep, UpgradeInit, UpgradeWrite, UpgradeFinish, At, Idle,
                PreventRevertUnset, PreventRevertTrim, Revert, Validate
  <2>2. \/ Done(j)
        \/ GoTo(j, "write") \/ GoTo(j, "finish")
        \/ GoTo(j, "trim") \/ GoTo(j, "unset")
    <3>1. CASE UpgradeInit(j) \/ UpgradeWrite(j) \/ UpgradeFinish(j)
      BY <3>1 DEF UpgradeInit, UpgradeWrite, UpgradeFinish
    <3>2. CASE PreventRevertUnset(j) \/ PreventRevertTrim(j)
      BY <3>2 DEF PreventRevertUnset, PreventRevertTrim
    <3>3. CASE Revert(j) \/ Validate(j)
      BY <3>3 DEF Revert, Validate
    <3> QED
      BY <1>4, <3>1, <3>2, <3>3 DEF JobStep
  <2>3. ASSUME NEW k \in Jobs
        PROVE  /\ job'[k] = Idle
                    \/ /\ job'[k].task = job[k].task
                       /\ job'[k].slot = job[k].slot
               /\ k # j => job'[k] = job[k]
    BY <2>2 DEF Done, GoTo, TypeOK
  <2> QED
    BY <2>1, <2>3 DEF Idle
<1>5. CASE Boot
  <2>1. power # "up" /\ job' = job
    BY <1>5 DEF Boot, PowerOn, NervesInit, HandOver, KernelPanic
  <2> QED
    BY <2>1 DEF Idle
<1>6. CASE Reboot \/ PowerLoss
  BY <1>6 DEF Reboot, PowerLoss, Down, Idle
<1>7. CASE Flash
  BY <1>7 DEF Flash, FlashEnv, FlashRootfs, FlashWritten, FlashFinish,
              FlashStep
<1> QED
  BY <1>1, <1>3, <1>4, <1>5, <1>6, <1>7 DEF Next

LEMMA RunningInvHolds ==
  "reboot" \in Obligations => (Spec => []RunningInv)
<1> SUFFICES ASSUME "reboot" \in Obligations PROVE Spec => []RunningInv
  OBVIOUS
<1>1. Init => RunningInv
  BY DEF Init, RunningInv, Idle
<1>2. TypeOK /\ RunningInv /\ [Next]_vars => RunningInv'
  BY RunningInvStep
<1> QED
  BY <1>1, <1>2, TypeCorrect, PTL DEF Spec

LEMMA RunningStep ==
  ASSUME TypeOK, RunningInv, Next
  PROVE  \A s \in Slot : power = "up" /\ rootfs'[s] # rootfs[s] => s # mounted
<1> DEFINE Kept == \A s \in Slot : power = "up" /\ rootfs'[s] # rootfs[s]
                     => s # mounted
<1>1. ASSUME NEW j \in Jobs, JobStep(j) PROVE Kept
  <2>1. CASE \/ UpgradeInit(j) \/ UpgradeWrite(j) \/ PreventRevertTrim(j)
    <3>1. \A s \in Slot : rootfs'[s] # rootfs[s] => s = job[j].slot
      BY <2>1 DEF UpgradeInit, UpgradeWrite, PreventRevertTrim, Trim, TypeOK
    <3>2. job[j].task \in {"upgrade", "prevent-revert"}
      BY <2>1 DEF UpgradeInit, UpgradeWrite, PreventRevertTrim, At
    <3> QED
      BY <3>1, <3>2 DEF RunningInv
  <2>2. CASE \/ UpgradeFinish(j) \/ PreventRevertUnset(j)
             \/ Revert(j) \/ Validate(j)
    BY <2>2 DEF UpgradeFinish, PreventRevertUnset, Revert, Validate
  <2> QED
    BY <1>1, <2>1, <2>2 DEF JobStep
<1>2. CASE Operator
  BY <1>2 DEF Operator, StartUpgrade, StartPreventRevert, StartRevert,
              StartValidate, Start, Abort
<1>3. CASE Boot
  BY <1>3 DEF Boot, PowerOn, NervesInit, HandOver, KernelPanic
<1>4. CASE Reboot \/ PowerLoss
  BY <1>4 DEF Reboot, PowerLoss, Down
<1>5. CASE Flash
  BY <1>5 DEF Flash, FlashEnv, FlashRootfs, FlashWritten, FlashFinish,
              FlashStep
<1> QED
  BY <1>1, <1>2, <1>3, <1>4, <1>5 DEF Next

(* Without a lock, the slot the device runs from is never touched, as long *)
(* as a switch of slots leads to a reboot.                                 *)
THEOREM RunningKept ==
  "reboot" \in Obligations => (Spec => RunningSlotKept)
<1> DEFINE Kept == \A s \in Slot : power = "up" /\ rootfs'[s] # rootfs[s]
                     => s # mounted
<1> SUFFICES ASSUME "reboot" \in Obligations PROVE Spec => RunningSlotKept
  OBVIOUS
<1>1. TypeOK /\ RunningInv /\ [Next]_vars => [Kept]_vars
  BY RunningStep
<1> HIDE DEF Kept
<1> QED
  BY <1>1, TypeCorrect, RunningInvHolds, PTL DEF Spec, RunningSlotKept, Kept

-----------------------------------------------------------------------------
(* What a start and a step do to the processes, for the invariants below.  *)

(* Process j starts a task, and finds what the task and its caller require.*)
Begins(j) == LET p == job'[j] IN
  /\ power = "up" /\ MayStart(p.task)
  /\ p.stage = "init"
  /\ p.task \in {"upgrade", "prevent-revert", "revert"} => env.active = Other(p.slot)
  /\ p.task = "upgrade" => env.validated = 1 /\ p.image \in Images
  /\ p.task = "prevent-revert" =>
       /\ "prevent-revert" \in Tasks
       /\ "settled" \in Obligations => env.validated = 1
  /\ p.task = "revert" =>
       /\ "revert" \in Tasks
       /\ "known-good" \in Obligations => life[p.slot] = "proven"

LEMMA OperatorCases ==
  ASSUME TypeOK, Operator
  PROVE  /\ UNCHANGED <<env, rootfs, life, flash, power, mounted>>
         /\ \E j \in Jobs : /\ \A k \in Jobs \ {j} : job'[k] = job[k]
                            /\ job'[j] = Idle \/ Begins(j)
<1> PICK j \in Jobs :
      \/ \E s \in Slot :
           \/ \E i \in Images : StartUpgrade(j, s, i)
           \/ StartPreventRevert(j, s)
           \/ StartRevert(j, s)
      \/ StartValidate(j)
      \/ Abort(j)
  BY DEF Operator
<1> SUFFICES /\ UNCHANGED <<env, rootfs, life, flash, power, mounted>>
             /\ \A k \in Jobs \ {j} : job'[k] = job[k]
             /\ job'[j] = Idle \/ Begins(j)
  OBVIOUS
<1>1. ASSUME NEW t, NEW s, NEW i, Start(j, t, s, i)
      PROVE  /\ UNCHANGED <<env, rootfs, life, flash, power, mounted>>
             /\ \A k \in Jobs \ {j} : job'[k] = job[k]
             /\ power = "up" /\ t \in Tasks /\ MayStart(job'[j].task)
             /\ job'[j].task = t /\ job'[j].slot = s
             /\ job'[j].image = i /\ job'[j].stage = "init"
  <2>1. job'[j] = [task |-> t, slot |-> s, image |-> i, stage |-> "init"]
    BY <1>1 DEF Start, TypeOK
  <2>2. MayStart(job'[j].task)
    BY <1>1 DEF Start, MayStart
  <2> QED
    BY <1>1, <2>1, <2>2 DEF Start, TypeOK
<1>2. ASSUME NEW s \in Slot, NEW i \in Images, StartUpgrade(j, s, i)
      PROVE  Start(j, "upgrade", s, i) /\ Begins(j)
  <2>1. /\ Start(j, "upgrade", s, i)
        /\ env.active = Other(s) /\ env.validated = 1
    BY <1>2 DEF StartUpgrade
  <2> QED
    BY <1>1, <2>1 DEF Begins
<1>3. ASSUME NEW s \in Slot, StartPreventRevert(j, s)
      PROVE  Start(j, "prevent-revert", s, NoImage) /\ Begins(j)
  <2>1. /\ Start(j, "prevent-revert", s, NoImage)
        /\ env.active = Other(s)
        /\ "settled" \in Obligations => env.validated = 1
    BY <1>3 DEF StartPreventRevert
  <2> QED
    BY <1>1, <2>1 DEF Begins
<1>4. ASSUME NEW s \in Slot, StartRevert(j, s)
      PROVE  Start(j, "revert", s, NoImage) /\ Begins(j)
  <2>1. /\ Start(j, "revert", s, NoImage)
        /\ env.active = Other(s)
        /\ "known-good" \in Obligations => life[s] = "proven"
    BY <1>4 DEF StartRevert
  <2> QED
    BY <1>1, <2>1 DEF Begins
<1>5. ASSUME StartValidate(j)
      PROVE  Start(j, "validate", env.active, NoImage) /\ Begins(j)
  <2>1. Start(j, "validate", env.active, NoImage)
    BY <1>5 DEF StartValidate
  <2> QED
    BY <1>1, <2>1 DEF Begins
<1>6. CASE Abort(j)
  BY <1>6 DEF Abort, Done, TypeOK
<1>7. CASE \E s \in Slot, i \in Images : StartUpgrade(j, s, i)
  BY <1>1, <1>2, <1>7
<1>8. CASE \E s \in Slot : StartPreventRevert(j, s)
  BY <1>1, <1>3, <1>8
<1>9. CASE \E s \in Slot : StartRevert(j, s)
  BY <1>1, <1>4, <1>9
<1>10. CASE StartValidate(j)
  BY <1>1, <1>5, <1>10
<1> QED
  BY <1>6, <1>7, <1>8, <1>9, <1>10

LEMMA JobStepCases ==
  ASSUME TypeOK, NEW j \in Jobs, JobStep(j)
  PROVE  /\ job[j] # Idle /\ UNCHANGED <<flash, power, mounted>>
         /\ \A k \in Jobs \ {j} : job'[k] = job[k]
         /\ \/ job'[j] = Idle
            \/ /\ job'[j].task = job[j].task /\ job'[j].slot = job[j].slot
               /\ job'[j].image = job[j].image
<1>1. job[j] # Idle /\ UNCHANGED <<flash, power, mounted>>
  BY DEF JobStep, UpgradeInit, UpgradeWrite, UpgradeFinish, At, Idle,
         PreventRevertUnset, PreventRevertTrim, Revert, Validate
<1>2. \/ Done(j)
      \/ GoTo(j, "write") \/ GoTo(j, "finish")
      \/ GoTo(j, "trim") \/ GoTo(j, "unset")
  <2>1. CASE UpgradeInit(j) \/ UpgradeWrite(j) \/ UpgradeFinish(j)
    BY <2>1 DEF UpgradeInit, UpgradeWrite, UpgradeFinish
  <2>2. CASE PreventRevertUnset(j) \/ PreventRevertTrim(j)
    BY <2>2 DEF PreventRevertUnset, PreventRevertTrim
  <2>3. CASE Revert(j) \/ Validate(j)
    BY <2>3 DEF Revert, Validate
  <2> QED
    BY <2>1, <2>2, <2>3 DEF JobStep
<1> QED
  BY <1>1, <1>2 DEF Done, GoTo, TypeOK

(* No process is there while the device boots or is flashed.               *)
LEMMA OtherCases ==
  ASSUME TypeOK, Boot \/ Flash \/ Reboot \/ PowerLoss
  PROVE  \/ power # "up" /\ job' = job
         \/ \A j \in Jobs : job'[j] = Idle
<1>1. CASE Boot
  BY <1>1 DEF Boot, PowerOn, NervesInit, HandOver, KernelPanic
<1>2. CASE Flash
  BY <1>2 DEF Flash, FlashEnv, FlashRootfs, FlashWritten, FlashFinish, FlashStep
<1>3. CASE Reboot \/ PowerLoss
  BY <1>3 DEF Reboot, PowerLoss, Down
<1> QED
  BY <1>1, <1>2, <1>3

UpInv == \A j \in Jobs : job[j] # Idle => power = "up"

LEMMA UpInvStep == TypeOK /\ TypeOK' /\ UpInv /\ [Next]_vars => UpInv'
<1> SUFFICES ASSUME TypeOK, TypeOK', UpInv, [Next]_vars PROVE UpInv'
  OBVIOUS
<1>1. CASE Operator
  BY <1>1, OperatorCases DEF UpInv, Begins
<1>2. ASSUME NEW j \in Jobs, JobStep(j) PROVE UpInv'
  BY <1>2, JobStepCases DEF UpInv
<1>3. CASE Boot \/ Flash \/ Reboot \/ PowerLoss
  BY <1>3, OtherCases DEF UpInv
<1>4. CASE UNCHANGED vars
  BY <1>4 DEF vars, UpInv
<1> QED
  BY <1>1, <1>2, <1>3, <1>4 DEF Next

LEMMA UpInvHolds == Spec => []UpInv
<1>1. Init => UpInv
  BY DEF Init, UpInv
<1> QED
  BY <1>1, UpInvStep, TypeCorrect, PTL DEF Spec

-----------------------------------------------------------------------------
(* With a lock there is one process at most, and the slot it was started   *)
(* for stays the one beside the active slot.                               *)
AloneInv ==
  /\ \A j, k \in Jobs : job[j] # Idle /\ job[k] # Idle => j = k
  /\ \A j \in Jobs : job[j].task \in {"upgrade", "prevent-revert"}
                       => env.active = Other(job[j].slot)

LEMMA AloneInvStep ==
  ASSUME "exclusive" \in Obligations, TypeOK, TypeOK', UpInv, AloneInv, [Next]_vars
  PROVE  AloneInv'
<1>1. CASE Operator
  <2> PICK j \in Jobs :
        /\ \A k \in Jobs \ {j} : job'[k] = job[k]
        /\ job'[j] = Idle \/ Begins(j)
    BY <1>1, OperatorCases
  <2>1. env' = env
    BY <1>1, OperatorCases
  <2>2. CASE job'[j] = Idle
    BY <2>1, <2>2 DEF AloneInv, Idle
  <2>3. CASE job'[j] # Idle
    <3>1. \A k \in Jobs : job[k] = Idle
      BY <2>3 DEF Begins, MayStart
    <3>2. \A k \in Jobs \ {j} : job'[k] = Idle
      BY <3>1
    <3> QED
      BY <2>1, <2>3, <3>2 DEF AloneInv, Idle, Begins
  <2> QED
    BY <2>2, <2>3
<1>2. ASSUME NEW j \in Jobs, JobStep(j) PROVE AloneInv'
  <2>1. /\ job[j] # Idle
        /\ \A k \in Jobs \ {j} : job'[k] = job[k]
        /\ \/ job'[j] = Idle
           \/ job'[j].task = job[j].task /\ job'[j].slot = job[j].slot
    BY <1>2, JobStepCases
  <2>2. \A k \in Jobs \ {j} : job'[k] = Idle
    BY <2>1 DEF AloneInv
  <2>3. job'[j] = Idle \/ env'.active = env.active
    BY <1>2 DEF JobStep, UpgradeInit, UpgradeWrite, UpgradeFinish, Done,
                PreventRevertUnset, PreventRevertTrim, Revert, Validate,
                TypeOK, Env
  <2> QED
    BY <2>1, <2>2, <2>3 DEF AloneInv, Idle
<1>3. CASE Boot \/ Flash \/ Reboot \/ PowerLoss
  <2>1. \A j \in Jobs : job'[j] = Idle
    BY <1>3, OtherCases DEF UpInv
  <2> QED
    BY <2>1 DEF AloneInv, Idle
<1>4. CASE UNCHANGED vars
  BY <1>4 DEF vars, AloneInv
<1> QED
  BY <1>1, <1>2, <1>3, <1>4 DEF Next

LEMMA AloneInvHolds == "exclusive" \in Obligations => (Spec => []AloneInv)
<1> SUFFICES ASSUME "exclusive" \in Obligations PROVE Spec => []AloneInv
  OBVIOUS
<1>1. Init => AloneInv
  BY DEF Init, AloneInv, Idle
<1>2. TypeOK /\ TypeOK' /\ UpInv /\ AloneInv /\ [Next]_vars => AloneInv'
  BY AloneInvStep
<1> QED
  BY <1>1, <1>2, TypeCorrect, UpInvHolds, PTL DEF Spec

(* While the device is on, nothing touches the slot it runs from or the    *)
(* slot it would boot next, if there is one process at most and a switch   *)
(* of slots is followed by a reboot.                                       *)
THEOREM InactiveOnly ==
  "exclusive" \in Obligations /\ "reboot" \in Obligations
    => (Spec => WritesInactiveOnly)
<1> DEFINE Kept == \A s \in Slot : power # "off" /\ rootfs'[s] # rootfs[s]
                     => s # mounted /\ s # env.active
<1> SUFFICES ASSUME "exclusive" \in Obligations, "reboot" \in Obligations
             PROVE  Spec => WritesInactiveOnly
  OBVIOUS
<1>1. ASSUME TypeOK, AloneInv, RunningInv, Next PROVE Kept
  <2>1. ASSUME NEW j \in Jobs, JobStep(j) PROVE Kept
    <3>1. CASE UpgradeInit(j) \/ UpgradeWrite(j) \/ PreventRevertTrim(j)
      <4>1. \A s \in Slot : rootfs'[s] # rootfs[s] => s = job[j].slot
        BY <1>1, <3>1
        DEF UpgradeInit, UpgradeWrite, PreventRevertTrim, Trim, TypeOK
      <4>2. /\ job[j].task \in {"upgrade", "prevent-revert"}
            /\ job[j].slot \in Slot
        BY <1>1, <3>1
        DEF UpgradeInit, UpgradeWrite, PreventRevertTrim, At, TypeOK
      <4>3. job[j].slot # mounted /\ env.active = Other(job[j].slot)
        BY <1>1, <4>2 DEF RunningInv, AloneInv
      <4> QED
        BY <4>1, <4>2, <4>3, OtherFacts
    <3>2. CASE \/ UpgradeFinish(j) \/ PreventRevertUnset(j)
               \/ Revert(j) \/ Validate(j)
      BY <3>2 DEF UpgradeFinish, PreventRevertUnset, Revert, Validate
    <3> QED
      BY <2>1, <3>1, <3>2 DEF JobStep
  <2>2. CASE Operator
    BY <2>2 DEF Operator, StartUpgrade, StartPreventRevert, StartRevert,
                StartValidate, Start, Abort
  <2>3. CASE Boot
    BY <2>3 DEF Boot, PowerOn, NervesInit, HandOver, KernelPanic
  <2>4. CASE Reboot \/ PowerLoss
    BY <2>4 DEF Reboot, PowerLoss, Down
  <2>5. CASE Flash
    BY <2>5 DEF Flash, FlashEnv, FlashRootfs, FlashWritten, FlashFinish,
                FlashStep
  <2> QED
    BY <1>1, <2>1, <2>2, <2>3, <2>4, <2>5 DEF Next
<1>2. TypeOK /\ AloneInv /\ RunningInv /\ [Next]_vars => [Kept]_vars
  BY <1>1
<1> HIDE DEF Kept
<1> QED
  BY <1>2, TypeCorrect, AloneInvHolds, RunningInvHolds, PTL
  DEF Spec, WritesInactiveOnly, Kept

-----------------------------------------------------------------------------
(* What U-Boot does to the environment.                                    *)
LEMMA NervesInitCases ==
  ASSUME TypeOK, NervesInit
  PROVE  /\ UNCHANGED <<rootfs, life, flash>>
         /\ power' = "kernel" /\ env'.booted = 1 /\ env'.version = env.version
         /\ \/ /\ env.booted = 1 /\ env.validated = 0
               /\ env'.active = Other(env.active) /\ env'.validated = 1
            \/ /\ env.booted = 1 => env.validated = 1
               /\ env'.active = env.active
               /\ env'.validated = 0 => env.validated = 0
<1>1. UNCHANGED <<rootfs, life, flash>> /\ power' = "kernel" /\ env \in Env
  BY DEF NervesInit, TypeOK
<1>2. CASE env.booted = 1 /\ env.validated = 0
  <2>1. env' = [env EXCEPT !.active = Other(env.active), !.validated = 1]
    BY <1>2 DEF NervesInit, NervesInitEnv, NervesRevert
  <2> QED
    BY <1>1, <1>2, <2>1 DEF Env
<1>3. CASE env.booted = 1 /\ env.validated # 0
  BY <1>1, <1>3 DEF NervesInit, NervesInitEnv, Env
<1>4. CASE env.booted # 1
  BY <1>1, <1>4 DEF NervesInit, NervesInitEnv, Env
<1> QED
  BY <1>2, <1>3, <1>4

(* Firmware on trial runs once, if there is one process at most or a switch*)
(* of slots is followed by a reboot: in both cases no process finishes an  *)
(* upgrade into a slot that has been validated since it was written.       *)
ChanceInv ==
  /\ \A s \in Slot : life[s] = "torn" => rootfs[s] = NoImage
  /\ flash \in {"env", "write", "finish"} => power = "off" /\ env.validated = 1
  /\ power = "kernel" => env.booted = 1
  /\ env.validated = 0 /\ (env.booted = 0 \/ power = "kernel")
       => life[env.active] \in {"fresh", "torn"}
  /\ \A j \in Jobs : At(j, "upgrade", {"finish"})
                       => life[job[j].slot] \in {"fresh", "torn"}

LEMMA ChanceJobStep ==
  ASSUME TypeOK, TypeOK', UpInv, ChanceInv, AloneInv \/ RunningInv,
         NEW j \in Jobs, JobStep(j)
  PROVE  ChanceInv'
<1> DEFINE s == job[j].slot
           Written(k) == At(k, "upgrade", {"finish"})
                           => life[job[k].slot] \in {"fresh", "torn"}
<1>1. /\ job[j] # Idle /\ UNCHANGED <<flash, power, mounted>>
      /\ \A k \in Jobs \ {j} : job'[k] = job[k]
      /\ s \in Slot /\ env \in Env /\ env.active \in Slot
      /\ \A k \in Jobs : job[k].slot \in Slot
  BY JobStepCases DEF TypeOK, Env
<1>2. power = "up" /\ flash \notin {"env", "write", "finish"}
  BY <1>1 DEF UpInv, ChanceInv
<1>3. /\ rootfs \in [Slot -> Images \cup {NoImage}]
      /\ life \in [Slot -> {"torn", "fresh", "tried", "proven"}]
  BY DEF TypeOK
<1>4. CASE UpgradeInit(j) \/ PreventRevertTrim(j)
  <2>1. /\ rootfs' = [rootfs EXCEPT ![s] = NoImage]
        /\ life' = [life EXCEPT ![s] = "torn"] /\ env' = env
    BY <1>4 DEF UpgradeInit, PreventRevertTrim, Trim
  <2>2. ~At(j, "upgrade", {"finish"})'
    BY <1>4 DEF UpgradeInit, PreventRevertTrim, GoTo, Done, At, Idle, TypeOK
  <2> QED
    BY <1>1, <1>2, <1>3, <2>1, <2>2 DEF ChanceInv, At
<1>5. CASE UpgradeWrite(j)
  <2>1. /\ rootfs' = [rootfs EXCEPT ![s] = job[j].image]
        /\ life' = [life EXCEPT ![s] = "fresh"] /\ env' = env
        /\ job'[j].slot = s
    BY <1>5 DEF UpgradeWrite, GoTo, TypeOK
  <2> QED
    BY <1>1, <1>2, <1>3, <2>1 DEF ChanceInv, At
<1>6. CASE UpgradeFinish(j)
  <2>1. /\ UNCHANGED <<rootfs, life>> /\ job'[j] = Idle
        /\ life[s] \in {"fresh", "torn"}
    BY <1>6 DEF UpgradeFinish, Done, ChanceInv, TypeOK
  <2>2. env'.active = s
    BY <1>1, <1>6 DEF UpgradeFinish, UpgradedEnv, Env
  <2> QED
    BY <1>1, <1>2, <2>1, <2>2 DEF ChanceInv, At, Idle
<1>7. CASE PreventRevertUnset(j)
  <2>1. /\ UNCHANGED <<rootfs, life>>
        /\ env'.active = env.active /\ env'.booted = env.booted
        /\ env'.validated = env.validated
    BY <1>1, <1>7 DEF PreventRevertUnset, Env
  <2>2. ~At(j, "upgrade", {"finish"})'
    BY <1>7 DEF PreventRevertUnset, GoTo, Done, At, Idle, TypeOK
  <2> QED
    BY <1>1, <1>2, <2>1, <2>2 DEF ChanceInv, At
<1>8. CASE Revert(j)
  <2>1. UNCHANGED <<rootfs, life>> /\ env'.validated = 1 /\ job'[j] = Idle
    BY <1>1, <1>8 DEF Revert, Done, Env, TypeOK
  <2> QED
    BY <1>1, <1>2, <2>1 DEF ChanceInv, At, Idle
<1>9. CASE Validate(j)
  <2>1. /\ rootfs' = rootfs /\ env'.validated = 1 /\ job'[j] = Idle
        /\ life' \in {life, [life EXCEPT ![mounted] = "proven"]}
    BY <1>1, <1>9 DEF Validate, Done, Env, TypeOK
  <2>2. job[j].task = "validate"
    BY <1>9 DEF Validate, At
  <2>3. ASSUME NEW k \in Jobs, k # j, At(k, "upgrade", {"finish"})
        PROVE  job[k].slot # mounted
    <3>1. job[k] # Idle /\ job[k].task = "upgrade"
      BY <2>3 DEF At, Idle
    <3> QED
      BY <1>1, <2>3, <3>1 DEF AloneInv, RunningInv
  <2>4. \A t \in Slot : life'[t] = "torn" => life[t] = "torn"
    BY <1>3, <2>1
  <2>5. \A k \in Jobs \ {j} : At(k, "upgrade", {"finish"})
                                => life'[job[k].slot] = life[job[k].slot]
    BY <1>1, <1>3, <2>1, <2>3
  <2> QED
    BY <1>1, <1>2, <2>1, <2>4, <2>5 DEF ChanceInv, At, Idle
<1> QED
  BY <1>4, <1>5, <1>6, <1>7, <1>8, <1>9 DEF JobStep

LEMMA ChanceInvStep ==
  ASSUME TypeOK, TypeOK', UpInv, ChanceInv, AloneInv \/ RunningInv, [Next]_vars
  PROVE  ChanceInv'
<1>1. CASE Operator
  <2>1. UNCHANGED <<env, rootfs, life, flash, power, mounted>>
    BY <1>1, OperatorCases
  <2>2. \A j \in Jobs : job'[j] = job[j] \/ ~At(j, "upgrade", {"finish"})'
    BY <1>1, OperatorCases DEF Begins, At, Idle
  <2> QED
    BY <2>1, <2>2 DEF ChanceInv, At
<1>2. ASSUME NEW j \in Jobs, JobStep(j) PROVE ChanceInv'
  BY <1>2, ChanceJobStep
<1>3. ASSUME Boot \/ Flash \/ Reboot \/ PowerLoss
      PROVE  \A j \in Jobs : ~At(j, "upgrade", {"finish"})'
  <2>1. \A j \in Jobs : job'[j] = Idle
    BY <1>3, OtherCases DEF UpInv
  <2> QED
    BY <2>1 DEF At, Idle
<1>4. /\ env.active \in Slot
      /\ rootfs \in [Slot -> Images \cup {NoImage}]
      /\ life \in [Slot -> {"torn", "fresh", "tried", "proven"}]
  BY DEF TypeOK, Env
<1>5. CASE Boot
  <2>1. CASE PowerOn \/ KernelPanic
    BY <1>3, <1>5, <2>1 DEF PowerOn, KernelPanic, ChanceInv
  <2>2. CASE NervesInit
    <3>1. power = "uboot"
      BY <2>2 DEF NervesInit
    <3> QED
      BY <1>3, <1>5, <2>2, <3>1, NervesInitCases DEF ChanceInv, TypeOK, Env
  <2>3. CASE HandOver
    <3>1. /\ UNCHANGED <<env, rootfs, flash>> /\ power = "kernel" /\ power' = "up"
          /\ \A s \in Slot : life'[s] = "torn" => life[s] = "torn"
      BY <1>4, <2>3 DEF HandOver
    <3> QED
      BY <1>3, <1>5, <3>1 DEF ChanceInv
  <2> QED
    BY <1>5, <2>1, <2>2, <2>3 DEF Boot
<1>6. CASE Reboot \/ PowerLoss
  BY <1>3, <1>6 DEF Reboot, PowerLoss, Down, ChanceInv
<1>7. CASE Flash
  <2>1. /\ power = "off" /\ power' = "off"
        /\ \A j \in Jobs : ~At(j, "upgrade", {"finish"})'
    BY <1>3, <1>7
    DEF Flash, FlashEnv, FlashRootfs, FlashWritten, FlashFinish, FlashStep
  <2>2. CASE FlashEnv
    BY <2>1, <2>2 DEF FlashEnv, FlashStep, BlankEnv, ChanceInv
  <2>3. CASE FlashRootfs
    BY <1>4, <2>1, <2>3 DEF FlashRootfs, FlashStep, Trim, ChanceInv
  <2>4. CASE FlashWritten
    BY <1>4, <2>1, <2>4 DEF FlashWritten, FlashStep, ChanceInv
  <2>5. CASE FlashFinish
    BY <1>4, <2>1, <2>5, FactoryFacts DEF FlashFinish, FlashStep, Trim,
                                          ChanceInv
  <2> QED
    BY <1>7, <2>2, <2>3, <2>4, <2>5 DEF Flash
<1>8. CASE UNCHANGED vars
  BY <1>8 DEF vars, ChanceInv, At
<1> QED
  BY <1>1, <1>2, <1>5, <1>6, <1>7, <1>8 DEF Next

LEMMA ChanceInvHolds ==
  "exclusive" \in Obligations \/ "reboot" \in Obligations => (Spec => []ChanceInv)
<1>1. Init => ChanceInv
  BY FactoryFacts DEF Init, ChanceInv, At, Idle, None
<1>2. TypeOK /\ TypeOK' /\ UpInv /\ AloneInv /\ ChanceInv /\ [Next]_vars
        => ChanceInv'
  BY ChanceInvStep
<1>3. TypeOK /\ TypeOK' /\ UpInv /\ RunningInv /\ ChanceInv /\ [Next]_vars
        => ChanceInv'
  BY ChanceInvStep
<1>4. CASE "exclusive" \in Obligations
  BY <1>1, <1>2, <1>4, TypeCorrect, UpInvHolds, AloneInvHolds, PTL DEF Spec
<1>5. CASE "reboot" \in Obligations
  BY <1>1, <1>3, <1>5, TypeCorrect, UpInvHolds, RunningInvHolds, PTL DEF Spec
<1> QED
  BY <1>4, <1>5

(* U-Boot starts an image that is on trial at most once, if fwup processes *)
(* exclude each other or a switch of slots is followed by a reboot.        *)
THEOREM TrialOnce ==
  "exclusive" \in Obligations \/ "reboot" \in Obligations
    => (Spec => TrialBootedOnce)
<1> SUFFICES ASSUME "exclusive" \in Obligations \/ "reboot" \in Obligations
             PROVE  Spec => TrialBootedOnce
  OBVIOUS
<1> DEFINE Once == power = "kernel" /\ power' = "up" /\ env.validated = 0
                     => life[env.active] = "fresh"
<1>1. TypeOK /\ UpInv /\ ChanceInv /\ Next => Once
  <2> SUFFICES ASSUME TypeOK, UpInv, ChanceInv, Next, power = "kernel",
                      power' = "up", env.validated = 0
               PROVE  life[env.active] = "fresh"
    OBVIOUS
  <2>1. rootfs[env.active] # NoImage
    <3>1. CASE Operator
      BY <3>1, OperatorCases
    <3>2. ASSUME NEW j \in Jobs, JobStep(j) PROVE FALSE
      BY <3>2, JobStepCases
    <3>3. CASE Boot
      BY <3>3 DEF Boot, PowerOn, NervesInit, HandOver, KernelPanic
    <3>4. CASE Reboot \/ PowerLoss
      BY <3>4 DEF Reboot, PowerLoss, Down
    <3>5. CASE Flash
      BY <3>5 DEF Flash, FlashEnv, FlashRootfs, FlashWritten, FlashFinish,
                  FlashStep
    <3> QED
      BY <3>1, <3>2, <3>3, <3>4, <3>5 DEF Next
  <2> QED
    BY <2>1 DEF ChanceInv, TypeOK, Env
<1>2. TypeOK /\ UpInv /\ ChanceInv /\ [Next]_vars => [Once]_vars
  BY <1>1
<1> HIDE DEF Once
<1> QED
  BY <1>2, TypeCorrect, UpInvHolds, ChanceInvHolds, PTL
  DEF Spec, TrialBootedOnce, Once

-----------------------------------------------------------------------------
(* What U-Boot starts is whole and described, whatever is validated: that  *)
(* needs no care about which image is healthy.                             *)
Whole(s) == rootfs[s] # NoImage /\ env.version[s] = rootfs[s]

(* Between a check and the end of its task nothing changes what it found.  *)
JobWhole(j) ==
  /\ job[j].task \in {"upgrade", "prevent-revert"} => env.validated = 1
  /\ job[j].task = "upgrade" => job[j].image \in Images
  /\ At(j, "upgrade", {"finish"}) => rootfs[job[j].slot] = job[j].image
  /\ job[j].task = "revert" => Whole(job[j].slot)

WholeInv ==
  /\ flash \in {"env", "write", "finish"} => power = "off"
  /\ flash = "finish" => rootfs["a"] = Factory
  /\ flash = "done" =>
       /\ Whole(env.active)
       /\ env.validated = 0 => Whole(Other(env.active))
       /\ \A s \in Slot : life[s] = "proven" => Whole(s)
       /\ \A j \in Jobs : JobWhole(j)

LEMMA WholeJobStep ==
  ASSUME TypeOK, TypeOK', UpInv, AloneInv, AloneInv', WholeInv,
         NEW j \in Jobs, JobStep(j)
  PROVE  WholeInv'
<1> DEFINE s == job[j].slot
           Card == /\ Whole(env.active)
                   /\ env.validated = 0 => Whole(Other(env.active))
                   /\ \A t \in Slot : life[t] = "proven" => Whole(t)
<1>1. /\ job[j] # Idle /\ UNCHANGED <<flash, power, mounted>>
      /\ \A k \in Jobs \ {j} : job'[k] = job[k]
      /\ s \in Slot /\ env.active \in Slot /\ env \in Env /\ env.validated \in {0, 1}
  BY JobStepCases DEF TypeOK, Env
<1>2. power = "up" /\ flash \notin {"env", "write", "finish"}
  BY <1>1 DEF UpInv, WholeInv
<1>3. \A k \in Jobs \ {j} : JobWhole(k)'
  <2>1. \A k \in Jobs \ {j} : job'[k] = Idle
    BY <1>1 DEF AloneInv
  <2> QED
    BY <2>1 DEF JobWhole, At, Idle
<1> SUFFICES ASSUME flash = "done" PROVE Card' /\ JobWhole(j)'
  BY <1>1, <1>2, <1>3 DEF WholeInv
<1>4. Card /\ JobWhole(j)
  BY DEF WholeInv
<1>5. /\ rootfs \in [Slot -> Images \cup {NoImage}]
      /\ life \in [Slot -> {"torn", "fresh", "tried", "proven"}]
      /\ env.version \in [Slot -> Images \cup {NoImage}]
  BY DEF TypeOK, Env
<1>6. job[j].task \in {"upgrade", "prevent-revert"}
        => env.active = Other(s) /\ env.active # s /\ env.validated = 1
  BY <1>1, <1>4, OtherFacts DEF AloneInv, JobWhole
<1>7. CASE UpgradeInit(j) \/ PreventRevertTrim(j)
  <2>1. /\ rootfs' = [rootfs EXCEPT ![s] = NoImage]
        /\ life' = [life EXCEPT ![s] = "torn"] /\ env' = env
        /\ job[j].task \in {"upgrade", "prevent-revert"}
    BY <1>7 DEF UpgradeInit, PreventRevertTrim, Trim, At
  <2>2. Card'
    BY <1>1, <1>4, <1>5, <1>6, <2>1 DEF Whole
  <2>3. JobWhole(j)'
    BY <1>1, <1>4, <1>6, <1>7, <2>1
    DEF UpgradeInit, PreventRevertTrim, GoTo, Done, JobWhole, At, Idle, TypeOK
  <2> QED
    BY <2>2, <2>3
<1>8. CASE UpgradeWrite(j)
  <2>1. /\ rootfs' = [rootfs EXCEPT ![s] = job[j].image]
        /\ life' = [life EXCEPT ![s] = "fresh"] /\ env' = env
        /\ job[j].task = "upgrade"
        /\ job'[j] = [job[j] EXCEPT !.stage = "finish"]
    BY <1>8 DEF UpgradeWrite, GoTo, At, TypeOK
  <2>2. Card'
    BY <1>1, <1>4, <1>5, <1>6, <2>1 DEF Whole
  <2>3. /\ job'[j].task = "upgrade" /\ job'[j].slot = s
        /\ job'[j].image = job[j].image
    BY <2>1 DEF TypeOK
  <2>4. JobWhole(j)'
    BY <1>1, <1>4, <1>5, <1>6, <2>1, <2>3 DEF JobWhole, At
  <2> QED
    BY <2>2, <2>4
<1>9. CASE UpgradeFinish(j)
  <2>1. /\ UNCHANGED <<rootfs, life>> /\ job'[j] = Idle
        /\ rootfs[s] = job[j].image /\ job[j].image \in Images
        /\ job[j].task = "upgrade"
    BY <1>4, <1>9 DEF UpgradeFinish, Done, At, JobWhole, TypeOK
  <2>2. /\ env'.active = s
        /\ env'.version = [env.version EXCEPT ![s] = job[j].image]
    BY <1>1, <1>9 DEF UpgradeFinish, UpgradedEnv, Env
  <2>3. \A t \in Slot : t = s \/ Whole(t) => Whole(t)'
    <3> SUFFICES ASSUME NEW t \in Slot, t = s \/ Whole(t) PROVE Whole(t)'
      OBVIOUS
    <3>1. rootfs'[t] = rootfs[t]
      BY <2>1
    <3>2. CASE t = s
      BY <1>5, <2>1, <2>2, <3>1, <3>2, ImagesAssumption DEF Whole
    <3>3. CASE t # s
      BY <1>5, <2>2, <3>1, <3>3 DEF Whole
    <3> QED
      BY <3>2, <3>3
  <2>4. Card'
    <3>1. Whole(env.active) /\ env.active \in Slot /\ env.active = Other(s)
      BY <1>1, <1>4, <1>6, <2>1
    <3>2. Whole(env.active)'
      <4>1. Whole(env.active)' <=> rootfs'[s] # NoImage /\ env'.version[s] = rootfs'[s]
        BY <2>2 DEF Whole
      <4> QED
        BY <1>1, <2>3, <4>1 DEF Whole
    <3>3. Other(env.active)' = env.active
      BY <1>1, <2>2, <3>1, OtherFacts
    <3>4. Whole(Other(env.active))'
      BY <2>3, <3>1, <3>3 DEF Whole
    <3>5. \A t \in Slot : life'[t] = "proven" => Whole(t)'
      BY <1>4, <2>1, <2>3
    <3> QED
      BY <3>2, <3>4, <3>5
  <2> QED
    BY <2>1, <2>4 DEF JobWhole, At, Idle
<1>10. CASE PreventRevertUnset(j)
  <2>1. /\ UNCHANGED <<rootfs, life>>
        /\ env'.active = env.active /\ env'.version = env.version
        /\ env'.validated = env.validated
        /\ job[j].task = "prevent-revert"
    BY <1>1, <1>10 DEF PreventRevertUnset, At, Env
  <2>2. Card'
    BY <1>4, <2>1 DEF Whole
  <2>3. JobWhole(j)'
    BY <1>4, <1>6, <1>10, <2>1
    DEF PreventRevertUnset, GoTo, Done, JobWhole, At, Idle, TypeOK
  <2> QED
    BY <2>2, <2>3
<1>11. CASE Revert(j)
  <2>1. /\ UNCHANGED <<rootfs, life>> /\ job'[j] = Idle
        /\ env'.validated = 1 /\ env'.active = s /\ env'.version = env.version
        /\ Whole(s)
    BY <1>1, <1>4, <1>11 DEF Revert, Done, At, JobWhole, Env, TypeOK
  <2> QED
    BY <1>4, <2>1 DEF Whole, JobWhole, At, Idle
<1>12. CASE Validate(j)
  <2>1. /\ rootfs' = rootfs /\ job'[j] = Idle
        /\ env'.validated = 1 /\ env'.active = env.active
        /\ env'.version = env.version
        /\ life' \in {life, [life EXCEPT ![env.active] = "proven"]}
    BY <1>1, <1>12 DEF Validate, Done, Env, TypeOK
  <2>2. \A t \in Slot : life'[t] = "proven" => life[t] = "proven" \/ t = env.active
    BY <1>5, <2>1
  <2> QED
    BY <1>4, <2>1, <2>2 DEF Whole, JobWhole, At, Idle
<1> QED
  BY <1>7, <1>8, <1>9, <1>10, <1>11, <1>12 DEF JobStep

LEMMA WholeInvStep ==
  ASSUME Orderly, TypeOK, TypeOK', UpInv, AloneInv, AloneInv', WholeInv, [Next]_vars
  PROVE  WholeInv'
<1>1. CASE Operator
  <2>1. UNCHANGED <<env, rootfs, life, flash, power, mounted>>
    BY <1>1, OperatorCases
  <2>2. PICK j \in Jobs : /\ \A k \in Jobs \ {j} : job'[k] = job[k]
                          /\ job'[j] = Idle \/ Begins(j)
    BY <1>1, OperatorCases
  <2>3. flash = "done" => \A k \in Jobs \ {j} : JobWhole(k)'
    BY <2>1, <2>2 DEF WholeInv, JobWhole, Whole, At
  <2>4. ASSUME flash = "done" PROVE JobWhole(j)'
    <3>1. CASE job'[j] = Idle
      BY <3>1 DEF JobWhole, At, Idle
    <3>2. CASE Begins(j)
      <4>1. job'[j].slot \in Slot
        BY DEF TypeOK
      <4>2. /\ job'[j].task \in {"upgrade", "prevent-revert"} => env.validated = 1
            /\ job'[j].task = "upgrade" => job'[j].image \in Images
            /\ job'[j].task = "revert" => life[job'[j].slot] = "proven"
            /\ job'[j].stage = "init"
        BY <3>2 DEF Begins, Orderly
      <4>3. job'[j].task = "revert" => Whole(job'[j].slot)
        BY <2>4, <4>1, <4>2 DEF WholeInv
      <4> QED
        BY <2>1, <4>2, <4>3 DEF JobWhole, Whole, At
    <3> QED
      BY <2>2, <3>1, <3>2
  <2>5. flash = "done" => \A k \in Jobs : JobWhole(k)'
    BY <2>3, <2>4
  <2> QED
    BY <2>1, <2>5 DEF WholeInv, Whole
<1>2. ASSUME NEW j \in Jobs, JobStep(j) PROVE WholeInv'
  BY <1>2, WholeJobStep
<1>3. ASSUME Boot \/ Flash \/ Reboot \/ PowerLoss
      PROVE  \A j \in Jobs : JobWhole(j)'
  <2>1. \A j \in Jobs : job'[j] = Idle
    BY <1>3, OtherCases DEF UpInv
  <2> QED
    BY <2>1 DEF JobWhole, At, Idle
<1>4. /\ env.active \in Slot /\ env.validated \in {0, 1}
      /\ rootfs \in [Slot -> Images \cup {NoImage}]
      /\ life \in [Slot -> {"torn", "fresh", "tried", "proven"}]
  BY DEF TypeOK, Env
<1>5. CASE Boot
  <2>1. CASE PowerOn
    BY <1>3, <1>5, <2>1 DEF PowerOn, WholeInv, Whole
  <2>2. CASE KernelPanic
    BY <1>3, <1>5, <2>2 DEF KernelPanic, WholeInv, Whole
  <2>3. CASE NervesInit
    <3>1. power # "off"
      BY <2>3 DEF NervesInit
    <3>2. /\ UNCHANGED <<rootfs, life, flash>> /\ env'.version = env.version
          /\ \/ /\ env.validated = 0 /\ env'.validated = 1
                /\ env'.active = Other(env.active)
             \/ /\ env'.active = env.active
                /\ env'.validated = 0 => env.validated = 0
      BY <2>3, NervesInitCases
    <3> QED
      BY <1>3, <1>5, <3>1, <3>2 DEF WholeInv, Whole
  <2>4. CASE HandOver
    <3>1. /\ UNCHANGED <<env, rootfs, flash>> /\ power = "kernel"
          /\ \A s \in Slot : life'[s] = "proven" => life[s] = "proven"
      BY <1>4, <2>4 DEF HandOver
    <3> QED
      BY <1>3, <1>5, <3>1 DEF WholeInv, Whole
  <2> QED
    BY <1>5, <2>1, <2>2, <2>3, <2>4 DEF Boot
<1>6. CASE Reboot \/ PowerLoss
  BY <1>3, <1>6 DEF Reboot, PowerLoss, Down, WholeInv, Whole
<1>7. CASE Flash
  <2>1. CASE FlashEnv \/ FlashRootfs
    BY <2>1 DEF FlashEnv, FlashRootfs, FlashStep, WholeInv
  <2>2. CASE FlashWritten
    BY <1>4, <2>2 DEF FlashWritten, FlashStep, WholeInv
  <2>3. CASE FlashFinish
    <3>1. /\ env'.active = "a" /\ env'.validated = 1 /\ env'.version["a"] = Factory
          /\ flash' = "done"
          /\ rootfs'["a"] = Factory /\ life'["b"] = "torn"
      BY <1>4, <2>3, FactoryFacts DEF FlashFinish, FlashStep, Trim, WholeInv
    <3>2. Whole("a")'
      BY <3>1, ImagesAssumption DEF Whole
    <3> QED
      BY <1>3, <1>7, <3>1, <3>2 DEF WholeInv
  <2> QED
    BY <1>7, <2>1, <2>2, <2>3 DEF Flash
<1>8. CASE UNCHANGED vars
  BY <1>8 DEF vars, WholeInv, Whole, JobWhole, At
<1> QED
  BY <1>1, <1>2, <1>5, <1>6, <1>7, <1>8 DEF Next

LEMMA WholeInvHolds == Orderly => (Spec => []WholeInv)
<1> SUFFICES ASSUME Orderly PROVE Spec => []WholeInv
  OBVIOUS
<1>1. Init => WholeInv
  BY FactoryFacts, ImagesAssumption
  DEF Init, WholeInv, Whole, JobWhole, At, Idle, None
<1>2. TypeOK /\ TypeOK' /\ UpInv /\ AloneInv /\ AloneInv' /\ WholeInv /\ [Next]_vars
        => WholeInv'
  BY WholeInvStep
<1>3. "exclusive" \in Obligations
  BY DEF Orderly
<1> QED
  BY <1>1, <1>2, <1>3, TypeCorrect, UpInvHolds, AloneInvHolds, PTL DEF Spec

(* U-Boot never hands over to a trimmed or half-written slot, whatever is  *)
(* validated.                                                              *)
THEOREM NoPanic == Orderly => (Spec => []NeverPanics)
<1>1. WholeInv => NeverPanics
  BY DEF WholeInv, Whole, NeverPanics
<1> QED
  BY <1>1, WholeInvHolds, PTL

(* The version reported for the active slot is that of the image in it,    *)
(* whatever is validated.                                                  *)
THEOREM Metadata == Orderly => (Spec => []ActiveMetadata)
<1>1. WholeInv => ActiveMetadata
  BY DEF WholeInv, Whole, ActiveMetadata
<1> QED
  BY <1>1, WholeInvHolds, PTL

-----------------------------------------------------------------------------
(* The refinement: FirmwareUpdate implements TwoPhaseUpdate.               *)

(* The tasks the two-phase update speaks of, used as failover asks.        *)
OtaOnly == Careful /\ "revert" \notin Tasks /\ "complete" \notin Tasks

(* What the mapping needs beyond IInv: the card stays flashed, and what is *)
(* running is whole and, unless an update has just been installed, active. *)
LiveInv ==
  /\ flash = "done"
  /\ \A j \in Jobs : job[j].task # "revert"
  /\ power = "up" =>
       /\ mounted \in Slot /\ rootfs[mounted] # NoImage
       /\ env.validated = 1 => mounted = env.active

RInv == IInv /\ LiveInv

LEMMA InitRInv == Init => RInv
BY InitIInv DEF RInv, LiveInv, Init, Idle

LEMMA NextRInv == OtaOnly /\ RInv /\ [Next]_vars => RInv'
<1> SUFFICES ASSUME OtaOnly, RInv, [Next]_vars PROVE RInv'
  OBVIOUS
<1>1. IInv'
  BY NextIInv DEF OtaOnly, RInv
<1>t. TypeOK /\ env.active \in Slot /\ env.validated \in {0, 1}
  BY DEF RInv, IInv, TypeOK, Env
<1>2. flash' = "done"
  <2>1. CASE Operator
    BY <2>1 DEF RInv, LiveInv, Operator, StartUpgrade, StartPreventRevert,
                StartRevert, StartValidate, Start, Abort
  <2>2. ASSUME NEW j \in Jobs, JobStep(j) PROVE flash' = "done"
    BY <2>2 DEF RInv, LiveInv, JobStep, UpgradeInit, UpgradeWrite,
                UpgradeFinish, PreventRevertUnset, PreventRevertTrim, Revert,
                Validate
  <2>3. CASE Boot \/ Reboot \/ PowerLoss \/ UNCHANGED vars
    BY <2>3 DEF RInv, LiveInv, Boot, PowerOn, NervesInit, HandOver,
                KernelPanic, Reboot, PowerLoss, Down, vars
  <2>4. ~Flash
    BY DEF RInv, LiveInv, OtaOnly, Flash, FlashEnv, FlashRootfs,
           FlashWritten, FlashFinish, FlashStep
  <2> QED
    BY <2>1, <2>2, <2>3, <2>4 DEF Next
<1>3. \A j \in Jobs : job'[j].task # "revert"
  <2> TAKE k \in Jobs
  <2> USE <1>t DEF RInv, LiveInv, TypeOK, Idle
  <2>1. CASE Operator
    <3> PICK j \in Jobs :
          \/ \E s \in Slot :
               \/ \E i \in Images : StartUpgrade(j, s, i)
               \/ StartPreventRevert(j, s)
               \/ StartRevert(j, s)
          \/ StartValidate(j)
          \/ Abort(j)
      BY <2>1 DEF Operator
    <3>1. ASSUME NEW t, NEW s, NEW i, Start(j, t, s, i)
          PROVE  job'[k].task # "revert"
      BY <3>1 DEF Start, OtaOnly
    <3>2. CASE Abort(j)
      BY <3>2 DEF Abort, Done
    <3> QED
      BY <3>1, <3>2
      DEF StartUpgrade, StartPreventRevert, StartRevert, StartValidate
  <2>2. ASSUME NEW j \in Jobs, JobStep(j) PROVE job'[k].task # "revert"
    BY <2>2 DEF JobStep, UpgradeInit, UpgradeWrite, UpgradeFinish,
                PreventRevertUnset, PreventRevertTrim, Revert, Validate,
                GoTo, Done, At
  <2>3. CASE Boot \/ Flash \/ Reboot \/ PowerLoss \/ UNCHANGED vars
    BY <2>3 DEF Boot, PowerOn, NervesInit, HandOver, KernelPanic, Reboot,
                PowerLoss, Down, vars, Flash, FlashEnv, FlashRootfs,
                FlashWritten, FlashFinish
  <2> QED
    BY <2>1, <2>2, <2>3 DEF Next
<1>4. power' = "up" =>
        /\ mounted' \in Slot /\ rootfs'[mounted'] # NoImage
        /\ env'.validated = 1 => mounted' = env'.active
  <2> SUFFICES ASSUME power' = "up"
               PROVE  /\ mounted' \in Slot /\ rootfs'[mounted'] # NoImage
                      /\ env'.validated = 1 => mounted' = env'.active
    OBVIOUS
  <2> USE <1>t DEF RInv, LiveInv
  <2>1. CASE Operator
    BY <2>1 DEF Operator, StartUpgrade, StartPreventRevert, StartRevert,
                StartValidate, Start, Abort
  <2>2. ASSUME NEW j \in Jobs,
               UpgradeInit(j) \/ UpgradeWrite(j) \/ PreventRevertTrim(j)
        PROVE  /\ mounted' \in Slot /\ rootfs'[mounted'] # NoImage
               /\ env'.validated = 1 => mounted' = env'.active
    <3>1. /\ env.validated = 1 /\ env.active = Other(job[j].slot)
          /\ job[j].slot \in Slot /\ job[j].slot # env.active
          /\ power = "up"
      BY <2>2, OtherFacts
      DEF IInv, JobInv, JobOK, UpgradeInit, UpgradeWrite, PreventRevertTrim,
          At, TypeOK
    <3>2. rootfs'[env.active] = rootfs[env.active]
      BY <2>2, <3>1
      DEF UpgradeInit, UpgradeWrite, PreventRevertTrim, Trim, TypeOK
    <3> QED
      BY <2>2, <3>1, <3>2 DEF UpgradeInit, UpgradeWrite, PreventRevertTrim
  <2>3. ASSUME NEW j \in Jobs, UpgradeFinish(j)
        PROVE  /\ mounted' \in Slot /\ rootfs'[mounted'] # NoImage
               /\ env'.validated = 1 => mounted' = env'.active
    <3>1. env'.validated = 0
      BY <2>3 DEF UpgradeFinish, UpgradedEnv, TypeOK, Env
    <3> QED
      BY <2>3, <3>1 DEF UpgradeFinish
  <2>4. ASSUME NEW j \in Jobs, PreventRevertUnset(j)
        PROVE  /\ mounted' \in Slot /\ rootfs'[mounted'] # NoImage
               /\ env'.validated = 1 => mounted' = env'.active
    <3>1. env'.validated = env.validated /\ env'.active = env.active
      BY <2>4 DEF PreventRevertUnset, TypeOK, Env
    <3> QED
      BY <2>4, <3>1 DEF PreventRevertUnset
  <2>5. ASSUME NEW j \in Jobs, Validate(j)
        PROVE  /\ mounted' \in Slot /\ rootfs'[mounted'] # NoImage
               /\ env'.validated = 1 => mounted' = env'.active
    <3>1. env'.active = env.active /\ mounted = env.active
      BY <2>5 DEF Validate, At, TypeOK, Env, IInv, JobInv, JobOK
    <3> QED
      BY <2>5, <3>1 DEF Validate
  <2>6. ASSUME NEW j \in Jobs PROVE ~Revert(j)
    BY DEF Revert, At
  <2>7. CASE Boot
    BY <2>7 DEF Boot, PowerOn, NervesInit, HandOver, KernelPanic
  <2>8. CASE Reboot \/ PowerLoss \/ Flash \/ UNCHANGED vars
    BY <1>2, <2>8 DEF Reboot, PowerLoss, Down, Flash, FlashEnv, FlashRootfs,
                FlashWritten, FlashFinish, FlashStep, vars
  <2> QED
    BY <2>1, <2>2, <2>3, <2>4, <2>5, <2>6, <2>7, <2>8 DEF Next, JobStep
<1> QED
  BY <1>1, <1>2, <1>3, <1>4 DEF RInv, LiveInv

-----------------------------------------------------------------------------
(* The mapping, for an environment without and with a trial.               *)
LEMMA MapFacts ==
  /\ env.validated = 1 =>
       Committed = rootfs[env.active] /\ Trial = NoImage /\ Chance = "none"
  /\ env.validated = 0 =>
       /\ Committed = rootfs[Other(env.active)] /\ Trial = rootfs[env.active]
       /\ Chance = IF env.booted = 0 THEN "new"
                   ELSE IF power = "kernel" THEN "taken" ELSE "spent"
BY DEF Committed, Trial, Chance

LEMMA InitRefines == OtaOnly /\ Init => Abstract!Init
<1>1. SUFFICES ASSUME Init PROVE Abstract!Init
  OBVIOUS
<1>2. env.active = "a" /\ env.validated = 1
  BY <1>1 DEF Init, FactoryEnv, BlankEnv
<1>3. rootfs["a"] = Factory
  BY <1>1 DEF Init, None, Slot
<1>4. Committed = Factory /\ Trial = NoImage /\ Chance = "none"
  BY <1>2, <1>3 DEF Committed, Trial, Chance
<1>5. Live = NoImage
  BY <1>1 DEF Init, Live
<1> QED
  BY <1>4, <1>5, ImagesAssumption DEF Abstract!Init

(* Steps that leave the environment and the running image alone, and write *)
(* at most to the slot that is neither committed nor on trial, stutter.    *)
LEMMA Stutters ==
  ASSUME RInv, env'.active = env.active, env'.validated = env.validated,
         env'.booted = env.booted, UNCHANGED power, UNCHANGED mounted,
         env.validated = 0 => UNCHANGED rootfs,
         power = "up" => rootfs'[mounted] = rootfs[mounted],
         rootfs'[env.active] = rootfs[env.active]
  PROVE  UNCHANGED Abstract!avars
<1>1. env.validated \in {0, 1}
  BY DEF RInv, IInv, TypeOK, Env
<1>2. UNCHANGED Live
  BY DEF Live
<1>3. UNCHANGED <<Committed, Trial, Chance>>
  <2>1. CASE env.validated = 1
    BY <2>1 DEF Committed, Trial, Chance
  <2>2. CASE env.validated = 0
    BY <2>2 DEF Committed, Trial, Chance
  <2> QED
    BY <1>1, <2>1, <2>2
<1> QED
  BY <1>2, <1>3 DEF Abstract!avars

LEMMA JobRefines ==
  ASSUME RInv, NEW j \in Jobs, JobStep(j)
  PROVE  [Abstract!Next]_(Abstract!avars)
<1> USE DEF RInv
<1>t. /\ TypeOK /\ env.active \in Slot /\ env.validated \in {0, 1}
      /\ job[j].slot \in Slot /\ env \in Env
  BY DEF IInv, TypeOK, Env
<1>1. CASE UpgradeInit(j) \/ UpgradeWrite(j) \/ PreventRevertTrim(j)
  <2>1. /\ env.validated = 1 /\ env.active = Other(job[j].slot)
        /\ job[j].slot # env.active /\ power = "up"
    BY <1>t, <1>1, OtherFacts
    DEF UpgradeInit, UpgradeWrite, PreventRevertTrim, At, IInv, JobInv, JobOK,
        Idle
  <2>2. mounted = env.active
    BY <2>1 DEF LiveInv
  <2>3. rootfs'[env.active] = rootfs[env.active]
    BY <1>t, <1>1, <2>1
    DEF UpgradeInit, UpgradeWrite, PreventRevertTrim, Trim, TypeOK
  <2> QED
    BY <1>1, <2>1, <2>2, <2>3, Stutters
    DEF UpgradeInit, UpgradeWrite, PreventRevertTrim
<1>2. CASE PreventRevertUnset(j)
  <2>1. /\ env'.active = env.active /\ env'.validated = env.validated
        /\ env'.booted = env.booted
        /\ UNCHANGED <<rootfs, power, mounted>>
    BY <1>t, <1>2 DEF PreventRevertUnset, Env
  <2> QED
    BY <2>1, Stutters
<1>3. CASE UpgradeFinish(j)
  <2> DEFINE s == job[j].slot
             i == job[j].image
  <2>1. /\ env.validated = 1 /\ env.active = Other(s) /\ i \in Images
        /\ rootfs[s] = i /\ power = "up"
    BY <1>t, <1>3 DEF UpgradeFinish, At, IInv, JobInv, JobOK, Idle
  <2>2. /\ env'.active = s /\ env'.validated = 0 /\ env'.booted = 0
        /\ UNCHANGED <<rootfs, power, mounted>>
    BY <1>t, <1>3 DEF UpgradeFinish, UpgradedEnv, Env
  <2>3. Live = rootfs[mounted] /\ Live # NoImage /\ Live' = Live
    BY <2>1, <2>2 DEF Live, LiveInv
  <2>4. Committed = rootfs[Other(s)] /\ Trial = NoImage
    BY <2>1 DEF Committed, Trial
  <2>5. Committed' = rootfs[Other(s)] /\ Trial' = i /\ Chance' = "new"
    BY <2>1, <2>2 DEF Committed, Trial, Chance
  <2>6. Abstract!Install(i)
    BY <2>3, <2>4, <2>5 DEF Abstract!Install
  <2> QED
    BY <2>1, <2>6 DEF Abstract!Next
<1>4. CASE Validate(j)
  <2>1. /\ mounted = env.active /\ rootfs[mounted] \in Good /\ power = "up"
    BY <1>t, <1>4 DEF Validate, At, IInv, JobInv, JobOK, Idle
  <2>2. /\ env'.active = env.active /\ env'.validated = 1
        /\ env'.booted = env.booted /\ UNCHANGED <<rootfs, power, mounted>>
    BY <1>t, <1>4 DEF Validate, Env
  <2>3. CASE env.validated = 1
    BY <2>2, <2>3, Stutters
  <2>4. CASE env.validated = 0
    <3>1. Live = Trial /\ Live \in Good /\ Live' = Live
      BY <2>1, <2>2, <2>4 DEF Live, Trial
    <3>2. Committed' = Trial /\ Trial' = NoImage /\ Chance' = "none"
      BY <2>2, <2>4 DEF Committed, Trial, Chance
    <3>3. Abstract!Commit
      BY <3>1, <3>2, ImagesAssumption DEF Abstract!Commit
    <3> QED
      BY <3>3 DEF Abstract!Next
  <2> QED
    BY <1>t, <2>3, <2>4
<1>5. ~Revert(j)
  BY DEF Revert, At, LiveInv
<1> QED
  BY <1>1, <1>2, <1>3, <1>4, <1>5 DEF JobStep

LEMMA BootRefines ==
  ASSUME RInv, Boot
  PROVE  [Abstract!Next]_(Abstract!avars)
<1> USE DEF RInv
<1>t. /\ TypeOK /\ env.active \in Slot /\ env.validated \in {0, 1}
      /\ env.booted \in {0, 1} /\ env \in Env /\ env.autovalidate = 0
      /\ Other(env.active) \in Slot
      /\ Other(Other(env.active)) = env.active
  BY OtherFacts DEF IInv, TypeOK, Env, FlashInv
<1>1. CASE PowerOn
  <2>1. UNCHANGED <<Committed, Trial, Chance, Live>>
    BY <1>1 DEF PowerOn, Committed, Trial, Chance, Live
  <2> QED
    BY <2>1 DEF Abstract!avars
<1>2. CASE NervesInit
  <2>1. /\ power = "uboot" /\ power' = "kernel" /\ rootfs' = rootfs
        /\ Live = NoImage /\ Live' = NoImage
    BY <1>2 DEF NervesInit, Live
  <2>2. CASE env.validated = 1
    <3>1. env'.validated = 1 /\ env'.active = env.active
      BY <1>t, <1>2, <2>2 DEF NervesInit, NervesInitEnv, Env
    <3>2. UNCHANGED <<Committed, Trial, Chance, Live>>
      BY <2>1, <2>2, <3>1 DEF Committed, Trial, Chance
    <3> QED
      BY <3>2 DEF Abstract!avars
  <2>3. CASE env.validated = 0 /\ env.booted = 1
    <3>1. env'.validated = 1 /\ env'.active = Other(env.active)
      BY <1>t, <1>2, <2>3 DEF NervesInit, NervesInitEnv, NervesRevert, Env
    <3>2. /\ Committed' = Committed /\ Trial' = NoImage
          /\ Chance = "spent" /\ Chance' = "none"
      BY <2>1, <2>3, <3>1 DEF Committed, Trial, Chance
    <3>3. Abstract!GiveUp
      BY <2>1, <3>2 DEF Abstract!GiveUp
    <3> QED
      BY <3>3 DEF Abstract!Next
  <2>4. CASE env.validated = 0 /\ env.booted = 0
    <3>1. /\ env'.validated = 0 /\ env'.active = env.active
          /\ env'.booted = 1
      BY <1>t, <1>2, <2>4 DEF NervesInit, NervesInitEnv, Env
    <3>2. /\ Committed' = Committed /\ Trial' = Trial
          /\ Chance = "new" /\ Chance' = "taken"
      BY <2>1, <2>4, <3>1 DEF Committed, Trial, Chance
    <3>3. Abstract!Attempt
      BY <2>1, <3>2 DEF Abstract!Attempt
    <3> QED
      BY <3>3 DEF Abstract!Next
  <2> QED
    BY <1>t, <2>2, <2>3, <2>4
<1>3. CASE HandOver
  <2>1. /\ power = "kernel" /\ power' = "up" /\ mounted' = env.active
        /\ UNCHANGED <<env, rootfs>> /\ env.booted = 1
        /\ Live = NoImage /\ Live' = rootfs[env.active]
    BY <1>3 DEF HandOver, Live, IInv, TrialInv
  <2>2. CASE env.validated = 1
    <3>1. /\ Committed = rootfs[env.active] /\ Trial = NoImage
          /\ UNCHANGED <<Committed, Trial, Chance>>
      BY <2>1, <2>2 DEF Committed, Trial, Chance
    <3>2. Abstract!RunCommitted
      BY <2>1, <3>1 DEF Abstract!RunCommitted
    <3> QED
      BY <3>2 DEF Abstract!Next
  <2>3. CASE env.validated = 0
    <3>1. /\ Trial = rootfs[env.active] /\ Chance = "taken"
          /\ Chance' = "spent" /\ UNCHANGED <<Committed, Trial>>
      BY <2>1, <2>3 DEF Committed, Trial, Chance
    <3>2. Abstract!RunTrial
      BY <2>1, <3>1 DEF Abstract!RunTrial
    <3> QED
      BY <3>2 DEF Abstract!Next
  <2> QED
    BY <1>t, <2>2, <2>3
<1>4. CASE KernelPanic
  <2>1. NeverPanics
    <3>1. env.validated = 0 => life[env.active] = "fresh"
      BY <1>4 DEF KernelPanic, IInv, TrialInv
    <3>2. env.validated = 1 => life[env.active] = "proven"
      BY DEF IInv, FailoverSafe, LiveInv
    <3> QED
      BY <1>t, <3>1, <3>2 DEF NeverPanics, IInv, SlotInv
  <2> QED
    BY <1>4, <2>1 DEF KernelPanic, NeverPanics, LiveInv
<1> QED
  BY <1>1, <1>2, <1>3, <1>4 DEF Boot

LEMMA DownRefines ==
  ASSUME RInv, Reboot \/ PowerLoss
  PROVE  [Abstract!Next]_(Abstract!avars)
<1>1. /\ UNCHANGED <<env, rootfs>> /\ power # "off"
      /\ power' \in {"uboot", "off"}
  BY DEF Reboot, PowerLoss, Down
<1>2. UNCHANGED <<Committed, Trial>> /\ Live' = NoImage
  BY <1>1 DEF Committed, Trial, Live
<1>3. env.booted \in {0, 1} /\ env.validated \in {0, 1}
  BY DEF RInv, IInv, TypeOK, Env
<1>4. CASE power = "kernel"
  <2>1. Live = NoImage
    BY <1>4 DEF Live
  <2>2. UNCHANGED Chance \/ (Chance = "taken" /\ Chance' = "spent")
    BY <1>1, <1>3, <1>4 DEF Chance
  <2> QED
    BY <1>2, <2>1, <2>2 DEF Abstract!Next, Abstract!Miss, Abstract!avars
<1>5. CASE power # "kernel"
  <2>1. UNCHANGED Chance
    BY <1>1, <1>3, <1>5 DEF Chance
  <2>2. CASE Live = NoImage
    BY <1>2, <2>1, <2>2 DEF Abstract!avars
  <2>3. CASE Live # NoImage
    BY <1>2, <2>1, <2>3 DEF Abstract!Next, Abstract!Stop
  <2> QED
    BY <2>2, <2>3
<1> QED
  BY <1>4, <1>5

LEMMA NextRefines ==
  OtaOnly /\ RInv /\ [Next]_vars => [Abstract!Next]_(Abstract!avars)
<1> SUFFICES ASSUME OtaOnly, RInv, [Next]_vars
             PROVE  [Abstract!Next]_(Abstract!avars)
  OBVIOUS
<1>1. CASE Operator \/ UNCHANGED vars
  <2>1. UNCHANGED <<env, rootfs, power, mounted>>
    BY <1>1 DEF Operator, StartUpgrade, StartPreventRevert, StartRevert,
                StartValidate, Start, Abort, vars
  <2> QED
    BY <2>1, Stutters
<1>2. ~Flash
  BY DEF RInv, LiveInv, OtaOnly, Flash, FlashEnv, FlashRootfs, FlashWritten,
         FlashFinish, FlashStep
<1> QED
  BY <1>1, <1>2, JobRefines, BootRefines, DownRefines DEF Next

(* Slots, environment, fwup processes and power loss implement the         *)
(* two-phase update: one committed image, one trial with a single chance.  *)
THEOREM Refinement == OtaOnly => (Spec => ImplementsTwoPhaseUpdate)
<1> SUFFICES ASSUME OtaOnly PROVE Spec => ImplementsTwoPhaseUpdate
  OBVIOUS
<1>1. RInv /\ [Next]_vars => RInv'
  BY NextRInv
<1>2. Init => Abstract!Init
  BY InitRefines
<1>3. RInv /\ [Next]_vars => [Abstract!Next]_(Abstract!avars)
  BY NextRefines
<1> QED
  BY InitRInv, <1>1, <1>2, <1>3, PTL
  DEF Spec, ImplementsTwoPhaseUpdate, Abstract!Spec
=============================================================================
