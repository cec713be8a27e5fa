------------------------ MODULE LedControllerProofs ------------------------
(***************************************************************************)
(* Proofs about LedController for all delays: the poll chain, the timer    *)
(* that switches the LED off, and the pin.                                 *)
(***************************************************************************)
EXTENDS LedController, TLAPS

(* A turn_off_led whose timer could not be cancelled in time is handled    *)
(* before the next poll: this is what keeps a second timer from starting   *)
(* while the message of the first is still waiting.                        *)
StaleFirst ==
  ~off_timer =>
    /\ ~Running("turn_off_led")
    /\ Waiting("turn_off_led") => call = "none"
    /\ \A k, l \in DOMAIN mailbox :
         mailbox[k] = "turn_off_led" /\ mailbox[l] = "poll" => k < l

OneOff == Running("turn_off_led") => ~Waiting("turn_off_led") /\ off_timer

OffNeedsLed == off_timer => led_on

IInv ==
  /\ TypeOK /\ OnePollAtATime /\ OffIsOnItsWay /\ PinFollowsState
  /\ StaleFirst /\ OneOff /\ OffNeedsLed
LEMMA Appended ==
  ASSUME NEW q \in Seq(Messages), NEW m \in Messages
  PROVE  /\ Append(q, m) \in Seq(Messages)
         /\ DOMAIN q = 1..Len(q) /\ DOMAIN Append(q, m) = 1..(Len(q) + 1)
         /\ Len(q) \in Nat
         /\ \A k \in DOMAIN q : Append(q, m)[k] = q[k]
         /\ Append(q, m)[Len(q) + 1] = m
OBVIOUS

LEMMA Received ==
  ASSUME NEW q \in Seq(Messages), q # <<>>
  PROVE  /\ Tail(q) \in Seq(Messages)
         /\ Len(q) \in Nat \ {0}
         /\ DOMAIN q = 1..Len(q) /\ DOMAIN Tail(q) = 1..(Len(q) - 1)
         /\ \A k \in DOMAIN Tail(q) : Tail(q)[k] = q[k + 1]
         /\ Head(q) = q[1]
OBVIOUS

LEMMA InitIInv == Init => IInv
<1> SUFFICES ASSUME Init PROVE IInv
  OBVIOUS
<1> USE DelaysAssumption DEF Init, LongQuiet
<1>1. TypeOK
  <2>1. timer \in [Messages -> Nat \cup {NotSet}]
    OBVIOUS
  <2>2. mailbox \in Seq(Messages)
    OBVIOUS
  <2>3. quiet \in 0..LongQuiet /\ crashes \in 0..MaxCrashes
    OBVIOUS
  <2>4. gpio \in {0, 1} /\ led_on \in BOOLEAN /\ off_timer \in BOOLEAN
    OBVIOUS
  <2> HIDE DEF Init
  <2>5. scene \in Detections /\ post \in Detections \cup {"none"}
    BY DEF Init, Detections
  <2>6. results \in Detections /\ call \in Detections \cup {"none", "asked"}
    BY DEF Init, Detections
  <2> QED
    BY <2>1, <2>2, <2>3, <2>4, <2>5, <2>6 DEF TypeOK
<1>2. DOMAIN mailbox = {}
  OBVIOUS
<1>3. timer["poll"] = PollInterval /\ timer["turn_off_led"] = NotSet
  BY DEF Messages
<1>4. OnePollAtATime
  BY <1>2, <1>3 DEF OnePollAtATime, Waiting, Running, NotSet
<1>5. OffIsOnItsWay /\ PinFollowsState /\ StaleFirst /\ OneOff /\ OffNeedsLed
  BY <1>2, <1>3 DEF OffIsOnItsWay, PinFollowsState, StaleFirst, OneOff,
                    OffNeedsLed, Waiting, Running
<1> QED
  BY <1>1, <1>4, <1>5 DEF IInv

LEMMA NextTypeOK == TypeOK /\ [Next]_vars => TypeOK'
<1> SUFFICES ASSUME TypeOK, [Next]_vars PROVE TypeOK'
  OBVIOUS
<1> USE DelaysAssumption DEF TypeOK, LongQuiet
<1>1. CASE SceneChanges \/ Post \/ Update
  BY <1>1 DEF SceneChanges, Post, Update
<1>2. CASE Tick
  <2>1. timer' \in [Messages -> Nat \cup {NotSet}]
    BY <1>2 DEF Tick, NotSet
  <2>2. quiet' \in 0..LongQuiet
    BY <1>2 DEF Tick
  <2> QED
    BY <1>2, <2>1, <2>2 DEF Tick, Camera
<1>3. ASSUME NEW m \in Messages, Expire(m) PROVE TypeOK'
  <2>1. mailbox' \in Seq(Messages)
    BY <1>3, Appended DEF Expire
  <2> QED
    BY <1>3, <2>1 DEF Expire, Camera
<1>4. CASE Poll
  BY <1>4, Received DEF Poll, Receive, Camera
<1>5. CASE Get
  BY <1>5 DEF Get, Camera
<1>6. CASE HandlePoll
  <2>1. CASE PersonSeen
    <3>1. timer' \in [Messages -> Nat \cup {NotSet}]
      BY <2>1 DEF PersonSeen, SchedulePoll, Messages
    <3>2. gpio' \in {0, 1} /\ led_on' \in BOOLEAN /\ off_timer' \in BOOLEAN
      BY <2>1 DEF PersonSeen
    <3>3. quiet' \in 0..LongQuiet
      BY <2>1 DEF PersonSeen
    <3> QED
      BY <1>6, <3>1, <3>2, <3>3 DEF HandlePoll, Camera
  <2>2. CASE NobodySeen
    <3>1. timer' \in [Messages -> Nat \cup {NotSet}]
      BY <2>2 DEF NobodySeen, SchedulePoll, Messages
    <3>2. gpio' \in {0, 1} /\ led_on' \in BOOLEAN /\ off_timer' \in BOOLEAN
      BY <2>2 DEF NobodySeen
    <3>3. quiet' \in 0..LongQuiet
      BY <2>2 DEF NobodySeen
    <3> QED
      BY <1>6, <3>1, <3>2, <3>3 DEF HandlePoll, Camera
  <2> QED
    BY <1>6, <2>1, <2>2 DEF HandlePoll
<1>7. CASE TurnOffLed
  BY <1>7, Received DEF TurnOffLed, Receive, Camera
<1>8. CASE CameraStateCrash
  <2>1. CASE call = "asked"
    <3>1. timer' \in [Messages -> Nat \cup {NotSet}]
      BY <1>8, <2>1 DEF CameraStateCrash, Restart
    <3>2. mailbox' \in Seq(Messages)
      BY <1>8, <2>1 DEF CameraStateCrash, Restart
    <3>3. gpio' \in {0, 1} /\ led_on' \in BOOLEAN /\ off_timer' \in BOOLEAN
      BY <1>8, <2>1 DEF CameraStateCrash, Restart
    <3>4. quiet' \in 0..LongQuiet /\ crashes' \in 0..MaxCrashes
      BY <1>8, <2>1 DEF CameraStateCrash, Restart
    <3> QED
      BY <1>8, <2>1, <3>1, <3>2, <3>3, <3>4
      DEF CameraStateCrash, Restart, Detections
  <2>2. CASE call # "asked"
    BY <1>8, <2>2 DEF CameraStateCrash, Detections
  <2> QED
    BY <2>1, <2>2
<1>9. CASE UNCHANGED vars
  BY <1>9 DEF vars
<1> QED
  BY <1>1, <1>2, <1>3, <1>4, <1>5, <1>6, <1>7, <1>8, <1>9 DEF Next, Controller

(* TypeOK: the variables of the LED pipeline keep their types.             *)
THEOREM TypeCorrect == Spec => []TypeOK
<1>1. Init => TypeOK
  BY InitIInv DEF IInv
<1> QED
  BY <1>1, NextTypeOK, PTL DEF Spec
-----------------------------------------------------------------------------
(* IInv' follows from IInv when a step leaves the controller alone.        *)
LEMMA ControllerUnchanged ==
  ASSUME IInv, TypeOK',
         UNCHANGED <<gpio, led_on, off_timer, mailbox, call>>,
         \A m \in Messages : Running(m)' <=> Running(m)
  PROVE  IInv'
BY DEF IInv, OnePollAtATime, OffIsOnItsWay, PinFollowsState, StaleFirst,
       OneOff, OffNeedsLed, Waiting, Messages

LEMMA ExpireIInv ==
  ASSUME IInv, TypeOK', NEW m \in Messages, Expire(m)
  PROVE  IInv'
<1> DEFINE n == Len(mailbox) + 1
<1>0. IInv /\ TypeOK
  BY DEF IInv
<1>1. /\ mailbox' = Append(mailbox, m) /\ DOMAIN mailbox = 1..(n - 1)
      /\ DOMAIN mailbox' = 1..n /\ n \in Nat \ {0}
      /\ \A k \in 1..(n - 1) : mailbox'[k] = mailbox[k]
      /\ mailbox'[n] = m
  BY <1>0, Appended DEF TypeOK, Expire
<1>2. Running(m) /\ ~Running(m)' /\ ~Waiting(m) /\ Waiting(m)'
  <2>1. Running(m) /\ ~Running(m)'
    BY <1>0 DEF Expire, Running, NotSet, TypeOK
  <2>2. ~Waiting(m)
    BY <1>0, <2>1 DEF IInv, OneOff, OnePollAtATime, Messages
  <2> QED
    BY <1>1, <2>1, <2>2 DEF Waiting
<1>3. \A x \in Messages : x # m =>
        (Running(x)' <=> Running(x)) /\ (Waiting(x)' <=> Waiting(x))
  <2> TAKE x \in Messages
  <2> HAVE x # m
  <2>1. Running(x)' <=> Running(x)
    BY <1>0 DEF Expire, Running, TypeOK
  <2>2. Waiting(x)' <=> Waiting(x)
    BY <1>1 DEF Waiting
  <2> QED
    BY <2>1, <2>2
<1>4. UNCHANGED <<gpio, led_on, off_timer, call>>
  BY DEF Expire
<1>5. \A k, l \in DOMAIN mailbox' : mailbox'[k] = mailbox'[l] => k = l
  BY <1>0, <1>1, <1>2 DEF IInv, OnePollAtATime, Waiting
<1>6. OnePollAtATime'
  BY <1>0, <1>2, <1>3, <1>4, <1>5 DEF IInv, OnePollAtATime, Messages
<1>7. OffIsOnItsWay' /\ PinFollowsState' /\ OneOff' /\ OffNeedsLed'
  BY <1>0, <1>2, <1>3, <1>4
  DEF IInv, OffIsOnItsWay, PinFollowsState, OneOff, OffNeedsLed, Messages
<1>8. StaleFirst'
  <2> SUFFICES ASSUME ~off_timer' PROVE StaleFirst'
    BY DEF StaleFirst
  <2>1. m = "poll"
    BY <1>0, <1>2, <1>4 DEF IInv, StaleFirst, Messages
  <2>2. \A k, l \in DOMAIN mailbox' :
          mailbox'[k] = "turn_off_led" /\ mailbox'[l] = "poll" => k < l
    BY <1>0, <1>1, <1>4, <2>1 DEF IInv, StaleFirst
  <2> QED
    BY <1>0, <1>2, <1>3, <1>4, <2>1, <2>2 DEF IInv, StaleFirst, Messages
<1> QED
  BY <1>6, <1>7, <1>8 DEF IInv

(* What taking the first message leaves in the mailbox.                    *)
LEMMA ReceiveFacts ==
  ASSUME IInv, NEW m \in Messages, Receive(m)
  PROVE  /\ Waiting(m) /\ ~Waiting(m)'
         /\ \A x \in Messages : x # m => (Waiting(x)' <=> Waiting(x))
         /\ \A k, l \in DOMAIN mailbox' : mailbox'[k] = mailbox'[l] => k = l
         /\ \A k \in DOMAIN mailbox' :
              k + 1 \in DOMAIN mailbox /\ mailbox'[k] = mailbox[k + 1]
         /\ 1 \in DOMAIN mailbox /\ mailbox[1] = m
<1> DEFINE n == Len(mailbox)
<1>1. /\ mailbox' = Tail(mailbox) /\ DOMAIN mailbox = 1..n
      /\ DOMAIN mailbox' = 1..(n - 1) /\ n \in Nat \ {0}
      /\ \A k \in 1..(n - 1) : mailbox'[k] = mailbox[k + 1]
      /\ mailbox[1] = m
  BY Received DEF IInv, TypeOK, Receive
<1>2. \A k, l \in 1..n : mailbox[k] = mailbox[l] => k = l
  BY <1>1 DEF IInv, OnePollAtATime
<1> HIDE DEF n
<1>3. Waiting(m)
  BY <1>1 DEF Waiting
<1>4. ~Waiting(m)'
  <2> SUFFICES ASSUME NEW k \in 1..(n - 1), mailbox'[k] = m PROVE FALSE
    BY <1>1 DEF Waiting
  <2>1. mailbox[k + 1] = mailbox[1] /\ k + 1 \in 1..n /\ 1 \in 1..n
    BY <1>1
  <2> QED
    BY <1>2, <2>1
<1>5. \A x \in Messages : x # m => (Waiting(x)' <=> Waiting(x))
  <2> TAKE x \in Messages
  <2> HAVE x # m
  <2>1. Waiting(x)' => Waiting(x)
    BY <1>1 DEF Waiting
  <2>2. ASSUME NEW k \in 1..n, mailbox[k] = x PROVE Waiting(x)'
    <3>1. k - 1 \in 1..(n - 1) /\ mailbox'[k - 1] = x
      BY <1>1, <2>2
    <3> QED
      BY <1>1, <3>1 DEF Waiting
  <2> QED
    BY <1>1, <2>1, <2>2 DEF Waiting
<1>6. \A k, l \in DOMAIN mailbox' : mailbox'[k] = mailbox'[l] => k = l
  BY <1>1, <1>2
<1>7. \A k \in DOMAIN mailbox' :
        k + 1 \in DOMAIN mailbox /\ mailbox'[k] = mailbox[k + 1]
  BY <1>1
<1> QED
  BY <1>1, <1>3, <1>4, <1>5, <1>6, <1>7
LEMMA PollIInv ==
  ASSUME IInv, TypeOK', Poll
  PROVE  IInv'
<1>1. Receive("poll") /\ call = "none" /\ call' = "asked"
  BY DEF Poll, Receive
<1>2. UNCHANGED <<gpio, led_on, off_timer, timer>>
  BY DEF Poll
<1>3. \A m \in Messages : Running(m)' <=> Running(m)
  BY <1>2 DEF Running
<1>4. OnePollAtATime'
  BY <1>1, <1>3, ReceiveFacts DEF IInv, OnePollAtATime, Messages
<1>5. OffIsOnItsWay' /\ PinFollowsState' /\ OneOff' /\ OffNeedsLed'
  BY <1>1, <1>2, <1>3, ReceiveFacts
  DEF IInv, OffIsOnItsWay, PinFollowsState, OneOff, OffNeedsLed, Messages
<1>6. StaleFirst'
  <2> SUFFICES ASSUME ~off_timer' PROVE StaleFirst'
    BY DEF StaleFirst
  <2>1. ~Waiting("turn_off_led")
    <3> SUFFICES ASSUME NEW k \in DOMAIN mailbox, mailbox[k] = "turn_off_led"
                 PROVE  FALSE
      BY DEF Waiting
    <3>1. k < 1
      BY <1>1, <1>2, ReceiveFacts DEF IInv, StaleFirst, Messages
    <3>2. DOMAIN mailbox = 1..Len(mailbox) /\ Len(mailbox) \in Nat
      BY DEF IInv, TypeOK
    <3> QED
      BY <3>1, <3>2
  <2>2. ~Waiting("turn_off_led")'
    BY <1>1, <2>1, ReceiveFacts DEF Messages
  <2> QED
    BY <1>2, <1>3, <2>2 DEF IInv, StaleFirst, Waiting, Messages
<1> QED
  BY <1>4, <1>5, <1>6 DEF IInv

LEMMA GetIInv ==
  ASSUME IInv, TypeOK', Get
  PROVE  IInv'
<1>1. UNCHANGED <<gpio, led_on, off_timer, timer, mailbox>>
  BY DEF Get
<1>2. call # "none" /\ call' # "none"
  BY DEF Get, IInv, TypeOK, Detections
<1> QED
  BY <1>1, <1>2
  DEF IInv, OnePollAtATime, OffIsOnItsWay, PinFollowsState, StaleFirst,
      OneOff, OffNeedsLed, Waiting, Running

LEMMA HandlePollIInv ==
  ASSUME IInv, TypeOK', HandlePoll
  PROVE  IInv'
<1>1. call # "none" /\ call' = "none" /\ mailbox' = mailbox
  BY DEF HandlePoll, Detections
<1>2. ~Running("poll") /\ ~Waiting("poll")
  BY <1>1 DEF IInv, OnePollAtATime
<1>3. \A m \in Messages : Waiting(m)' <=> Waiting(m)
  BY <1>1 DEF Waiting
<1>4. \A t : SchedulePoll(t) => Running("poll")' /\ timer'["turn_off_led"] = t
  BY DelaysAssumption DEF SchedulePoll, Running, Messages, NotSet
<1>5. Running("poll")'
  BY <1>4 DEF HandlePoll, PersonSeen, NobodySeen
<1>6. OnePollAtATime'
  BY <1>1, <1>2, <1>3, <1>5 DEF IInv, OnePollAtATime, Messages
<1>7. CASE PersonSeen
  <2>1. ~off_timer' /\ led_on' /\ gpio' = 1
    BY <1>7 DEF IInv, PersonSeen, PinFollowsState
  <2>2. ~Running("turn_off_led")'
    <3>1. off_timer => timer'["turn_off_led"] = NotSet
      BY <1>4, <1>7 DEF PersonSeen
    <3>2. ~off_timer => timer'["turn_off_led"] = timer["turn_off_led"]
      BY <1>4, <1>7 DEF PersonSeen
    <3> QED
      BY <3>1, <3>2 DEF IInv, StaleFirst, Running
  <2>3. StaleFirst'
    BY <1>1, <1>2, <1>3, <2>1, <2>2 DEF StaleFirst, Waiting
  <2> QED
    BY <1>6, <2>1, <2>2, <2>3
    DEF IInv, OffIsOnItsWay, PinFollowsState, OneOff, OffNeedsLed
<1>8. CASE NobodySeen
  <2>1. UNCHANGED <<gpio, led_on>> /\ off_timer' = (off_timer \/ led_on)
    BY <1>8 DEF NobodySeen
  <2>2. CASE led_on /\ ~off_timer
    <3>1. timer'["turn_off_led"] = LedOffDelay
      BY <1>4, <1>8, <2>2 DEF NobodySeen
    <3>2. Running("turn_off_led")' /\ ~Waiting("turn_off_led")
      BY <1>1, <2>2, <3>1, DelaysAssumption
      DEF IInv, StaleFirst, Running, NotSet
    <3> QED
      BY <1>3, <1>6, <2>1, <2>2, <3>2
      DEF IInv, OffIsOnItsWay, PinFollowsState, StaleFirst, OneOff,
          OffNeedsLed, Messages
  <2>3. CASE ~(led_on /\ ~off_timer)
    <3>1. timer'["turn_off_led"] = timer["turn_off_led"]
      BY <1>4, <1>8, <2>3 DEF NobodySeen
    <3>2. off_timer' = off_timer
      BY <2>1, <2>3 DEF IInv, OffNeedsLed, TypeOK
    <3> QED
      BY <1>1, <1>2, <1>3, <1>6, <2>1, <3>1, <3>2
      DEF IInv, OffIsOnItsWay, PinFollowsState, StaleFirst, OneOff,
          OffNeedsLed, Messages, Running, Waiting
  <2> QED
    BY <2>2, <2>3
<1> QED
  BY <1>7, <1>8 DEF HandlePoll

LEMMA TurnOffLedIInv ==
  ASSUME IInv, TypeOK', TurnOffLed
  PROVE  IInv'
<1>1. Receive("turn_off_led") /\ call = "none" /\ UNCHANGED <<timer, call>>
  BY DEF TurnOffLed, Receive
<1>2. off_timer' = FALSE /\ led_on' = FALSE /\ gpio' = 0
  BY DEF TurnOffLed, IInv, PinFollowsState
<1>3. Waiting("turn_off_led") /\ ~Waiting("turn_off_led")'
      /\ (Waiting("poll")' <=> Waiting("poll"))
  BY <1>1, ReceiveFacts DEF Messages
<1>4. OnePollAtATime'
  BY <1>1, <1>3, ReceiveFacts DEF IInv, OnePollAtATime, Messages, Running
<1>5. ~Running("turn_off_led")'
  BY <1>1, <1>3 DEF IInv, OneOff, Running
<1> QED
  BY <1>2, <1>3, <1>4, <1>5
  DEF IInv, OffIsOnItsWay, PinFollowsState, StaleFirst, OneOff, OffNeedsLed,
      Waiting

LEMMA CrashIInv ==
  ASSUME IInv, TypeOK', CameraStateCrash
  PROVE  IInv'
<1>1. CASE call = "asked"
  <2>1. Running("poll")' /\ ~Running("turn_off_led")'
    BY <1>1, DelaysAssumption
    DEF CameraStateCrash, Restart, Running, Messages, NotSet
  <2>2. mailbox' = <<>> /\ \A m \in Messages : ~Waiting(m)'
    BY <1>1 DEF CameraStateCrash, Restart, Waiting
  <2>3. gpio' = 0 /\ led_on' = FALSE /\ off_timer' = FALSE /\ call' = "none"
    BY <1>1 DEF CameraStateCrash, Restart
  <2> QED
    BY <2>1, <2>2, <2>3
    DEF IInv, OnePollAtATime, OffIsOnItsWay, PinFollowsState, StaleFirst,
        OneOff, OffNeedsLed, Messages
<1>2. CASE call # "asked"
  BY <1>2, ControllerUnchanged DEF CameraStateCrash, Running
<1> QED
  BY <1>1, <1>2

LEMMA NextIInv == IInv /\ [Next]_vars => IInv'
<1> SUFFICES ASSUME IInv, [Next]_vars PROVE IInv'
  OBVIOUS
<1>0. TypeOK'
  BY NextTypeOK DEF IInv
<1>1. CASE SceneChanges \/ Post \/ Update \/ UNCHANGED vars
  BY <1>0, <1>1, ControllerUnchanged
  DEF SceneChanges, Post, Update, vars, Running
<1>2. CASE Tick
  <2>1. \A m \in Messages : Running(m)' <=> Running(m)
    BY <1>2 DEF Tick, Running, NotSet, IInv, TypeOK
  <2> QED
    BY <1>0, <1>2, <2>1, ControllerUnchanged DEF Tick
<1>3. ASSUME NEW m \in Messages, Expire(m) PROVE IInv'
  BY <1>0, <1>3, ExpireIInv
<1>4. CASE Controller
  BY <1>0, <1>4, PollIInv, GetIInv, HandlePollIInv, TurnOffLedIInv
  DEF Controller
<1>5. CASE CameraStateCrash
  BY <1>0, <1>5, CrashIInv
<1> QED
  BY <1>1, <1>2, <1>3, <1>4, <1>5 DEF Next

LEMMA Inductive == Spec => []IInv
BY InitIInv, NextIInv, PTL DEF Spec

(* OnePollAtATime: the chain of polls neither breaks nor forks, whatever   *)
(* the delays and however the mailbox fills up.                            *)
THEOREM PollChain == Spec => []OnePollAtATime
<1>1. IInv => OnePollAtATime
  BY DEF IInv
<1> QED
  BY <1>1, Inductive, PTL

(* OffIsOnItsWay: whenever off_timer is set, the message that clears it    *)
(* is still to come; the LED cannot be left on by a lost timer.            *)
THEOREM OffComes == Spec => []OffIsOnItsWay
<1>1. IInv => OffIsOnItsWay
  BY DEF IInv
<1> QED
  BY <1>1, Inductive, PTL

(* PinFollowsState: the pin has the level led_on says, across restarts.    *)
THEOREM Pin == Spec => []PinFollowsState
<1>1. IInv => PinFollowsState
  BY DEF IInv
<1> QED
  BY <1>1, Inductive, PTL

-----------------------------------------------------------------------------
(* The time since a poll last saw a person.                                *)

Left(m) == IF Running(m) THEN timer[m] ELSE 0

(* Until the poll that starts the off timer, and then until that timer     *)
(* ends, time passes in the timers as it does in quiet.                    *)
Paced ==
  /\ led_on /\ ~off_timer => quiet + Left("poll") >= PollInterval
  /\ off_timer => quiet + Left("turn_off_led") >= LongQuiet

LEMMA LeftFacts ==
  ASSUME TypeOK
  PROVE  /\ Left("poll") \in Nat /\ Left("turn_off_led") \in Nat
         /\ quiet \in Nat /\ quiet <= LongQuiet
         /\ PollInterval \in Nat /\ LongQuiet \in Nat
         /\ LongQuiet = PollInterval + LedOffDelay
<1>1. timer["poll"] \in Nat \cup {NotSet} /\ timer["turn_off_led"] \in Nat \cup {NotSet}
  BY DEF TypeOK, Messages
<1>2. Left("poll") \in Nat /\ Left("turn_off_led") \in Nat
  BY <1>1 DEF Left, Running
<1> QED
  BY <1>2, DelaysAssumption DEF TypeOK, LongQuiet

LEMMA PacedUnchanged ==
  ASSUME Paced, UNCHANGED <<led_on, off_timer, timer, quiet>>
  PROVE  Paced'
BY DEF Paced, Left, Running

LEMMA PacedTick ==
  ASSUME IInv, Paced, Tick
  PROVE  Paced'
<1>1. TypeOK
  BY DEF IInv
<1>2. \A m \in Messages : Left(m)' = IF Running(m) THEN Left(m) - 1 ELSE 0
  <2> TAKE m \in Messages
  <2>1. timer[m] \in Nat \cup {NotSet} /\ timer[m] # 0
    BY <1>1 DEF TypeOK, Tick
  <2>2. timer'[m] = IF timer[m] = NotSet THEN NotSet ELSE timer[m] - 1
    BY DEF Tick
  <2> QED
    BY <2>1, <2>2 DEF Left, Running, NotSet
<1>3. \A m \in Messages : ~Running(m) => Left(m) = 0
  BY DEF Left
<1>4. /\ UNCHANGED <<led_on, off_timer>>
      /\ quiet' = IF quiet < LongQuiet THEN quiet + 1 ELSE quiet
  BY DEF Tick
<1>5. /\ Left("poll")' >= Left("poll") - 1 /\ Left("poll")' \in Int
      /\ Left("turn_off_led")' >= Left("turn_off_led") - 1
      /\ Left("turn_off_led")' \in Int
      /\ Left("poll")' >= 0 /\ Left("turn_off_led")' >= 0
  <2>1. \A m \in Messages : Left(m)' \in Nat /\ Left(m)' >= Left(m) - 1
    <3> TAKE m \in Messages
    <3>1. timer[m] \in Nat \cup {NotSet} /\ timer[m] # 0
      BY <1>1 DEF TypeOK, Tick
    <3> QED
      BY <1>2, <1>3, <3>1 DEF Left, Running
  <2> QED
    BY <2>1 DEF Messages
<1> QED
  BY <1>1, <1>4, <1>5, LeftFacts, DelaysAssumption DEF Paced

LEMMA PacedExpire ==
  ASSUME IInv, Paced, NEW m \in Messages, Expire(m)
  PROVE  Paced'
<1>1. TypeOK
  BY DEF IInv
<1>2. \A x \in Messages : Left(x)' = Left(x)
  BY <1>1 DEF Expire, Left, Running, NotSet, TypeOK
<1> QED
  BY <1>2 DEF Paced, Expire, Messages

LEMMA PacedHandlePoll ==
  ASSUME IInv, Paced, HandlePoll
  PROVE  Paced'
<1>1. TypeOK /\ call # "none"
  BY DEF IInv, HandlePoll, Detections
<1>2. ~Running("poll")
  BY <1>1 DEF IInv, OnePollAtATime
<1>3. \A t : SchedulePoll(t) =>
        Left("poll")' = PollInterval /\ timer'["turn_off_led"] = t
  BY DelaysAssumption DEF SchedulePoll, Left, Running, Messages, NotSet
<1>4. CASE PersonSeen
  <2>1. Left("poll")' = PollInterval /\ ~off_timer' /\ quiet' = 0
    BY <1>3, <1>4 DEF PersonSeen
  <2> QED
    BY <2>1, DelaysAssumption DEF Paced
<1>5. CASE NobodySeen
  <2>1. UNCHANGED <<led_on, quiet>> /\ off_timer' = (off_timer \/ led_on)
    BY <1>5 DEF NobodySeen
  <2>2. CASE led_on /\ ~off_timer
    <3>1. quiet >= PollInterval
      BY <1>1, <1>2, <2>2, LeftFacts DEF Paced, Left
    <3>2. timer'["turn_off_led"] = LedOffDelay
      BY <1>3, <1>5, <2>2 DEF NobodySeen
    <3>3. Left("turn_off_led")' = LedOffDelay
      BY <3>2, DelaysAssumption DEF Left, Running, NotSet
    <3>4. quiet' \in Nat /\ quiet' >= PollInterval
      BY <1>1, <2>1, <3>1, LeftFacts
    <3>5. off_timer'
      BY <2>1, <2>2
    <3>6. quiet' + Left("turn_off_led")' >= PollInterval + LedOffDelay
      BY <3>3, <3>4, DelaysAssumption
    <3> QED
      BY <3>5, <3>6 DEF Paced, LongQuiet
  <2>3. CASE ~(led_on /\ ~off_timer)
    <3>1. timer'["turn_off_led"] = timer["turn_off_led"] /\ off_timer' = off_timer
      BY <1>1, <1>3, <1>5, <2>1, <2>3 DEF NobodySeen, IInv, OffNeedsLed, TypeOK
    <3> QED
      BY <2>1, <2>3, <3>1 DEF Paced, Left, Running
  <2> QED
    BY <2>2, <2>3
<1> QED
  BY <1>4, <1>5 DEF HandlePoll

LEMMA NextPaced == IInv /\ Paced /\ [Next]_vars => Paced'
<1> SUFFICES ASSUME IInv, Paced, [Next]_vars PROVE Paced'
  OBVIOUS
<1>1. CASE SceneChanges \/ Post \/ Update \/ Poll \/ Get \/ UNCHANGED vars
  BY <1>1, PacedUnchanged
  DEF SceneChanges, Post, Update, Poll, Get, vars
<1>2. CASE Tick
  BY <1>2, PacedTick
<1>3. ASSUME NEW m \in Messages, Expire(m) PROVE Paced'
  BY <1>3, PacedExpire
<1>4. CASE HandlePoll
  BY <1>4, PacedHandlePoll
<1>5. CASE TurnOffLed
  BY <1>5 DEF TurnOffLed, Paced
<1>6. CASE CameraStateCrash
  <2>1. CASE call = "asked"
    BY <1>6, <2>1 DEF CameraStateCrash, Restart, Paced
  <2>2. CASE call # "asked"
    BY <1>6, <2>2, PacedUnchanged DEF CameraStateCrash
  <2> QED
    BY <2>1, <2>2
<1> QED
  BY <1>1, <1>2, <1>3, <1>4, <1>5, <1>6 DEF Next, Controller

(* OffNotEarly: for all delays, the timer switches the LED off only when   *)
(* the last poll that saw a person lies a poll and led_off_delay back,     *)
(* however long messages wait and calls take.                              *)
THEOREM NotEarly == Spec => OffNotEarly
<1>1. Init => Paced
  BY DEF Init, Paced
<1>2. IInv /\ Paced =>
        (TurnOffLed /\ gpio' # gpio /\ off_timer => quiet = LongQuiet)
  <2> SUFFICES ASSUME IInv, Paced, TurnOffLed, off_timer
               PROVE  quiet = LongQuiet
    OBVIOUS
  <2>1. ~Running("turn_off_led")
    BY ReceiveFacts DEF TurnOffLed, IInv, OneOff, Messages
  <2> QED
    BY <2>1, LeftFacts DEF IInv, Paced, Left
<1> QED
  BY <1>1, <1>2, NextPaced, Inductive, PTL DEF Spec, OffNotEarly
=============================================================================
