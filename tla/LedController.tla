--------------------------- MODULE LedController ---------------------------
(***************************************************************************)
(* The red LED of the example: Example.LedController polls Ui.CameraState, *)
(* which HTTP requests of the sscma-elixir daemon keep up to date.  The    *)
(* controller is one Erlang process: its timers become messages in its     *)
(* mailbox, and while it waits for the answer to GenServer.call further    *)
(* messages queue up behind the one it is handling.                        *)
(***************************************************************************)
EXTENDS Integers, Sequences

CONSTANTS
  PollInterval,  \* @poll_interval, in ticks of the clock
  LedOffDelay,   \* @led_off_delay, in ticks
  MaxCrashes     \* how often Ui.CameraState may crash in a behaviour

ASSUME DelaysAssumption ==
  /\ PollInterval \in Nat \ {0}
  /\ LedOffDelay \in Nat \ {0}
  /\ MaxCrashes \in Nat

VARIABLES
  scene,      \* what the detector sees in the current frame
  post,       \* the body of the POST under way, "none" if there is none
  results,    \* the field of Ui.CameraState
  gpio,       \* the level of the pin
  led_on, off_timer,  \* the state of the controller; off_timer: is it set
  timer,      \* ticks left of each message's timer, NotSet if not running
  mailbox,    \* messages the controller has not handled
  call,       \* "none", "asked", or the answer to the call
  quiet,      \* history: ticks since a poll last saw a person, capped
  crashes     \* crashes of Ui.CameraState so far

vars == <<scene, post, results, gpio, led_on, off_timer, timer, mailbox, call,
          quiet, crashes>>

Messages == {"poll", "turn_off_led"}
NotSet == -1

(* "results": a list with or without a person, the empty list, no list.    *)
Detections == {"person", "others", "empty", "missing"}
PersonDetected(r) == r = "person"

(* Where quiet stops counting: no history matters beyond it.               *)
LongQuiet == PollInterval + LedOffDelay

Camera == <<scene, post, results, crashes>>

Init ==
  /\ scene = "empty" /\ post = "none" /\ results = "missing"
  /\ gpio = 0 /\ led_on = FALSE /\ off_timer = FALSE
  /\ timer = [m \in Messages |-> IF m = "poll" THEN PollInterval ELSE NotSet]
  /\ mailbox = <<>> /\ call = "none"
  /\ quiet = LongQuiet /\ crashes = 0

-----------------------------------------------------------------------------
(* The camera daemon and Ui.CameraState.                                   *)

SceneChanges ==
  /\ scene' \in Detections \ {scene}
  /\ UNCHANGED <<post, results, gpio, led_on, off_timer, timer, mailbox, call,
                 quiet, crashes>>

Post ==
  /\ post = "none"
  /\ post' = scene
  /\ UNCHANGED <<scene, results, gpio, led_on, off_timer, timer, mailbox, call,
                 quiet, crashes>>

(* Mutant: the state is updated without a request.                         *)
UpdatesAnyway ==
  /\ results' = post
  /\ post' = "none"
  /\ UNCHANGED <<scene, gpio, led_on, off_timer, timer, mailbox, call, quiet,
                 crashes>>

Update ==
  /\ post # "none"
  /\ results' = post
  /\ post' = "none"
  /\ UNCHANGED <<scene, gpio, led_on, off_timer, timer, mailbox, call, quiet,
                 crashes>>

-----------------------------------------------------------------------------
(* Time and timers.                                                        *)

Tick ==
  /\ \A m \in Messages : timer[m] # 0
  /\ timer' = [m \in Messages |->
                 IF timer[m] = NotSet THEN NotSet ELSE timer[m] - 1]
  /\ quiet' = IF quiet < LongQuiet THEN quiet + 1 ELSE quiet
  /\ UNCHANGED <<Camera, gpio, led_on, off_timer, mailbox, call>>

Expire(m) ==
  /\ timer[m] = 0
  /\ timer' = [timer EXCEPT ![m] = NotSet]
  /\ mailbox' = Append(mailbox, m)
  /\ UNCHANGED <<Camera, gpio, led_on, off_timer, call, quiet>>

-----------------------------------------------------------------------------
(* The controller.                                                         *)

Receive(m) ==
  /\ call = "none"
  /\ mailbox # <<>>
  /\ Head(mailbox) = m
  /\ mailbox' = Tail(mailbox)

Poll ==
  /\ Receive("poll")
  /\ call' = "asked"
  /\ UNCHANGED <<Camera, gpio, led_on, off_timer, timer, quiet>>

Get ==
  /\ call = "asked"
  /\ call' = results
  /\ UNCHANGED <<Camera, gpio, led_on, off_timer, timer, mailbox, quiet>>

(* schedule_poll, with the other timer at t.                               *)
SchedulePoll(t) ==
  timer' = [m \in Messages |-> IF m = "poll" THEN PollInterval ELSE t]

(* Mutants: the cancelled timer's reference is kept; no poll is scheduled  *)
(* while a person is in view.                                              *)
KeepsTimerReference ==
  /\ PersonDetected(call)
  /\ off_timer' = off_timer
  /\ led_on' = TRUE
  /\ gpio' = 1
  /\ SchedulePoll(NotSet)
  /\ quiet' = 0
PollsNoMore ==
  /\ PersonDetected(call)
  /\ off_timer' = FALSE
  /\ led_on' = TRUE
  /\ gpio' = 1
  /\ timer' = [m \in Messages |-> NotSet]
  /\ quiet' = 0

(* cancel_off_timer and turn_led_on.  cancel_timer stops a running timer;  *)
(* a message that is in the mailbox already stays there.                   *)
PersonSeen ==
  /\ PersonDetected(call)
  /\ off_timer' = FALSE
  /\ led_on' = TRUE
  /\ gpio' = IF led_on THEN gpio ELSE 1
  /\ SchedulePoll(IF off_timer THEN NotSet ELSE timer["turn_off_led"])
  /\ quiet' = 0

(* maybe_start_off_timer; mutant: with the other delay.                    *)
WrongDelay ==
  /\ ~PersonDetected(call)
  /\ off_timer' = (off_timer \/ led_on)
  /\ SchedulePoll(IF led_on /\ ~off_timer THEN PollInterval
                  ELSE timer["turn_off_led"])
  /\ UNCHANGED <<gpio, led_on, quiet>>
NobodySeen ==
  /\ ~PersonDetected(call)
  /\ off_timer' = (off_timer \/ led_on)
  /\ SchedulePoll(IF led_on /\ ~off_timer THEN LedOffDelay
                  ELSE timer["turn_off_led"])
  /\ UNCHANGED <<gpio, led_on, quiet>>

HandlePoll ==
  /\ call \in Detections
  /\ call' = "none"
  /\ PersonSeen \/ NobodySeen
  /\ UNCHANGED <<Camera, mailbox>>

(* Mutant: only the timer is forgotten, the LED keeps its state.           *)
ForgetsTimerOnly ==
  /\ Receive("turn_off_led")
  /\ off_timer' = FALSE
  /\ gpio' = IF led_on THEN 0 ELSE gpio
  /\ UNCHANGED <<Camera, led_on, timer, call, quiet>>

TurnOffLed ==
  /\ Receive("turn_off_led")
  /\ off_timer' = FALSE
  /\ led_on' = FALSE
  /\ gpio' = IF led_on THEN 0 ELSE gpio
  /\ UNCHANGED <<Camera, timer, call, quiet>>

(* Ui.CameraState dies and is restarted empty.  A call it has not answered *)
(* exits in the controller, whose terminate switches the LED off and whose *)
(* supervisor starts it again, with an empty mailbox.                      *)
Restart ==
  /\ gpio' = 0 /\ led_on' = FALSE /\ off_timer' = FALSE
  /\ timer' = [m \in Messages |-> IF m = "poll" THEN PollInterval ELSE NotSet]
  /\ mailbox' = <<>> /\ call' = "none"
  /\ quiet' = LongQuiet

CameraStateCrash ==
  /\ crashes < MaxCrashes
  /\ crashes' = crashes + 1
  /\ results' = "missing"
  /\ IF call = "asked" THEN Restart
     ELSE UNCHANGED <<gpio, led_on, off_timer, timer, mailbox, call, quiet>>
  /\ UNCHANGED <<scene, post>>

-----------------------------------------------------------------------------
Controller == Poll \/ Get \/ HandlePoll \/ TurnOffLed

Next ==
  \/ SceneChanges \/ Post \/ Update
  \/ Tick \/ (\E m \in Messages : Expire(m))
  \/ Controller
  \/ CameraStateCrash

Spec == Init /\ [][Next]_vars

(* The daemon keeps posting, timers fire, and the Erlang scheduler runs    *)
(* every process that has something to do.                                 *)
FairSpec ==
  /\ Spec
  /\ WF_vars(Post) /\ WF_vars(Update)
  /\ WF_vars(Tick) /\ \A m \in Messages : WF_vars(Expire(m))
  /\ WF_vars(Controller)

-----------------------------------------------------------------------------
TypeOK ==
  /\ scene \in Detections
  /\ post \in Detections \cup {"none"}
  /\ results \in Detections
  /\ gpio \in {0, 1} /\ led_on \in BOOLEAN /\ off_timer \in BOOLEAN
  /\ timer \in [Messages -> Nat \cup {NotSet}]
  /\ mailbox \in Seq(Messages)
  /\ call \in Detections \cup {"none", "asked"}
  /\ quiet \in 0..LongQuiet
  /\ crashes \in 0..MaxCrashes

Waiting(m) == \E k \in DOMAIN mailbox : mailbox[k] = m
Running(m) == timer[m] # NotSet

(* The chain of polls neither breaks nor forks, across queued messages,    *)
(* the blocking call and restarts: the next poll is timed, waiting or being*)
(* handled, and only one of them.                                          *)
OnePollAtATime ==
  /\ \A k, l \in DOMAIN mailbox : mailbox[k] = mailbox[l] => k = l
  /\ Running("poll") <=> ~Waiting("poll") /\ call = "none"
  /\ Waiting("poll") => call = "none"

(* While off_timer is set maybe_start_off_timer starts no other timer, so  *)
(* the LED would stay on for good if no turn_off_led were on its way.      *)
OffIsOnItsWay == off_timer => Running("turn_off_led") \/ Waiting("turn_off_led")

(* What the controller believes about the LED is true of the pin.          *)
PinFollowsState == gpio = IF led_on THEN 1 ELSE 0

(* The LED stays on for a poll and led_off_delay after the last poll that  *)
(* saw a person, but for a message that outlived its timer (NoFlicker).    *)
OffNotEarly ==
  [][TurnOffLed /\ gpio' # gpio /\ off_timer => quiet = LongQuiet]_vars

(* The LED ends up showing whether a person is in view.                    *)
LedFollowsScene ==
  /\ <>[](scene = "person") => <>[](gpio = 1)
  /\ <>[](scene # "person") => <>[](gpio = 0)

(* "The ... delay prevents flickering": the timer does not switch the LED  *)
(* off when the latest poll saw a person.                                  *)
NoFlicker ==
  [][TurnOffLed /\ gpio' # gpio => off_timer]_vars
=============================================================================
