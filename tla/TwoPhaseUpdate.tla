--------------------------- MODULE TwoPhaseUpdate ---------------------------
(***************************************************************************)
(* What the A/B scheme promises, without slots, environment variables or   *)
(* partial writes: the device owns one committed image; an update puts a   *)
(* second one on trial; the trial gets one chance to run and is then either*)
(* committed by the running trial itself or given up for the committed one.*)
(***************************************************************************)
CONSTANTS
  Images,  \* the images an update may bring
  Good,    \* the images that come up and may commit themselves
  NoImage  \* no image: nothing on trial, nothing running

VARIABLES
  committed,  \* the image the device falls back to
  trial,      \* the image on trial
  chance,     \* "none", or the trial's chance: "new", "taken" or "spent"
  live        \* the image that is running

avars == <<committed, trial, chance, live>>

Init ==
  /\ committed \in Good
  /\ trial = NoImage
  /\ chance = "none"
  /\ live = NoImage

Install(i) ==
  /\ trial = NoImage
  /\ live # NoImage
  /\ trial' = i
  /\ chance' = "new"
  /\ UNCHANGED <<committed, live>>

(* The boot loader decides to give the trial its only chance.              *)
Attempt ==
  /\ chance = "new"
  /\ live = NoImage
  /\ chance' = "taken"
  /\ UNCHANGED <<committed, trial, live>>

(* The power went before the trial came up: the chance is gone.            *)
Miss ==
  /\ chance = "taken"
  /\ chance' = "spent"
  /\ UNCHANGED <<committed, trial, live>>

RunTrial ==
  /\ chance = "taken"
  /\ live = NoImage
  /\ live' = trial
  /\ chance' = "spent"
  /\ UNCHANGED <<committed, trial>>

RunCommitted ==
  /\ trial = NoImage
  /\ live = NoImage
  /\ live' = committed
  /\ UNCHANGED <<committed, trial, chance>>

Commit ==
  /\ trial # NoImage
  /\ live = trial
  /\ live \in Good
  /\ committed' = trial
  /\ trial' = NoImage
  /\ chance' = "none"
  /\ UNCHANGED live

GiveUp ==
  /\ chance = "spent"
  /\ live = NoImage
  /\ trial' = NoImage
  /\ chance' = "none"
  /\ UNCHANGED <<committed, live>>

Stop ==
  /\ live # NoImage
  /\ live' = NoImage
  /\ UNCHANGED <<committed, trial, chance>>

Next ==
  \/ \E i \in Images : Install(i)
  \/ Attempt \/ Miss \/ RunTrial \/ RunCommitted
  \/ Commit \/ GiveUp \/ Stop

Spec == Init /\ [][Next]_avars
=============================================================================
