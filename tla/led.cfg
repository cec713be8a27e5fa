\* The delays of the code, with one crash of Ui.CameraState.
\* One tick is 100 ms: a poll is due every tick, the LED goes off after two.
SPECIFICATION FairSpec
CONSTANTS
  PollInterval = 1
  LedOffDelay = 2
  MaxCrashes = 1
INVARIANTS TypeOK OnePollAtATime OffIsOnItsWay PinFollowsState
PROPERTIES OffNotEarly LedFollowsScene
