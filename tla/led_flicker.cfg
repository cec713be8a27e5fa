\* A turn_off_led message that cancel_timer came too late for.
\* One tick is 100 ms: a poll is due every tick, the LED goes off after two.
SPECIFICATION Spec
CONSTANTS
  PollInterval = 1
  LedOffDelay = 2
  MaxCrashes = 0
PROPERTY NoFlicker
