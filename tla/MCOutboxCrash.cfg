SPECIFICATION FairSpec
CONSTANTS
  Event = {e1}
  Worker = {w1}
  Base = 2
  Digits = 2
  Delay = 6
  MaxFaults = 1
  NoEvent = NoEvent
PROPERTY
  Settles
