SPECIFICATION FairSpec
CONSTANTS
  Event = {e1}
  Worker = {w1, w2}
  Base = 2
  Digits = 2
  Delay = 6
  MaxFaults = 3
  NoEvent = NoEvent
INVARIANTS
  PublishedWasDelivered
  CallsBounded
PROPERTIES
  SettledIsFinal
  BackoffRespected
  SettlesOrOrphaned
