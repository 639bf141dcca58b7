SPECIFICATION FairSpec
CONSTANTS
  j1 = j1
  j2 = j2
  j3 = j3
  k1 = k1
  k2 = k2
  fresh = fresh
  again = again
  tried = tried
  id = id
  Focus = {"dispatcher", "scheduler"}
  Runner = {r1, r2}
  Job <- MCJob
  Kind <- MCKind
  kindOf <- MCKindOf
  Malformed = {j3}
  NoJob = NoJob
  Submission = {fresh, tried}
  Id = {id}
  idOf <- MCIdOf
  given <- MCGiven
  Cancellable = {id}
  MaxFailures = 2
  NoEntry = NoEntry
INVARIANTS
  NoJobLost
  ScheduledUntilDone
  CancelledStaysOut
PROPERTIES
  EveryJobConsumed
  RunReturns
  AllEnds
CHECK_DEADLOCK FALSE
