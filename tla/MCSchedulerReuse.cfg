SPECIFICATION Spec
CONSTANTS
  j1 = j1
  j2 = j2
  j3 = j3
  k1 = k1
  k2 = k2
  fresh = fresh
  again = again
  tried = tried
  id = id
  Focus = {"scheduler"}
  Runner = {r1}
  Job <- MCJob
  Kind <- MCKind
  kindOf <- MCKindOf
  Malformed = {j3}
  NoJob = NoJob
  Submission = {fresh, again}
  Id = {id}
  idOf <- MCIdOf
  given <- MCGiven
  Cancellable = {id}
  MaxFailures = 1
  NoEntry = NoEntry
INVARIANTS
  NeverResurrected
