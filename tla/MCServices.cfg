SPECIFICATION Spec
CONSTANTS
  Tenant = {"a", "b"}
  Principal <- MCPrincipal
  Local <- MCLocal
  Kind = {"lithium", "nickel"}
  Id = {i1, i2}
  Grams <- MCGrams
  Grade = {"A", "reject"}
  Day = {0, 1}
  MaxAdds = 2
  Message = {m1, m2, m3}
  Sender = {s1, s2}
  MaxCount = 3
  MaxLost = 1
  NoMessage = NoMessage
  Lot = {l1, l2}
  Code = {"x", "y"}
  Hazard <- MCHazard
  Result = {}
  Weights = {}
  Key = {}
  NoLot = NoLot
  NoKey = NoKey
  Batches <- MCBatches
  WorkerCounts = {0, 2}
  Caller = {c1, c2, c3}
  Max = 2
  Vehicle = {"v"}
  Trip = {t1}
  Offer <- MCOffer
  Stop <- MCStop
  Preset <- MCPreset
  MaxStops = 2
  MaxNow = 2
  Never = Never
  Manifest = {f1, f2}
  Item = {p}
  BadItem = {bad}
  Room = 2
  MaxItems = 2
  Blank = Blank
  Incident = {n1, n2}
  MaxActions = 2
  Certificate = {k1, k2}
  Evidence = {e1, e2}
  Requirement = {"safety", "origin"}
  Empty = Empty
  LotId = {"x"}
  Finding = {g1, g2}
  Reading <- MCReading
  MaxFindings = 2
  MaxNotes = 2
  Node = {d1, d2, d3, d4}
  MaxEdges = 3
  Row = {r1, r2, r3, r4}
  Reader = {w1}
  Asked = {0, 1, 2, 3}
  MaxLimit = 2
  DefaultLimit = 1
INVARIANTS
  OneSenderEach
  EveryItemAnswered
  JourneyInOrder
  DecidedOnRecord
  DangerStaysOpen
  NotesOfThisStay
  ReachableMeansPath
  WalkMissesNothing
PROPERTIES
  ImplementsLedger
  WaitingIsClaimed
  ImportReturns
  GivesUpAfterMax
  DoReturns
  ReplacedFromBelow
  ClosedOnce
CHECK_DEADLOCK FALSE
