SPECIFICATION FairSpec
CONSTANTS
  Lot = {l1, l2}
  Tenant = {t1}
  Principal <- MCAsked
  Code = {c1}
  Result <- MCResult
  Hazard <- MCLowHazard
  Weights <- MCGoodWeights
  Key = {k1}
  NoLot = NoLot
  NoKey = NoKey
  Req = {r1, r2}
  NoReq = NoReq
  NoImage = NoImage
INVARIANTS
  SuccessIsDurable
PROPERTIES
  RetryIsAnswered
  Atomic
  EveryRequestEnds
