SPECIFICATION FairSpec
CONSTANTS
  Lot = {l1, l2}
  Tenant = {t1, t2}
  Code = {c1}
  Principal <- MCPrincipal
  Result <- MCResult
  Hazard <- MCHazard
  Weights <- MCWeights
  Key = {k1}
  NoLot = NoLot
  NoKey = NoKey
PROPERTY
  RecoveredLotIsCertified
CHECK_DEADLOCK FALSE
