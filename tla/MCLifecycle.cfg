SPECIFICATION Spec
CONSTANTS
  Lot = {l1, l2}
  Tenant = {t1, t2}
  Code = {c1, c2}
  Principal <- MCPrincipal
  Result <- MCResult
  Hazard <- MCHazard
  Weights <- MCWeights
  Key = {k1}
  NoLot = NoLot
  NoKey = NoKey
SYMMETRY Symmetry
INVARIANTS
  AuditReplays
  RecordsMatchState
  OnlySafeLotsReserved
  KeysAnswerForOwnRecovery
CHECK_DEADLOCK FALSE
