SPECIFICATION ApiSpec
CONSTANTS
  Lot = {l1}
  Tenant = {t1}
  Code = {c1}
  Result <- MCResult
  Hazard <- MCHazard
  Weights <- MCWeights
  Key = {}
  NoLot = NoLot
  NoKey = NoKey
  NoSession = NoSession
  Principal <- MCPrincipal
  Token = {s1, s2}
  Request = {r1, r2}
  TTL = 2
SYMMETRY Symmetry
INVARIANT
  OverIsOver
