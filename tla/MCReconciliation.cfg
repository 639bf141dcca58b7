SPECIFICATION Spec
CONSTANTS
  Report = {r1}
  Tenant = {t1, t2}
  Principal <- MCPrincipal
  Measurement <- MCMeasurement
  Tolerance <- MCTolerance
  MaxAge = 72
  Op = {o1, o2}
  MaxBirths = 2
  NoReport = NoReport
SYMMETRY Symmetry
INVARIANTS
  ApprovedIsClean
  CacheMatchesStore
PROPERTY
  StoredAdvances
