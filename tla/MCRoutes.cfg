SPECIFICATION Spec
CONSTANTS
  Route = {r1}
  Tenant = {t1, t2}
  Principal <- MCPrincipal
  Vehicle <- MCVehicle
  Stop <- MCStop
  Op = {o1, o2, o3}
  NoRoute = NoRoute
SYMMETRY Symmetry
INVARIANTS
  LoadWithinLimits
  StoreIsPast
CHECK_DEADLOCK FALSE
