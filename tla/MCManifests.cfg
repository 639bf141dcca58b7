SPECIFICATION Spec
CONSTANTS
  Tenant = {"a", "b"}
  Principal <- MCPrincipal
  Manifest = {f1, f2}
  Item = {p, q}
  BadItem = {bad}
  Room = 2
  MaxItems = 3
  Blank = Blank
PROPERTY
  InputsAreCopied
CHECK_DEADLOCK FALSE
