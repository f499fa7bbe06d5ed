SPECIFICATION Spec
CONSTANTS
  Tokens = {a, b}
  StartTokens = {a}
  Timeout = 0
  TakerAfter = 1
  TakerEnabled = TRUE
  NetCap = 2
INVARIANTS OneLegAtMost InventoryBounded
PROPERTIES LegResolves FlatThaws
