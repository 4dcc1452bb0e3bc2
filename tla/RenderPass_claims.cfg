SPECIFICATION Spec
CONSTANTS
  MaxParts = 4
  SlowestLimit = 2
  SlowMs = 2
  Sites <- ClaimSites
  Stem <- MCStem
  Own = "own"
  BuiltIn = ""
  None = None
INVARIANTS
  DeclarationsParse
  CutsAsDocumented
CHECK_DEADLOCK FALSE
