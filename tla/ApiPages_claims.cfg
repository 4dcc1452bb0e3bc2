SPECIFICATION Spec
CONSTANTS
  MaxItems = 3
  Sites <- ClaimSites
  Layers <- MCLayers
  Lower <- MCLower
  Slug <- MCSlug
  Pascal <- MCPascal
  Width <- MCWidth
  None = None
INVARIANTS
  LinksNotNested
  AnchorsUnique
CHECK_DEADLOCK FALSE
