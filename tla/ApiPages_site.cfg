SPECIFICATION Spec
CONSTANTS
  MaxItems = 3
  Sites <- MCSites
  Layers <- MCLayers
  Lower <- MCLower
  Slug <- MCSlug
  Pascal <- MCPascal
  Width <- MCWidth
  None = None
INVARIANTS
  EveryItemHasItsPage
  LinksLand
  NamesLeadWhereTheySay
  EveryExportDocumented
  ProseLinkedWhole
CHECK_DEADLOCK FALSE
