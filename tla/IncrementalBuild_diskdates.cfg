SPECIFICATION Spec
CONSTANTS
  i1 = i1
  i2 = i2
  c1 = c1
  c2 = c2
  Items = {i1}
  Cats = {c1}
  CategoryOf <- MCOneCategory
  Contents <- MCTwoContents
  RootMeta = RootMeta
  Index = Index
  Generated = Generated
  Authored = Authored
  Torn <- MCTorn
  None = None
  Faults = {"losedb"}
  MaxBuilds = 3
PROPERTIES
  PublishedTimeKept
