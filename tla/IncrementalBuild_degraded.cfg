SPECIFICATION Spec
CONSTANTS
  i1 = i1
  i2 = i2
  c1 = c1
  c2 = c2
  Items = {i1, i2}
  Cats = {c1, c2}
  CategoryOf <- MCTwoCategories
  Contents <- MCTwoContents
  RootMeta = RootMeta
  Index = Index
  Generated = Generated
  Authored = Authored
  Torn <- MCTorn
  None = None
  Faults = {"losedb", "fsread", "fsremove"}
  MaxBuilds = 2
INVARIANTS
  PagesCurrent
  NavigationCurrent
