SPECIFICATION FairSpec
CONSTANTS
  l1 = l1
  l2 = l2
  k1 = k1
  p1 = p1
  Pkgs = {p1}
  Files = {"types"}
  Loaders = {l1, l2}
  Keepers = {k1}
  None = None
  Faults = {"net", "fs", "crash"}
INVARIANTS
  NoPhantomHit
  OneMutatorAtATime
PROPERTIES
  LoadsEnd
