SPECIFICATION Spec
CONSTANTS
  l1 = l1
  l2 = l2
  k1 = k1
  p1 = p1
  Pkgs = {p1}
  Files = {"manifest", "types"}
  Loaders = {l1, l2}
  Keepers = {}
  None = None
  Faults = {}
INVARIANTS
  AutoFetchSucceeds
