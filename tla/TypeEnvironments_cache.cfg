SPECIFICATION Spec
CONSTANTS
  Apis <- MCApis
  BaseRoute <- Apart
  Folder = "api"
  RawConfig <- MCRawConfig
  Raws <- MCRaws
  Spellings <- MCSpellings
  Encode <- MCEncode
  Default = "ESNext"
  Malformed = "malformed"
  Authored = {"loose", "guide"}
  Blocks = {"block"}
  Decls = {"old", "new"}
  Words <- MCWords
  Documents <- MCDocuments
  Compilers = {"5.8", "5.9"}
  MaxBuilds = 2
  None = None
  Faults = {"cache", "build", "crash"}
INVARIANTS
  StoreSound
  BlockLinksRight
  FirstHoversCurrent
PROPERTIES
  SavedWork
