SPECIFICATION Spec
CONSTANTS
  Apis <- MCApis
  BaseRoute <- Apart
  Folder = "api"
  RawConfig <- MCRawConfig
  Raws <- MCRaws
  Spellings <- MCSpellings
  Encode <- MCEncode
  Default = "ESNext"
  Malformed = "malformed"
  Authored = {"loose", "guide"}
  Blocks = {"block"}
  Decls = {"old", "new"}
  Words <- MCWords
  Documents <- MCDocuments
  Compilers = {"5.8"}
  MaxBuilds = 1
  None = None
  Faults = {}
INVARIANTS
  DocLinksStayHome
