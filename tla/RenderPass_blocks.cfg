SPECIFICATION Spec
CONSTANTS
  MaxParts = 4
  SlowestLimit = 2
  SlowMs = 2
  Sites <- MCSites
  Stem <- MCStem
  Own = "own"
  BuiltIn = ""
  None = None
INVARIANTS
  ImportsFit
  CommentsSayTheDoc
  VisibleIsDeclared
  CopyIsWhatShows
  MemberLinksRight
  ErrorsNameTheirPage
  IssuesComplete
  ReportHolds
CHECK_DEADLOCK FALSE
