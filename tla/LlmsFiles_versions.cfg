SPECIFICATION Spec
CONSTANTS
  ModelFiles = {"model.api.json"}
  Preferred <- MCPreferred
  UnsafePaths = {}
  Basename <- MCBasename
  MimeOf <- MCMimeOf
  Rank <- MCRank
  Unscoped <- MCUnscoped
  Segments <- MCSegments
  Entries <- MCEntries
  ExportKey <- MCExportKey
  Spelled <- MCSpelled
  ModelFile <- MCModelFile
  SizeOf <- MCSizeOf
  Pages <- MCPages
  Guides <- MCGuides
  Sites <- VersionSites
  Broken = Broken
  Absent = Absent
INVARIANT
  IndexesComplete
CHECK_DEADLOCK FALSE
