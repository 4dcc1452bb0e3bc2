SPECIFICATION Spec
CONSTANTS
  ModelFiles = {"core.api.json", "kit.api.json"}
  Preferred <- MCPreferred
  UnsafePaths = {"../og.png"}
  Basename <- MCBasename
  MimeOf <- MCMimeOf
  Broken = Broken
  Absent = Absent
  Npm = "npm"
  Assets = {"a.npm.meta.tgz", "b.npm.meta.tgz"}
  MetaAssets = {"a.npm.meta.tgz", "b.npm.meta.tgz"}
  Uploads <- MCUploads
  Initial <- MCInitial
  Stuck = {"tsdoctor.json", "art/og.png"}
  Unpublished = Unpublished
  Idle = Idle
  None = None
INVARIANTS
  CacheKeepsItsWord
