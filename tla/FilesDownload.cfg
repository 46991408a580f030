SPECIFICATION FileSpec
CONSTANTS
  Names = {a, b, c}
  Sizes = {1, 2}
  Absent = Absent
  Directory = Directory
  None = None
  FileMaxBytes = 1
  ArchiveMaxBytes = 3
  ListMaxEntries = 2
  ListMaxScanBytes = 3
  MaxEntries = 2
  MaxChanges = 1
INVARIANT DownloadIsComplete
CHECK_DEADLOCK FALSE
