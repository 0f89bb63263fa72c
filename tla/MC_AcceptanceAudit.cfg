SPECIFICATION Spec
CONSTANTS
  None = None
  Paths <- MC_Paths
  Denied <- MC_Denied
  Unsafe <- MC_Unsafe
  Words = {"a", "b", "c", "raw"}
  NotText = "raw"
  Skipped = {".git"}
  KeyFiles <- MC_KeyFiles
  MaxRead = 2
  MaxWrite = 2
  MaxList = 3
  MaxSearchDirs = 2
  MaxSearchFiles = 3
  MaxSearchWords = 2
  MaxMatches = 2
  MaxEntries = 3
  MaxDirs = 1
  MaxTree = 1
  Requests <- MC_Requests
  Replies <- MC_Replies
  Commands <- MC_Commands
  RunsPytest = {"suite"}
  Tools = {"write", "create", "replace", "cmd"}
  TestNames = {"test_a", "test_b"}
  TamperNames = {"conftest"}
  Conftest <- MC_Conftest
  MaxPins = 1
  Panel = 2
  MinReviewers = 2
  Calibration <- MC_Calibration
  Disks <- MC_Disks
  Outages <- MC_Outages
  Edits <- MC_Edits
  Scribbles <- MC_Scribbles
  MaxEdits = 1
  MaxRestarts = 1
INVARIANT ForbiddenToolNeverRan
