SPECIFICATION Spec
CONSTANTS
  Execs = {e1}
  Readers = {r1, r2}
  MaxFrames = 2
  Cap = 3
  MaxFaults = 1
  MaxEarlyEOFs = 1
  MaxDiskFaults = 1
  MaxCancels = 1
  MaxCrashes = 2
SYMMETRY Symmetry
INVARIANTS
  TypeOK
  RowTellsTruth
  StrandedOnlyByHangup
  LossIsMarkedIfRoom
  ExitMeansAll
  NoLostWakeup
PROPERTY
  LivesOnce
