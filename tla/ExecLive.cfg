SPECIFICATION FairSpec
CONSTANTS
  Execs = {e1, e2}
  Readers = {r1}
  MaxFrames = 1
  Cap = 3
  MaxFaults = 0
  MaxEarlyEOFs = 0
  MaxDiskFaults = 0
  MaxCancels = 0
  MaxCrashes = 1
PROPERTIES EveryExecEnds EveryStreamEnds
