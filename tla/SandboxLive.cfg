SPECIFICATION FairSpec
CONSTANTS
  Sandboxes = {s1}
  Containers = {c1, c2}
  Snapshots = {p1}
  Requests = {w1, w2}
  NoSandbox = NoSandbox
  NoContainer = NoContainer
  NoSnapshot = NoSnapshot
  Free = Free
  Offered = {"create", "fork", "start", "stop", "destroy", "restore", "snapshot", "files"}
  MaxFaults = 0
  MaxCancels = 1
  MaxCrashes = 0
PROPERTIES
  EveryRequestReturns
