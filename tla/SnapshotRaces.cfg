SPECIFICATION SnapSpec
CONSTANTS
  Sandboxes = {s1, s2}
  Containers = {c1, c2}
  Snapshots = {p1, p2}
  Requests = {w1}
  NoSandbox = NoSandbox
  NoContainer = NoContainer
  NoSnapshot = NoSnapshot
  Free = Free
  Offered = {"create", "fork", "destroy", "restore", "snapshot"}
  Deleters = {d1}
  ChildrenPin = FALSE
  MaxFaults = 1
  MaxCancels = 0
  MaxCrashes = 1
SYMMETRY Symmetry
INVARIANTS
  SnapTypeOK
  UsedSnapshotIsListed
  LineageIsClosed
  NoOrphanIfCalm
