-------------------------- MODULE MCSnapshotService --------------------------
(* Symmetry of the composed services for TLC's safety runs.                 *)
EXTENDS SnapshotService, TLC

Symmetry == Permutations(Requests) \cup Permutations(Containers)
              \cup Permutations(Snapshots) \cup Permutations(Sandboxes)
==============================================================================
