--------------------------- MODULE MCSandboxService ---------------------------
(* Symmetry of the sandbox service for TLC's safety runs.                    *)
EXTENDS SandboxService, TLC

Symmetry == Permutations(Requests) \cup Permutations(Containers)
              \cup Permutations(Snapshots) \cup Permutations(Sandboxes)
===============================================================================
