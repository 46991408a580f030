---------------------------- MODULE SandboxStates ----------------------------
(***************************************************************************)
(* What the sandbox service promises about the state column of a sandbox   *)
(* row, without locks, requests or containers: a row is registered in      *)
(* "creating" and then moves along the table of internal/sandbox/state.go. *)
(* "absent" stands for an identifier that has no row.                      *)
(***************************************************************************)
CONSTANT Sandboxes
VARIABLE state

States ==
  {"creating", "running", "stopped", "destroying", "destroyed", "error"}

\* The states each state may be followed by.
transitions == [from \in States |->
  CASE from = "creating"   -> {"running", "error"}
    [] from = "running"    -> {"stopped", "destroying", "error"}
    [] from = "stopped"    -> {"running", "destroying", "error"}
    [] from = "destroying" -> {"destroyed", "error"}
    [] from = "error"      -> {"destroying"}
    [] from = "destroyed"  -> {}]

CanTransition(from, to) ==
  from \in States /\ to \in transitions[from]

TypeOK == state \in [Sandboxes -> States \cup {"absent"}]

Init == state = [s \in Sandboxes |-> "absent"]

\* A row is inserted for a new identifier.
Register(s) ==
  /\ state[s] = "absent"
  /\ state' = [state EXCEPT ![s] = "creating"]

\* A row is rewritten with another state.
Transition(s, to) ==
  /\ CanTransition(state[s], to)
  /\ state' = [state EXCEPT ![s] = to]

Next == \E s \in Sandboxes : Register(s) \/ \E to \in States : Transition(s, to)

Spec == Init /\ [][Next]_state
==============================================================================
