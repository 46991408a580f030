------------------------------- MODULE ExecLife -------------------------------
(***************************************************************************)
(* What the exec service promises about an exec, without requests,         *)
(* supervisors, processes or deaths of the daemon: it is registered as     *)
(* running, output is added to its log only while it runs, and it ends     *)
(* once, as exited or as failed, after which neither its row nor its log   *)
(* changes again.                                                          *)
(***************************************************************************)
EXTENDS Sequences

CONSTANTS Execs, Records
VARIABLES
  state,   \* "absent", or the state column of each exec
  log      \* the records of its log

Ends == {"exited", "failed"}

TypeOK ==
  /\ state \in [Execs -> {"absent", "running"} \cup Ends]
  /\ log \in [Execs -> Seq(Records)]

Init ==
  /\ state = [e \in Execs |-> "absent"]
  /\ log = [e \in Execs |-> <<>>]

Register(e) ==
  /\ state[e] = "absent"
  /\ state' = [state EXCEPT ![e] = "running"]
  /\ UNCHANGED log

Write(e, record) ==
  /\ state[e] = "running"
  /\ log' = [log EXCEPT ![e] = Append(@, record)]
  /\ UNCHANGED state

End(e, to) ==
  /\ state[e] = "running"
  /\ state' = [state EXCEPT ![e] = to]
  /\ UNCHANGED log

Next == \E e \in Execs :
  \/ Register(e)
  \/ \E record \in Records : Write(e, record)
  \/ \E to \in Ends : End(e, to)

Spec == Init /\ [][Next]_<<state, log>>
===============================================================================
