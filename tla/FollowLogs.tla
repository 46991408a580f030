----------------------------- MODULE FollowLogs -----------------------------
(***************************************************************************)
(* The output of one exec on its way to a terminal: the log (ExecLog), the *)
(* row of the exec, the stream the daemon makes of the log                 *)
(* (handleExecOutput and drain in internal/api/execs.go), and `orcal logs` *)
(* and `orcal logs --follow` (cmd/orcal/logs_cmd.go, stream in             *)
(* exec_cmd.go, StreamOutput in pkg/orcalclient).                          *)
(*                                                                         *)
(* Somebody runs the command several times, each time with --from the      *)
(* offset the last one got to.                                             *)
(***************************************************************************)
EXTENDS ExecLog

CONSTANTS
  logsReconnectAttempts,
  MaxCommands             \* bound: how often the command is run

ASSUME CommandsAssumption == logsReconnectAttempts \in Nat /\ MaxCommands \in Nat

VARIABLES
  row,     \* the row of the exec
  cli,     \* the command; reach: how many records there were when it asked
  offset,  \* the offset of the last record it printed
  got      \* what was printed, by all commands

vars == <<file, w, spent, row, cli, offset, got>>

NoStop == 0

FollowTypeOK ==
  /\ LogTypeOK
  /\ row \in [running : BOOLEAN, bytes : Nat]
  /\ cli \in [pc : {"idle", "ask", "stream", "done", "failed", "gave up", "cut"},
              follow : BOOLEAN, stopAt : Nat, reach : Nat,
              attempt : 0 .. logsReconnectAttempts, runs : 0 .. MaxCommands]
  /\ offset \in Nat
  /\ got \in Seq(LogRecord)
  \* The size in the row of an exec that is over is the size of its log.
  /\ ~row.running => row.bytes = Len(file)

Init ==
  /\ LogInit
  /\ row = [running |-> TRUE, bytes |-> 0]
  /\ cli = [pc |-> "idle", follow |-> FALSE, stopAt |-> NoStop, reach |-> 0,
            attempt |-> 0, runs |-> 0]
  /\ offset = 0
  /\ got = <<>>

-------------------------------------------------------------------------------
(* The exec                                                                  *)

\* Only the supervisor of a running exec, or the reconciler, has its log open.
Supervise ==
  /\ row.running
  /\ Write
  /\ UNCHANGED <<row, cli, offset, got>>

\* finish, with the size the writer knows or, without one, that of the file.
Finish ==
  /\ row.running
  /\ row' = [running |-> FALSE, bytes |-> IF w.open THEN w.offset ELSE Len(file)]
  /\ w' = NoWriter
  /\ UNCHANGED <<file, spent, cli, offset, got>>

\* The connection of a command breaks with the daemon; it does not reconnect.
DaemonDies ==
  /\ row.running
  /\ \E stream \in Streams, data \in Payloads, n \in 0 .. headerSize + MaxFramePayload :
       Dies(stream, data, n)
  /\ cli' = IF cli.pc \in {"ask", "stream"} THEN [cli EXCEPT !.pc = "failed"] ELSE cli
  /\ UNCHANGED <<row, offset, got>>

-------------------------------------------------------------------------------
(* The command                                                               *)

Stream(pc) == cli' = [cli EXCEPT !.pc = pc]

Run(follow) ==
  /\ cli.pc \notin {"ask", "stream"}
  /\ cli.runs < MaxCommands
  /\ cli' = [pc |-> IF follow THEN "stream" ELSE "ask", follow |-> follow,
             stopAt |-> NoStop, reach |-> 0, attempt |-> 0, runs |-> cli.runs + 1]
  /\ UNCHANGED <<file, w, spent, row, offset, got>>

\* Get gives the size of the file for an exec that runs.
OutputBytes == IF row.running THEN Len(file) ELSE row.bytes

\* readAvailableLogs asks how much there is.
Ask ==
  /\ cli.pc = "ask"
  /\ cli' = [cli EXCEPT !.pc = IF OutputBytes <= offset THEN "done" ELSE "stream",
                        !.stopAt = OutputBytes, !.reach = Len(ReadRecords(file, 0))]
  /\ UNCHANGED <<file, w, spent, row, offset, got>>

\* Mutant: readAvailableLogs stops behind the first record beyond what there was.
Receive_Beyond ==
  LET records == ReadRecords(file, offset) IN
  /\ cli.pc = "stream" /\ records # <<>>
  /\ got' = Append(got, Content(records)[1])
  /\ offset' = records[1].offset
  /\ Stream(IF ~cli.follow /\ offset' > cli.stopAt THEN "done" ELSE "stream")
  /\ UNCHANGED <<file, w, spent, row>>

\* The next record that drain sends.  readAvailableLogs stops behind the last of
\* those there were when it asked.
Receive ==
  LET records == ReadRecords(file, offset) IN
  /\ cli.pc = "stream" /\ records # <<>>
  /\ got' = Append(got, Content(records)[1])
  /\ offset' = records[1].offset
  /\ Stream(IF ~cli.follow /\ offset' >= cli.stopAt THEN "done" ELSE "stream")
  /\ UNCHANGED <<file, w, spent, row>>

\* Mutant: no last drain between the end of the exec and the exit event.
ReceiveExit_NoDrain ==
  /\ cli.pc = "stream"
  /\ ~row.running
  /\ Stream("done")
  /\ UNCHANGED <<file, w, spent, row, offset, got>>

\* The exit event: the exec is over and everything behind the offset is sent.
ReceiveExit ==
  /\ cli.pc = "stream"
  /\ ~row.running /\ ReadRecords(file, offset) = <<>>
  /\ Stream("done")
  /\ UNCHANGED <<file, w, spent, row, offset, got>>

\* The response ends in good order without an exit event: the handler returns
\* when it cannot read the log or the row.  followLogs connects again, from
\* where it has got to; readAvailableLogs does not look at sawExit.
StreamEnds ==
  /\ cli.pc = "stream"
  /\ IF ~cli.follow
     THEN Stream("cut")
     ELSE IF cli.attempt >= logsReconnectAttempts
     THEN Stream("gave up")
     ELSE cli' = [cli EXCEPT !.attempt = @ + 1]
  /\ UNCHANGED <<file, w, spent, row, offset, got>>

\* GetExec or the stream fails, or the terminal does not take what is printed.
StreamFails ==
  /\ cli.pc \in {"ask", "stream"}
  /\ Stream("failed")
  /\ UNCHANGED <<file, w, spent, row, offset, got>>

-------------------------------------------------------------------------------

Next ==
  \/ Supervise \/ Finish \/ DaemonDies
  \/ \E follow \in BOOLEAN : Run(follow)
  \/ Ask \/ Receive \/ ReceiveExit \/ StreamEnds \/ StreamFails

Spec == Init /\ [][Next]_vars

-------------------------------------------------------------------------------
(* Properties                                                                *)

Log == INSTANCE AppendLog
         WITH Records <- LogRecord, entries <- Content(ReadRecords(file, 0))

\* "frames must never be rewritten or reordered, only appended" (log.go:18): seen
\* through the frames on disk, short writes, deaths and repairs only ever add
\* records; and commands that resume by offset, after whatever ended the one
\* before, print each record once and in order.
FollowsLog == Log!Spec

\* A command that ends as it should has printed what it promises: with --follow
\* the exec is over and all its output is printed, without it at least the
\* records there were when the command asked.  Only a response that ends early
\* in good order ("cut") is taken for the end by mistake.
PrintsAll ==
  cli.pc = "done" =>
    IF cli.follow
    THEN ~row.running /\ got = Content(ReadRecords(file, 0))
    ELSE Len(got) >= cli.reach

\* Without --follow the command does not wait for output yet to come: it asked
\* for no more than there is in whole frames, unless a write stopped short.
\* Behind a torn frame it asks for bytes that no record ends at, and waits for
\* the end of the exec.
WaitsOnlyIfTorn ==
  /\ cli.pc = "stream" /\ ~cli.follow /\ ReadRecords(file, offset) = <<>>
  /\ row.running
  => spent.faults > 0 \/ spent.crashes > 0
==============================================================================
