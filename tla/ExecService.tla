----------------------------- MODULE ExecService -----------------------------
(***************************************************************************)
(* The exec service of orcald (internal/exec) and the streams that follow  *)
(* it (handleExecOutput in internal/api): the request that creates an      *)
(* exec, the supervisor that copies the output of its process into a log,  *)
(* the broadcaster that wakes the streams, the reconciliation of execs     *)
(* that outlived the daemon, and the pollers it leaves behind.             *)
(*                                                                         *)
(* A record of the log is written whole here, or leaves a part that counts *)
(* in the size of the file and that no stream sends; the module ExecLog    *)
(* shows why it may be taken so.                                           *)
(***************************************************************************)
EXTENDS Naturals, Sequences, FiniteSets

CONSTANTS
  Execs,          \* exec identifiers (id.New never repeats one)
  Readers,        \* slots for output streams
  MaxFrames,      \* bound: frames a process puts out
  Cap,            \* maxBytes of a log, in the units of Size
  MaxFaults,      \* bound: runtime calls and streams that fail
  MaxEarlyEOFs,   \* bound: streams that end before their process
  MaxDiskFaults,  \* bound: writes to the database or to a log that fail
  MaxCancels,     \* bound: create requests cancelled by their caller
  MaxCrashes      \* bound: deaths and shutdowns of the daemon

ASSUME ExecBoundsAssumption ==
  /\ MaxFrames \in Nat /\ Cap \in Nat /\ MaxFaults \in Nat
  /\ MaxEarlyEOFs \in Nat /\ MaxDiskFaults \in Nat
  /\ MaxCancels \in Nat /\ MaxCrashes \in Nat

VARIABLES
  rows,     \* the execs table
  proc,     \* the processes of the runtime
  files,    \* the log of each exec
  job,      \* the goroutine in charge of each exec
  readers,  \* the output streams
  waiting,  \* streams whose channel of the broadcaster is open
  mode,     \* "serving", "stopping", or where the boot sequence stands
  todo,     \* execs that Reconcile has still to settle
  spent     \* how much of each bound is used up

vars == <<rows, proc, files, job, readers, waiting, mode, todo, spent>>

-------------------------------------------------------------------------------
(* Rows, processes, logs, goroutines, streams                                *)

Ends == {"exited", "failed"}

Row == [state : {"absent", "running"} \cup Ends, handle : BOOLEAN,
        bytes : Nat, truncated : BOOLEAN]
AbsentRow  == [state |-> "absent", handle |-> FALSE, bytes |-> 0, truncated |-> FALSE]
RunningRow == [AbsentRow EXCEPT !.state = "running"]

\* made counts the frames a process has put out; they are numbered from 1.
Process == [status : {"none", "running", "exited", "lost"}, made : 0 .. MaxFrames]

Gap     == 0
Frames  == 0 .. MaxFrames

\* size counts the whole records; torn says that a part of one follows them.
LogFile == [entries : Seq(Frames), size : Nat, torn : BOOLEAN]

\* A gap is a bare header, smaller than any frame.
Size(frame) == IF frame = Gap THEN 1 ELSE 2

Creating    == {"insert", "start", "record", "markFailed"}
Supervising == {"open", "recv", "notify", "breakNotify", "wait"}

\* got counts the frames received from the process, cut is the truncated flag
\* of the writer (or of the row, for a poller), failed that an append failed,
\* end the state to finish with, dead that the request's context is cancelled.
Job == [pc : Creating \cup Supervising \cup {"none", "poll", "finish", "announce"},
        got : 0 .. MaxFrames, cut : BOOLEAN, failed : BOOLEAN, handle : BOOLEAN,
        end : Ends, dead : BOOLEAN]
NoJob == [pc |-> "none", got |-> 0, cut |-> FALSE, failed |-> FALSE,
          handle |-> FALSE, end |-> "failed", dead |-> FALSE]

\* seen counts the records a stream has sent.
Reader == [pc : {"idle", "arm", "drain", "get", "sleep", "last", "done"},
           exec : Execs, seen : Nat]

TypeOK ==
  /\ rows \in [Execs -> Row]
  /\ proc \in [Execs -> Process]
  /\ files \in [Execs -> LogFile]
  /\ job \in [Execs -> Job]
  /\ readers \in [Readers -> Reader]
  /\ waiting \in SUBSET Readers
  /\ mode \in {"serving", "stopping", "listing", "reconciling"}
  /\ todo \in SUBSET Execs
  /\ spent \in [faults : Nat, eofs : Nat, disk : Nat, cancels : Nat, crashes : Nat]

Init ==
  /\ rows = [e \in Execs |-> AbsentRow]
  /\ proc = [e \in Execs |-> [status |-> "none", made |-> 0]]
  /\ files = [e \in Execs |-> [entries |-> <<>>, size |-> 0, torn |-> FALSE]]
  /\ job = [e \in Execs |-> NoJob]
  /\ readers \in [Readers -> [pc : {"idle"}, exec : Execs, seen : {0}]]
  /\ waiting = {}
  /\ mode = "serving"
  /\ todo = {}
  /\ spent = [faults |-> 0, eofs |-> 0, disk |-> 0, cancels |-> 0, crashes |-> 0]

At(e, pc) == job[e].pc = pc
Goto(e, pc) == job' = [job EXCEPT ![e].pc = pc]
Stop(e) == job' = [job EXCEPT ![e] = NoJob]

\* A runtime call or a stream fails.
SpendFault ==
  /\ spent.faults < MaxFaults
  /\ spent' = [spent EXCEPT !.faults = @ + 1]

\* A statement of the database or a write to a log fails.
SpendDisk ==
  /\ spent.disk < MaxDiskFaults
  /\ spent' = [spent EXCEPT !.disk = @ + 1]

\* The stream of an exec breaks, and the gap for it cannot be written.
SpendBoth ==
  /\ spent.faults < MaxFaults /\ spent.disk < MaxDiskFaults
  /\ spent' = [spent EXCEPT !.faults = @ + 1, !.disk = @ + 1]

\* Broadcaster.Notify closes the channel of the exec, if anybody waits on it.
Notify(e) == waiting' = {r \in waiting : readers[r].exec # e}

Fits(e, frame) == files[e].size + Size(frame) <= Cap
Write(e, frame) ==
  files' = [files EXCEPT ![e] = [entries |-> Append(@.entries, frame),
                                 size |-> @.size + Size(frame), torn |-> FALSE]]

\* A write that stops short leaves a part of its record, or nothing of it.
CutShort(e) == \E torn \in BOOLEAN : files' = [files EXCEPT ![e].torn = torn]

\* The size of the file, less than a whole record being taken for one unit.
FileSize(e) == files[e].size + IF files[e].torn THEN 1 ELSE 0

-------------------------------------------------------------------------------
(* Create                                                                    *)

CreateArrives(e) ==
  /\ mode = "serving" /\ At(e, "none") /\ rows[e].state = "absent"
  /\ Goto(e, "insert")
  /\ UNCHANGED <<rows, proc, files, readers, waiting, mode, todo, spent>>

InsertRow(e) ==
  /\ At(e, "insert") /\ ~job[e].dead
  /\ rows' = [rows EXCEPT ![e] = RunningRow]
  /\ Goto(e, "start")
  /\ UNCHANGED <<proc, files, readers, waiting, mode, todo, spent>>

InsertFails(e) ==
  /\ At(e, "insert")
  /\ Stop(e)
  /\ UNCHANGED <<rows, proc, files, readers, waiting, mode, todo, spent>>

\* rt.Exec starts the process; the attachment that follows may fail.
StartExec(e) ==
  /\ At(e, "start") /\ ~job[e].dead
  /\ proc' = [proc EXCEPT ![e].status = "running"]
  /\ \/ /\ job' = [job EXCEPT ![e].pc = "record", ![e].handle = TRUE]
        /\ UNCHANGED spent
     \/ SpendFault /\ Goto(e, "markFailed")
  /\ UNCHANGED <<rows, files, readers, waiting, mode, todo>>

\* The sandbox was stopped since its state was read, or the context is dead.
StartFails(e) ==
  /\ At(e, "start")
  /\ Goto(e, "markFailed")
  /\ UNCHANGED <<rows, proc, files, readers, waiting, mode, todo, spent>>

\* The row learns the handle of the process, and the supervisor takes over.
RecordHandle(e) ==
  /\ At(e, "record") /\ ~job[e].dead
  /\ rows' = [rows EXCEPT ![e].handle = TRUE]
  /\ Goto(e, "open")
  /\ UNCHANGED <<proc, files, readers, waiting, mode, todo, spent>>

\* The session is closed; the process goes on.
RecordFails(e) ==
  /\ At(e, "record")
  /\ (job[e].dead /\ UNCHANGED spent) \/ (~job[e].dead /\ SpendDisk)
  /\ Goto(e, "markFailed")
  /\ UNCHANGED <<rows, proc, files, readers, waiting, mode, todo>>

\* markFailed writes on the context of the request.
MarkFailed(e) ==
  /\ At(e, "markFailed")
  /\ \/ /\ ~job[e].dead /\ UNCHANGED spent
        /\ rows' = [rows EXCEPT ![e].state = "failed", ![e].handle = job[e].handle]
     \/ job[e].dead /\ UNCHANGED <<rows, spent>>
     \/ ~job[e].dead /\ SpendDisk /\ UNCHANGED rows
  /\ Stop(e)
  /\ UNCHANGED <<proc, files, readers, waiting, mode, todo>>

Cancel(e) ==
  /\ job[e].pc \in Creating /\ ~job[e].dead
  /\ spent.cancels < MaxCancels
  /\ job' = [job EXCEPT ![e].dead = TRUE]
  /\ spent' = [spent EXCEPT !.cancels = @ + 1]
  /\ UNCHANGED <<rows, proc, files, readers, waiting, mode, todo>>

-------------------------------------------------------------------------------
(* supervise                                                                 *)

FinishAs(e, end) == job' = [job EXCEPT ![e].pc = "finish", ![e].end = end]

OpenLog(e) ==
  /\ At(e, "open")
  /\ \/ Goto(e, "recv") /\ UNCHANGED spent
     \/ SpendDisk /\ FinishAs(e, "failed")
  /\ UNCHANGED <<rows, proc, files, readers, waiting, mode, todo>>

\* LogWriter.Append of a frame: once one did not fit, the writer takes no more.
AppendOrCut(e, frame, got, next) ==
  \/ /\ ~job[e].cut /\ Fits(e, frame)
     /\ Write(e, frame)
     /\ job' = [job EXCEPT ![e].got = got, ![e].pc = next]
  \/ /\ job[e].cut \/ ~Fits(e, frame)
     /\ job' = [job EXCEPT ![e].got = got, ![e].pc = next, ![e].cut = TRUE]
     /\ UNCHANGED files

Recv(e) ==
  /\ At(e, "recv") /\ job[e].got < proc[e].made
  /\ AppendOrCut(e, job[e].got + 1, job[e].got + 1, "notify")
  /\ UNCHANGED <<rows, proc, readers, waiting, mode, todo, spent>>

DropFrame(e) ==
  job' = [job EXCEPT ![e].got = @ + 1, ![e].failed = TRUE, ![e].pc = "wait"]

\* The write to the log fails; what it left counts in the offset of the writer.
RecvAppendFails(e) ==
  /\ At(e, "recv") /\ job[e].got < proc[e].made
  /\ ~job[e].cut /\ Fits(e, job[e].got + 1)
  /\ SpendDisk /\ CutShort(e)
  /\ DropFrame(e)
  /\ UNCHANGED <<rows, proc, readers, waiting, mode, todo>>

\* The frame is larger than a record may be: no writer takes it, cut or not.
RecvOversize(e) ==
  /\ At(e, "recv") /\ job[e].got < proc[e].made
  /\ DropFrame(e)
  /\ UNCHANGED <<rows, proc, files, readers, waiting, mode, todo, spent>>

\* Mutant: a broken stream is taken for its end.
RecvBreaks_Unmarked(e) ==
  /\ At(e, "recv") /\ SpendFault
  /\ Goto(e, "wait")
  /\ UNCHANGED <<rows, proc, files, readers, waiting, mode, todo>>

\* The stream breaks: what follows is lost, and the log says so, unless writing
\* that fails too.
RecvBreaks(e) ==
  /\ At(e, "recv")
  /\ \/ SpendFault /\ AppendOrCut(e, Gap, job[e].got, "breakNotify")
     \/ /\ ~job[e].cut /\ Fits(e, Gap)
        /\ SpendBoth /\ CutShort(e)
        /\ job' = [job EXCEPT ![e].failed = TRUE, ![e].pc = "breakNotify"]
  /\ UNCHANGED <<rows, proc, readers, waiting, mode, todo>>

RecvEOF(e) ==
  /\ At(e, "recv")
  /\ job[e].got = proc[e].made /\ proc[e].status \in {"exited", "lost"}
  /\ Goto(e, "wait")
  /\ UNCHANGED <<rows, proc, files, readers, waiting, mode, todo, spent>>

\* The connection goes down between two frames, or behind the header of one: the
\* demultiplexer reports io.EOF, bare or wrapped, and the stream is taken to be over.
RecvEarlyEOF(e) ==
  /\ At(e, "recv")
  /\ spent.eofs < MaxEarlyEOFs
  /\ spent' = [spent EXCEPT !.eofs = @ + 1]
  /\ Goto(e, "wait")
  /\ UNCHANGED <<rows, proc, files, readers, waiting, mode, todo>>

NotifyRecord(e) ==
  /\ job[e].pc \in {"notify", "breakNotify"}
  /\ Notify(e)
  /\ Goto(e, IF At(e, "notify") THEN "recv" ELSE "wait")
  /\ UNCHANGED <<rows, proc, files, readers, mode, todo, spent>>

\* session.Wait polls until the process has exited or cannot be inspected.
WaitExit(e) ==
  /\ At(e, "wait")
  /\ \/ /\ proc[e].status = "exited" /\ UNCHANGED spent
        /\ FinishAs(e, IF job[e].failed THEN "failed" ELSE "exited")
     \/ proc[e].status = "lost" /\ FinishAs(e, "failed") /\ UNCHANGED spent
     \/ SpendFault /\ FinishAs(e, "failed")
  /\ UNCHANGED <<rows, proc, files, readers, waiting, mode, todo>>

\* finish: errors of the database are dropped.  The size is the writer's offset or
\* the file's; a log that exists can be looked at.
Finish(e) ==
  /\ At(e, "finish")
  /\ \/ /\ rows' = [rows EXCEPT ![e].state = job[e].end, ![e].bytes = FileSize(e),
                                ![e].truncated = job[e].cut]
        /\ UNCHANGED spent
     \/ SpendDisk /\ UNCHANGED rows
  /\ Goto(e, "announce")
  /\ UNCHANGED <<proc, files, readers, waiting, mode, todo>>

\* The last Notify; the goroutine ends, or Reconcile goes on to the next exec.
Announce(e) ==
  /\ At(e, "announce")
  /\ Notify(e)
  /\ Stop(e)
  /\ todo' = todo \ {e}
  /\ UNCHANGED <<rows, proc, files, readers, mode, spent>>

-------------------------------------------------------------------------------
(* Reconcile and pollUntilExit                                               *)

\* Mutant: the listing takes in execs that have ended.
ReconcileList_All ==
  /\ mode = "listing" /\ mode' = "reconciling"
  /\ \/ todo' = {e \in Execs : rows[e].state # "absent"} /\ UNCHANGED spent
     \/ todo' = {} /\ SpendDisk
  /\ UNCHANGED <<rows, proc, files, job, readers, waiting>>

ReconcileList ==
  /\ mode = "listing" /\ mode' = "reconciling"
  /\ \/ todo' = {e \in Execs : rows[e].state = "running"} /\ UNCHANGED spent
     \/ todo' = {} /\ SpendDisk
  /\ UNCHANGED <<rows, proc, files, job, readers, waiting>>

\* Mutant: the log is opened without a look at its end.
GapLands_Unrepaired(e) ==
  IF Fits(e, Gap)
  THEN files' = [files EXCEPT ![e].entries = Append(@, Gap), ![e].size = @ + Size(Gap)]
  ELSE UNCHANGED files

\* appendGap: a writer of its own, which drops a torn record as it opens the log.
GapLands(e) ==
  IF Fits(e, Gap) THEN Write(e, Gap) ELSE files' = [files EXCEPT ![e].torn = FALSE]

\* The log cannot be opened, or the write of the gap stops short.
GapFails(e) == UNCHANGED files \/ (Fits(e, Gap) /\ CutShort(e))

\* Its errors are dropped.
AppendGap(e) ==
  \/ GapLands(e) /\ UNCHANGED spent
  \/ GapFails(e) /\ SpendDisk

Gone(e) == ~rows[e].handle \/ proc[e].status \in {"none", "lost"}

\* Mutant: an exec that still runs is left to itself.
ReconcileRunning_Skips(e) ==
  /\ proc[e].status = "running" /\ ~Gone(e)
  /\ AppendGap(e)
  /\ todo' = todo \ {e}
  /\ UNCHANGED job

\* A poller takes over.
ReconcileRunning(e) ==
  /\ proc[e].status = "running" /\ ~Gone(e)
  /\ AppendGap(e)
  /\ job' = [job EXCEPT ![e].pc = "poll", ![e].cut = rows[e].truncated]
  /\ todo' = todo \ {e}

\* Mutant: the exec is finished with the state its row has.
ReconcileOver_KeepsState(e) ==
  /\ Gone(e) \/ proc[e].status = "exited"
  /\ AppendGap(e)
  /\ job' = [job EXCEPT ![e].pc = "finish", ![e].end = rows[e].state,
                        ![e].cut = rows[e].truncated]
  /\ UNCHANGED todo

\* The process is over, or its handle is gone.
ReconcileOver(e) ==
  /\ Gone(e) \/ proc[e].status = "exited"
  /\ AppendGap(e)
  /\ job' = [job EXCEPT ![e].pc = "finish", ![e].cut = rows[e].truncated,
                        ![e].end = IF Gone(e) THEN "failed" ELSE "exited"]
  /\ UNCHANGED todo

\* The runtime does not answer: taken for a handle that is gone.
ReconcileUnknown(e) ==
  /\ (GapLands(e) /\ SpendFault) \/ (GapFails(e) /\ SpendBoth)
  /\ job' = [job EXCEPT ![e].pc = "finish", ![e].end = "failed",
                        ![e].cut = rows[e].truncated]
  /\ UNCHANGED todo

\* One exec after the other.
NextToReconcile(e) ==
  /\ mode = "reconciling" /\ e \in todo
  /\ \A d \in todo : At(d, "none")

Reconcile(e) ==
  /\ NextToReconcile(e)
  /\ ReconcileRunning(e) \/ ReconcileOver(e) \/ ReconcileUnknown(e)
  /\ UNCHANGED <<rows, proc, readers, waiting, mode>>

Serve ==
  /\ mode = "reconciling" /\ todo = {}
  /\ mode' = "serving"
  /\ UNCHANGED <<rows, proc, files, job, readers, waiting, todo, spent>>

Poll(e) ==
  /\ At(e, "poll")
  /\ \/ proc[e].status = "exited" /\ FinishAs(e, "exited") /\ UNCHANGED spent
     \/ proc[e].status = "lost" /\ FinishAs(e, "failed") /\ UNCHANGED spent
     \/ SpendFault /\ FinishAs(e, "failed")
  /\ UNCHANGED <<rows, proc, files, readers, waiting, mode, todo>>

\* Shutdown sends the pollers home.
PollStops(e) ==
  /\ At(e, "poll") /\ mode = "stopping"
  /\ Stop(e)
  /\ UNCHANGED <<rows, proc, files, readers, waiting, mode, todo, spent>>

-------------------------------------------------------------------------------
(* handleExecOutput                                                          *)

ReaderAt(r, pc) == readers[r].pc = pc
ReaderGoto(r, pc) == readers' = [readers EXCEPT ![r].pc = pc]
Entries(e) == files[e].entries
Drained(r) == Len(Entries(readers[r].exec))

\* A client follows an exec, from the start or from an offset it was given.
Follow(r, e, from) ==
  /\ mode = "serving" /\ ReaderAt(r, "idle")
  /\ rows[e].state # "absent" /\ from \in 0 .. Len(Entries(e))
  /\ readers' = [readers EXCEPT ![r] = [pc |-> "arm", exec |-> e, seen |-> from]]
  /\ UNCHANGED <<rows, proc, files, job, waiting, mode, todo, spent>>

\* Broadcaster.Wait, before anything is read.
Arm(r) ==
  /\ ReaderAt(r, "arm")
  /\ waiting' = waiting \cup {r}
  /\ ReaderGoto(r, "drain")
  /\ UNCHANGED <<rows, proc, files, job, mode, todo, spent>>

Drain(r) ==
  /\ ReaderAt(r, "drain")
  /\ readers' = [readers EXCEPT ![r].seen = Drained(r), ![r].pc = "get"]
  /\ UNCHANGED <<rows, proc, files, job, waiting, mode, todo, spent>>

\* Mutant: the exit is sent as soon as the row is seen to have ended.
GetState_NoLastDrain(r) ==
  /\ ReaderAt(r, "get")
  /\ ReaderGoto(r, IF rows[readers[r].exec].state = "running" THEN "sleep" ELSE "done")
  /\ UNCHANGED <<rows, proc, files, job, waiting, mode, todo, spent>>

\* Mutant: a stream goes to sleep on a channel it has just made.
GetState_ArmsLate(r) ==
  /\ ReaderAt(r, "get")
  /\ ReaderGoto(r, IF rows[readers[r].exec].state = "running" THEN "sleep" ELSE "last")
  /\ waiting' = waiting \cup {r}
  /\ UNCHANGED <<rows, proc, files, job, mode, todo, spent>>

\* Mutant: an exec that has failed is taken for one that runs.
GetState_ExitedOnly(r) ==
  /\ ReaderAt(r, "get")
  /\ ReaderGoto(r, IF rows[readers[r].exec].state # "exited" THEN "sleep" ELSE "last")
  /\ UNCHANGED <<rows, proc, files, job, waiting, mode, todo, spent>>

GetState(r) ==
  /\ ReaderAt(r, "get")
  /\ ReaderGoto(r, IF rows[readers[r].exec].state = "running" THEN "sleep" ELSE "last")
  /\ UNCHANGED <<rows, proc, files, job, waiting, mode, todo, spent>>

\* The drain after the end, and the exit event.
LastDrain(r) ==
  /\ ReaderAt(r, "last")
  /\ readers' = [readers EXCEPT ![r].seen = Drained(r), ![r].pc = "done"]
  /\ UNCHANGED <<rows, proc, files, job, waiting, mode, todo, spent>>

Wake(r) ==
  /\ ReaderAt(r, "sleep") /\ r \notin waiting
  /\ ReaderGoto(r, "arm")
  /\ UNCHANGED <<rows, proc, files, job, waiting, mode, todo, spent>>

\* Every thirty seconds a stream looks again, woken or not.
Heartbeat(r) ==
  /\ ReaderAt(r, "sleep")
  /\ ReaderGoto(r, "arm")
  /\ UNCHANGED <<rows, proc, files, job, waiting, mode, todo, spent>>

\* The client has got its exit event, or hangs up.
Leave(r) ==
  /\ ~ReaderAt(r, "idle")
  /\ readers' = [readers EXCEPT ![r].pc = "idle", ![r].seen = 0]
  /\ waiting' = waiting \ {r}
  /\ UNCHANGED <<rows, proc, files, job, mode, todo, spent>>

-------------------------------------------------------------------------------
(* Processes, shutdown and death                                             *)

Produce(e) ==
  /\ proc[e].status = "running" /\ proc[e].made < MaxFrames
  /\ proc' = [proc EXCEPT ![e].made = @ + 1]
  /\ UNCHANGED <<rows, files, job, readers, waiting, mode, todo, spent>>

Exits(e) ==
  /\ proc[e].status = "running"
  /\ proc' = [proc EXCEPT ![e].status = "exited"]
  /\ UNCHANGED <<rows, files, job, readers, waiting, mode, todo, spent>>

\* The container is removed, and its processes with it.
ContainerGoes(e) ==
  /\ proc[e].status \in {"running", "exited"}
  /\ proc' = [proc EXCEPT ![e].status = "lost"]
  /\ UNCHANGED <<rows, files, job, readers, waiting, mode, todo, spent>>

SpendCrash ==
  /\ spent.crashes < MaxCrashes
  /\ spent' = [spent EXCEPT !.crashes = @ + 1]

\* The logs a record may be on its way to: a frame, or the gap of a stream that
\* breaks, or the gap of the exec that Reconcile is at.
BeingWritten ==
  {e \in Execs : Fits(e, Gap) /\ ((At(e, "recv") /\ ~job[e].cut) \/ NextToReconcile(e))}

\* Goroutines, channels and streams are gone; rows, processes and logs stay, the
\* logs with what had been written of a record.
Down ==
  /\ \E torn \in SUBSET BeingWritten :
       files' = [e \in Execs |->
                   [files[e] EXCEPT !.torn = IF e \in BeingWritten THEN e \in torn ELSE @]]
  /\ job' = [e \in Execs |-> NoJob]
  /\ readers' = [r \in Readers |-> [readers[r] EXCEPT !.pc = "idle", !.seen = 0]]
  /\ waiting' = {}
  /\ todo' = {}
  /\ mode' = "listing"
  /\ UNCHANGED <<rows, proc>>

Crash == SpendCrash /\ Down

\* SIGTERM, and the end of the process once Shutdown has returned.
Shutdown ==
  /\ mode = "serving" /\ SpendCrash
  /\ mode' = "stopping"
  /\ UNCHANGED <<rows, proc, files, job, readers, waiting, todo>>

Exit == mode = "stopping" /\ Down /\ UNCHANGED spent

-------------------------------------------------------------------------------

\* One step of the goroutine in charge of exec e.
Work(e) ==
  \/ InsertRow(e) \/ InsertFails(e) \/ StartExec(e) \/ StartFails(e)
  \/ RecordHandle(e) \/ RecordFails(e) \/ MarkFailed(e)
  \/ OpenLog(e) \/ Recv(e) \/ RecvAppendFails(e) \/ RecvOversize(e) \/ RecvBreaks(e)
  \/ RecvEOF(e) \/ RecvEarlyEOF(e)
  \/ NotifyRecord(e) \/ WaitExit(e) \/ Finish(e) \/ Announce(e)
  \/ Poll(e) \/ PollStops(e)

Stream(r) ==
  Arm(r) \/ Drain(r) \/ GetState(r) \/ LastDrain(r) \/ Wake(r) \/ Heartbeat(r)

Boot == ReconcileList \/ (\E e \in Execs : Reconcile(e)) \/ Serve

Next ==
  \/ \E e \in Execs : CreateArrives(e) \/ Cancel(e) \/ Work(e)
  \/ \E r \in Readers : Stream(r) \/ Leave(r)
  \/ \E r \in Readers, e \in Execs, from \in 0 .. Cap : Follow(r, e, from)
  \/ \E e \in Execs : Produce(e) \/ Exits(e) \/ ContainerGoes(e)
  \/ Boot
  \/ Crash \/ Shutdown \/ Exit

Spec == Init /\ [][Next]_vars

-------------------------------------------------------------------------------
(* Properties                                                                *)

Life == INSTANCE ExecLife
          WITH Records <- Frames,
               state <- [e \in Execs |-> rows[e].state],
               log <- [e \in Execs |-> files[e].entries]

\* Supervisors, pollers, Reconcile and markFailed end an exec once between them,
\* and none of them writes to the log of one that has ended.
LivesOnce == Life!Spec

\* "must not be stranded running" (service_test.go:285): while the daemon serves,
\* an exec whose row reads running has a goroutine that will end it.
NoneStranded ==
  \A e \in Execs : mode = "serving" /\ rows[e].state = "running" => ~At(e, "none")

\* So it is unless a caller has hung up or the database has failed, across any
\* failures of the runtime, deaths and shutdowns.
StrandedOnlyByHangup == spent.cancels = 0 /\ spent.disk = 0 => NoneStranded

\* An exec that reads exited has a process that came to its end.  One that has ended
\* reports the size of its log, for good, and all of that is records that can be
\* read, whoever ended it and whatever died in between, unless a write has failed:
\* output_bytes then counts the part of a record the write has left.
RowTellsTruth ==
  \A e \in Execs :
    /\ rows[e].state = "exited" => proc[e].status # "running"
    /\ rows[e].state \in Ends =>
         /\ rows[e].bytes = FileSize(e)
         /\ spent.disk = 0 => ~files[e].torn

HasGap(e) == \E i \in DOMAIN Entries(e) : Entries(e)[i] = Gap
Complete(e) == Entries(e) = [i \in 1 .. proc[e].made |-> i]

\* "marking output lost while the daemon was down" (reconcile_test.go:151): an
\* exited exec that is not flagged as truncated has all of its output in its log,
\* or a gap where some is missing.
LossIsMarked ==
  \A e \in Execs :
    rows[e].state = "exited" /\ ~rows[e].truncated => HasGap(e) \/ Complete(e)

\* So it is, whatever breaks or dies, unless a stream has ended early, a write of
\* the gap has failed, or the log has no room for one.
LossIsMarkedIfRoom ==
  spent.eofs = 0 /\ spent.disk = 0 =>
    \A e \in Execs :
      rows[e].state = "exited" /\ ~rows[e].truncated =>
        HasGap(e) \/ Complete(e) \/ ~Fits(e, Gap)

\* A stream that sent the exit event has sent all the log there will ever be.
ExitMeansAll ==
  \A r \in Readers : ReaderAt(r, "done") =>
    /\ rows[readers[r].exec].state \in Ends
    /\ readers[r].seen = Len(Entries(readers[r].exec))

\* A stream asleep on an open channel has missed nothing: whatever was written or
\* has exited since it looked, a Notify is still to come.
NoLostWakeup ==
  \A r \in Readers : ReaderAt(r, "sleep") /\ r \in waiting =>
    LET e == readers[r].exec IN
    /\ readers[r].seen = Len(Entries(e)) \/ job[e].pc \in {"notify", "breakNotify"}
    /\ rows[e].state = "exited" => At(e, "announce")

\* Goroutines run, the daemon boots, a daemon told to stop does within its timeout,
\* and heartbeats tick.  Commands need not come to an end.
Fairness ==
  /\ \A e \in Execs : WF_vars(Work(e))
  /\ \A r \in Readers : WF_vars(Stream(r))
  /\ WF_vars(Boot) /\ WF_vars(Exit)

FairSpec == Spec /\ Fairness

\* An exec whose process has come to its end is recorded as ended, across deaths
\* and shutdowns of the daemon: somebody always learns of it.
EveryExecEnds ==
  \A e \in Execs :
    rows[e].state = "running" /\ proc[e].status \in {"exited", "lost"}
      ~> rows[e].state \in Ends

\* A stream of an exec that has ended gets its exit event, woken or not, unless its
\* client hangs up or the daemon dies.
EveryStreamEnds ==
  \A r \in Readers :
    readers[r].pc \notin {"idle", "done"} /\ rows[readers[r].exec].state \in Ends
      ~> readers[r].pc \in {"idle", "done"}
===============================================================================
