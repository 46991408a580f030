------------------------------ MODULE ExecProofs ------------------------------
(***************************************************************************)
(* Proofs about the exec service: types; who is in charge of an exec; that *)
(* an exec ends once and is not written to afterwards (the refinement of   *)
(* ExecLife); that its row tells the truth; that none is stranded and none *)
(* loses output unmarked; and that no stream of its output leaves early or *)
(* sleeps through a record.                                                *)
(***************************************************************************)
EXTENDS ExecService, TLAPS

-------------------------------------------------------------------------------
(* Types                                                                     *)

USE DEF At, Goto, Stop, Ends

\* Nothing is registered at first.
LEMMA TypeInit == Init => TypeOK
  BY ExecBoundsAssumption DEF Init, TypeOK, AbsentRow, Row, Process, LogFile, Frames,
     NoJob, Job, Creating, Supervising, Reader

Steps == Creating \cup Supervising \cup {"none", "poll", "finish", "announce"}

\* What is known of one exec.
LEMMA Members ==
  ASSUME TypeOK, NEW e \in Execs
  PROVE  /\ rows[e] \in Row /\ proc[e] \in Process
         /\ files[e] \in LogFile /\ job[e] \in Job
  BY DEF TypeOK

\* Records of goroutines with some fields set anew.
LEMMA JobRecords ==
  /\ \A j \in Job : [j EXCEPT !.dead = TRUE] \in Job
  /\ \A j \in Job : [j EXCEPT !.pc = "record", !.handle = TRUE] \in Job
  /\ \A j \in Job, b \in BOOLEAN : [j EXCEPT !.pc = "poll", !.cut = b] \in Job
  /\ \A j \in Job, end \in Ends, b \in BOOLEAN :
       [j EXCEPT !.pc = "finish", !.end = end, !.cut = b] \in Job
  BY DEF Job, Creating, Supervising

\* Moving on, giving up and finishing keep the type of the goroutines.
LEMMA JobTypes ==
  ASSUME TypeOK, NEW e \in Execs
  PROVE  /\ \A pc \in Steps : Goto(e, pc) => job' \in [Execs -> Job]
         /\ Stop(e) => job' \in [Execs -> Job]
         /\ \A end \in Ends : FinishAs(e, end) => job' \in [Execs -> Job]
<1>1. job \in [Execs -> Job] /\ NoJob \in Job
  BY ExecBoundsAssumption DEF TypeOK, NoJob, Job
<1>2. ASSUME NEW pc \in Steps, Goto(e, pc) PROVE job' \in [Execs -> Job]
  <2>1. [job[e] EXCEPT !.pc = pc] \in Job BY <1>1 DEF Job, Steps
  <2>2. job' = [job EXCEPT ![e] = [job[e] EXCEPT !.pc = pc]] BY <1>2
  <2> QED BY <1>1, <2>1, <2>2
<1>3. ASSUME Stop(e) PROVE job' \in [Execs -> Job]
  BY <1>1, <1>3
<1>4. ASSUME NEW end \in Ends, FinishAs(e, end) PROVE job' \in [Execs -> Job]
  <2>1. [job[e] EXCEPT !.pc = "finish", !.end = end] \in Job BY <1>1 DEF Job
  <2>2. job' = [job EXCEPT ![e] = [job[e] EXCEPT !.pc = "finish", !.end = end]]
    BY <1>4 DEF FinishAs
  <2> QED BY <1>1, <2>1, <2>2
<1> QED BY <1>2, <1>3, <1>4

\* The counts of the bounds only grow.
LEMMA SpentTypes ==
  ASSUME TypeOK,
         SpendFault \/ SpendDisk \/ SpendBoth \/ SpendCrash \/ \E e \in Execs : Cancel(e)
  PROVE  spent' \in [faults : Nat, eofs : Nat, disk : Nat, cancels : Nat, crashes : Nat]
<1>1. spent \in [faults : Nat, eofs : Nat, disk : Nat, cancels : Nat, crashes : Nat]
  BY DEF TypeOK
<1>2. CASE SpendBoth
  <2>1. spent.faults + 1 \in Nat /\ spent.disk + 1 \in Nat BY <1>1
  <2>2. spent' = [spent EXCEPT !.faults = spent.faults + 1, !.disk = spent.disk + 1]
    BY <1>2 DEF SpendBoth
  <2> QED BY <1>1, <2>1, <2>2
<1>3. CASE SpendFault \/ SpendDisk \/ SpendCrash \/ \E e \in Execs : Cancel(e)
  BY <1>1, <1>3 DEF SpendFault, SpendDisk, SpendCrash, Cancel
<1> QED BY <1>2, <1>3

\* A record keeps the type of the logs.
LEMMA WriteTypes ==
  ASSUME TypeOK, NEW e \in Execs, NEW frame \in Frames, Write(e, frame)
  PROVE  files' \in [Execs -> LogFile]
<1>1. files[e].entries \in Seq(Frames) /\ files[e].size \in Nat
  BY DEF TypeOK, LogFile
<1>2. Append(files[e].entries, frame) \in Seq(Frames) /\ files[e].size + Size(frame) \in Nat
  BY <1>1 DEF Size
<1> QED BY <1>2 DEF Write, TypeOK, LogFile

\* A write that stops short keeps it too, and all the records of all the logs.
LEMMA CutShortKeeps ==
  ASSUME TypeOK, NEW e \in Execs, CutShort(e)
  PROVE  /\ files' \in [Execs -> LogFile]
         /\ \A d \in Execs : files'[d].entries = files[d].entries
                            /\ files'[d].size = files[d].size
                            /\ (d # e => files'[d] = files[d])
<1>1. files \in [Execs -> LogFile] BY DEF TypeOK
<1>2. PICK torn \in BOOLEAN : files' = [files EXCEPT ![e].torn = torn] BY DEF CutShort
<1>3. files[e] \in LogFile BY <1>1
<1>4. /\ [files[e] EXCEPT !.torn = torn] \in LogFile
      /\ [files[e] EXCEPT !.torn = torn].entries = files[e].entries
      /\ [files[e] EXCEPT !.torn = torn].size = files[e].size
  BY <1>3 DEF LogFile
<1>5. files' = [files EXCEPT ![e] = [files[e] EXCEPT !.torn = torn]] BY <1>2
<1> QED BY <1>1, <1>4, <1>5

\* A log that is left as it is can be seen as one whose torn end is written anew.
LEMMA LeftAsItIs ==
  ASSUME TypeOK, NEW e \in Execs, UNCHANGED files
  PROVE  CutShort(e)
<1>1. files \in [Execs -> LogFile] /\ files[e] \in LogFile BY DEF TypeOK
<1>2. files[e].torn \in BOOLEAN /\ [files[e] EXCEPT !.torn = files[e].torn] = files[e]
  BY <1>1 DEF LogFile
<1>3. files = [files EXCEPT ![e] = files[e]] BY <1>1
<1>4. files' = [files EXCEPT ![e].torn = files[e].torn] BY <1>2, <1>3
<1> QED BY <1>2, <1>4 DEF CutShort

\* The gap lands in the log, or the log keeps its records.
LEMMA GapOutcome ==
  ASSUME TypeOK, NEW e \in Execs
  PROVE  /\ GapLands(e) => (Fits(e, Gap) /\ Write(e, Gap)) \/ (~Fits(e, Gap) /\ CutShort(e))
         /\ GapFails(e) => CutShort(e)
<1>1. ASSUME GapLands(e), ~Fits(e, Gap) PROVE CutShort(e)
  BY <1>1 DEF GapLands, CutShort
<1>2. ASSUME GapLands(e), Fits(e, Gap) PROVE Write(e, Gap)
  BY <1>2 DEF GapLands
<1>3. GapFails(e) => CutShort(e) BY LeftAsItIs DEF GapFails
<1> QED BY <1>1, <1>2, <1>3

\* So it is with each exec that Reconcile comes to.
LEMMA ReconcileOutcome ==
  ASSUME TypeOK, NEW e \in Execs, Reconcile(e)
  PROVE  /\ (Fits(e, Gap) /\ Write(e, Gap)) \/ CutShort(e)
         /\ \/ (Fits(e, Gap) /\ Write(e, Gap)) \/ (~Fits(e, Gap) /\ CutShort(e))
            \/ SpendDisk \/ SpendBoth
<1>1. AppendGap(e) \/ (GapLands(e) /\ SpendFault) \/ (GapFails(e) /\ SpendBoth)
  BY DEF Reconcile, ReconcileRunning, ReconcileOver, ReconcileUnknown
<1>2. GapLands(e) \/ (GapFails(e) /\ (SpendDisk \/ SpendBoth))
  BY <1>1 DEF AppendGap
<1> QED BY <1>2, GapOutcome

\* The steps of the request that creates an exec.
LEMMA CreateTypes ==
  ASSUME TypeOK, NEW e \in Execs,
         \/ CreateArrives(e) \/ Cancel(e)
         \/ InsertRow(e) \/ InsertFails(e) \/ StartExec(e) \/ StartFails(e)
         \/ RecordHandle(e) \/ RecordFails(e) \/ MarkFailed(e)
  PROVE  TypeOK'
<1> USE JobTypes, SpentTypes DEF TypeOK
<1> USE DEF Steps, Creating, Supervising
<1>1. CASE CreateArrives(e) BY <1>1 DEF CreateArrives, Creating
<1>2. CASE Cancel(e)
  <2>1. [job[e] EXCEPT !.dead = TRUE] \in Job
    BY Members, JobRecords
  <2>2. job' = [job EXCEPT ![e] = [job[e] EXCEPT !.dead = TRUE]] BY <1>2 DEF Cancel
  <2> QED BY <1>2, <2>1, <2>2 DEF Cancel
<1>3. CASE InsertRow(e) BY <1>3 DEF InsertRow, Creating, RunningRow, AbsentRow, Row
<1>4. CASE InsertFails(e) BY <1>4 DEF InsertFails
<1>5. CASE StartExec(e)
  <2>1. proc' \in [Execs -> Process] BY <1>5 DEF StartExec, Process
  <2>2. [job[e] EXCEPT !.pc = "record", !.handle = TRUE] \in Job
    BY Members, JobRecords
  <2>3. job' \in [Execs -> Job] BY <1>5, <2>2 DEF StartExec
  <2> QED BY <1>5, <2>1, <2>3 DEF StartExec
<1>6. CASE StartFails(e) BY <1>6 DEF StartFails, Creating
<1>7. CASE RecordHandle(e)
  <2>1. [rows[e] EXCEPT !.handle = TRUE] \in Row
    BY Members DEF Row
  <2>2. rows' \in [Execs -> Row] /\ Goto(e, "open")
    BY <1>7, <2>1 DEF RecordHandle
  <2>3. UNCHANGED <<proc, files, readers, waiting, mode, todo, spent>>
    BY <1>7 DEF RecordHandle
  <2>4. job' \in [Execs -> Job] BY <2>2 DEF Supervising
  <2> QED BY <2>2, <2>3, <2>4
<1>8. CASE RecordFails(e) BY <1>8 DEF RecordFails, Creating
<1>9. CASE MarkFailed(e)
  <2>1. job[e].handle \in BOOLEAN BY DEF Job
  <2>2. [rows[e] EXCEPT !.state = "failed", !.handle = job[e].handle] \in Row
    BY <2>1, Members DEF Row
  <2>3. rows' \in [Execs -> Row] BY <1>9, <2>2 DEF MarkFailed
  <2> QED BY <1>9, <2>3 DEF MarkFailed
<1> QED BY <1>1, <1>2, <1>3, <1>4, <1>5, <1>6, <1>7, <1>8, <1>9

\* A frame that is appended, or cut off by the cap.
LEMMA AppendTypes ==
  ASSUME TypeOK, NEW e \in Execs, NEW frame \in Frames, NEW got \in 0 .. MaxFrames,
         NEW next \in Supervising, AppendOrCut(e, frame, got, next)
  PROVE  job' \in [Execs -> Job] /\ files' \in [Execs -> LogFile]
<1>1. job' \in [Execs -> Job] BY DEF TypeOK, AppendOrCut, Job
<1>2. files' \in [Execs -> LogFile] BY WriteTypes DEF AppendOrCut, TypeOK
<1> QED BY <1>1, <1>2

\* The steps of supervisors and pollers.
LEMMA SuperviseTypes ==
  ASSUME TypeOK, NEW e \in Execs,
         \/ OpenLog(e) \/ Recv(e) \/ RecvAppendFails(e) \/ RecvOversize(e)
         \/ RecvBreaks(e) \/ RecvEOF(e) \/ RecvEarlyEOF(e) \/ NotifyRecord(e) \/ WaitExit(e) \/ Finish(e) \/ Announce(e)
         \/ Poll(e) \/ PollStops(e)
  PROVE  TypeOK'
<1> USE JobTypes, SpentTypes DEF TypeOK
<1> USE DEF Steps, Supervising
<1>1. CASE OpenLog(e) BY <1>1 DEF OpenLog
<1>2. /\ 0 \in Frames
      /\ job[e].got < proc[e].made => job[e].got + 1 \in Frames
      /\ job[e].got \in 0 .. MaxFrames
  BY ExecBoundsAssumption DEF Frames, Job, Process
<1>3. CASE Recv(e)
  <2>1. job' \in [Execs -> Job] /\ files' \in [Execs -> LogFile]
    BY <1>2, <1>3, AppendTypes DEF Recv, Supervising, Frames
  <2> QED BY <1>3, <2>1 DEF Recv
<1>4. CASE RecvAppendFails(e) \/ RecvOversize(e)
  <2>1. job[e].got + 1 \in 0 .. MaxFrames
    BY <1>2, <1>4 DEF RecvAppendFails, RecvOversize, Frames
  <2>2. [job[e] EXCEPT !.got = job[e].got + 1, !.failed = TRUE, !.pc = "wait"] \in Job
    <3>1. job[e] \in Job BY Members
    <3> QED BY <2>1, <3>1 DEF Job
  <2>3. job' \in [Execs -> Job]
    BY <1>4, <2>2 DEF RecvAppendFails, RecvOversize, DropFrame
  <2>4. files' \in [Execs -> LogFile]
    <3>1. CASE RecvOversize(e) BY <3>1 DEF RecvOversize
    <3>2. CASE RecvAppendFails(e)
      <4>1. CutShort(e) BY <3>2 DEF RecvAppendFails
      <4> QED BY <4>1, CutShortKeeps
    <3> QED BY <1>4, <3>1, <3>2
  <2>5. SpendDisk \/ UNCHANGED spent
    BY <1>4 DEF RecvAppendFails, RecvOversize
  <2>6. UNCHANGED <<rows, proc, readers, waiting, mode, todo>>
    BY <1>4 DEF RecvAppendFails, RecvOversize
  <2> QED BY <2>3, <2>4, <2>5, <2>6
<1>5. CASE RecvBreaks(e)
  <2>1. CASE SpendFault /\ AppendOrCut(e, Gap, job[e].got, "breakNotify")
    <3>1. job' \in [Execs -> Job] /\ files' \in [Execs -> LogFile]
      BY <1>2, <2>1, AppendTypes DEF Supervising, Gap
    <3> QED BY <1>5, <2>1, <3>1 DEF RecvBreaks
  <2>2. CASE /\ SpendBoth /\ CutShort(e)
             /\ job' = [job EXCEPT ![e].failed = TRUE, ![e].pc = "breakNotify"]
    <3>1. [job[e] EXCEPT !.failed = TRUE, !.pc = "breakNotify"] \in Job
      <4>1. job[e] \in Job BY Members
      <4> QED BY <4>1 DEF Job
    <3>2. job' \in [Execs -> Job] BY <2>2, <3>1
    <3>3. files' \in [Execs -> LogFile] BY <2>2, CutShortKeeps
    <3>4. UNCHANGED <<rows, proc, readers, waiting, mode, todo>>
      BY <1>5 DEF RecvBreaks
    <3> QED BY <2>2, <3>2, <3>3, <3>4
  <2> QED BY <1>5, <2>1, <2>2 DEF RecvBreaks
<1>6. CASE RecvEOF(e) BY <1>6 DEF RecvEOF, Supervising
<1>7. CASE RecvEarlyEOF(e)
  <2>1. job' \in [Execs -> Job] BY <1>7 DEF RecvEarlyEOF
  <2> QED BY <1>7, <2>1 DEF RecvEarlyEOF
<1>8. CASE NotifyRecord(e) BY <1>8 DEF NotifyRecord, Notify, Supervising
<1>9. CASE WaitExit(e) BY <1>9 DEF WaitExit
<1>10. CASE Finish(e)
  <2>3. FileSize(e) \in Nat
    <3>1. files[e] \in LogFile OBVIOUS
    <3> QED BY <3>1 DEF LogFile, FileSize
  <2>1. job[e].end \in Ends /\ job[e].cut \in BOOLEAN /\ FileSize(e) \in Nat
    BY <2>3 DEF Job
  <2>2. rows' \in [Execs -> Row] BY <1>10, <2>1 DEF Finish, Row
  <2> QED BY <1>10, <2>2 DEF Finish
<1>11. CASE Announce(e) BY <1>11 DEF Announce, Notify
<1>12. CASE Poll(e) BY <1>12 DEF Poll
<1>13. CASE PollStops(e) BY <1>13 DEF PollStops
<1> QED BY <1>1, <1>3, <1>4, <1>5, <1>6, <1>7, <1>8, <1>9, <1>10, <1>11, <1>12, <1>13

\* The steps of the boot sequence.
LEMMA BootTypes ==
  ASSUME TypeOK, Boot
  PROVE  TypeOK'
<1> USE JobTypes, SpentTypes DEF TypeOK
<1>1. CASE ReconcileList BY <1>1 DEF ReconcileList
<1>2. ASSUME NEW e \in Execs, Reconcile(e) PROVE TypeOK'
  <2>1. files' \in [Execs -> LogFile]
    <3>1. Gap \in Frames BY ExecBoundsAssumption DEF Gap, Frames
    <3> QED BY <1>2, <3>1, ReconcileOutcome, WriteTypes, CutShortKeeps
  <2>2. rows[e].truncated \in BOOLEAN BY DEF Row
  <2>3. spent' \in [faults : Nat, eofs : Nat, disk : Nat, cancels : Nat, crashes : Nat]
    <3>1. SpendFault \/ SpendDisk \/ SpendBoth \/ UNCHANGED spent
      BY <1>2 DEF Reconcile, ReconcileRunning, ReconcileOver, ReconcileUnknown, AppendGap
    <3> QED BY <3>1
  <2>4. job' \in [Execs -> Job] /\ todo' \in SUBSET Execs
    <3>1. CASE ReconcileRunning(e)
      <4>1. [job[e] EXCEPT !.pc = "poll", !.cut = rows[e].truncated] \in Job
        BY <2>2, Members, JobRecords DEF Ends
      <4> QED BY <3>1, <4>1 DEF ReconcileRunning
    <3>2. CASE ReconcileOver(e) BY <2>2, <3>2 DEF ReconcileOver, Job
    <3>3. CASE ReconcileUnknown(e)
      <4>1. [job[e] EXCEPT !.pc = "finish", !.end = "failed", !.cut = rows[e].truncated] \in Job
        BY <2>2, Members, JobRecords DEF Ends
      <4> QED BY <3>3, <4>1 DEF ReconcileUnknown
    <3> QED BY <1>2, <3>1, <3>2, <3>3 DEF Reconcile
  <2>5. UNCHANGED <<rows, proc, readers, waiting, mode>> BY <1>2 DEF Reconcile
  <2> QED BY <2>1, <2>3, <2>4, <2>5
<1>3. CASE Serve BY <1>3 DEF Serve
<1> QED BY <1>1, <1>2, <1>3 DEF Boot

\* The steps of the output streams.
LEMMA ReaderTypes ==
  ASSUME TypeOK, NEW r \in Readers,
         \/ Stream(r) \/ Leave(r)
         \/ \E e \in Execs, from \in 0 .. Cap : Follow(r, e, from)
  PROVE  TypeOK'
<1> USE DEF TypeOK, ReaderAt, ReaderGoto
<1>1. readers[r].exec \in Execs /\ Drained(r) \in Nat
  BY DEF Reader, Drained, Entries, LogFile
<1>2. CASE Arm(r) BY <1>2 DEF Arm, Reader
<1>3. CASE Drain(r) BY <1>1, <1>3 DEF Drain, Reader
<1>4. CASE GetState(r) BY <1>4 DEF GetState, Reader
<1>5. CASE LastDrain(r) BY <1>1, <1>5 DEF LastDrain, Reader
<1>6. CASE Wake(r) BY <1>6 DEF Wake, Reader
<1>7. CASE Heartbeat(r) BY <1>7 DEF Heartbeat, Reader
<1>8. CASE Leave(r) BY <1>8 DEF Leave, Reader
<1>9. ASSUME NEW e \in Execs, NEW from \in 0 .. Cap, Follow(r, e, from) PROVE TypeOK'
  BY <1>9, ExecBoundsAssumption DEF Follow, Reader
<1> QED BY <1>2, <1>3, <1>4, <1>5, <1>6, <1>7, <1>8, <1>9 DEF Stream

\* The end of the daemon leaves all the records, and no log but those being written
\* to is torn by it.
LEMMA DownLogs ==
  ASSUME TypeOK, Down
  PROVE  /\ files' \in [Execs -> LogFile]
         /\ \A d \in Execs : files'[d].entries = files[d].entries
                            /\ files'[d].size = files[d].size
                            /\ (d \notin BeingWritten => files'[d] = files[d])
<1>1. files \in [Execs -> LogFile] BY DEF TypeOK
<1>2. PICK torn \in SUBSET BeingWritten :
        files' = [e \in Execs |->
                    [files[e] EXCEPT !.torn = IF e \in BeingWritten THEN e \in torn ELSE @]]
  BY DEF Down
<1>3. ASSUME NEW d \in Execs
      PROVE  /\ files'[d] \in LogFile
             /\ files'[d].entries = files[d].entries /\ files'[d].size = files[d].size
             /\ (d \notin BeingWritten => files'[d] = files[d])
  <2>1. files[d] \in LogFile BY <1>1
  <2>2. CASE d \in BeingWritten
    <3>1. files'[d] = [files[d] EXCEPT !.torn = d \in torn] BY <1>2, <2>2
    <3>2. (d \in torn) \in BOOLEAN OBVIOUS
    <3> QED BY <2>1, <2>2, <3>1, <3>2 DEF LogFile
  <2>3. CASE d \notin BeingWritten
    <3>1. files'[d] = [files[d] EXCEPT !.torn = files[d].torn] BY <1>2, <2>3
    <3>2. files'[d] = files[d] BY <2>1, <3>1 DEF LogFile
    <3> QED BY <2>1, <3>2
  <2> QED BY <2>2, <2>3
<1>4. files' = [d \in Execs |-> files'[d]] BY <1>2
<1> QED BY <1>3, <1>4

\* The end of the daemon, expected or not.
LEMMA DownTypes ==
  ASSUME TypeOK, Down
  PROVE  /\ job' \in [Execs -> Job] /\ readers' \in [Readers -> Reader]
         /\ waiting' \in SUBSET Readers /\ todo' \in SUBSET Execs
         /\ files' \in [Execs -> LogFile]
         /\ mode' = "listing" /\ UNCHANGED <<rows, proc>>
<1>1. NoJob \in Job BY ExecBoundsAssumption DEF NoJob, Job
<1>2. ASSUME NEW r \in Readers
      PROVE  [readers[r] EXCEPT !.pc = "idle", !.seen = 0] \in Reader
  <2>1. readers[r] \in Reader BY DEF TypeOK
  <2> QED BY <2>1 DEF Reader
<1>3. files' \in [Execs -> LogFile] BY DownLogs
<1>4. readers' \in [Readers -> Reader] BY <1>2 DEF Down
<1> QED BY <1>1, <1>3, <1>4 DEF TypeOK, Down

\* Processes, deaths and shutdowns.
LEMMA WorldTypes ==
  ASSUME TypeOK,
         \/ \E e \in Execs : Produce(e) \/ Exits(e) \/ ContainerGoes(e)
         \/ Crash \/ Shutdown \/ Exit
  PROVE  TypeOK'
<1> USE SpentTypes, DownTypes DEF TypeOK
<1>1. ASSUME NEW e \in Execs, Produce(e) PROVE TypeOK'
  BY <1>1, ExecBoundsAssumption DEF Produce, Process
<1>2. ASSUME NEW e \in Execs, Exits(e) PROVE TypeOK' BY <1>2 DEF Exits, Process
<1>3. ASSUME NEW e \in Execs, ContainerGoes(e) PROVE TypeOK' BY <1>3 DEF ContainerGoes, Process
<1>4. CASE Crash BY <1>4 DEF Crash
<1>5. CASE Shutdown BY <1>5 DEF Shutdown
<1>6. CASE Exit BY <1>6 DEF Exit
<1> QED BY <1>1, <1>2, <1>3, <1>4, <1>5, <1>6

\* Every step keeps the types.
LEMMA TypeStep == TypeOK /\ [Next]_vars => TypeOK'
<1> SUFFICES ASSUME TypeOK, [Next]_vars PROVE TypeOK' OBVIOUS
<1>1. CASE UNCHANGED vars BY <1>1 DEF vars, TypeOK
<1>2. CASE Next
  BY <1>2, CreateTypes, SuperviseTypes, BootTypes, ReaderTypes, WorldTypes DEF Next, Work
<1> QED BY <1>1, <1>2

\* Rows, processes, logs, goroutines and streams keep their types, whatever fails,
\* hangs up or dies.
THEOREM TypeCorrect == Spec => []TypeOK
  BY TypeInit, TypeStep, PTL DEF Spec

-------------------------------------------------------------------------------
(* Who is in charge                                                          *)

\* What is known of an exec from where the goroutine in charge of it stands.  The
\* fourth conjunct is about Reconcile, which acts on a row it listed earlier.
InCharge(e) ==
  /\ At(e, "insert") => rows[e].state = "absent"
  /\ job[e].pc \in {"start", "record", "markFailed", "poll", "finish"} \cup Supervising =>
       rows[e].state = "running"
  /\ rows[e].state = "absent" \/ job[e].pc \in Creating =>
       rows[e].bytes = 0 /\ files[e].size = 0 /\ ~files[e].torn
  /\ e \in todo =>
       /\ mode = "reconciling"
       /\ job[e].pc \in {"none", "finish", "announce"}
       /\ rows[e].state = "running" \/ At(e, "announce")
  /\ mode = "listing" => At(e, "none") /\ e \notin todo
  /\ At(e, "finish") /\ job[e].end = "exited" => proc[e].status # "running"
  /\ rows[e].state = "exited" => proc[e].status # "running"
  /\ rows[e].state \in Ends => rows[e].bytes = FileSize(e)

EInv == TypeOK /\ \A e \in Execs : InCharge(e)

\* Nobody is in charge at first.
LEMMA EInit == Init => EInv
<1> SUFFICES ASSUME Init PROVE EInv OBVIOUS
<1>1. ASSUME NEW e \in Execs PROVE InCharge(e)
  BY DEF Init, InCharge, AbsentRow, NoJob, Supervising, Creating
<1> QED BY <1>1, TypeInit DEF EInv

\* One step of whoever is in charge of an exec.
Acts(e) == CreateArrives(e) \/ Cancel(e) \/ Work(e) \/ Reconcile(e)

\* It leaves the other execs alone.
LEMMA Elsewhere ==
  ASSUME TypeOK, NEW e \in Execs, Acts(e), NEW d \in Execs, d # e
  PROVE  /\ rows'[d] = rows[d] /\ proc'[d] = proc[d]
         /\ files'[d] = files[d] /\ job'[d] = job[d]
         /\ d \in todo' <=> d \in todo
         /\ mode' = mode
<1> USE DEF Write, AppendOrCut, FinishAs
<1>1. /\ rows \in [Execs -> Row] /\ proc \in [Execs -> Process]
      /\ files \in [Execs -> LogFile] /\ job \in [Execs -> Job]
  BY DEF TypeOK
<1>2. CASE CreateArrives(e) \/ Cancel(e) BY <1>1, <1>2 DEF CreateArrives, Cancel
<1>3. CASE InsertRow(e) \/ InsertFails(e) \/ StartExec(e) \/ StartFails(e)
  BY <1>1, <1>3 DEF InsertRow, InsertFails, StartExec, StartFails
<1>4. CASE RecordHandle(e) \/ RecordFails(e) \/ MarkFailed(e)
  BY <1>1, <1>4 DEF RecordHandle, RecordFails, MarkFailed
<1>5. CASE OpenLog(e) \/ Recv(e) \/ RecvOversize(e)
  BY <1>1, <1>5 DEF OpenLog, Recv, RecvOversize, DropFrame
<1>11. CASE RecvAppendFails(e)
  <2>1. files'[d] = files[d] BY <1>11, CutShortKeeps DEF RecvAppendFails
  <2> QED BY <1>1, <1>11, <2>1 DEF RecvAppendFails, DropFrame
<1>6. CASE RecvBreaks(e)
  <2>1. CutShort(e) => files'[d] = files[d] BY CutShortKeeps
  <2> QED BY <1>1, <1>6, <2>1 DEF RecvBreaks
<1>7. CASE RecvEOF(e) \/ RecvEarlyEOF(e) \/ NotifyRecord(e)
  BY <1>1, <1>7 DEF RecvEOF, RecvEarlyEOF, NotifyRecord
<1>8. CASE WaitExit(e) \/ Finish(e) \/ Announce(e)
  BY <1>1, <1>8 DEF WaitExit, Finish, Announce
<1>9. CASE Poll(e) \/ PollStops(e) BY <1>1, <1>9 DEF Poll, PollStops
<1>10. CASE Reconcile(e)
  <2>1. files'[d] = files[d]
    <3>1. CutShort(e) => files'[d] = files[d] BY CutShortKeeps
    <3> QED BY <1>1, <1>10, <3>1, ReconcileOutcome
  <2>2. job'[d] = job[d] /\ (d \in todo' <=> d \in todo)
    BY <1>1, <1>10 DEF Reconcile, ReconcileRunning, ReconcileOver, ReconcileUnknown
  <2> QED BY <1>10, <2>1, <2>2 DEF Reconcile
<1> QED BY <1>2, <1>3, <1>4, <1>5, <1>6, <1>7, <1>8, <1>9, <1>10, <1>11 DEF Acts, Work

\* The request that creates an exec keeps what is known of it.
LEMMA CreateKeeps ==
  ASSUME EInv, NEW e \in Execs,
         \/ CreateArrives(e) \/ Cancel(e)
         \/ InsertRow(e) \/ InsertFails(e) \/ StartExec(e) \/ StartFails(e)
         \/ RecordHandle(e) \/ RecordFails(e) \/ MarkFailed(e)
  PROVE  InCharge(e)'
<1> USE DEF InCharge, EInv, Creating, Supervising
<1>1. /\ rows \in [Execs -> Row] /\ proc \in [Execs -> Process]
      /\ files \in [Execs -> LogFile] /\ job \in [Execs -> Job]
      /\ rows[e].state \in {"absent", "running"} \cup Ends
      /\ InCharge(e)
  BY DEF TypeOK, Row
<1> HIDE DEF EInv
<1>2. CASE CreateArrives(e) BY <1>1, <1>2 DEF CreateArrives
<1>3. CASE Cancel(e) BY <1>1, <1>3 DEF Cancel
<1>4. CASE InsertRow(e) BY <1>1, <1>4 DEF InsertRow, RunningRow, AbsentRow
<1>5. CASE InsertFails(e) BY <1>1, <1>5 DEF InsertFails, NoJob
<1>6. CASE StartExec(e)
  <2>1. /\ job'[e].pc \in {"record", "markFailed"}
        /\ rows' = rows /\ files' = files /\ todo' = todo /\ mode' = mode
    BY <1>1, <1>6 DEF StartExec, Job
  <2> QED BY <1>1, <1>6, <2>1 DEF StartExec
<1>7. CASE StartFails(e) BY <1>1, <1>7 DEF StartFails
<1>8. CASE RecordHandle(e) BY <1>1, <1>8 DEF RecordHandle
<1>9. CASE RecordFails(e) BY <1>1, <1>9 DEF RecordFails
<1>10. CASE MarkFailed(e)
  <2>1. /\ job'[e].pc = "none"
        /\ \/ rows'[e] = rows[e]
           \/ rows'[e].state = "failed" /\ rows'[e].bytes = rows[e].bytes
        /\ files' = files /\ proc' = proc /\ todo' = todo /\ mode' = mode
    BY <1>1, <1>10 DEF MarkFailed, NoJob, Row
  <2>2. /\ rows[e].state = "running" /\ rows[e].bytes = 0
        /\ files[e].size = 0 /\ ~files[e].torn /\ e \notin todo /\ mode # "listing"
    BY <1>1, <1>10 DEF MarkFailed
  <2>3. FileSize(e)' = 0 BY <2>1, <2>2 DEF FileSize
  <2> QED BY <1>1, <2>1, <2>2, <2>3
<1> QED BY <1>2, <1>3, <1>4, <1>5, <1>6, <1>7, <1>8, <1>9, <1>10

\* So do supervisors, pollers and Reconcile.
LEMMA SuperviseKeeps ==
  ASSUME EInv, NEW e \in Execs,
         \/ OpenLog(e) \/ Recv(e) \/ RecvAppendFails(e) \/ RecvOversize(e)
         \/ RecvBreaks(e) \/ RecvEOF(e) \/ RecvEarlyEOF(e) \/ NotifyRecord(e) \/ WaitExit(e) \/ Finish(e) \/ Announce(e)
         \/ Poll(e) \/ PollStops(e) \/ Reconcile(e)
  PROVE  InCharge(e)'
<1> USE DEF InCharge, EInv, Creating, Supervising
<1>1. /\ rows \in [Execs -> Row] /\ proc \in [Execs -> Process]
      /\ files \in [Execs -> LogFile] /\ job \in [Execs -> Job]
      /\ rows[e].state \in {"absent", "running"} \cup Ends
      /\ InCharge(e)
  BY DEF TypeOK, Row
<1> HIDE DEF EInv
<1> USE DEF Write, AppendOrCut, FinishAs
<1>2. CASE OpenLog(e)
  <2>1. /\ At(e, "open")
        /\ Goto(e, "recv") \/ FinishAs(e, "failed")
        /\ rows' = rows /\ files' = files /\ proc' = proc /\ todo' = todo /\ mode' = mode
    BY <1>2 DEF OpenLog
  <2>2. CASE Goto(e, "recv") BY <1>1, <2>1, <2>2 DEF Job
  <2>3. CASE FinishAs(e, "failed") BY <1>1, <2>1, <2>3 DEF Job
  <2> QED BY <2>1, <2>2, <2>3
<1>3. CASE Recv(e)
  <2>1. /\ job'[e].pc = "notify"
        /\ rows' = rows /\ proc' = proc /\ todo' = todo /\ mode' = mode
    BY <1>1, <1>3 DEF Recv, Job
  <2> QED BY <1>1, <1>3, <2>1 DEF Recv
<1>4. CASE RecvAppendFails(e) \/ RecvOversize(e)
  <2>1. /\ At(e, "recv") /\ job'[e].pc = "wait"
        /\ rows' = rows /\ proc' = proc /\ todo' = todo /\ mode' = mode
    BY <1>1, <1>4 DEF RecvAppendFails, RecvOversize, DropFrame, Job
  <2> QED BY <1>1, <2>1
<1>5. CASE RecvBreaks(e)
  <2>1. /\ job'[e].pc = "breakNotify"
        /\ rows' = rows /\ proc' = proc /\ todo' = todo /\ mode' = mode
    BY <1>1, <1>5 DEF RecvBreaks, Job
  <2> QED BY <1>1, <1>5, <2>1 DEF RecvBreaks
<1>6. CASE RecvEOF(e) BY <1>1, <1>6 DEF RecvEOF
<1>7. CASE RecvEarlyEOF(e) BY <1>1, <1>7 DEF RecvEarlyEOF
<1>8. CASE NotifyRecord(e) BY <1>1, <1>8 DEF NotifyRecord
<1>9. CASE WaitExit(e)
  <2>1. /\ job'[e].pc = "finish"
        /\ job'[e].end = "exited" => proc[e].status # "running"
        /\ rows' = rows /\ files' = files /\ proc' = proc /\ todo' = todo /\ mode' = mode
    BY <1>1, <1>9 DEF WaitExit, Job
  <2> QED BY <1>1, <1>9, <2>1 DEF WaitExit
<1>10. CASE Finish(e)
  <2>1. /\ job'[e].pc = "announce"
        /\ \/ rows'[e] = rows[e]
           \/ rows'[e].state = job[e].end /\ rows'[e].bytes = FileSize(e)
        /\ job[e].end \in Ends
        /\ files' = files /\ proc' = proc /\ todo' = todo /\ mode' = mode
    BY <1>1, <1>10 DEF Finish, Job, Row
  <2>2. FileSize(e)' = FileSize(e) BY <2>1 DEF FileSize
  <2> QED BY <1>1, <1>10, <2>1, <2>2 DEF Finish
<1>11. CASE Announce(e) BY <1>1, <1>11 DEF Announce, NoJob, FileSize
<1>12. CASE Poll(e)
  <2>1. /\ job'[e].pc = "finish"
        /\ job'[e].end = "exited" => proc[e].status # "running"
        /\ rows' = rows /\ files' = files /\ proc' = proc /\ todo' = todo /\ mode' = mode
    BY <1>1, <1>12 DEF Poll, Job
  <2> QED BY <1>1, <1>12, <2>1 DEF Poll
<1>13. CASE PollStops(e) BY <1>1, <1>13 DEF PollStops, NoJob
<1>14. CASE Reconcile(e)
  <2>1. /\ rows' = rows /\ proc' = proc /\ mode' = mode /\ mode = "reconciling"
        /\ e \in todo /\ At(e, "none")
    BY <1>14 DEF Reconcile, NextToReconcile
  <2>2. \/ job'[e].pc = "poll" /\ e \notin todo'
        \/ /\ job'[e].pc = "finish" /\ todo' = todo
           /\ job'[e].end = "exited" => proc[e].status # "running"
    <3>1. CASE ReconcileRunning(e) BY <1>1, <3>1 DEF ReconcileRunning
    <3>2. CASE ReconcileOver(e) BY <1>1, <3>2 DEF ReconcileOver
    <3>3. CASE ReconcileUnknown(e) BY <1>1, <3>3 DEF ReconcileUnknown
    <3> QED BY <1>14, <3>1, <3>2, <3>3 DEF Reconcile
  <2> QED BY <1>1, <2>1, <2>2
<1> QED BY <1>2, <1>3, <1>4, <1>5, <1>6, <1>7, <1>8, <1>9, <1>10, <1>11, <1>12, <1>13, <1>14

\* So do boot, processes, deaths and shutdowns, which touch many execs at once.
LEMMA WorldKeeps ==
  ASSUME EInv, NEW d \in Execs,
         \/ ReconcileList \/ Serve \/ Crash \/ Shutdown \/ Exit
         \/ \E e \in Execs : Produce(e) \/ Exits(e) \/ ContainerGoes(e)
         \/ UNCHANGED <<rows, proc, files, job, mode, todo>>
  PROVE  InCharge(d)'
<1> USE DEF InCharge, EInv, Creating, Supervising
<1>1. /\ proc \in [Execs -> Process] /\ InCharge(d)
  BY DEF TypeOK
<1>8. TypeOK OBVIOUS
<1>9. files' = files => FileSize(d)' = FileSize(d) BY DEF FileSize
<1> HIDE DEF EInv
<1>2. CASE ReconcileList BY <1>1, <1>2, <1>9 DEF ReconcileList
<1>3. CASE Serve BY <1>1, <1>3, <1>9 DEF Serve
<1>4. CASE Shutdown BY <1>1, <1>4, <1>9 DEF Shutdown
<1>5. CASE Crash \/ Exit
  <2>1. Down BY <1>5 DEF Crash, Exit
  <2>2. /\ rows' = rows /\ proc' = proc
        /\ job'[d].pc = "none" /\ d \notin todo'
    BY <2>1 DEF Down, NoJob
  <2>3. rows[d].state \in Ends \cup {"absent"} => d \notin BeingWritten
    BY <1>1 DEF BeingWritten, NextToReconcile
  <2>4. rows[d].state \in Ends \cup {"absent"} => files'[d] = files[d]
    BY <1>8, <2>1, <2>3, DownLogs
  <2>5. rows[d].state \in Ends => FileSize(d)' = FileSize(d)
    BY <2>4 DEF FileSize
  <2> QED BY <1>1, <2>2, <2>4, <2>5
<1>6. ASSUME NEW e \in Execs, Produce(e) \/ Exits(e) \/ ContainerGoes(e)
      PROVE  InCharge(d)'
  <2>1. proc[d].status # "running" => proc'[d].status # "running"
    BY <1>1, <1>6 DEF Produce, Exits, ContainerGoes, Process
  <2>2. UNCHANGED <<rows, files, job, mode, todo>>
    BY <1>6 DEF Produce, Exits, ContainerGoes
  <2> QED BY <1>1, <1>9, <2>1, <2>2
<1>7. CASE UNCHANGED <<rows, proc, files, job, mode, todo>>
  BY <1>1, <1>7, <1>9
<1> QED BY <1>2, <1>3, <1>4, <1>5, <1>6, <1>7

\* Streams touch nothing but themselves and the waiters of the broadcaster.
LEMMA StreamsElsewhere ==
  ASSUME NEW r \in Readers,
         \/ Stream(r) \/ Leave(r)
         \/ \E e \in Execs, from \in 0 .. Cap : Follow(r, e, from)
  PROVE  UNCHANGED <<rows, proc, files, job, mode, todo>>
  BY DEF Stream, Leave, Follow, Arm, Drain, GetState, LastDrain, Wake, Heartbeat

\* Every step is one of these kinds.
LEMMA Kinds ==
  ASSUME [Next]_vars
  PROVE  \/ \E e \in Execs : Acts(e)
         \/ ReconcileList \/ Serve \/ Crash \/ Shutdown \/ Exit
         \/ \E e \in Execs : Produce(e) \/ Exits(e) \/ ContainerGoes(e)
         \/ UNCHANGED <<rows, proc, files, job, mode, todo>>
  BY StreamsElsewhere DEF Next, vars, Boot, Acts

\* EInv is inductive: the exec acted upon, and all the others.
LEMMA EStep == EInv /\ [Next]_vars => EInv'
<1> SUFFICES ASSUME EInv, [Next]_vars PROVE EInv' OBVIOUS
<1>1. TypeOK' BY TypeStep DEF EInv
<1>2. ASSUME NEW d \in Execs PROVE InCharge(d)'
  <2>1. ASSUME NEW e \in Execs, Acts(e) PROVE InCharge(d)'
    <3>1. CASE d = e BY <2>1, <3>1, CreateKeeps, SuperviseKeeps DEF Acts, Work
    <3>2. CASE d # e
      <4>1. /\ rows'[d] = rows[d] /\ proc'[d] = proc[d]
            /\ files'[d] = files[d] /\ job'[d] = job[d]
            /\ d \in todo' <=> d \in todo
            /\ mode' = mode
        BY <2>1, <3>2, Elsewhere DEF EInv
      <4>2. InCharge(d) BY DEF EInv
      <4>3. FileSize(d)' = FileSize(d) BY <4>1 DEF FileSize
      <4> QED BY <4>1, <4>2, <4>3 DEF InCharge
    <3> QED BY <3>1, <3>2
  <2> QED BY <2>1, Kinds, WorldKeeps
<1> QED BY <1>1, <1>2 DEF EInv

-------------------------------------------------------------------------------
(* An exec lives once                                                        *)

states == [d \in Execs |-> rows[d].state]
logs   == [d \in Execs |-> files[d].entries]

\* A step of whoever is in charge registers an exec, writes a record to the log of
\* one that runs, ends one that runs, or leaves state and log as they are.
LEMMA ActsOnce ==
  ASSUME EInv, NEW e \in Execs, Acts(e)
  PROVE  \/ rows'[e].state = rows[e].state /\ files'[e].entries = files[e].entries
         \/ /\ rows[e].state = "absent" /\ rows'[e].state = "running"
            /\ files' = files
         \/ /\ rows[e].state = "running" /\ rows' = rows
            /\ \E record \in Frames :
                 files'[e].entries = Append(files[e].entries, record)
         \/ /\ rows[e].state = "running" /\ rows'[e].state \in Ends
            /\ files' = files
<1> DEFINE Goal == \/ rows'[e].state = rows[e].state /\ files'[e].entries = files[e].entries
                   \/ /\ rows[e].state = "absent" /\ rows'[e].state = "running"
                      /\ files' = files
                   \/ /\ rows[e].state = "running" /\ rows' = rows
                      /\ \E record \in Frames :
                           files'[e].entries = Append(files[e].entries, record)
                   \/ /\ rows[e].state = "running" /\ rows'[e].state \in Ends
                      /\ files' = files
<1>1. /\ rows \in [Execs -> Row] /\ proc \in [Execs -> Process]
      /\ files \in [Execs -> LogFile] /\ job \in [Execs -> Job]
      /\ InCharge(e)
  BY DEF EInv, TypeOK
<1>2. ASSUME NEW frame, Write(e, frame)
      PROVE  files'[e].entries = Append(files[e].entries, frame)
  BY <1>1, <1>2 DEF Write
<1>3. Gap \in Frames /\ (job[e].got < proc[e].made => job[e].got + 1 \in Frames)
  BY <1>1, ExecBoundsAssumption DEF Gap, Frames, Job, Process
<1>4. CASE \/ CreateArrives(e) \/ Cancel(e) \/ InsertFails(e) \/ StartExec(e) \/ StartFails(e)
           \/ RecordFails(e)
  <2>1. rows' = rows /\ files' = files
    BY <1>4 DEF CreateArrives, Cancel, InsertFails, StartExec, StartFails, RecordFails
  <2> QED BY <2>1
<1>12. CASE RecordHandle(e)
  <2>1. files' = files /\ rows' = [rows EXCEPT ![e].handle = TRUE]
    BY <1>12 DEF RecordHandle
  <2>2. rows'[e].state = rows[e].state BY <1>1, <2>1 DEF Row
  <2> QED BY <2>1, <2>2
<1>5. CASE InsertRow(e)
  BY <1>1, <1>5 DEF InsertRow, RunningRow, AbsentRow, InCharge
<1>6. CASE MarkFailed(e) BY <1>1, <1>6 DEF MarkFailed, InCharge, Row
<1>7. CASE \/ OpenLog(e) \/ RecvOversize(e) \/ RecvEOF(e) \/ RecvEarlyEOF(e)
           \/ NotifyRecord(e) \/ WaitExit(e) \/ Announce(e) \/ Poll(e) \/ PollStops(e)
  BY <1>7 DEF OpenLog, RecvOversize, RecvEOF, RecvEarlyEOF, NotifyRecord, WaitExit,
     Announce, Poll, PollStops
<1>13. CutShort(e) => files'[e].entries = files[e].entries
  BY CutShortKeeps DEF EInv
<1>14. CASE RecvAppendFails(e)
  BY <1>13, <1>14 DEF RecvAppendFails
<1>8. CASE Recv(e)
  <2>1. rows[e].state = "running" BY <1>1, <1>8 DEF Recv, InCharge, Supervising
  <2>2. rows' = rows /\ (Write(e, job[e].got + 1) \/ UNCHANGED files)
    BY <1>8 DEF Recv, AppendOrCut
  <2> QED BY <1>2, <1>3, <1>8, <2>1, <2>2 DEF Recv
<1>9. CASE RecvBreaks(e)
  <2>1. rows[e].state = "running" BY <1>1, <1>9 DEF RecvBreaks, InCharge, Supervising
  <2>2. rows' = rows /\ (Write(e, Gap) \/ CutShort(e) \/ UNCHANGED files)
    BY <1>9 DEF RecvBreaks, AppendOrCut
  <2> QED BY <1>2, <1>3, <1>13, <2>1, <2>2
<1>10. CASE Finish(e)
  <2>1. rows[e].state = "running" /\ job[e].end \in Ends
    BY <1>1, <1>10 DEF Finish, InCharge, Job
  <2> QED BY <1>1, <1>10, <2>1 DEF Finish, Row
<1>11. CASE Reconcile(e)
  <2>1. rows[e].state = "running" /\ rows' = rows
    BY <1>1, <1>11 DEF Reconcile, NextToReconcile, InCharge
  <2>2. Write(e, Gap) \/ CutShort(e)
    BY <1>11, ReconcileOutcome DEF EInv
  <2> QED BY <1>2, <1>3, <1>13, <2>1, <2>2
<1> QED BY <1>4, <1>5, <1>6, <1>7, <1>8, <1>9, <1>10, <1>11, <1>12, <1>14 DEF Acts, Work

\* Such a step is one of ExecLife.
LEMMA ActsAsLife ==
  ASSUME EInv, NEW e \in Execs, Acts(e)
  PROVE  Life!Next \/ (states' = states /\ logs' = logs)
<1>1. \A d \in Execs : d # e =>
        rows'[d].state = rows[d].state /\ files'[d].entries = files[d].entries
  BY Elsewhere DEF EInv
<1>2. states[e] = rows[e].state /\ states'[e] = rows'[e].state
      /\ logs[e] = files[e].entries /\ logs'[e] = files'[e].entries
  BY DEF states, logs
<1>3. CASE rows'[e].state = rows[e].state /\ files'[e].entries = files[e].entries
  BY <1>1, <1>3 DEF states, logs
<1>4. CASE rows[e].state = "absent" /\ rows'[e].state = "running" /\ files' = files
  <2>1. logs' = logs BY <1>4 DEF logs
  <2>2. states' = [states EXCEPT ![e] = "running"] BY <1>1, <1>4 DEF states
  <2> QED BY <1>4, <1>2, <2>1, <2>2 DEF Life!Next, Life!Register, states, logs
<1>5. ASSUME NEW record \in Frames, rows[e].state = "running", rows' = rows,
             files'[e].entries = Append(files[e].entries, record)
      PROVE  Life!Next
  <2>1. states' = states BY <1>5 DEF states
  <2>2. logs' = [logs EXCEPT ![e] = Append(@, record)] BY <1>1, <1>5 DEF logs
  <2> QED BY <1>5, <1>2, <2>1, <2>2 DEF Life!Next, Life!Write, states, logs
<1>6. CASE rows[e].state = "running" /\ rows'[e].state \in Ends /\ files' = files
  <2>1. logs' = logs BY <1>6 DEF logs
  <2>2. states' = [states EXCEPT ![e] = rows'[e].state] BY <1>1 DEF states
  <2> QED BY <1>6, <1>2, <2>1, <2>2 DEF Life!Next, Life!End, Life!Ends, states, logs
<1> QED BY <1>3, <1>4, <1>5, <1>6, ActsOnce

\* Nothing is registered at first.
LEMMA LifeInit == Init => Life!Init
  BY DEF Init, Life!Init, AbsentRow

\* Every step is one of ExecLife or changes neither states nor logs.
LEMMA LifeStep == EInv /\ [Next]_vars => [Life!Next]_<<states, logs>>
<1> SUFFICES ASSUME EInv, [Next]_vars PROVE [Life!Next]_<<states, logs>> OBVIOUS
<1>1. ASSUME NEW e \in Execs, Acts(e) PROVE [Life!Next]_<<states, logs>>
  BY <1>1, ActsAsLife
<1>2. CASE rows' = rows /\ files' = files BY <1>2 DEF states, logs
<1>3. CASE Crash \/ Exit
  <2>1. Down BY <1>3 DEF Crash, Exit
  <2>2. \A d \in Execs : files'[d].entries = files[d].entries
    BY <2>1, DownLogs DEF EInv
  <2>3. rows' = rows BY <2>1 DEF Down
  <2> QED BY <2>2, <2>3 DEF states, logs
<1> QED BY <1>1, <1>2, <1>3, Kinds DEF ReconcileList, Serve, Shutdown, Produce, Exits,
       ContainerGoes

\* Supervisors, pollers, Reconcile and markFailed end an exec once between them, and
\* none writes to the log of one that has ended: the service implements ExecLife.
THEOREM LivesOnceHolds == Spec => LivesOnce
<1>1. EInv /\ [Next]_vars => [Life!Next]_<<[e \in Execs |-> rows[e].state],
                                          [e \in Execs |-> files[e].entries]>>
  BY LifeStep DEF states, logs
<1> QED BY <1>1, LifeInit, EInit, EStep, PTL DEF Spec, LivesOnce, Life!Spec

-------------------------------------------------------------------------------
(* Who attends to an exec, where its output goes, what its streams rely on  *)

\* Unless a caller has hung up or the database has failed: a running exec that
\* nobody is in charge of will be listed at boot, is listed, or was left behind by
\* a daemon that is going down.
Attended(e) ==
  spent.cancels = 0 /\ spent.disk = 0 =>
    /\ ~job[e].dead
    /\ At(e, "announce") => rows[e].state \in Ends
    /\ rows[e].state = "running" /\ At(e, "none") =>
         mode \in {"listing", "stopping"} \/ e \in todo

Notifying(e) == job[e].pc \in {"notify", "breakNotify"}

\* What a stream can rely on at each of its steps.
Following(r) ==
  LET e == readers[r].exec IN
  /\ ~ReaderAt(r, "idle") => rows[e].state # "absent" /\ mode \in {"serving", "stopping"}
  /\ readers[r].pc \in {"last", "done"} => rows[e].state \in Ends
  /\ ReaderAt(r, "done") => readers[r].seen = Len(Entries(e))
  /\ r \in waiting /\ readers[r].pc \in {"get", "sleep"} =>
       readers[r].seen = Len(Entries(e)) \/ Notifying(e)
  /\ r \in waiting /\ ReaderAt(r, "sleep") /\ rows[e].state = "exited" => At(e, "announce")

\* The log holds what was received, and nothing else.
Received(e) == Entries(e) = [i \in 1 .. job[e].got |-> i]

Explained(e) == HasGap(e) \/ Complete(e) \/ ~Fits(e, Gap)

\* How the output of an exec is accounted for from its start to its end, unless a
\* stream has ended early or a write has failed.
Accounted(e) ==
  /\ job[e].pc \in Creating \cup {"none"} => job[e].got = 0
  /\ rows[e].state = "absent" \/ job[e].pc \in Creating => Entries(e) = <<>>
  /\ spent.eofs = 0 /\ spent.disk = 0 =>
       /\ job[e].pc \in {"open", "recv", "notify"} /\ ~job[e].cut => Received(e)
       /\ At(e, "breakNotify") /\ ~job[e].cut => HasGap(e)
       /\ At(e, "wait") /\ ~job[e].cut /\ ~job[e].failed =>
            HasGap(e) \/ (Complete(e) /\ proc[e].status # "running")
       /\ At(e, "finish") /\ job[e].end = "exited" /\ ~job[e].cut => Explained(e)
       /\ At(e, "poll") => HasGap(e) \/ ~Fits(e, Gap)
       /\ rows[e].state = "exited" /\ ~rows[e].truncated => Explained(e)

\* Unless a write has failed: the log of an exec that ends within its part of a
\* record was torn by the end of the daemon, and Reconcile is still to come to it.
Whole(e) ==
  spent.disk = 0 /\ files[e].torn =>
    /\ rows[e].state = "running" /\ At(e, "none")
    /\ mode = "listing" \/ e \in todo

XInv ==
  /\ \A e \in Execs : Attended(e) /\ Accounted(e) /\ Whole(e)
  /\ \A r \in Readers : Following(r)

-------------------------------------------------------------------------------
(* What has happened cannot be undone                                        *)

LEMMA DiskCounts ==
  ASSUME TypeOK, SpendDisk \/ SpendBoth
  PROVE  spent'.disk # 0
<1>1. spent \in [faults : Nat, eofs : Nat, disk : Nat, cancels : Nat, crashes : Nat]
  BY DEF TypeOK
<1>2. spent'.disk = spent.disk + 1
  BY <1>1 DEF SpendDisk, SpendBoth
<1>. QED  BY <1>1, <1>2

LEMMA SpentGrows ==
  ASSUME TypeOK, [Next]_vars
  PROVE  /\ spent'.cancels = 0 => spent.cancels = 0
         /\ spent'.disk = 0 => spent.disk = 0
         /\ spent'.eofs = 0 => spent.eofs = 0
<1>. DEFINE Grows == /\ spent'.cancels = 0 => spent.cancels = 0
                     /\ spent'.disk = 0 => spent.disk = 0
                     /\ spent'.eofs = 0 => spent.eofs = 0
<1>1. spent \in [faults : Nat, eofs : Nat, disk : Nat, cancels : Nat, crashes : Nat]
  BY DEF TypeOK
<1>2. CASE UNCHANGED spent
  BY <1>2
<1>3. CASE SpendFault \/ SpendDisk \/ SpendBoth \/ SpendCrash
  <2>1. CASE SpendBoth
    <3>1. spent'.disk = spent.disk + 1 /\ spent'.eofs = spent.eofs
            /\ spent'.cancels = spent.cancels
      BY <1>1, <2>1 DEF SpendBoth
    <3>. QED  BY <1>1, <3>1
  <2>2. CASE SpendFault \/ SpendDisk \/ SpendCrash
    BY <1>1, <2>2 DEF SpendFault, SpendDisk, SpendCrash
  <2>. QED  BY <1>3, <2>1, <2>2
<1>4. CASE \E e \in Execs : Cancel(e)
  BY <1>1, <1>4 DEF Cancel
<1>5. CASE \E e \in Execs : RecvEarlyEOF(e)
  BY <1>1, <1>5 DEF RecvEarlyEOF
<1>6. CASE \E e \in Execs : RecvBreaks(e)
  BY <1>3, <1>6 DEF RecvBreaks
<1>7. CASE \E e \in Execs : Work(e) /\ ~RecvEarlyEOF(e) /\ ~RecvBreaks(e)
  BY <1>2, <1>3, <1>7 DEF Work, InsertRow, InsertFails, StartExec, StartFails,
     RecordHandle, RecordFails, MarkFailed, OpenLog, Recv, RecvAppendFails,
     RecvOversize, RecvEOF, NotifyRecord, WaitExit, Finish, Announce, Poll, PollStops
<1>8. CASE Boot
  BY <1>2, <1>3, <1>8 DEF Boot, ReconcileList, Serve, Reconcile, ReconcileRunning,
     ReconcileOver, ReconcileUnknown, AppendGap
<1>9. CASE ~((\E e \in Execs : Work(e) \/ Cancel(e)) \/ Boot)
  BY <1>2, <1>3, <1>9 DEF Next, vars, CreateArrives, Stream, Arm, Drain, GetState,
     LastDrain, Wake, Heartbeat, Leave, Follow, Produce, Exits, ContainerGoes, Crash,
     Shutdown, Exit
<1>. QED  BY <1>4, <1>5, <1>6, <1>7, <1>8, <1>9 DEF Next

-------------------------------------------------------------------------------
(* Nobody is stranded                                                        *)

\* The step of whoever is in charge of an exec.
LEMMA ActsAttended ==
  ASSUME EInv, NEW e \in Execs, Acts(e), Attended(e), ~SpendDisk, ~Cancel(e),
         spent.cancels = 0, spent.disk = 0
  PROVE  Attended(e)'
<1>. USE DEF Attended, InCharge, Creating, Supervising
<1>1. /\ rows \in [Execs -> Row] /\ proc \in [Execs -> Process]
      /\ files \in [Execs -> LogFile] /\ job \in [Execs -> Job]
      /\ rows[e].state \in {"absent", "running"} \cup Ends
      /\ InCharge(e) /\ ~job[e].dead
      /\ spent \in [faults : Nat, eofs : Nat, disk : Nat, cancels : Nat, crashes : Nat]
      /\ rows[e].state = "running" /\ At(e, "none") =>
           mode \in {"listing", "stopping"} \/ e \in todo
      /\ At(e, "announce") => rows[e].state \in Ends
  BY DEF EInv, TypeOK, Row
<1>2. ASSUME job'[e].pc \notin {"none", "announce"}, ~job'[e].dead
      PROVE  Attended(e)'
  BY <1>2
<1>3. ASSUME NEW pc, Goto(e, pc), pc \notin {"none", "announce"}
      PROVE  Attended(e)'
  BY <1>1, <1>2, <1>3 DEF Job
<1>4. ASSUME NEW end, FinishAs(e, end)
      PROVE  Attended(e)'
  BY <1>1, <1>2, <1>4 DEF FinishAs, Job
<1>5. CASE CreateArrives(e) \/ StartFails(e) \/ RecordFails(e) \/ RecvEOF(e) \/ RecvEarlyEOF(e)
  BY <1>3, <1>5 DEF CreateArrives, StartFails, RecordFails, RecvEOF, RecvEarlyEOF
<1>6. CASE InsertRow(e) \/ RecordHandle(e)
  BY <1>3, <1>6 DEF InsertRow, RecordHandle
<1>7. CASE InsertFails(e)
  BY <1>1, <1>7 DEF InsertFails, NoJob
<1>8. CASE StartExec(e)
  BY <1>1, <1>2, <1>3, <1>8 DEF StartExec, Job
<1>9. CASE MarkFailed(e)
  <2>1. rows' = [rows EXCEPT ![e].state = "failed", ![e].handle = job[e].handle]
          /\ job' = [job EXCEPT ![e] = NoJob]
    BY <1>1, <1>9 DEF MarkFailed
  <2>2. rows'[e].state = "failed" /\ job'[e] = NoJob
    BY <1>1, <2>1 DEF Row
  <2>. QED  BY <2>2 DEF NoJob
<1>10. CASE OpenLog(e)
  BY <1>3, <1>10 DEF OpenLog
<1>11. CASE Recv(e)
  BY <1>1, <1>2, <1>11 DEF Recv, AppendOrCut, Job
<1>12. CASE RecvAppendFails(e) \/ RecvOversize(e)
  BY <1>1, <1>2, <1>12 DEF RecvAppendFails, RecvOversize, DropFrame, Job
<1>13. CASE RecvBreaks(e)
  BY <1>1, <1>2, <1>13 DEF RecvBreaks, AppendOrCut, Job
<1>14. CASE NotifyRecord(e)
  BY <1>3, <1>14 DEF NotifyRecord
<1>15. CASE WaitExit(e) \/ Poll(e)
  BY <1>4, <1>15 DEF WaitExit, Poll
<1>16. CASE Finish(e)
  <2>1. rows'[e].state = job[e].end /\ job[e].end \in Ends /\ job' = [job EXCEPT ![e].pc = "announce"]
    BY <1>1, <1>16 DEF Finish, Row, Job
  <2>2. job'[e].pc = "announce" /\ ~job'[e].dead
    BY <1>1, <2>1 DEF Job
  <2>. QED  BY <2>1, <2>2
<1>17. CASE Announce(e)
  BY <1>1, <1>17 DEF Announce, NoJob
<1>18. CASE PollStops(e)
  BY <1>1, <1>18 DEF PollStops, NoJob
<1>19. CASE Reconcile(e)
  <2>1. job'[e].pc \in {"poll", "finish"} /\ ~job'[e].dead
    <3>1. CASE ReconcileRunning(e) BY <1>1, <3>1 DEF ReconcileRunning, Job
    <3>2. CASE ReconcileOver(e) BY <1>1, <3>2 DEF ReconcileOver, Job
    <3>3. CASE ReconcileUnknown(e) BY <1>1, <3>3 DEF ReconcileUnknown, Job
    <3>. QED  BY <1>19, <3>1, <3>2, <3>3 DEF Reconcile
  <2>. QED  BY <1>2, <2>1
<1>. QED  BY <1>5, <1>6, <1>7, <1>8, <1>9, <1>10, <1>11, <1>12, <1>13, <1>14, <1>15,
             <1>16, <1>17, <1>18, <1>19 DEF Acts, Work

LEMMA StepAttended ==
  ASSUME EInv, [Next]_vars, NEW d \in Execs, Attended(d)
  PROVE  Attended(d)'
<1>. SUFFICES ASSUME spent'.cancels = 0, spent'.disk = 0
              PROVE  Attended(d)'
  BY DEF Attended
<1>1. TypeOK /\ spent.cancels = 0 /\ spent.disk = 0 /\ ~SpendDisk /\ InCharge(d)
  BY SpentGrows, DiskCounts DEF EInv
<1>2. \A e \in Execs : ~Cancel(e)
  BY <1>1 DEF Cancel, TypeOK
<1>3. ASSUME NEW e \in Execs, Acts(e)
      PROVE  Attended(d)'
  <2>1. CASE d = e
    BY <1>1, <1>2, <1>3, <2>1, ActsAttended
  <2>2. CASE d # e
    <3>1. rows'[d] = rows[d] /\ job'[d] = job[d] /\ (d \in todo' <=> d \in todo) /\ mode' = mode
      BY <1>1, <1>3, <2>2, Elsewhere
    <3>. QED  BY <1>1, <3>1 DEF Attended
  <2>. QED  BY <2>1, <2>2
<1>4. CASE ReconcileList
  <2>1. /\ mode = "listing" /\ todo' = {e \in Execs : rows[e].state = "running"}
        /\ UNCHANGED <<rows, job>>
    BY <1>1, <1>4 DEF ReconcileList
  <2>. QED  BY <1>1, <2>1 DEF Attended
<1>5. CASE Serve
  BY <1>1, <1>5 DEF Serve, Attended
<1>6. CASE Crash \/ Exit
  <2>1. UNCHANGED rows /\ mode' = "listing" /\ job'[d] = NoJob
    BY <1>6 DEF Crash, Exit, Down
  <2>. QED  BY <2>1 DEF Attended, NoJob
<1>7. CASE Shutdown
  BY <1>1, <1>7 DEF Shutdown, Attended
<1>8. CASE UNCHANGED <<rows, job, mode, todo>>
  BY <1>1, <1>8 DEF Attended
<1>. QED  BY <1>3, <1>4, <1>5, <1>6, <1>7, <1>8, Kinds DEF Produce, Exits, ContainerGoes

-------------------------------------------------------------------------------
(* Streams                                                                   *)

\* What a step does to the state and the log of an exec that a stream follows.
LEMMA Outlives ==
  ASSUME EInv, [Next]_vars, NEW e \in Execs
  PROVE  /\ rows[e].state # "absent" => rows'[e].state # "absent"
         /\ rows[e].state \in Ends =>
              rows'[e].state = rows[e].state /\ Entries(e)' = Entries(e)
<1>1. ASSUME NEW d \in Execs, Acts(d)
      PROVE  /\ rows[e].state # "absent" => rows'[e].state # "absent"
             /\ rows[e].state \in Ends =>
                  rows'[e].state = rows[e].state /\ Entries(e)' = Entries(e)
  <2>1. CASE d = e
    BY <1>1, <2>1, ActsOnce DEF Entries
  <2>2. CASE d # e
    BY <1>1, <2>2, Elsewhere DEF EInv, Entries
  <2>. QED  BY <2>1, <2>2
<1>2. CASE UNCHANGED <<rows, files>>
  BY <1>2 DEF Entries
<1>3. CASE Crash \/ Exit
  <2>1. Down
    BY <1>3 DEF Crash, Exit
  <2>2. files'[e].entries = files[e].entries /\ rows' = rows
    BY <2>1, DownLogs DEF EInv, Down
  <2>. QED  BY <2>2 DEF Entries
<1>. QED  BY <1>1, <1>2, <1>3, Kinds DEF ReconcileList, Serve, Shutdown, Produce, Exits,
     ContainerGoes

\* No record is written, and no exec exits, behind the back of a stream: whoever
\* does it has a Notify still to make.
LEMMA ActsNotify ==
  ASSUME EInv, NEW e \in Execs, Acts(e), mode \in {"serving", "stopping"}
  PROVE  /\ Entries(e)' = Entries(e) \/ Notifying(e)'
         /\ rows'[e].state = "exited" => rows[e].state = "exited" \/ job'[e].pc = "announce"
         /\ Notifying(e) => Notifying(e)' \/ Notify(e)
         /\ At(e, "announce") => job'[e].pc = "announce" \/ Notify(e)
         /\ waiting' = waiting \/ Notify(e)
<1>1. /\ rows \in [Execs -> Row] /\ job \in [Execs -> Job]
  BY DEF EInv, TypeOK
<1>2. CASE /\ Entries(e)' = Entries(e) /\ waiting' = waiting
           /\ rows'[e].state \in {rows[e].state, "running", "failed"}
           /\ job[e].pc \notin {"notify", "breakNotify", "announce"}
  BY <1>2 DEF Notifying
<1>3. CASE InsertRow(e)
  <2>1. rows'[e].state = "running"
    BY <1>1, <1>3 DEF InsertRow, RunningRow, AbsentRow
  <2>. QED  BY <1>2, <1>3, <2>1 DEF InsertRow, Entries
<1>4. CASE RecordHandle(e)
  <2>1. rows' = [rows EXCEPT ![e].handle = TRUE]
    BY <1>4 DEF RecordHandle
  <2>2. rows'[e].state = rows[e].state
    BY <1>1, <2>1 DEF Row
  <2>. QED  BY <1>2, <1>4, <2>2 DEF RecordHandle, Entries
<1>5. CASE MarkFailed(e)
  <2>1. rows' = rows \/ rows' = [rows EXCEPT ![e].state = "failed", ![e].handle = job[e].handle]
    BY <1>5 DEF MarkFailed
  <2>2. rows'[e].state \in {rows[e].state, "failed"}
    BY <1>1, <2>1 DEF Row
  <2>. QED  BY <1>2, <1>5, <2>2 DEF MarkFailed, Entries
<1>6. CASE \/ CreateArrives(e) \/ Cancel(e) \/ InsertFails(e) \/ StartExec(e) \/ StartFails(e)
           \/ RecordFails(e) \/ OpenLog(e) \/ RecvOversize(e) \/ RecvEOF(e)
           \/ RecvEarlyEOF(e) \/ WaitExit(e) \/ Poll(e) \/ PollStops(e)
  <2>1. /\ files' = files /\ waiting' = waiting /\ rows' = rows
        /\ job[e].pc \notin {"notify", "breakNotify", "announce"}
    BY <1>6 DEF CreateArrives, Cancel, InsertFails, StartExec, StartFails, RecordFails,
       OpenLog, RecvOversize, RecvEOF, RecvEarlyEOF, WaitExit, Poll, PollStops, Creating
  <2>. QED  BY <1>2, <2>1 DEF Entries
<1>12. CASE RecvAppendFails(e)
  <2>1. CutShort(e) /\ waiting' = waiting /\ rows' = rows /\ job[e].pc = "recv"
    BY <1>12 DEF RecvAppendFails
  <2>2. files'[e].entries = files[e].entries
    BY <2>1, CutShortKeeps DEF EInv
  <2>. QED  BY <1>2, <2>1, <2>2 DEF Entries
<1>7. CASE Recv(e) \/ RecvBreaks(e)
  <2>1. job[e].pc = "recv" /\ rows' = rows /\ waiting' = waiting
    BY <1>7 DEF Recv, RecvBreaks
  <2>2. job'[e].pc \in {"notify", "breakNotify"}
    BY <1>1, <1>7 DEF Recv, RecvBreaks, AppendOrCut, Job
  <2>. QED  BY <2>1, <2>2 DEF Notifying
<1>8. CASE NotifyRecord(e)
  <2>1. files' = files /\ rows' = rows /\ Notify(e)
          /\ job[e].pc \in {"notify", "breakNotify"}
    BY <1>8 DEF NotifyRecord
  <2>. QED  BY <2>1 DEF Entries
<1>9. CASE Finish(e)
  <2>1. files' = files /\ waiting' = waiting /\ job[e].pc = "finish" /\ Goto(e, "announce")
    BY <1>9 DEF Finish
  <2>2. job'[e].pc = "announce"
    BY <1>1, <2>1 DEF Job
  <2>. QED  BY <2>1, <2>2 DEF Entries, Notifying
<1>10. CASE Announce(e)
  <2>1. files' = files /\ rows' = rows /\ Notify(e) /\ job[e].pc = "announce"
    BY <1>10 DEF Announce
  <2>. QED  BY <2>1 DEF Entries, Notifying
<1>11. ~Reconcile(e)
  BY DEF Reconcile, NextToReconcile
<1>. QED  BY <1>3, <1>4, <1>5, <1>6, <1>7, <1>8, <1>9, <1>10, <1>11, <1>12 DEF Acts, Work

\* Whoever is in charge of an exec leaves the streams where they are.
LEMMA ActsBesideStreams ==
  ASSUME NEW e \in Execs, Acts(e)
  PROVE  readers' = readers /\ mode' = mode /\ (waiting' = waiting \/ Notify(e))
BY DEF Acts, Work, CreateArrives, Cancel, InsertRow, InsertFails, StartExec, StartFails,
   RecordHandle, RecordFails, MarkFailed, OpenLog, Recv, RecvAppendFails, RecvOversize,
   RecvBreaks, RecvEOF, RecvEarlyEOF, NotifyRecord, WaitExit, Finish, Announce, Poll, PollStops,
   Reconcile

LEMMA StepFollowing ==
  ASSUME EInv, [Next]_vars, NEW q \in Readers, Following(q)
  PROVE  Following(q)'
<1>. DEFINE x == readers[q].exec
<1>1. /\ readers \in [Readers -> Reader] /\ x \in Execs /\ waiting \subseteq Readers
      /\ TypeOK /\ readers[q] \in Reader
  BY DEF EInv, TypeOK, Reader
<1>2. CASE ReaderAt(q, "idle") /\ readers'[q] = readers[q]
  BY <1>2 DEF Following, ReaderAt
<1>3. ASSUME UNCHANGED <<rows, files, job>>, mode' \in {mode, "stopping"},
             readers'[q] = readers[q], q \in waiting' => q \in waiting
      PROVE  Following(q)'
  BY <1>3 DEF Following, ReaderAt, Entries, Notifying
<1>4. ASSUME NEW e \in Execs, Acts(e)
      PROVE  Following(q)'
  <2>1. readers' = readers /\ (waiting' = waiting \/ Notify(e)) /\ mode' = mode
    BY <1>4, ActsBesideStreams
  <2>2. CASE ReaderAt(q, "idle")
    BY <1>2, <2>1, <2>2
  <2>3. CASE ~ReaderAt(q, "idle") /\ e # x
    <3>1. rows'[x] = rows[x] /\ files'[x] = files[x] /\ job'[x] = job[x]
      BY <1>1, <1>4, <2>3, Elsewhere
    <3>2. q \in waiting' => q \in waiting
      BY <2>1 DEF Notify
    <3>. QED  BY <2>1, <3>1, <3>2 DEF Following, ReaderAt, Entries, Notifying
  <2>4. CASE ~ReaderAt(q, "idle") /\ e = x
    <3>1. mode \in {"serving", "stopping"} /\ rows[e].state # "absent" /\ readers[q].exec = e
      BY <2>4 DEF Following
    <3>2. /\ Entries(e)' = Entries(e) \/ Notifying(e)'
          /\ rows'[e].state = "exited" => rows[e].state = "exited" \/ job'[e].pc = "announce"
          /\ Notifying(e) => Notifying(e)' \/ Notify(e)
          /\ At(e, "announce") => job'[e].pc = "announce" \/ Notify(e)
          /\ waiting' = waiting \/ Notify(e)
      BY <1>4, <3>1, ActsNotify
    <3>3. /\ rows'[e].state # "absent"
          /\ rows[e].state \in Ends =>
               rows'[e].state = rows[e].state /\ Entries(e)' = Entries(e)
      BY <3>1, Outlives
    <3>4. Notify(e) => q \notin waiting'
      BY <3>1 DEF Notify
    <3>5. q \in waiting' => q \in waiting
      BY <3>2 DEF Notify
    <3>6. /\ readers[q].pc \in {"last", "done"} => rows'[e].state \in Ends
          /\ ReaderAt(q, "done") => readers[q].seen = Len(Entries(e)')
      BY <3>1, <3>3 DEF Following, ReaderAt
    <3>7. q \in waiting' /\ readers[q].pc \in {"get", "sleep"} =>
            readers[q].seen = Len(Entries(e)') \/ Notifying(e)'
      <4>1. ASSUME q \in waiting', readers[q].pc \in {"get", "sleep"}, ~Notifying(e)'
            PROVE  readers[q].seen = Len(Entries(e)')
        <5>1. q \in waiting /\ ~Notify(e) /\ Entries(e)' = Entries(e) /\ ~Notifying(e)
          BY <3>2, <3>4, <3>5, <4>1
        <5>. QED  BY <3>1, <4>1, <5>1 DEF Following
      <4>. QED  BY <4>1
    <3>8. q \in waiting' /\ ReaderAt(q, "sleep") /\ rows'[e].state = "exited" =>
            job'[e].pc = "announce"
      BY <3>1, <3>2, <3>4, <3>5 DEF Following
    <3>. QED  BY <2>1, <3>1, <3>3, <3>6, <3>7, <3>8
             DEF Following, ReaderAt, Entries, Notifying
  <2>. QED  BY <2>2, <2>3, <2>4
<1>5. CASE ReconcileList \/ Serve
  <2>1. ReaderAt(q, "idle") /\ readers'[q] = readers[q]
    BY <1>5 DEF ReconcileList, Serve, Following
  <2>. QED  BY <1>2, <2>1
<1>6. CASE Crash \/ Exit
  <2>1. readers'[q] = [readers[q] EXCEPT !.pc = "idle", !.seen = 0]
    BY <1>6 DEF Crash, Exit, Down
  <2>2. readers'[q].pc = "idle"
    BY <1>1, <2>1 DEF Reader
  <2>. QED  BY <2>2 DEF Following, ReaderAt
<1>7. CASE Shutdown
  BY <1>3, <1>7 DEF Shutdown
<1>8. CASE \E e \in Execs : Produce(e) \/ Exits(e) \/ ContainerGoes(e)
  BY <1>3, <1>8 DEF Produce, Exits, ContainerGoes
<1>9. CASE UNCHANGED vars
  BY <1>3, <1>9 DEF vars
<1>10. ASSUME NEW r \in Readers,
              Stream(r) \/ Leave(r) \/ \E e \in Execs, from \in 0 .. Cap : Follow(r, e, from)
       PROVE  Following(q)'
  <2>1. UNCHANGED <<rows, files, job, mode>>
    BY <1>10, StreamsElsewhere
  <2>2. CASE r # q
    <3>1. readers'[q] = readers[q] /\ (q \in waiting' => q \in waiting)
      BY <1>1, <1>10, <2>2 DEF Stream, Leave, Follow, Arm, Drain, GetState, LastDrain,
         Wake, Heartbeat, ReaderGoto
    <3>. QED  BY <1>3, <2>1, <3>1
  <2>3. CASE r = q /\ (Arm(q) \/ Wake(q) \/ Heartbeat(q))
    <3>1. ~ReaderAt(q, "idle") /\ readers'[q].pc \in {"drain", "arm"} /\ readers'[q].exec = x
      BY <1>1, <2>3 DEF Arm, Wake, Heartbeat, ReaderAt, ReaderGoto, Reader
    <3>. QED  BY <2>1, <3>1 DEF Following, ReaderAt
  <2>4. CASE r = q /\ Drain(q)
    <3>1. /\ ~ReaderAt(q, "idle") /\ readers'[q].pc = "get" /\ readers'[q].exec = x
          /\ readers'[q].seen = Len(Entries(x))
      BY <1>1, <2>4 DEF Drain, Drained, ReaderAt, Reader
    <3>. QED  BY <2>1, <3>1 DEF Following, ReaderAt, Entries
  <2>5. CASE r = q /\ GetState(q)
    <3>1. rows[x].state \in {"absent", "running"} \cup Ends
      BY <1>1 DEF TypeOK, Row
    <3>2. /\ ReaderAt(q, "get") /\ readers'[q].exec = x
          /\ readers'[q].pc = (IF rows[x].state = "running" THEN "sleep" ELSE "last")
          /\ readers'[q].seen = readers[q].seen /\ waiting' = waiting
      BY <1>1, <2>5 DEF GetState, ReaderAt, ReaderGoto, Reader
    <3>. QED  BY <2>1, <3>1, <3>2 DEF Following, ReaderAt, Entries, Notifying
  <2>6. CASE r = q /\ LastDrain(q)
    <3>1. /\ ReaderAt(q, "last") /\ readers'[q].pc = "done" /\ readers'[q].exec = x
          /\ readers'[q].seen = Len(Entries(x))
      BY <1>1, <2>6 DEF LastDrain, Drained, ReaderAt, Reader
    <3>. QED  BY <2>1, <3>1 DEF Following, ReaderAt, Entries
  <2>7. CASE r = q /\ Leave(q)
    <3>1. readers'[q].pc = "idle"
      BY <1>1, <2>7 DEF Leave, Reader
    <3>. QED  BY <3>1 DEF Following, ReaderAt
  <2>8. ASSUME r = q, NEW e \in Execs, NEW from \in 0 .. Cap, Follow(q, e, from)
        PROVE  Following(q)'
    <3>1. /\ mode = "serving" /\ rows[e].state # "absent"
          /\ readers'[q].pc = "arm" /\ readers'[q].exec = e
      BY <1>1, <2>8 DEF Follow
    <3>. QED  BY <2>1, <3>1 DEF Following, ReaderAt
  <2>. QED  BY <1>10, <2>2, <2>3, <2>4, <2>5, <2>6, <2>7, <2>8 DEF Stream
<1>. QED  BY <1>4, <1>5, <1>6, <1>7, <1>8, <1>9, <1>10 DEF Next, Boot, Acts

-------------------------------------------------------------------------------
(* What the log holds                                                        *)

\* The numbers from 1, one more of them, and none.
LEMMA Runs ==
  ASSUME NEW n \in Nat
  PROVE  /\ Append([i \in 1 .. n |-> i], n + 1) = [i \in 1 .. n + 1 |-> i]
         /\ [i \in 1 .. 0 |-> i] = <<>>
<1>. DEFINE s == [i \in 1 .. n |-> i]
<1>1. s \in Seq(Nat) /\ Len(s) = n
  OBVIOUS
<1>2. Append(s, n + 1) \in Seq(Nat) /\ Len(Append(s, n + 1)) = n + 1
  BY <1>1
<1>3. \A i \in 1 .. n + 1 : Append(s, n + 1)[i] = i
  BY <1>1
<1>. QED  BY <1>2, <1>3

\* A gap that is written is there, and one that is there stays.
LEMMA GapStays ==
  ASSUME NEW s \in Seq(Frames), NEW record \in Frames
  PROVE  /\ \E i \in DOMAIN Append(s, Gap) : Append(s, Gap)[i] = Gap
         /\ (\E i \in DOMAIN s : s[i] = Gap) =>
              \E i \in DOMAIN Append(s, record) : Append(s, record)[i] = Gap
<1>1. Len(s) \in Nat /\ DOMAIN s = 1 .. Len(s)
  OBVIOUS
<1>2. /\ DOMAIN Append(s, Gap) = 1 .. Len(s) + 1
      /\ Append(s, Gap)[Len(s) + 1] = Gap
  OBVIOUS
<1>3. ASSUME NEW i \in DOMAIN s, s[i] = Gap
      PROVE  i \in DOMAIN Append(s, record) /\ Append(s, record)[i] = Gap
  BY <1>1, <1>3
<1>. QED  BY <1>1, <1>2, <1>3

\* A log to which nothing is written, of a process that puts nothing out.
LEMMA SameLog ==
  ASSUME NEW e \in Execs, files'[e].entries = files[e].entries,
         files'[e].size = files[e].size, proc'[e].made = proc[e].made
  PROVE  /\ Entries(e)' = Entries(e)
         /\ HasGap(e)' <=> HasGap(e)
         /\ Complete(e)' <=> Complete(e)
         /\ Fits(e, Gap)' <=> Fits(e, Gap)
         /\ Explained(e)' <=> Explained(e)
BY DEF Entries, HasGap, Complete, Fits, Explained, Size

\* Writing a gap marks the log.
LEMMA GapMarks ==
  ASSUME TypeOK, NEW e \in Execs, Write(e, Gap)
  PROVE  HasGap(e)'
<1>1. files \in [Execs -> LogFile] /\ files[e].entries \in Seq(Frames)
  BY DEF TypeOK, LogFile
<1>2. files'[e].entries = Append(files[e].entries, Gap)
  BY <1>1 DEF Write
<1>3. Gap \in Frames
  BY ExecBoundsAssumption DEF Gap, Frames
<1>4. \E i \in DOMAIN Append(files[e].entries, Gap) : Append(files[e].entries, Gap)[i] = Gap
  BY <1>1, <1>3, GapStays
<1>. QED  BY <1>2, <1>4 DEF HasGap, Entries

\* Writing the next frame keeps the log equal to what was received.
LEMMA FrameFollows ==
  ASSUME TypeOK, NEW e \in Execs, Received(e), Write(e, job[e].got + 1),
         job'[e].got = job[e].got + 1
  PROVE  Received(e)'
<1>1. files \in [Execs -> LogFile] /\ job[e].got \in Nat
  BY ExecBoundsAssumption DEF TypeOK, Job
<1>2. files'[e].entries = Append([i \in 1 .. job[e].got |-> i], job[e].got + 1)
  BY <1>1 DEF Write, Received, Entries
<1>3. Append([i \in 1 .. job[e].got |-> i], job[e].got + 1)
        = [i \in 1 .. job[e].got + 1 |-> i]
  BY <1>1, Runs
<1>. QED  BY <1>2, <1>3 DEF Received, Entries

\* The count of what was received starts from nothing, and so does the log.
LEMMA ActsFromNothing ==
  ASSUME EInv, NEW e \in Execs, Acts(e), Accounted(e)
  PROVE  /\ job'[e].pc \in Creating \cup {"none"} => job'[e].got = 0
         /\ rows'[e].state = "absent" \/ job'[e].pc \in Creating => Entries(e)' = <<>>
<1>. USE DEF Creating
<1>1. /\ rows \in [Execs -> Row] /\ job \in [Execs -> Job] /\ job[e] \in Job
      /\ rows[e] \in Row /\ InCharge(e)
      /\ job[e].pc \in Creating \cup {"none"} => job[e].got = 0
      /\ rows[e].state = "absent" \/ job[e].pc \in Creating => Entries(e) = <<>>
  BY DEF EInv, TypeOK, Accounted
<1>2. CASE Stop(e) /\ (rows'[e].state = "absent" => Entries(e)' = <<>>)
  BY <1>1, <1>2 DEF NoJob
<1>3. CASE /\ job'[e].pc \in Creating /\ job[e].pc \in Creating \cup {"none"}
           /\ job'[e].got = job[e].got
           /\ rows[e].state = "absent" \/ job[e].pc \in Creating
           /\ files' = files
  BY <1>1, <1>3 DEF Entries
<1>4. CASE job'[e].pc \notin Creating \cup {"none"} /\ rows'[e].state # "absent"
  BY <1>4
<1>5. CASE CreateArrives(e) \/ StartFails(e) \/ RecordFails(e)
  <2>1. PICK pc \in Creating : job'[e] = [job[e] EXCEPT !.pc = pc]
    BY <1>1, <1>5 DEF CreateArrives, StartFails, RecordFails
  <2>2. job'[e].pc = pc /\ job'[e].got = job[e].got
    BY <1>1, <2>1 DEF Job
  <2>. QED  BY <1>3, <1>5, <2>2 DEF CreateArrives, StartFails, RecordFails
<1>6. CASE Cancel(e)
  <2>1. job'[e] = [job[e] EXCEPT !.dead = TRUE]
    BY <1>1, <1>6 DEF Cancel
  <2>2. job'[e].pc = job[e].pc /\ job'[e].got = job[e].got
    BY <1>1, <2>1 DEF Job
  <2>. QED  BY <1>3, <1>6, <2>2 DEF Cancel
<1>7. CASE InsertRow(e)
  <2>1. job'[e].pc = "start" /\ job'[e].got = job[e].got
    BY <1>1, <1>7 DEF InsertRow, Job
  <2>. QED  BY <1>3, <1>7, <2>1 DEF InsertRow
<1>8. CASE StartExec(e)
  <2>1. job'[e].pc \in Creating /\ job'[e].got = job[e].got
    BY <1>1, <1>8 DEF StartExec, Job
  <2>. QED  BY <1>3, <1>8, <2>1 DEF StartExec
<1>9. CASE RecordHandle(e)
  <2>1. job'[e].pc = "open" /\ rows[e].state = "running"
    BY <1>1, <1>9 DEF RecordHandle, Job, InCharge
  <2>2. rows'[e].state = rows[e].state
    BY <1>1, <1>9 DEF RecordHandle, Row
  <2>. QED  BY <1>4, <2>1, <2>2
<1>10. CASE InsertFails(e) \/ MarkFailed(e) \/ Announce(e) \/ PollStops(e)
  <2>1. Stop(e) /\ files' = files
    BY <1>10 DEF InsertFails, MarkFailed, Announce, PollStops
  <2>2. rows'[e].state = "absent" => rows[e].state = "absent"
    <3>1. CASE MarkFailed(e)
      <4>1. rows' = rows \/ rows'[e] = [rows[e] EXCEPT !.state = "failed", !.handle = job[e].handle]
        BY <1>1, <3>1 DEF MarkFailed
      <4>. QED  BY <1>1, <4>1 DEF Row
    <3>2. CASE InsertFails(e) \/ Announce(e) \/ PollStops(e)
      BY <3>2 DEF InsertFails, Announce, PollStops
    <3>. QED  BY <1>10, <3>1, <3>2
  <2>. QED  BY <1>1, <1>2, <2>1, <2>2 DEF Entries
<1>11. CASE \/ OpenLog(e) \/ Recv(e) \/ RecvAppendFails(e) \/ RecvOversize(e)
            \/ RecvBreaks(e) \/ RecvEOF(e) \/ RecvEarlyEOF(e) \/ NotifyRecord(e) \/ WaitExit(e) \/ Poll(e)
  <2>1. rows[e].state = "running" /\ rows' = rows
    BY <1>1, <1>11 DEF OpenLog, Recv, RecvAppendFails, RecvOversize, RecvBreaks, RecvEOF,
       RecvEarlyEOF, NotifyRecord, WaitExit, Poll, InCharge, Supervising
  <2>2. job'[e].pc \notin Creating \cup {"none"}
    BY <1>1, <1>11 DEF OpenLog, Recv, RecvAppendFails, RecvOversize, DropFrame, RecvBreaks,
       RecvEOF, RecvEarlyEOF, NotifyRecord, WaitExit, Poll, FinishAs, AppendOrCut, Job
  <2>. QED  BY <1>4, <2>1, <2>2
<1>12. CASE Finish(e)
  <2>1. rows[e].state = "running" /\ job'[e].pc = "announce"
    BY <1>1, <1>12 DEF Finish, InCharge, Job
  <2>2. rows'[e].state \in {"running", job[e].end} /\ job[e].end \in Ends
    BY <1>1, <1>12, <2>1 DEF Finish, Row, Job
  <2>. QED  BY <1>4, <2>1, <2>2
<1>13. CASE Reconcile(e)
  <2>1. rows[e].state = "running" /\ rows' = rows
    BY <1>1, <1>13 DEF Reconcile, NextToReconcile, InCharge
  <2>2. job'[e].pc \in {"poll", "finish"}
    BY <1>1, <1>13 DEF Reconcile, ReconcileRunning, ReconcileOver, ReconcileUnknown, Job
  <2>. QED  BY <1>4, <2>1, <2>2
<1>. QED  BY <1>5, <1>6, <1>7, <1>8, <1>9, <1>10, <1>11, <1>12, <1>13 DEF Acts, Work

\* No output is lost unmarked by whoever is in charge.
LEMMA ActsExplained ==
  ASSUME EInv, NEW e \in Execs, Acts(e), Accounted(e), spent.eofs = 0, spent.disk = 0,
         ~SpendDisk, ~RecvEarlyEOF(e), spent'.disk = 0
  PROVE  Accounted(e)'
<1>. USE DEF Creating, Supervising
<1>1. /\ rows \in [Execs -> Row] /\ job \in [Execs -> Job] /\ job[e] \in Job
      /\ rows[e] \in Row /\ proc \in [Execs -> Process] /\ proc[e] \in Process
      /\ InCharge(e) /\ TypeOK
  BY DEF EInv, TypeOK
<1>2. /\ job'[e].pc \in Creating \cup {"none"} => job'[e].got = 0
      /\ rows'[e].state = "absent" \/ job'[e].pc \in Creating => Entries(e)' = <<>>
  BY ActsFromNothing
<1>3. /\ job[e].pc \in Creating \cup {"none"} => job[e].got = 0
      /\ rows[e].state = "absent" \/ job[e].pc \in Creating => Entries(e) = <<>>
      /\ job[e].pc \in {"open", "recv", "notify"} /\ ~job[e].cut => Received(e)
      /\ At(e, "breakNotify") /\ ~job[e].cut => HasGap(e)
      /\ At(e, "wait") /\ ~job[e].cut /\ ~job[e].failed =>
           HasGap(e) \/ (Complete(e) /\ proc[e].status # "running")
      /\ At(e, "finish") /\ job[e].end = "exited" /\ ~job[e].cut => Explained(e)
      /\ At(e, "poll") => HasGap(e) \/ ~Fits(e, Gap)
      /\ rows[e].state = "exited" /\ ~rows[e].truncated => Explained(e)
  BY DEF Accounted
\* The row of one that runs cannot read exited behind its step, unless by Finish.
<1>4. ASSUME rows'[e].state # "exited",
             /\ job'[e].pc \in {"open", "recv", "notify"} /\ ~job'[e].cut => Received(e)'
             /\ job'[e].pc = "breakNotify" /\ ~job'[e].cut => HasGap(e)'
             /\ job'[e].pc = "wait" /\ ~job'[e].cut /\ ~job'[e].failed =>
                  HasGap(e)' \/ (Complete(e)' /\ proc'[e].status # "running")
             /\ job'[e].pc = "finish" /\ job'[e].end = "exited" /\ ~job'[e].cut => Explained(e)'
             /\ job'[e].pc = "poll" => HasGap(e)' \/ ~Fits(e, Gap)'
      PROVE  Accounted(e)'
  BY <1>2, <1>4 DEF Accounted
<1>5. CASE /\ job'[e].pc \in Creating \cup {"none", "announce"}
           /\ rows'[e].state # "exited"
  BY <1>4, <1>5
<1>. HIDE DEF Accounted
<1>6. CASE \/ CreateArrives(e) \/ Cancel(e) \/ InsertRow(e) \/ InsertFails(e) \/ StartExec(e)
           \/ StartFails(e) \/ RecordFails(e) \/ MarkFailed(e) \/ PollStops(e)
  <2>1. rows[e].state # "exited"
    BY <1>1, <1>6 DEF CreateArrives, Cancel, InsertRow, InsertFails, StartExec, StartFails,
       RecordFails, MarkFailed, PollStops, InCharge
  <2>2. rows'[e].state # "exited"
    BY <1>1, <1>6, <2>1 DEF CreateArrives, Cancel, InsertRow, InsertFails, StartExec,
       StartFails, RecordFails, MarkFailed, PollStops, Row, RunningRow, AbsentRow
  <2>3. job'[e].pc \in Creating \cup {"none"}
    BY <1>1, <1>6 DEF CreateArrives, Cancel, InsertRow, InsertFails, StartExec,
       StartFails, RecordFails, MarkFailed, PollStops, Job, NoJob
  <2>. QED  BY <1>5, <2>2, <2>3
<1>7. ASSUME rows[e].state = "running", rows' = rows
      PROVE  rows'[e].state # "exited"
  BY <1>7
<1>8. CASE RecordHandle(e)
  <2>1. rows[e].state = "running" /\ rows'[e] = [rows[e] EXCEPT !.handle = TRUE]
    BY <1>1, <1>8 DEF RecordHandle, InCharge
  <2>2. job'[e].pc = "open" /\ job'[e].got = 0 /\ files' = files /\ Entries(e) = <<>>
    BY <1>1, <1>3, <1>8 DEF RecordHandle, Job
  <2>3. Received(e)'
    BY <2>2, Runs DEF Received, Entries
  <2>4. rows'[e].state # "exited"
    BY <1>1, <2>1 DEF Row
  <2>. QED  BY <1>4, <2>2, <2>3, <2>4
<1>9. CASE OpenLog(e)
  <2>1. job[e].pc = "open" /\ job'[e] = [job[e] EXCEPT !.pc = "recv"] /\ files' = files
          /\ rows[e].state = "running" /\ rows' = rows
    BY <1>1, <1>9 DEF OpenLog, InCharge
  <2>2. job'[e].pc = "recv" /\ job'[e].got = job[e].got /\ job'[e].cut = job[e].cut
    BY <1>1, <2>1 DEF Job
  <2>3. Received(e)' <=> Received(e)
    BY <2>1, <2>2 DEF Received, Entries
  <2>. QED  BY <1>3, <1>4, <1>7, <2>1, <2>2, <2>3
<1>10. CASE Recv(e)
  <2>1. /\ job[e].pc = "recv" /\ AppendOrCut(e, job[e].got + 1, job[e].got + 1, "notify")
        /\ rows[e].state = "running" /\ rows' = rows
    BY <1>1, <1>10 DEF Recv, InCharge
  <2>2. CASE ~job[e].cut /\ Write(e, job[e].got + 1)
              /\ job'[e] = [job[e] EXCEPT !.got = job[e].got + 1, !.pc = "notify"]
    <3>1. job'[e].pc = "notify" /\ job'[e].got = job[e].got + 1
      BY <1>1, <2>2 DEF Job
    <3>2. Received(e)'
      BY <1>1, <1>3, <2>1, <2>2, <3>1, FrameFollows
    <3>. QED  BY <1>4, <1>7, <2>1, <3>1, <3>2
  <2>3. CASE job'[e] = [job[e] EXCEPT !.got = job[e].got + 1, !.pc = "notify", !.cut = TRUE]
    <3>1. job'[e].pc = "notify" /\ job'[e].cut
      BY <1>1, <2>3 DEF Job
    <3>. QED  BY <1>4, <1>7, <2>1, <3>1
  <2>. QED  BY <1>1, <2>1, <2>2, <2>3 DEF AppendOrCut
<1>11. ~RecvAppendFails(e)
  BY DEF RecvAppendFails
<1>20. CASE RecvOversize(e)
  <2>1. rows[e].state = "running" /\ rows' = rows
    BY <1>1, <1>20 DEF RecvOversize, InCharge
  <2>2. job'[e].pc = "wait" /\ job'[e].failed
    BY <1>1, <1>20 DEF RecvOversize, DropFrame, Job
  <2>. QED  BY <1>4, <1>7, <2>1, <2>2
<1>12. CASE RecvBreaks(e)
  <2>1. ~SpendBoth
    BY <1>1, DiskCounts
  <2>2. /\ job[e].pc = "recv" /\ AppendOrCut(e, Gap, job[e].got, "breakNotify")
        /\ rows[e].state = "running" /\ rows' = rows
    BY <1>1, <1>12, <2>1 DEF RecvBreaks, InCharge
  <2>3. CASE Write(e, Gap) /\ job'[e] = [job[e] EXCEPT !.got = job[e].got, !.pc = "breakNotify"]
    <3>1. job'[e].pc = "breakNotify"
      BY <1>1, <2>3 DEF Job
    <3>2. HasGap(e)'
      BY <1>1, <2>3, GapMarks
    <3>. QED  BY <1>4, <1>7, <2>2, <3>1, <3>2
  <2>4. CASE job'[e] = [job[e] EXCEPT !.got = job[e].got, !.pc = "breakNotify", !.cut = TRUE]
    <3>1. job'[e].pc = "breakNotify" /\ job'[e].cut
      BY <1>1, <2>4 DEF Job
    <3>. QED  BY <1>4, <1>7, <2>2, <3>1
  <2>. QED  BY <1>1, <2>2, <2>3, <2>4 DEF AppendOrCut
<1>13. CASE RecvEOF(e)
  <2>1. /\ job[e].pc = "recv" /\ job'[e] = [job[e] EXCEPT !.pc = "wait"] /\ files' = files
        /\ proc' = proc /\ job[e].got = proc[e].made /\ proc[e].status # "running"
        /\ rows[e].state = "running" /\ rows' = rows
    BY <1>1, <1>13 DEF RecvEOF, InCharge
  <2>2. job'[e].pc = "wait" /\ job'[e].cut = job[e].cut /\ job'[e].failed = job[e].failed
    BY <1>1, <2>1 DEF Job
  <2>3. ~job[e].cut => Complete(e)
    BY <1>3, <2>1 DEF Received, Complete
  <2>4. Complete(e)' <=> Complete(e)
    BY <2>1, SameLog
  <2>. QED  BY <1>4, <1>7, <2>1, <2>2, <2>3, <2>4
<1>14. CASE NotifyRecord(e)
  <2>1. /\ rows[e].state = "running" /\ rows' = rows /\ files' = files /\ proc' = proc
        /\ \/ job[e].pc = "notify" /\ job'[e] = [job[e] EXCEPT !.pc = "recv"]
           \/ job[e].pc = "breakNotify" /\ job'[e] = [job[e] EXCEPT !.pc = "wait"]
    BY <1>1, <1>14 DEF NotifyRecord, InCharge
  <2>2. /\ \/ job[e].pc = "notify" /\ job'[e].pc = "recv"
           \/ job[e].pc = "breakNotify" /\ job'[e].pc = "wait"
        /\ job'[e].got = job[e].got /\ job'[e].cut = job[e].cut
    BY <1>1, <2>1 DEF Job
  <2>3. Received(e)' <=> Received(e)
    BY <2>1, <2>2 DEF Received, Entries
  <2>4. HasGap(e)' <=> HasGap(e)
    BY <2>1, SameLog
  <2>. QED  BY <1>3, <1>4, <1>7, <2>1, <2>2, <2>3, <2>4
<1>15. ASSUME NEW end, FinishAs(e, end), rows[e].state = "running", rows' = rows,
              end = "exited" /\ ~job[e].cut => Explained(e), files' = files, proc' = proc
       PROVE  Accounted(e)'
  <2>1. job'[e].pc = "finish" /\ job'[e].end = end /\ job'[e].cut = job[e].cut
    BY <1>1, <1>15 DEF FinishAs, Job
  <2>2. Explained(e)' <=> Explained(e)
    BY <1>15, SameLog
  <2>. QED  BY <1>4, <1>7, <1>15, <2>1, <2>2
<1>16. CASE WaitExit(e) \/ Poll(e)
  <2>1. /\ job[e].pc \in {"wait", "poll"} /\ rows[e].state = "running"
        /\ rows' = rows /\ files' = files /\ proc' = proc
        /\ \E end \in Ends : /\ FinishAs(e, end)
                             /\ end = "exited" /\ job[e].pc = "wait" => ~job[e].failed
    BY <1>1, <1>16 DEF WaitExit, Poll, InCharge
  <2>2. ~job[e].cut /\ (job[e].pc = "wait" => ~job[e].failed) => Explained(e)
    BY <1>3, <2>1 DEF Explained
  <2>. QED  BY <1>15, <2>1, <2>2
<1>17. CASE Finish(e)
  <2>1. /\ job[e].pc = "finish" /\ files' = files /\ proc' = proc
        /\ rows'[e] = [rows[e] EXCEPT !.state = job[e].end, !.bytes = FileSize(e),
                                      !.truncated = job[e].cut]
        /\ job'[e] = [job[e] EXCEPT !.pc = "announce"]
    BY <1>1, <1>17 DEF Finish
  <2>2. rows'[e].state = job[e].end /\ rows'[e].truncated = job[e].cut
    BY <1>1, <2>1 DEF Row
  <2>3. job'[e].pc = "announce"
    BY <1>1, <2>1 DEF Job
  <2>4. Explained(e)' <=> Explained(e)
    BY <2>1, SameLog
  <2>. QED  BY <1>2, <1>3, <2>1, <2>2, <2>3, <2>4 DEF Accounted
<1>18. CASE Announce(e)
  <2>1. job'[e].pc = "none" /\ rows' = rows /\ files' = files /\ proc' = proc
    BY <1>1, <1>18 DEF Announce, NoJob
  <2>2. Explained(e)' <=> Explained(e)
    BY <2>1, SameLog
  <2>. QED  BY <1>2, <1>3, <2>1, <2>2 DEF Accounted
<1>19. CASE Reconcile(e)
  <2>1. rows[e].state = "running" /\ rows' = rows
    BY <1>1, <1>19 DEF Reconcile, NextToReconcile, InCharge
  <2>2. \/ job'[e].pc = "poll"
        \/ job'[e].pc = "finish"
    BY <1>1, <1>19 DEF Reconcile, ReconcileRunning, ReconcileOver, ReconcileUnknown, Job
  <2>3. Write(e, Gap) \/ (~Fits(e, Gap) /\ CutShort(e))
    BY <1>1, <1>19, ReconcileOutcome, DiskCounts
  <2>4. ASSUME Write(e, Gap) PROVE HasGap(e)'
    BY <1>1, <2>4, GapMarks
  <2>5. ASSUME ~Fits(e, Gap), CutShort(e) PROVE ~Fits(e, Gap)'
    <3>1. files'[e].size = files[e].size
      BY <1>1, <2>5, CutShortKeeps
    <3>. QED  BY <2>5, <3>1 DEF Fits, Size
  <2>6. HasGap(e)' \/ ~Fits(e, Gap)'
    BY <2>3, <2>4, <2>5
  <2>. QED  BY <1>4, <1>7, <2>1, <2>2, <2>6 DEF Explained
<1>. QED  BY <1>6, <1>8, <1>9, <1>10, <1>11, <1>12, <1>13, <1>14, <1>16, <1>17, <1>18, <1>19,
             <1>20 DEF Acts, Work

\* What happens to many execs at once accounts for each of them as before.
LEMMA WorldExplained ==
  ASSUME EInv, NEW d \in Execs, Accounted(d),
         spent'.eofs = 0 => spent.eofs = 0, spent'.disk = 0 => spent.disk = 0,
         \/ ReconcileList \/ Serve \/ Crash \/ Shutdown \/ Exit
         \/ \E e \in Execs : Produce(e) \/ Exits(e) \/ ContainerGoes(e)
         \/ UNCHANGED <<rows, proc, files, job, mode, todo>>
  PROVE  Accounted(d)'
<1>1. /\ proc \in [Execs -> Process] /\ proc[d] \in Process /\ InCharge(d)
  BY DEF EInv, TypeOK
<1>2. CASE UNCHANGED <<rows, files, job>> /\ proc'[d] = proc[d]
  <2>1. /\ Entries(d)' = Entries(d) /\ (HasGap(d)' <=> HasGap(d))
        /\ (Complete(d)' <=> Complete(d)) /\ (Fits(d, Gap)' <=> Fits(d, Gap))
        /\ (Explained(d)' <=> Explained(d))
    BY <1>2, SameLog
  <2>2. Received(d)' <=> Received(d)
    BY <1>2, <2>1 DEF Received
  <2>. QED  BY <1>2, <2>1, <2>2 DEF Accounted
<1>3. CASE ReconcileList \/ Serve \/ Shutdown \/ UNCHANGED <<rows, proc, files, job, mode, todo>>
  BY <1>2, <1>3 DEF ReconcileList, Serve, Shutdown
<1>4. CASE Crash \/ Exit
  <2>1. Down /\ rows' = rows /\ proc' = proc /\ job'[d] = NoJob
    BY <1>4 DEF Crash, Exit, Down
  <2>3. files'[d].entries = files[d].entries /\ files'[d].size = files[d].size
    BY <2>1, DownLogs DEF EInv
  <2>2. Entries(d)' = Entries(d) /\ (Explained(d)' <=> Explained(d))
    BY <2>1, <2>3, SameLog
  <2>. QED  BY <2>1, <2>2 DEF Accounted, NoJob, Creating
<1>5. ASSUME NEW e \in Execs, Produce(e) \/ Exits(e) \/ ContainerGoes(e)
      PROVE  Accounted(d)'
  <2>1. UNCHANGED <<rows, files, job>>
    BY <1>5 DEF Produce, Exits, ContainerGoes
  <2>2. CASE d # e
    <3>1. proc'[d] = proc[d]
      BY <1>1, <1>5, <2>2 DEF Produce, Exits, ContainerGoes
    <3>. QED  BY <1>2, <2>1, <3>1
  <2>3. CASE d = e /\ proc[d].status # "running"
    <3>1. proc' = [proc EXCEPT ![d].status = "lost"]
      BY <1>5, <2>3 DEF Produce, Exits, ContainerGoes
    <3>2. proc'[d].status = "lost" /\ proc'[d].made = proc[d].made
      BY <1>1, <3>1 DEF Process
    <3>3. /\ Entries(d)' = Entries(d) /\ (HasGap(d)' <=> HasGap(d))
          /\ (Complete(d)' <=> Complete(d)) /\ (Fits(d, Gap)' <=> Fits(d, Gap))
          /\ (Explained(d)' <=> Explained(d))
      BY <2>1, <3>2, SameLog
    <3>4. Received(d)' <=> Received(d)
      BY <2>1, <3>3 DEF Received
    <3>. QED  BY <2>1, <3>2, <3>3, <3>4 DEF Accounted
  <2>4. CASE d = e /\ proc[d].status = "running"
    <3>1. rows[d].state # "exited" /\ ~(At(d, "finish") /\ job[d].end = "exited")
      BY <1>1, <2>4 DEF InCharge
    <3>2. (HasGap(d)' <=> HasGap(d)) /\ (Fits(d, Gap)' <=> Fits(d, Gap))
      BY <2>1 DEF HasGap, Fits, Entries, Size
    <3>3. Entries(d)' = Entries(d) /\ (Received(d)' <=> Received(d))
      BY <2>1 DEF Received, Entries
    <3>. QED  BY <2>1, <2>4, <3>1, <3>2, <3>3 DEF Accounted
  <2>. QED  BY <2>2, <2>3, <2>4
<1>. QED  BY <1>3, <1>4, <1>5

LEMMA StepAccounted ==
  ASSUME EInv, [Next]_vars, NEW d \in Execs, Accounted(d)
  PROVE  Accounted(d)'
<1>1. TypeOK /\ (spent'.eofs = 0 => spent.eofs = 0) /\ (spent'.disk = 0 => spent.disk = 0)
  BY SpentGrows DEF EInv
<1>2. ASSUME NEW e \in Execs, Acts(e)
      PROVE  Accounted(d)'
  <2>1. CASE d = e
    <3>1. CASE spent'.eofs = 0 /\ spent'.disk = 0
      <4>1. ~RecvEarlyEOF(e)
        BY <1>1, <3>1 DEF RecvEarlyEOF, TypeOK
      <4>2. ~SpendDisk
        BY <1>1, <3>1, DiskCounts
      <4>. QED  BY <1>1, <1>2, <2>1, <3>1, <4>1, <4>2, ActsExplained
    <3>2. CASE ~(spent'.eofs = 0 /\ spent'.disk = 0)
      BY <1>2, <2>1, <3>2, ActsFromNothing DEF Accounted
    <3>. QED  BY <3>1, <3>2
  <2>2. CASE d # e
    <3>1. rows'[d] = rows[d] /\ proc'[d] = proc[d] /\ files'[d] = files[d] /\ job'[d] = job[d]
      BY <1>1, <1>2, <2>2, Elsewhere
    <3>2. /\ Entries(d)' = Entries(d) /\ (HasGap(d)' <=> HasGap(d))
          /\ (Complete(d)' <=> Complete(d)) /\ (Fits(d, Gap)' <=> Fits(d, Gap))
          /\ (Explained(d)' <=> Explained(d))
      BY <3>1, SameLog
    <3>3. Received(d)' <=> Received(d)
      BY <3>1, <3>2 DEF Received
    <3>. QED  BY <1>1, <3>1, <3>2, <3>3 DEF Accounted
  <2>. QED  BY <2>1, <2>2
<1>. QED  BY <1>1, <1>2, Kinds, WorldExplained

-------------------------------------------------------------------------------
(* Torn logs                                                                 *)

\* Whoever is in charge of an exec leaves no torn log, or leaves the log alone.
LEMMA ActsWhole ==
  ASSUME EInv, NEW e \in Execs, Acts(e), spent'.disk = 0
  PROVE  \/ ~files'[e].torn
         \/ files' = files /\ ~(At(e, "none") /\ rows[e].state = "running")
<1>1. files \in [Execs -> LogFile] /\ files[e] \in LogFile /\ TypeOK
  BY DEF EInv, TypeOK
<1>2. ~SpendDisk /\ ~SpendBoth
  BY <1>1, DiskCounts
<1>3. ASSUME NEW frame, Write(e, frame)
      PROVE  ~files'[e].torn
  <2>1. files'[e] = [entries |-> Append(files[e].entries, frame),
                     size |-> files[e].size + Size(frame), torn |-> FALSE]
    BY <1>1, <1>3 DEF Write
  <2>. QED  BY <2>1
<1>4. CASE Recv(e)
  BY <1>3, <1>4 DEF Recv, AppendOrCut
<1>5. CASE RecvBreaks(e)
  BY <1>2, <1>3, <1>5 DEF RecvBreaks, AppendOrCut
<1>6. CASE Reconcile(e)
  <2>1. GapLands(e)
    BY <1>2, <1>6 DEF Reconcile, ReconcileRunning, ReconcileOver, ReconcileUnknown, AppendGap
  <2>2. CASE Fits(e, Gap)
    BY <1>3, <2>1, <2>2 DEF GapLands
  <2>3. CASE ~Fits(e, Gap)
    <3>1. files' = [files EXCEPT ![e] = [files[e] EXCEPT !.torn = FALSE]]
      BY <2>1, <2>3 DEF GapLands
    <3>2. files'[e] = [files[e] EXCEPT !.torn = FALSE]
      BY <1>1, <3>1
    <3>. QED  BY <1>1, <3>2 DEF LogFile
  <2>. QED  BY <2>2, <2>3
<1>7. ~RecvAppendFails(e)
  BY <1>2 DEF RecvAppendFails
<1>8. CASE CreateArrives(e)
  BY <1>8 DEF CreateArrives
<1>9. CASE \/ Cancel(e) \/ InsertRow(e) \/ InsertFails(e) \/ StartExec(e) \/ StartFails(e)
           \/ RecordHandle(e) \/ RecordFails(e) \/ MarkFailed(e)
  BY <1>9 DEF Cancel, InsertRow, InsertFails, StartExec, StartFails, RecordHandle,
     RecordFails, MarkFailed, Creating
<1>10. CASE \/ OpenLog(e) \/ RecvOversize(e) \/ RecvEOF(e) \/ RecvEarlyEOF(e)
            \/ NotifyRecord(e) \/ WaitExit(e) \/ Finish(e) \/ Announce(e) \/ Poll(e)
            \/ PollStops(e)
  BY <1>10 DEF OpenLog, RecvOversize, RecvEOF, RecvEarlyEOF, NotifyRecord, WaitExit,
     Finish, Announce, Poll, PollStops
<1>. QED  BY <1>4, <1>5, <1>6, <1>7, <1>8, <1>9, <1>10 DEF Acts, Work

LEMMA StepWhole ==
  ASSUME EInv, [Next]_vars, NEW d \in Execs, Whole(d)
  PROVE  Whole(d)'
<1>. SUFFICES ASSUME spent'.disk = 0, files'[d].torn
              PROVE  /\ rows'[d].state = "running" /\ job'[d].pc = "none"
                     /\ mode' = "listing" \/ d \in todo'
  BY DEF Whole
<1>1. TypeOK /\ spent.disk = 0 /\ ~SpendDisk /\ InCharge(d)
  BY SpentGrows, DiskCounts DEF EInv
<1>2. files[d].torn => /\ rows[d].state = "running" /\ At(d, "none")
                       /\ mode = "listing" \/ d \in todo
  BY <1>1 DEF Whole
<1>3. ASSUME NEW e \in Execs, Acts(e)
      PROVE  /\ rows'[d].state = "running" /\ job'[d].pc = "none"
             /\ mode' = "listing" \/ d \in todo'
  <2>1. CASE d = e
    BY <1>2, <1>3, <2>1, ActsWhole
  <2>2. CASE d # e
    <3>1. /\ rows'[d] = rows[d] /\ files'[d] = files[d] /\ job'[d] = job[d]
          /\ d \in todo' <=> d \in todo
          /\ mode' = mode
      BY <1>1, <1>3, <2>2, Elsewhere
    <3>. QED  BY <1>2, <3>1
  <2>. QED  BY <2>1, <2>2
<1>4. CASE ReconcileList
  BY <1>1, <1>2, <1>4 DEF ReconcileList
<1>5. CASE Serve \/ Shutdown
  BY <1>1, <1>2, <1>5 DEF Serve, Shutdown, InCharge
<1>6. CASE Crash \/ Exit
  <2>1. Down
    BY <1>6 DEF Crash, Exit
  <2>2. rows' = rows /\ job'[d].pc = "none" /\ mode' = "listing"
    BY <2>1 DEF Down, NoJob
  <2>3. d \in BeingWritten => rows[d].state = "running"
    BY <1>1 DEF BeingWritten, NextToReconcile, InCharge, Supervising
  <2>4. d \notin BeingWritten => files'[d] = files[d]
    BY <1>1, <2>1, DownLogs
  <2>. QED  BY <1>2, <2>2, <2>3, <2>4
<1>7. CASE UNCHANGED <<rows, files, job, mode, todo>>
  BY <1>2, <1>7
<1>. QED  BY <1>3, <1>4, <1>5, <1>6, <1>7, Kinds DEF Produce, Exits, ContainerGoes

-------------------------------------------------------------------------------
(* The theorems                                                              *)

\* Nobody is in charge at first, nobody follows, and the logs are empty.
LEMMA XInit == Init => XInv
<1>. SUFFICES ASSUME Init PROVE XInv
  OBVIOUS
<1>1. ASSUME NEW e \in Execs PROVE Attended(e)
  BY DEF Init, Attended, AbsentRow, NoJob
<1>2. ASSUME NEW e \in Execs PROVE Accounted(e)
  BY DEF Init, Accounted, AbsentRow, NoJob, Entries, Creating
<1>3. ASSUME NEW r \in Readers PROVE Following(r)
  BY DEF Init, Following, ReaderAt
<1>4. ASSUME NEW e \in Execs PROVE Whole(e)
  BY DEF Init, Whole
<1>. QED  BY <1>1, <1>2, <1>3, <1>4 DEF XInv

LEMMA XStep == EInv /\ XInv /\ [Next]_vars => XInv'
<1>. SUFFICES ASSUME EInv, XInv, [Next]_vars PROVE XInv'
  OBVIOUS
<1>1. ASSUME NEW e \in Execs PROVE Attended(e)' /\ Accounted(e)' /\ Whole(e)'
  BY StepAttended, StepAccounted, StepWhole DEF XInv
<1>2. ASSUME NEW r \in Readers PROVE Following(r)'
  BY StepFollowing DEF XInv
<1>. QED  BY <1>1, <1>2 DEF XInv

\* Who attends to an exec, what its log holds and what its streams rely on, whatever
\* fails, hangs up or dies.
THEOREM StreamsInvariant == Spec => [](EInv /\ XInv)
  BY EInit, EStep, XInit, XStep, PTL DEF Spec

\* An exec that reads exited has a process that came to its end, and one that has
\* ended reports the size of its log, all of which is records that can be read unless
\* a write has failed, whoever ended it and whatever died in between.
THEOREM RowTellsTruthHolds == Spec => []RowTellsTruth
<1>1. EInv /\ XInv => RowTellsTruth
  <2>. SUFFICES ASSUME EInv, XInv, NEW e \in Execs
                PROVE  /\ rows[e].state = "exited" => proc[e].status # "running"
                       /\ rows[e].state \in Ends =>
                            /\ rows[e].bytes = FileSize(e)
                            /\ spent.disk = 0 => ~files[e].torn
    BY DEF RowTellsTruth
  <2>1. InCharge(e) /\ Whole(e)
    BY DEF EInv, XInv
  <2>2. files[e].torn \in BOOLEAN
    BY DEF EInv, TypeOK, LogFile
  <2>. QED  BY <2>1, <2>2 DEF InCharge, Whole
<1>. QED  BY <1>1, StreamsInvariant, PTL

\* "must not be stranded running" (service_test.go:285): unless a caller has hung up
\* or the database has failed, an exec whose row reads running while the daemon
\* serves has a goroutine that will end it.
THEOREM StrandedOnlyByHangupHolds == Spec => []StrandedOnlyByHangup
<1>1. EInv /\ XInv => StrandedOnlyByHangup
  <2>. SUFFICES ASSUME EInv, XInv, spent.cancels = 0, spent.disk = 0, NEW e \in Execs,
                       mode = "serving", rows[e].state = "running"
                PROVE  ~At(e, "none")
    BY DEF StrandedOnlyByHangup, NoneStranded
  <2>1. Attended(e) /\ InCharge(e)
    BY DEF EInv, XInv
  <2>. QED  BY <2>1 DEF Attended, InCharge
<1>. QED  BY <1>1, StreamsInvariant, PTL

\* An exited exec that is not flagged as truncated has all of its output in its log,
\* or a gap where some is missing, unless a stream has ended early, a write has
\* failed, or the log has no room for a gap.
THEOREM LossIsMarkedIfRoomHolds == Spec => []LossIsMarkedIfRoom
<1>1. EInv /\ XInv => LossIsMarkedIfRoom
  BY DEF XInv, Accounted, Explained, LossIsMarkedIfRoom
<1>. QED  BY <1>1, StreamsInvariant, PTL

\* A stream that sent the exit event has sent all the log there will ever be.
THEOREM ExitMeansAllHolds == Spec => []ExitMeansAll
<1>1. EInv /\ XInv => ExitMeansAll
  BY DEF XInv, Following, ExitMeansAll, ReaderAt
<1>. QED  BY <1>1, StreamsInvariant, PTL

\* A stream asleep on an open channel has missed nothing: whatever was written or
\* has exited since it looked, a Notify is still to come.
THEOREM NoLostWakeupHolds == Spec => []NoLostWakeup
<1>1. EInv /\ XInv => NoLostWakeup
  BY DEF XInv, Following, NoLostWakeup, Notifying, ReaderAt
<1>. QED  BY <1>1, StreamsInvariant, PTL

===============================================================================
