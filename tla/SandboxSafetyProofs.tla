-------------------------- MODULE SandboxSafetyProofs --------------------------
(***************************************************************************)
(* Proofs about the sandbox service, for any sets of sandboxes, containers,*)
(* snapshots and requests and any number of failures and daemon deaths:    *)
(* types, and from the inductive invariant IInv the mutex per sandbox, the *)
(* whole-row updates under it and the table of states.                     *)
(***************************************************************************)
EXTENDS SandboxService, TLAPS

-------------------------------------------------------------------------------
(* Type correctness                                                          *)

\* Idle requests, new and absent rows and unused containers are well typed.
LEMMA NullTypes ==
  /\ Idle \in Request /\ AbsentRow \in Row /\ NewRow \in Row
  /\ Unused \in Container
  BY DEF Idle, Request, AbsentRow, NewRow, Row, Unused, Container, RowState,
         States!States, RuntimeID, Image, Status

\* Changing the status of a container keeps the containers well typed.
LEMMA SetStatusType ==
  ASSUME ctr \in [Containers -> Container], NEW c, NEW st \in Status, SetStatus(c, st)
  PROVE  ctr' \in [Containers -> Container]
  BY DEF SetStatus, Container

\* What TypeOK says of the requests.
ReqType ==
  /\ req \in [Requests -> Request]
  /\ \A w \in Requests : req[w].pc # "idle" => req[w].sb \in Sandboxes

\* Returning from a handler keeps locks and requests well typed.
LEMMA ReturnType ==
  ASSUME TypeOK, NEW w \in Requests, Return(w)
  PROVE  lock' \in [Sandboxes -> Requests \cup {Free}] /\ ReqType'
<1>1. lock' \in [Sandboxes -> Requests \cup {Free}]
  BY DEF TypeOK, Return
<1>2. req' \in [Requests -> Request]
  BY NullTypes DEF TypeOK, Return
<1>3. ASSUME NEW v \in Requests, req'[v].pc # "idle"
      PROVE  req'[v].sb \in Sandboxes
  BY <1>3 DEF TypeOK, Return, Idle
<1>. QED  BY <1>1, <1>2, <1>3 DEF ReqType

\* Giving a request at work another record that keeps its sandbox.
LEMMA RecordType ==
  ASSUME TypeOK, NEW w \in Requests, NEW r \in Request,
         req[w].pc # "idle", r.sb = req[w].sb, req' = [req EXCEPT ![w] = r]
  PROVE  ReqType'
  BY DEF TypeOK, ReqType

\* So does going on to another step.
LEMMA GotoType ==
  ASSUME TypeOK, NEW w \in Requests, NEW pc \in Steps, req[w].pc # "idle",
         Goto(w, pc)
  PROVE  ReqType'
<1>. DEFINE r == [req[w] EXCEPT !.pc = pc]
<1>1. req[w] \in Request
  BY DEF TypeOK
<1>2. r \in Request /\ r.sb = req[w].sb
  BY <1>1 DEF Request
<1>3. req' = [req EXCEPT ![w] = r]
  BY DEF Goto
<1>. QED  BY <1>2, <1>3, RecordType

\* A failure spent is a failure counted.
LEMMA SpendType ==
  ASSUME TypeOK, SpendFault \/ UNCHANGED spent
  PROVE  spent' \in Spent
  BY DEF TypeOK, SpendFault, Spent

\* The rows and the records a request is given are well typed.
LEMMA OutcomeType ==
  ASSUME NEW r \in Request
  PROVE  Outcome(r) \in Row
  BY DEF Outcome, Target, Request, Row, RowState, States!States, Image, RuntimeID

LEMMA UpdateType ==
  ASSUME TypeOK, NEW w, NEW row \in Row, Update(w, row)
  PROVE  rows' \in [Sandboxes -> Row]
  BY DEF TypeOK, Update

LEMMA FirstStepType ==
  ASSUME NEW kind, NEW row
  PROVE  FirstStep(kind, row) \in Steps
  BY DEF FirstStep, Steps

\* One lemma per group of actions: each keeps TypeOK.
LEMMA ArrivalTypes ==
  ASSUME TypeOK, NEW w \in Requests, NEW s \in Sandboxes, NEW p \in Image,
         NEW kind \in Offered,
         Arrive(w, kind, s, p) \/ ArriveNew(w, kind, s, p)
  PROVE  TypeOK'
<1>1. kind \in Kinds
  BY OfferedAssumption
<1>2. rows[s] \in Row /\ rows[s].rid \in RuntimeID
  BY DEF TypeOK, Row
<1>3. CASE Arrive(w, kind, s, p)
  BY <1>1, <1>2, <1>3, NullTypes DEF Arrive, TypeOK, Request, Idle, Steps
<1>4. CASE ArriveNew(w, kind, s, p)
  BY <1>1, <1>2, <1>4, NullTypes DEF ArriveNew, TypeOK, Request, Idle, Steps
<1>. QED  BY <1>3, <1>4

LEMMA LockingTypes ==
  ASSUME TypeOK, NEW w \in Requests, Lock(w) \/ Read(w) \/ ReadRejects(w)
  PROVE  TypeOK'
<1>1. CASE Lock(w)
  <2>1. ReqType'
    BY <1>1, GotoType DEF Lock, At, Steps
  <2>. QED  BY <1>1, <2>1 DEF Lock, TypeOK, ReqType
<1>2. CASE Read(w)
  <2>. DEFINE s == req[w].sb
              r == [req[w] EXCEPT !.row = rows[s], !.rid = rows[s].rid,
                                  !.pc = FirstStep(req[w].kind, rows[s])]
  <2>1. req[w] \in Request /\ s \in Sandboxes
    BY <1>2 DEF TypeOK, Read, At
  <2>2. rows[s] \in Row /\ rows[s].rid \in RuntimeID
    BY <2>1 DEF TypeOK, Row
  <2>3. r \in Request /\ r.sb = s
    BY <2>1, <2>2, FirstStepType DEF Request
  <2>4. req' = [req EXCEPT ![w] = r]
    BY <1>2 DEF Read
  <2>5. ReqType'
    BY <1>2, <2>3, <2>4, RecordType DEF Read, At
  <2>. QED  BY <1>2, <2>5 DEF Read, TypeOK, ReqType
<1>3. CASE ReadRejects(w)
  BY <1>3, ReturnType DEF ReadRejects, TypeOK, ReqType
<1>. QED  BY <1>1, <1>2, <1>3

LEMMA WriteTypes ==
  ASSUME TypeOK, NEW w \in Requests,
         \/ InsertRow(w) \/ InsertFails(w) \/ MarkDestroying(w) \/ Save(w)
         \/ MarkError(w) \/ ForkWrite(w)
  PROVE  TypeOK'
<1>. DEFINE r == req[w]
<1>1. r \in Request /\ r.row \in Row /\ r.rid \in RuntimeID /\ r.snap \in Image
  BY DEF TypeOK, Request
<1>2. CASE InsertRow(w)
  <2>. DEFINE n == [r EXCEPT !.row = NewRow, !.pc = "rtCreate"]
  <2>1. n \in Request /\ n.sb = r.sb
    BY <1>1, NullTypes DEF Request, Steps
  <2>2. ReqType'
    BY <1>2, <2>1, RecordType DEF InsertRow, At
  <2>. QED  BY <1>2, <2>2, UpdateType, NullTypes DEF InsertRow, TypeOK, ReqType
<1>3. CASE InsertFails(w)
  BY <1>3, ReturnType DEF InsertFails, TypeOK, ReqType
<1>4. CASE MarkDestroying(w)
  <2>. DEFINE row == [r.row EXCEPT !.state = "destroying"]
              n == [r EXCEPT !.row = row,
                 !.pc = IF row.rid = NoContainer THEN "save" ELSE "rtDestroy"]
  <2>1. row \in Row
    BY <1>1 DEF Row, RowState, States!States
  <2>2. n \in Request /\ n.sb = r.sb
    BY <1>1, <2>1 DEF Request, Steps
  <2>3. CASE r.dead
    BY <1>4, <2>3, ReturnType DEF MarkDestroying, TypeOK, ReqType
  <2>4. CASE ~r.dead
    <3>1. Update(w, row) /\ req' = [req EXCEPT ![w] = n] /\ UNCHANGED lock
      BY <1>4, <2>4 DEF MarkDestroying
    <3>2. ReqType'
      BY <1>4, <2>2, <3>1, RecordType DEF MarkDestroying, At
    <3>. QED  BY <1>4, <2>1, <3>1, <3>2, UpdateType DEF MarkDestroying, TypeOK, ReqType
  <2>. QED  BY <2>3, <2>4
<1>5. CASE Save(w)
  <2>1. rows' \in [Sandboxes -> Row]
    BY <1>1, <1>5, OutcomeType, UpdateType DEF Save, TypeOK
  <2>2. CASE r.kind = "fork" /\ ~r.dead
    <3>. DEFINE n == [r EXCEPT !.row = Outcome(r), !.pc = "lock"]
    <3>1. n \in Request /\ n.sb = r.sb
      BY <1>1, OutcomeType DEF Request, Steps
    <3>2. ReqType'
      BY <1>5, <2>2, <3>1, RecordType DEF Save, At
    <3>. QED  BY <1>5, <2>1, <2>2, <3>2 DEF Save, TypeOK, ReqType
  <2>3. CASE ~(r.kind = "fork" /\ ~r.dead)
    BY <1>5, <2>1, <2>3, ReturnType DEF Save, TypeOK, ReqType
  <2>. QED  BY <2>2, <2>3
<1>6. CASE MarkError(w)
  <2>1. [r.row EXCEPT !.state = "error", !.rid = r.rid] \in Row
    BY <1>1 DEF Row, RowState, States!States
  <2>2. rows' \in [Sandboxes -> Row]
    BY <1>6, <2>1, UpdateType DEF MarkError, TypeOK
  <2>. QED  BY <1>6, <2>2, ReturnType DEF MarkError, TypeOK, ReqType
<1>7. CASE ForkWrite(w)
  <2>1. [r.row EXCEPT !.parent = r.snap] \in Row
    BY <1>1 DEF Row
  <2>2. rows' \in [Sandboxes -> Row]
    BY <1>7, <2>1, UpdateType DEF ForkWrite, TypeOK
  <2>. QED  BY <1>7, <2>2, ReturnType DEF ForkWrite, TypeOK, ReqType
<1>. QED  BY <1>2, <1>3, <1>4, <1>5, <1>6, <1>7

LEMMA RuntimeTypes ==
  ASSUME TypeOK, NEW w \in Requests,
         \/ \E c \in Containers : RtCreate(w, c)
         \/ RtCreateFails(w)
         \/ RtStart(w) \/ RtStop(w) \/ RtDestroy(w) \/ Inspect(w) \/ RtFails(w)
  PROVE  TypeOK'
<1>. DEFINE r == req[w]
<1>1. r \in Request /\ r.snap \in Image
  BY DEF TypeOK, Request
<1>2. CASE \E c \in Containers : RtCreate(w, c)
  <2>1. PICK c \in Containers : RtCreate(w, c)
    BY <1>2
  <2>2. r.sb \in Sandboxes
    BY <2>1 DEF RtCreate, At, TypeOK
  <2>3. ctr' \in [Containers -> Container]
    BY <1>1, <2>1, <2>2 DEF RtCreate, TypeOK, Container, Status
  <2>4. CASE Succeeds(w) /\ req' = [req EXCEPT ![w].rid = c, ![w].pc = "rtStart"]
    <3>. DEFINE n == [r EXCEPT !.rid = c, !.pc = "rtStart"]
    <3>1. n \in Request /\ n.sb = r.sb
      BY <1>1 DEF Request, RuntimeID, Steps
    <3>2. ReqType'
      BY <2>1, <2>4, <3>1, RecordType DEF RtCreate, At
    <3>. QED  BY <2>1, <2>3, <2>4, <3>2 DEF RtCreate, Succeeds, TypeOK, ReqType
  <2>5. CASE Fails(w) /\ Goto(w, "markError")
    <3>1. ReqType'
      BY <2>1, <2>5, GotoType DEF RtCreate, At, Steps
    <3>. QED  BY <2>1, <2>3, <2>5, <3>1, SpendType DEF RtCreate, Fails, TypeOK, ReqType
  <2>. QED  BY <2>1, <2>4, <2>5 DEF RtCreate
<1>3. CASE RtCreateFails(w)
  <2>1. ReqType'
    BY <1>3, GotoType DEF RtCreateFails, At, Steps
  <2>. QED  BY <1>3, <2>1 DEF RtCreateFails, TypeOK, ReqType
<1>4. ASSUME NEW next \in Steps, Performed(w, next), r.pc # "idle",
             ctr' \in [Containers -> Container], UNCHANGED <<rows, lock, mode, todo>>
      PROVE  TypeOK'
  <2>1. ReqType'
    BY <1>4, GotoType DEF Performed, Steps
  <2>2. spent' \in Spent
    BY <1>4, SpendType DEF Performed, Succeeds, Fails
  <2>. QED  BY <1>4, <2>1, <2>2 DEF TypeOK, ReqType
<1>5. CASE RtStart(w)
  <2>. DEFINE next == IF r.kind = "start" THEN "save" ELSE "inspect"
  <2>1. next \in Steps /\ Performed(w, next) /\ r.pc # "idle"
    BY <1>5 DEF RtStart, At, Steps
  <2>2. ctr' \in [Containers -> Container]
    BY <1>5, SetStatusType DEF RtStart, TypeOK, Status
  <2>. QED  BY ONLY <1>4, <1>5, <2>1, <2>2 DEF RtStart
<1>6. CASE RtStop(w)
  <2>1. ctr' \in [Containers -> Container]
    BY <1>6, SetStatusType DEF RtStop, TypeOK, Status
  <2>. QED  BY <1>4, <1>6, <2>1 DEF RtStop, At, Steps
<1>7. CASE RtDestroy(w)
  <2>. DEFINE next == IF r.kind = "destroy" THEN "save" ELSE "rtCreate"
  <2>1. next \in Steps /\ Performed(w, next) /\ r.pc # "idle"
    BY <1>7 DEF RtDestroy, At, Steps
  <2>2. ctr' \in [Containers -> Container]
    BY <1>7, SetStatusType DEF RtDestroy, TypeOK, Status
  <2>. QED  BY ONLY <1>4, <1>7, <2>1, <2>2 DEF RtDestroy
<1>8. CASE Inspect(w)
  <2>1. ReqType'
    BY <1>8, GotoType DEF Inspect, At, Steps
  <2>. QED  BY <1>8, <2>1 DEF Inspect, Succeeds, TypeOK, ReqType
<1>9. CASE RtFails(w)
  <2>1. ReqType'
    BY <1>9, GotoType DEF RtFails, At, Steps
  <2>2. spent' \in Spent
    BY <1>9, SpendType DEF RtFails, Fails
  <2>. QED  BY <1>9, <2>1, <2>2 DEF RtFails, TypeOK, ReqType
<1>. QED  BY <1>2, <1>3, <1>5, <1>6, <1>7, <1>8, <1>9

LEMMA CallbackTypes ==
  ASSUME TypeOK, NEW w \in Requests,
         \/ SnapPause(w) \/ SnapPauseUnheard(w) \/ SnapPauseFails(w)
         \/ \E p \in Snapshots : SnapCommit(w, p)
         \/ SnapCommitFails(w) \/ SnapUnpause(w)
         \/ SnapRecord(w) \/ SnapRecordFails(w) \/ SnapRollback(w)
         \/ UseFiles(w)
  PROVE  TypeOK'
<1>. DEFINE r == req[w]
<1>1. r \in Request
  BY DEF TypeOK
<1>2. CASE SnapPause(w)
  <2>. DEFINE n == [r EXCEPT !.frozen = TRUE, !.pc = "commit"]
  <2>1. ctr' \in [Containers -> Container]
    BY <1>2, SetStatusType DEF SnapPause, TypeOK, Status
  <2>2. n \in Request /\ n.sb = r.sb
    BY <1>1 DEF Request, Steps
  <2>3. CASE req' = [req EXCEPT ![w].frozen = TRUE, ![w].pc = "commit"]
    <3>1. ReqType'
      BY <1>2, <2>2, <2>3, RecordType DEF SnapPause, At
    <3>. QED  BY <1>2, <2>1, <2>3, <3>1 DEF SnapPause, Succeeds, TypeOK, ReqType
  <2>4. CASE Goto(w, "commit")
    <3>1. ReqType'
      BY <1>2, <2>4, GotoType DEF SnapPause, At, Steps
    <3>. QED  BY <1>2, <2>1, <2>4, <3>1 DEF SnapPause, Succeeds, TypeOK, ReqType
  <2>. QED  BY <1>2, <2>3, <2>4 DEF SnapPause
<1>3. CASE SnapPauseFails(w)
  BY <1>3, ReturnType DEF SnapPauseFails, TypeOK, ReqType
<1>4. CASE \E p \in Snapshots : SnapCommit(w, p)
  <2>1. PICK p \in Snapshots : SnapCommit(w, p)
    BY <1>4
  <2>. DEFINE n == [r EXCEPT !.snap = p, !.pc = "unpause"]
  <2>2. n \in Request /\ n.sb = r.sb
    BY <1>1 DEF Request, Image, Steps
  <2>3. ReqType'
    <3>1. CASE req' = [req EXCEPT ![w].snap = p, ![w].pc = "unpause"]
      BY <2>1, <2>2, <3>1, RecordType DEF SnapCommit, At
    <3>2. CASE Goto(w, "unpause")
      BY <2>1, <3>2, GotoType DEF SnapCommit, At, Steps
    <3>. QED  BY <2>1, <3>1, <3>2 DEF SnapCommit
  <2>4. spent' \in Spent
    BY <2>1, SpendType DEF SnapCommit, Succeeds, Fails
  <2>. QED  BY <2>1, <2>3, <2>4 DEF SnapCommit, TypeOK, ReqType
<1>5. CASE SnapCommitFails(w)
  <2>1. ReqType'
    BY <1>5, GotoType DEF SnapCommitFails, At, Steps
  <2>. QED  BY <1>5, <2>1 DEF SnapCommitFails, TypeOK, ReqType
<1>6. CASE SnapUnpause(w)
  <2>1. ctr' \in [Containers -> Container]
    BY <1>6, SetStatusType DEF SnapUnpause, TypeOK, Status
  <2>2. spent' \in Spent
    BY <1>6, SpendType DEF SnapUnpause
  <2>3. CASE Return(w)
    BY <1>6, <2>1, <2>2, <2>3, ReturnType DEF SnapUnpause, TypeOK, ReqType
  <2>4. CASE Goto(w, "record") /\ UNCHANGED lock
    <3>1. ReqType'
      BY <1>6, <2>4, GotoType DEF SnapUnpause, At, Steps
    <3>. QED  BY <1>6, <2>1, <2>2, <2>4, <3>1 DEF SnapUnpause, TypeOK, ReqType
  <2>. QED  BY <1>6, <2>3, <2>4 DEF SnapUnpause
<1>7. CASE SnapRecord(w)
  BY <1>7, ReturnType DEF SnapRecord, TypeOK, ReqType
<1>8. CASE SnapRecordFails(w)
  <2>1. ReqType'
    BY <1>8, GotoType DEF SnapRecordFails, At, Steps
  <2>. QED  BY <1>8, <2>1 DEF SnapRecordFails, TypeOK, ReqType
<1>9. CASE SnapRollback(w)
  <2>1. spent' \in Spent
    BY <1>9, SpendType DEF SnapRollback, Succeeds, Fails
  <2>. QED  BY <1>9, <2>1, ReturnType DEF SnapRollback, TypeOK, ReqType
<1>10. CASE UseFiles(w)
  BY <1>10, ReturnType DEF UseFiles, TypeOK, ReqType
<1>11. CASE SnapPauseUnheard(w)
  <2>1. ctr' \in [Containers -> Container]
    BY <1>11, SetStatusType DEF SnapPauseUnheard, TypeOK, Status
  <2>2. r.sb \in Sandboxes
    BY <1>11 DEF SnapPauseUnheard, At, TypeOK
  <2>3. spent' \in Spent
    BY <1>11, <2>2, SpendType DEF SnapPauseUnheard, TypeOK, Spent
  <2>. QED  BY <1>11, <2>1, <2>3, ReturnType DEF SnapPauseUnheard, TypeOK, ReqType
<1>. QED  BY <1>2, <1>3, <1>4, <1>5, <1>6, <1>7, <1>8, <1>9, <1>10, <1>11

LEMMA WorldTypes ==
  ASSUME TypeOK,
         \/ \E w \in Requests : Cancel(w)
         \/ \E c \in Containers : ContainerExits(c)
         \/ Crash \/ Boot
  PROVE  TypeOK'
<1>1. CASE \E w \in Requests : Cancel(w)
  <2>1. PICK w \in Requests : Cancel(w)
    BY <1>1
  <2>. DEFINE n == [req[w] EXCEPT !.dead = TRUE]
  <2>2. n \in Request /\ n.sb = req[w].sb
    BY DEF Request, TypeOK
  <2>3. ReqType'
    BY <2>1, <2>2, RecordType DEF Cancel, At
  <2>4. spent' \in Spent
    BY <2>1 DEF Cancel, TypeOK, Spent
  <2>. QED  BY <2>1, <2>3, <2>4 DEF Cancel, TypeOK, ReqType
<1>2. CASE \E c \in Containers : ContainerExits(c)
  <2>1. ctr' \in [Containers -> Container]
    BY <1>2, SetStatusType DEF ContainerExits, TypeOK, Status
  <2>. QED  BY <1>2, <2>1 DEF ContainerExits, TypeOK
<1>3. CASE Crash
  <2>1. spent \in Spent /\ {} \in SUBSET Sandboxes /\ spent.crashes + 1 \in Nat
    BY DEF TypeOK, Spent
  <2>2. spent' = [spent EXCEPT !.crashes = spent.crashes + 1, !.stranded = {}]
    BY <1>3 DEF Crash
  <2>3. spent' \in Spent
    BY <2>1, <2>2 DEF Spent
  <2>. QED  BY <1>3, <2>3, NullTypes DEF Crash, TypeOK, Idle
<1>4. CASE Boot
  <2>1. ctr' \in [Containers -> Container]
    BY <1>4, SetStatusType DEF Boot, BootList, BootUnpause, BootServe, TypeOK, Status
  <2>2. spent' \in Spent
    BY <1>4, SpendType DEF Boot, BootList, BootUnpause, BootServe, TypeOK
  <2>. QED  BY <1>4, <2>1, <2>2 DEF Boot, BootList, BootUnpause, BootServe, TypeOK
<1>. QED  BY <1>1, <1>2, <1>3, <1>4

LEMMA StepTypes ==
  ASSUME TypeOK, [Next]_vars
  PROVE  TypeOK'
<1>1. CASE Next
  BY <1>1, ArrivalTypes, LockingTypes, WriteTypes, RuntimeTypes, CallbackTypes,
     WorldTypes DEF Next, Handle
<1>2. CASE UNCHANGED vars
  BY <1>2 DEF vars, TypeOK
<1>. QED  BY <1>1, <1>2

LEMMA InitTypes == Init => TypeOK
  BY NullTypes DEF Init, TypeOK, Idle, Spent

\* Rows, mutexes, containers and requests keep their types, and every request
\* at work names a sandbox: no path of any handler forgets whom it works for.
THEOREM TypeCorrect == Spec => []TypeOK
  BY InitTypes, StepTypes, PTL DEF Spec

-------------------------------------------------------------------------------
(* Steps under the mutex                                                     *)

\* What a step of w may do while w holds the mutex of its sandbox: nothing to
\* another sandbox or request; it goes on with the row that is in the
\* database, or releases the mutex.
Inside(w) ==
  LET s == req[w].sb IN
  /\ \A v \in Requests \ {w} : req'[v] = req[v]
  /\ \A t \in Sandboxes \ {s} : rows'[t] = rows[t] /\ lock'[t] = lock[t]
  /\ rows'[s] = rows[s] \/ rows'[s].state # "absent"
  /\ \/ /\ lock'[s] = lock[s]
        /\ req'[w].sb = s /\ req'[w].row = rows'[s]
        /\ req'[w].pc \notin {"idle", "lock", "read"}
        /\ RequestInv(w)'
     \/ lock'[s] = Free /\ req'[w].pc = "idle"
     \/ /\ lock'[s] = Free /\ req'[w].pc = "lock" /\ req'[w].sb = s
        /\ rows'[s].state # "absent"

LEMMA InsideKeeps ==
  ASSUME IInv, TypeOK', NEW w \in Requests, HoldsLock(w), Inside(w)
  PROVE  IInv'
<1>. DEFINE s == req[w].sb
<1>1. s \in Sandboxes /\ lock[s] = w /\ w # Free
  BY NullsAssumption DEF IInv, TypeOK, MutualExclusion, HoldsLock
<1>2. ASSUME NEW v \in Requests, v # w, HoldsLock(v)
      PROVE  req[v].sb \in Sandboxes \ {s}
  BY <1>1, <1>2 DEF IInv, TypeOK, MutualExclusion, HoldsLock
<1>3. MutualExclusion'
  <2>1. ASSUME NEW v \in Requests, HoldsLock(v)'
        PROVE  lock'[req'[v].sb] = v
    <3>1. CASE v = w
      BY <1>1, <2>1, <3>1 DEF Inside, HoldsLock
    <3>2. CASE v # w
      <4>1. req'[v] = req[v] /\ HoldsLock(v)
        BY <2>1, <3>2 DEF Inside, HoldsLock
      <4>. QED  BY <1>2, <3>2, <4>1 DEF Inside, IInv, MutualExclusion
    <3>. QED  BY <3>1, <3>2
  <2>2. ASSUME NEW t \in Sandboxes, lock'[t] # Free
        PROVE  HoldsLock(lock[t])' /\ req'[lock'[t]].sb = t
    <3>1. CASE t = s
      BY <1>1, <2>2, <3>1 DEF Inside, HoldsLock
    <3>2. CASE t # s
      <4>1. lock'[t] = lock[t] /\ lock[t] \in Requests
        BY <2>2, <3>2 DEF Inside, IInv, TypeOK
      <4>2. HoldsLock(lock[t]) /\ req[lock[t]].sb = t
        BY <2>2, <4>1 DEF IInv, MutualExclusion
      <4>3. req'[lock[t]] = req[lock[t]]
        BY <3>2, <4>1, <4>2 DEF Inside
      <4>. QED  BY <4>1, <4>2, <4>3 DEF HoldsLock
    <3>. QED  BY <3>1, <3>2
  <2>. QED  BY <2>1, <2>2 DEF MutualExclusion
<1>4. NoLostUpdate'
  <2>1. ASSUME NEW v \in Requests, HoldsLock(v)', ~At(v, "read")'
        PROVE  req'[v].row = rows'[req'[v].sb]
    <3>1. CASE v = w
      BY <2>1, <3>1 DEF Inside, HoldsLock
    <3>2. CASE v # w
      <4>1. req'[v] = req[v] /\ HoldsLock(v) /\ ~At(v, "read")
        BY <2>1, <3>2 DEF Inside, HoldsLock, At
      <4>. QED  BY <1>2, <3>2, <4>1 DEF Inside, IInv, NoLostUpdate
    <3>. QED  BY <3>1, <3>2
  <2>. QED  BY <2>1 DEF NoLostUpdate
<1>5. ASSUME NEW t \in Sandboxes
      PROVE  /\ rows'[t].state = "absent" => rows'[t] = AbsentRow
             /\ rows[t].state # "absent" => rows'[t].state # "absent"
  BY DEF Inside, IInv
<1>6. ASSUME NEW v \in Requests
      PROVE  RequestInv(v)'
  <2>1. CASE v = w
    BY <1>5, <2>1 DEF Inside, RequestInv
  <2>2. CASE v # w
    <3>1. req'[v] = req[v] /\ RequestInv(v)
      BY <2>2 DEF Inside, IInv
    <3>2. req[v].pc \in {"lock", "read"} => rows'[req[v].sb].state # "absent"
      BY <1>5, <3>1 DEF RequestInv, IInv, TypeOK
    <3>. QED  BY <3>1, <3>2 DEF RequestInv, MayEnd
  <2>. QED  BY <2>1, <2>2
<1>. QED  BY <1>3, <1>4, <1>5, <1>6 DEF IInv

\* Going on to another step without a write.
LEMMA GotoKeeps ==
  ASSUME IInv, TypeOK', NEW w \in Requests, NEW pc, HoldsLock(w), ~At(w, "read"),
         Goto(w, pc), UNCHANGED <<rows, lock>>,
         pc \notin {"idle", "lock", "read", "insert", "mark", "forkWrite"},
         \/ MayEnd(req[w])
         \/ pc \in {"commit", "unpause", "record", "rollback"}
  PROVE  IInv'
<1>1. req'[w] = [req[w] EXCEPT !.pc = pc] /\ req[w] \in Request
  BY DEF Goto, IInv, TypeOK
<1>2. req'[w].pc = pc /\ req'[w].sb = req[w].sb /\ req'[w].row = req[w].row
        /\ req'[w].kind = req[w].kind
  BY <1>1 DEF Request
<1>3. req[w].row = rows[req[w].sb]
  BY DEF IInv, NoLostUpdate
<1>4. RequestInv(w)'
  BY <1>2 DEF RequestInv, MayEnd
<1>5. \A v \in Requests \ {w} : req'[v] = req[v]
  BY DEF Goto, IInv, TypeOK
<1>6. Inside(w)
  BY <1>2, <1>3, <1>4, <1>5 DEF Inside
<1>. QED  BY <1>6, InsideKeeps

\* Returning, with or without a write.
LEMMA ReturnKeeps ==
  ASSUME IInv, TypeOK', NEW w \in Requests, HoldsLock(w), Return(w),
         \/ UNCHANGED rows
         \/ \E row : row.state # "absent" /\ Update(w, row)
  PROVE  IInv'
<1>1. req'[w] = Idle /\ \A v \in Requests \ {w} : req'[v] = req[v]
  BY DEF Return, IInv, TypeOK
<1>2. Inside(w)
  BY <1>1 DEF Inside, Return, Idle, Update, HoldsLock, IInv, TypeOK
<1>. QED  BY <1>2, InsideKeeps

-------------------------------------------------------------------------------
(* Every action keeps IInv                                                   *)

\* Taking a request in, and taking the mutex.
LEMMA ArrivalKeeps ==
  ASSUME IInv, TypeOK', NEW w \in Requests, NEW s \in Sandboxes, NEW p \in Image,
         NEW kind \in Offered,
         Arrive(w, kind, s, p) \/ ArriveNew(w, kind, s, p)
  PROVE  IInv'
<1>1. req \in [Requests -> Request] /\ lock \in [Sandboxes -> Requests \cup {Free}]
        /\ w # Free
  BY NullsAssumption DEF IInv, TypeOK
<1>2. CASE Arrive(w, kind, s, p)
  <2>. DEFINE r == [Idle EXCEPT !.kind = kind, !.pc = "lock", !.sb = s,
                      !.row = rows[s], !.rid = rows[s].rid, !.snap = p]
  <2>1. req' = [req EXCEPT ![w] = r] /\ UNCHANGED <<rows, lock>>
          /\ rows[s].state # "absent" /\ req[w].pc = "idle"
    BY <1>2 DEF Arrive, At
  <2>2. r.pc = "lock" /\ r.sb = s
    BY DEF Idle
  <2>3. MutualExclusion'
    BY <1>1, <2>1, <2>2 DEF IInv, MutualExclusion, HoldsLock
  <2>4. NoLostUpdate'
    BY <1>1, <2>1, <2>2 DEF IInv, NoLostUpdate, HoldsLock, At
  <2>5. \A v \in Requests : RequestInv(v)'
    BY <1>1, <2>1, <2>2 DEF IInv, RequestInv, MayEnd
  <2>. QED  BY <2>1, <2>3, <2>4, <2>5 DEF IInv
<1>3. CASE ArriveNew(w, kind, s, p)
  <2>. DEFINE r == [Idle EXCEPT !.kind = kind, !.pc = "insert", !.sb = s, !.snap = p]
  <2>1. /\ req' = [req EXCEPT ![w] = r] /\ lock' = [lock EXCEPT ![s] = w]
        /\ UNCHANGED rows
        /\ rows[s].state = "absent" /\ lock[s] = Free /\ req[w].pc = "idle"
        /\ kind \in {"create", "fork"}
    BY <1>3 DEF ArriveNew, At
  <2>2. r.pc = "insert" /\ r.sb = s /\ r.row = AbsentRow /\ r.kind = kind
    BY DEF Idle
  <2>3. ASSUME NEW v \in Requests, HoldsLock(v)
        PROVE  v # w /\ req[v].sb \in Sandboxes \ {s} /\ lock[req[v].sb] = v
    BY <2>1, <2>3, NullsAssumption DEF IInv, TypeOK, MutualExclusion, HoldsLock
  <2>4. ASSUME NEW v \in Requests, HoldsLock(v)'
        PROVE  lock'[req'[v].sb] = v
    BY <1>1, <2>1, <2>2, <2>3, <2>4 DEF HoldsLock
  <2>5. ASSUME NEW t \in Sandboxes, lock'[t] # Free
        PROVE  HoldsLock(lock[t])' /\ req'[lock'[t]].sb = t
    BY <1>1, <2>1, <2>2, <2>5 DEF IInv, MutualExclusion, HoldsLock
  <2>6. NoLostUpdate'
    BY <1>1, <2>1, <2>2 DEF IInv, NoLostUpdate, HoldsLock, At
  <2>7. \A v \in Requests : RequestInv(v)'
    BY <1>1, <2>1, <2>2 DEF IInv, RequestInv, MayEnd
  <2>. QED  BY <2>1, <2>4, <2>5, <2>6, <2>7 DEF IInv, MutualExclusion
<1>. QED  BY <1>2, <1>3

LEMMA LockKeeps ==
  ASSUME IInv, TypeOK', NEW w \in Requests, Lock(w)
  PROVE  IInv'
<1>. DEFINE s == req[w].sb
            r == [req[w] EXCEPT !.pc = "read"]
<1>1. /\ req \in [Requests -> Request] /\ lock \in [Sandboxes -> Requests \cup {Free}]
      /\ s \in Sandboxes /\ w # Free
  BY NullsAssumption DEF IInv, TypeOK, Lock, At
<1>2. /\ req' = [req EXCEPT ![w] = r] /\ lock' = [lock EXCEPT ![s] = w]
      /\ UNCHANGED rows /\ lock[s] = Free /\ req[w].pc = "lock"
  BY DEF Lock, At, Goto
<1>3. r.pc = "read" /\ r.sb = s
  BY <1>1 DEF Request
<1>4. ASSUME NEW v \in Requests, HoldsLock(v)
      PROVE  v # w /\ req[v].sb \in Sandboxes \ {s} /\ lock[req[v].sb] = v
  BY <1>1, <1>2, <1>4, NullsAssumption DEF IInv, TypeOK, MutualExclusion, HoldsLock
<1>5. ASSUME NEW v \in Requests, HoldsLock(v)'
      PROVE  lock'[req'[v].sb] = v
  BY <1>1, <1>2, <1>3, <1>4, <1>5 DEF HoldsLock
<1>6. ASSUME NEW t \in Sandboxes, lock'[t] # Free
      PROVE  HoldsLock(lock[t])' /\ req'[lock'[t]].sb = t
  BY <1>1, <1>2, <1>3, <1>6 DEF IInv, MutualExclusion, HoldsLock
<1>7. NoLostUpdate'
  BY <1>1, <1>2, <1>3 DEF IInv, NoLostUpdate, HoldsLock, At
<1>8. \A v \in Requests : RequestInv(v)'
  BY <1>1, <1>2, <1>3 DEF IInv, RequestInv, MayEnd
<1>. QED  BY <1>2, <1>5, <1>6, <1>7, <1>8 DEF IInv, MutualExclusion

\* What a state check lets through: the operation may end either way.
LEMMA PermittedMayEnd ==
  ASSUME NEW kind \in Kinds \cup {"none"}, NEW row \in Row, Permits(kind, row),
         row.state # "absent",
         FirstStep(kind, row) \in {"rtCreate", "rtStart", "rtStop", "rtDestroy"}
  PROVE  /\ row.state = Target(kind) \/ States!CanTransition(row.state, Target(kind))
         /\ States!CanTransition(row.state, "error")
  BY DEF Kinds, Permits, FirstStep, Target, States!CanTransition, States!transitions,
         States!States, Row, RowState

LEMMA ReadKeeps ==
  ASSUME IInv, TypeOK', NEW w \in Requests, Read(w) \/ ReadRejects(w)
  PROVE  IInv'
<1>. DEFINE s == req[w].sb
<1>1. HoldsLock(w) /\ s \in Sandboxes /\ req[w] \in Request /\ rows[s] \in Row
        /\ rows[s].state # "absent"
  BY DEF Read, ReadRejects, At, HoldsLock, IInv, TypeOK, RequestInv
<1>2. CASE Read(w)
  <2>. DEFINE r == [req[w] EXCEPT !.row = rows[s], !.rid = rows[s].rid,
                                  !.pc = FirstStep(req[w].kind, rows[s])]
  <2>1. /\ req' = [req EXCEPT ![w] = r] /\ UNCHANGED <<rows, lock>>
        /\ Permits(req[w].kind, rows[s])
    BY <1>2 DEF Read
  <2>2. req'[w] = r /\ \A v \in Requests \ {w} : req'[v] = req[v]
    BY <2>1 DEF IInv, TypeOK
  <2>3. /\ r.pc = FirstStep(req[w].kind, rows[s]) /\ r.row = rows[s]
        /\ r.sb = s /\ r.kind = req[w].kind /\ r.kind \in Kinds \cup {"none"}
    BY <1>1 DEF Request
  <2>4. r.pc \notin {"idle", "lock", "read", "insert"}
    BY <2>3 DEF FirstStep
  <2>5. r.pc = "mark" => r.kind = "destroy"
                           /\ States!CanTransition(r.row.state, "destroying")
    BY <2>1, <2>3 DEF FirstStep, Permits
  <2>6. r.pc \in {"inspect", "save", "markError"} => FALSE
    BY <2>3 DEF FirstStep
  <2>7. r.pc \in {"rtCreate", "rtStart", "rtStop", "rtDestroy"} => MayEnd(r)
    BY <1>1, <2>1, <2>3, PermittedMayEnd DEF MayEnd
  <2>8. RequestInv(w)'
    BY <1>1, <2>2, <2>3, <2>4, <2>5, <2>6, <2>7 DEF RequestInv, MayEnd
  <2>9. Inside(w)
    BY <2>1, <2>2, <2>3, <2>4, <2>8 DEF Inside
  <2>. QED  BY <1>1, <2>9, InsideKeeps
<1>3. CASE ReadRejects(w)
  BY <1>1, <1>3, ReturnKeeps DEF ReadRejects
<1>. QED  BY <1>2, <1>3

\* A row that a request leaves behind is not absent.
LEMMA WritesKeep ==
  ASSUME IInv, TypeOK', NEW w \in Requests,
         \/ InsertRow(w) \/ InsertFails(w) \/ MarkDestroying(w) \/ Save(w)
         \/ MarkError(w) \/ ForkWrite(w)
  PROVE  IInv'
<1>. DEFINE r == req[w]
            s == r.sb
<1>1. HoldsLock(w) /\ s \in Sandboxes /\ r \in Request /\ r.row \in Row /\ ~At(w, "read")
  BY DEF InsertRow, InsertFails, MarkDestroying, Save, MarkError, ForkWrite, At,
         HoldsLock, IInv, TypeOK, Request
<1>2. rows \in [Sandboxes -> Row] /\ req \in [Requests -> Request] /\ r.row = rows[s]
        /\ RequestInv(w) /\ lock \in [Sandboxes -> Requests \cup {Free}]
  BY <1>1 DEF IInv, TypeOK, NoLostUpdate
<1>3. ASSUME NEW n \in Request, req' = [req EXCEPT ![w] = n], n.sb = s,
             n.row.state # "absent", Update(w, n.row),
             \/ UNCHANGED lock /\ n.pc \notin {"idle", "lock", "read", "insert", "mark"}
                  /\ MayEnd(n)
             \/ lock' = [lock EXCEPT ![s] = Free] /\ n.pc = "lock"
      PROVE  IInv'
  <2>1. req'[w] = n /\ \A v \in Requests \ {w} : req'[v] = req[v]
    BY <1>2, <1>3
  <2>2. rows'[s] = n.row /\ \A t \in Sandboxes \ {s} : rows'[t] = rows[t]
    BY <1>1, <1>2, <1>3 DEF Update
  <2>3. CASE UNCHANGED lock /\ n.pc \notin {"idle", "lock", "read", "insert", "mark"}
               /\ MayEnd(n)
    <3>1. RequestInv(w)'
      BY <1>3, <2>1, <2>3 DEF RequestInv, MayEnd
    <3>. QED  BY <1>1, <1>3, <2>1, <2>2, <2>3, <3>1, InsideKeeps DEF Inside
  <2>4. CASE lock' = [lock EXCEPT ![s] = Free] /\ n.pc = "lock"
    BY <1>1, <1>2, <1>3, <2>1, <2>2, <2>4, InsideKeeps DEF Inside
  <2>. QED  BY <1>3, <2>3, <2>4
<1>4. CASE InsertRow(w)
  <2>. DEFINE n == [r EXCEPT !.row = NewRow, !.pc = "rtCreate"]
  <2>1. n \in Request /\ n.sb = s /\ n.row = NewRow /\ n.pc = "rtCreate" /\ n.kind = r.kind
    BY <1>1, NullTypes DEF Request, Steps
  <2>2. r.kind \in {"create", "fork"}
    BY <1>2, <1>4 DEF RequestInv, InsertRow, At
  <2>3. MayEnd(n) /\ n.row.state # "absent"
    BY <2>1, <2>2 DEF MayEnd, NewRow, Target, States!CanTransition,
       States!transitions, States!States
  <2>. QED  BY <1>3, <1>4, <2>1, <2>3 DEF InsertRow
<1>5. CASE InsertFails(w)
  BY <1>1, <1>5, ReturnKeeps DEF InsertFails
<1>6. CASE MarkDestroying(w)
  <2>. DEFINE row == [r.row EXCEPT !.state = "destroying"]
              n == [r EXCEPT !.row = row,
                 !.pc = IF row.rid = NoContainer THEN "save" ELSE "rtDestroy"]
  <2>1. CASE r.dead
    BY <1>1, <1>6, <2>1, ReturnKeeps DEF MarkDestroying
  <2>2. CASE ~r.dead
    <3>1. row \in Row /\ row.state = "destroying"
      BY <1>1 DEF Row, RowState, States!States
    <3>2. n \in Request /\ n.sb = s /\ n.row = row /\ n.pc \in {"save", "rtDestroy"}
            /\ n.kind = r.kind
      BY <1>1, <3>1 DEF Request, Steps
    <3>3. r.kind = "destroy"
      BY <1>2, <1>6 DEF RequestInv, MarkDestroying, At
    <3>4. MayEnd(n)
      BY <3>1, <3>2, <3>3 DEF MayEnd, Target, States!CanTransition,
         States!transitions, States!States
    <3>5. req' = [req EXCEPT ![w] = n] /\ Update(w, n.row) /\ UNCHANGED lock
      BY <1>6, <2>2, <3>2 DEF MarkDestroying
    <3>. QED  BY ONLY <1>3, <3>1, <3>2, <3>4, <3>5
  <2>. QED  BY <2>1, <2>2
<1>7. CASE Save(w)
  <2>1. Outcome(r) \in Row /\ Outcome(r).state # "absent"
    BY <1>1, OutcomeType DEF Outcome, Target
  <2>2. CASE r.kind = "fork" /\ ~r.dead
    <3>. DEFINE n == [r EXCEPT !.row = Outcome(r), !.pc = "lock"]
    <3>1. n \in Request /\ n.sb = s /\ n.row = Outcome(r) /\ n.pc = "lock"
      BY <1>1, <2>1 DEF Request, Steps
    <3>2. req' = [req EXCEPT ![w] = n] /\ Update(w, n.row)
            /\ lock' = [lock EXCEPT ![s] = Free]
      BY <1>7, <2>2, <3>1 DEF Save
    <3>. QED  BY ONLY <1>3, <2>1, <3>1, <3>2
  <2>3. CASE ~(r.kind = "fork" /\ ~r.dead)
    BY <1>1, <1>7, <2>1, <2>3, ReturnKeeps DEF Save
  <2>. QED  BY <2>2, <2>3
<1>8. CASE MarkError(w)
  <2>. DEFINE row == [r.row EXCEPT !.state = "error", !.rid = r.rid]
  <2>1. row.state # "absent"
    BY <1>1 DEF Row
  <2>2. UNCHANGED rows \/ Update(w, row)
    BY <1>8 DEF MarkError
  <2>. QED  BY <1>1, <1>8, <2>1, <2>2, ReturnKeeps DEF MarkError
<1>9. CASE ForkWrite(w)
  <2>. DEFINE row == [r.row EXCEPT !.parent = r.snap]
  <2>1. row.state # "absent"
    BY <1>1, <1>2, <1>9 DEF Row, RequestInv, ForkWrite, At
  <2>2. UNCHANGED rows \/ Update(w, row)
    BY <1>9 DEF ForkWrite
  <2>. QED  BY <1>1, <1>9, <2>1, <2>2, ReturnKeeps DEF ForkWrite
<1>. QED  BY <1>4, <1>5, <1>6, <1>7, <1>8, <1>9

LEMMA RuntimeKeeps ==
  ASSUME IInv, TypeOK', NEW w \in Requests,
         \/ \E c \in Containers : RtCreate(w, c)
         \/ RtCreateFails(w)
         \/ RtStart(w) \/ RtStop(w) \/ RtDestroy(w) \/ Inspect(w) \/ RtFails(w)
  PROVE  IInv'
<1>. DEFINE r == req[w]
<1>1. HoldsLock(w) /\ ~At(w, "read") /\ UNCHANGED <<rows, lock>>
        /\ r.pc \in {"rtCreate", "rtStart", "rtStop", "rtDestroy", "inspect"}
  BY DEF RtCreate, RtCreateFails, RtStart, RtStop, RtDestroy, Inspect, RtFails,
         At, HoldsLock
<1>2. MayEnd(r) /\ r \in Request /\ r.row = rows[r.sb]
  BY <1>1 DEF IInv, TypeOK, RequestInv, NoLostUpdate
<1>3. CASE \E c \in Containers : RtCreate(w, c)
  <2>1. PICK c \in Containers : RtCreate(w, c)
    BY <1>3
  <2>2. CASE req' = [req EXCEPT ![w].rid = c, ![w].pc = "rtStart"]
    <3>. DEFINE n == [r EXCEPT !.rid = c, !.pc = "rtStart"]
    <3>1. req'[w] = n /\ \A v \in Requests \ {w} : req'[v] = req[v]
      BY <2>2 DEF IInv, TypeOK
    <3>2. n.sb = r.sb /\ n.row = r.row /\ n.kind = r.kind /\ n.pc = "rtStart"
      BY <1>2 DEF Request
    <3>3. RequestInv(w)'
      BY <1>2, <3>1, <3>2 DEF RequestInv, MayEnd
    <3>. QED  BY <1>1, <1>2, <3>1, <3>2, <3>3, InsideKeeps DEF Inside
  <2>3. CASE Goto(w, "markError")
    BY <1>1, <1>2, <2>3, GotoKeeps
  <2>. QED  BY <2>1, <2>2, <2>3 DEF RtCreate
<1>4. ASSUME RtCreateFails(w) \/ RtStart(w) \/ RtStop(w) \/ RtDestroy(w)
             \/ Inspect(w) \/ RtFails(w)
      PROVE  \E pc \in {"save", "inspect", "rtCreate", "markError"} : Goto(w, pc)
  BY <1>4 DEF RtCreateFails, RtStart, RtStop, RtDestroy, Inspect, RtFails, Performed
<1>5. ASSUME NEW pc \in {"save", "inspect", "rtCreate", "markError"}, Goto(w, pc)
      PROVE  IInv'
  BY <1>1, <1>2, <1>5, GotoKeeps
<1>. QED  BY <1>3, <1>4, <1>5

LEMMA CallbacksKeep ==
  ASSUME IInv, TypeOK', NEW w \in Requests,
         \/ SnapPause(w) \/ SnapPauseUnheard(w) \/ SnapPauseFails(w)
         \/ \E p \in Snapshots : SnapCommit(w, p)
         \/ SnapCommitFails(w) \/ SnapUnpause(w)
         \/ SnapRecord(w) \/ SnapRecordFails(w) \/ SnapRollback(w)
         \/ UseFiles(w)
  PROVE  IInv'
<1>. DEFINE r == req[w]
<1>1. HoldsLock(w) /\ ~At(w, "read") /\ UNCHANGED rows
  BY DEF SnapPause, SnapPauseUnheard, SnapPauseFails, SnapCommit, SnapCommitFails, SnapUnpause,
         SnapRecord, SnapRecordFails, SnapRollback, UseFiles, At, HoldsLock
<1>2. r \in Request /\ r.row = rows[r.sb]
  BY <1>1 DEF IInv, TypeOK, NoLostUpdate
<1>3. ASSUME NEW n, req' = [req EXCEPT ![w] = n], UNCHANGED lock,
             n.sb = r.sb, n.row = r.row, n.pc \in {"commit", "unpause"}
      PROVE  IInv'
  <2>1. req'[w] = n /\ \A v \in Requests \ {w} : req'[v] = req[v]
    BY <1>3 DEF IInv, TypeOK
  <2>2. RequestInv(w)'
    BY <1>3, <2>1 DEF RequestInv, MayEnd
  <2>. QED  BY <1>1, <1>2, <1>3, <2>1, <2>2, InsideKeeps DEF Inside
<1>4. ASSUME NEW pc \in {"commit", "unpause", "record", "rollback"}, Goto(w, pc),
             UNCHANGED lock
      PROVE  IInv'
  BY <1>1, <1>4, GotoKeeps
<1>5. ASSUME Return(w) PROVE IInv'
  BY <1>1, <1>5, ReturnKeeps
<1>6. CASE SnapPause(w)
  <2>. DEFINE n == [r EXCEPT !.frozen = TRUE, !.pc = "commit"]
  <2>1. n.sb = r.sb /\ n.row = r.row /\ n.pc = "commit"
    BY <1>2 DEF Request
  <2>2. CASE req' = [req EXCEPT ![w] = n] /\ UNCHANGED lock
    BY ONLY <1>3, <2>1, <2>2
  <2>. QED  BY <1>4, <1>5, <1>6, <2>2 DEF SnapPause
<1>7. CASE \E p \in Snapshots : SnapCommit(w, p)
  <2>1. PICK p \in Snapshots : SnapCommit(w, p)
    BY <1>7
  <2>. DEFINE n == [r EXCEPT !.snap = p, !.pc = "unpause"]
  <2>2. n.sb = r.sb /\ n.row = r.row /\ n.pc = "unpause"
    BY <1>2 DEF Request
  <2>3. CASE req' = [req EXCEPT ![w] = n] /\ UNCHANGED lock
    BY ONLY <1>3, <2>2, <2>3
  <2>. QED  BY <1>4, <2>1, <2>3 DEF SnapCommit
<1>8. CASE SnapCommitFails(w) \/ SnapUnpause(w) \/ SnapRecordFails(w)
  BY <1>4, <1>5, <1>8 DEF SnapCommitFails, SnapUnpause, SnapRecordFails
<1>9. CASE SnapPauseUnheard(w) \/ SnapPauseFails(w) \/ SnapRecord(w) \/ SnapRollback(w)
             \/ UseFiles(w)
  BY <1>5, <1>9 DEF SnapPauseUnheard, SnapPauseFails, SnapRecord, SnapRollback, UseFiles
<1>. QED  BY <1>6, <1>7, <1>8, <1>9

LEMMA WorldKeeps ==
  ASSUME IInv, TypeOK',
         \/ \E w \in Requests : Cancel(w)
         \/ \E c \in Containers : ContainerExits(c)
         \/ Crash \/ Boot \/ UNCHANGED vars
  PROVE  IInv'
<1>1. CASE \E w \in Requests : Cancel(w)
  <2>1. PICK w \in Requests : Cancel(w)
    BY <1>1
  <2>2. ASSUME NEW v \in Requests
        PROVE  req'[v].pc = req[v].pc /\ req'[v].sb = req[v].sb
                 /\ req'[v].row = req[v].row /\ req'[v].kind = req[v].kind
    BY <2>1 DEF Cancel, IInv, TypeOK, Request
  <2>3. MutualExclusion'
    BY <2>1, <2>2 DEF Cancel, IInv, TypeOK, MutualExclusion, HoldsLock
  <2>4. NoLostUpdate'
    BY <2>1, <2>2 DEF Cancel, IInv, NoLostUpdate, HoldsLock, At
  <2>5. \A v \in Requests : RequestInv(v)'
    BY <2>1, <2>2 DEF Cancel, IInv, RequestInv, MayEnd
  <2>. QED  BY <2>1, <2>3, <2>4, <2>5 DEF Cancel, IInv
<1>2. CASE UNCHANGED <<rows, lock, req>>
  BY <1>2 DEF IInv, MutualExclusion, NoLostUpdate, RequestInv, MayEnd, HoldsLock, At
<1>3. CASE Crash
  BY <1>3 DEF Crash, IInv, TypeOK, MutualExclusion, NoLostUpdate, RequestInv,
     MayEnd, HoldsLock, At, Idle
<1>. QED  BY <1>1, <1>2, <1>3 DEF ContainerExits, Boot, BootList, BootUnpause,
     BootServe, vars

LEMMA StepKeeps ==
  ASSUME IInv, [Next]_vars
  PROVE  IInv'
<1>1. TypeOK'
  BY StepTypes DEF IInv
<1>2. CASE Next
  BY <1>1, <1>2, ArrivalKeeps, LockKeeps, ReadKeeps, WritesKeep, RuntimeKeeps,
     CallbacksKeep, WorldKeeps DEF Next, Handle
<1>3. CASE UNCHANGED vars
  BY <1>1, <1>3, WorldKeeps
<1>. QED  BY <1>2, <1>3

LEMMA InitKeeps == Init => IInv
  BY InitTypes, NullsAssumption DEF Init, IInv, MutualExclusion, NoLostUpdate,
     RequestInv, MayEnd, HoldsLock, At, Idle

\* The inductive invariant holds throughout.
THEOREM Inductive == Spec => []IInv
  BY InitKeeps, StepKeeps, PTL DEF Spec

\* Never do two requests work on one sandbox, and no mutex is held by a request
\* that is not at work on it, whatever fails, is cancelled or dies.
THEOREM MutualExclusionHolds == Spec => []MutualExclusion
<1>1. IInv => MutualExclusion
  BY DEF IInv
<1>. QED  BY <1>1, Inductive, PTL

\* A whole-row update never writes back a column that another request changed.
THEOREM NoLostUpdateHolds == Spec => []NoLostUpdate
<1>1. IInv => NoLostUpdate
  BY DEF IInv
<1>. QED  BY <1>1, Inductive, PTL

-------------------------------------------------------------------------------
(* The service implements the table of states                                *)

StateColumn == [s \in Sandboxes |-> rows[s].state]

\* Rewriting a row with a state that is the same or allowed next.
LEMMA RewriteRefines ==
  ASSUME IInv, NEW s \in Sandboxes, NEW row, rows' = [rows EXCEPT ![s] = row],
         row.state = rows[s].state \/ States!CanTransition(rows[s].state, row.state)
  PROVE  States!Next \/ UNCHANGED StateColumn
<1>1. StateColumn' = [StateColumn EXCEPT ![s] = row.state]
  BY DEF StateColumn, IInv, TypeOK
<1>2. CASE row.state = rows[s].state
  BY <1>1, <1>2 DEF StateColumn
<1>3. CASE States!CanTransition(rows[s].state, row.state)
  <2>1. row.state \in States!States
    BY <1>3 DEF States!CanTransition, States!transitions, States!States
  <2>2. States!Transition(s, row.state)
    BY <1>1, <1>3 DEF States!Transition, StateColumn
  <2>. QED  BY <2>1, <2>2 DEF States!Next
<1>. QED  BY <1>2, <1>3

LEMMA WritesRefine ==
  ASSUME IInv, NEW w \in Requests,
         InsertRow(w) \/ MarkDestroying(w) \/ Save(w) \/ MarkError(w) \/ ForkWrite(w)
  PROVE  States!Next \/ UNCHANGED StateColumn
<1>. DEFINE r == req[w]
            s == r.sb
<1>1. HoldsLock(w) /\ ~At(w, "read") /\ s \in Sandboxes /\ r.row \in Row
  BY DEF InsertRow, MarkDestroying, Save, MarkError, ForkWrite, At, HoldsLock,
         IInv, TypeOK, Request
<1>2. r.row = rows[s] /\ RequestInv(w)
  BY <1>1 DEF IInv, NoLostUpdate
<1>3. CASE UNCHANGED rows
  BY <1>3 DEF StateColumn
<1>4. CASE InsertRow(w)
  <2>1. rows[s].state = "absent" /\ rows' = [rows EXCEPT ![s] = NewRow]
    BY <1>2, <1>4 DEF InsertRow, At, Update, RequestInv, AbsentRow
  <2>2. StateColumn' = [StateColumn EXCEPT ![s] = "creating"]
    BY <1>1, <2>1 DEF StateColumn, IInv, TypeOK, NewRow
  <2>3. States!Register(s)
    BY <1>1, <2>1, <2>2 DEF States!Register, StateColumn
  <2>. QED  BY <1>1, <2>3 DEF States!Next, States!Register
<1>5. CASE MarkDestroying(w)
  <2>. DEFINE row == [r.row EXCEPT !.state = "destroying"]
  <2>1. row.state = "destroying" /\ States!CanTransition(rows[s].state, row.state)
    BY <1>1, <1>2, <1>5 DEF Row, RequestInv, MarkDestroying, At
  <2>2. UNCHANGED rows \/ rows' = [rows EXCEPT ![s] = row]
    BY <1>5 DEF MarkDestroying, Update
  <2>. QED  BY <1>1, <1>3, <2>1, <2>2, RewriteRefines
<1>6. CASE Save(w)
  <2>1. /\ Outcome(r).state = Target(r.kind)
        /\ \/ rows[s].state = Target(r.kind)
           \/ States!CanTransition(rows[s].state, Target(r.kind))
    BY <1>2, <1>6 DEF Outcome, RequestInv, MayEnd, Save, At
  <2>2. UNCHANGED rows \/ rows' = [rows EXCEPT ![s] = Outcome(r)]
    BY <1>6 DEF Save, Update
  <2>. QED  BY <1>1, <1>3, <2>1, <2>2, RewriteRefines
<1>7. CASE MarkError(w)
  <2>. DEFINE row == [r.row EXCEPT !.state = "error", !.rid = r.rid]
  <2>1. row.state = "error" /\ States!CanTransition(rows[s].state, "error")
    BY <1>1, <1>2, <1>7 DEF Row, RequestInv, MayEnd, MarkError, At
  <2>2. UNCHANGED rows \/ rows' = [rows EXCEPT ![s] = row]
    BY <1>7 DEF MarkError, Update
  <2>. QED  BY <1>1, <1>3, <2>1, <2>2, RewriteRefines
<1>8. CASE ForkWrite(w)
  <2>. DEFINE row == [r.row EXCEPT !.parent = r.snap]
  <2>1. row.state = rows[s].state
    BY <1>1, <1>2 DEF Row
  <2>2. UNCHANGED rows \/ rows' = [rows EXCEPT ![s] = row]
    BY <1>8 DEF ForkWrite, Update
  <2>. QED  BY <1>1, <1>3, <2>1, <2>2, RewriteRefines
<1>. QED  BY <1>4, <1>5, <1>6, <1>7, <1>8

\* A handler moves its own request only.
LEMMA HandleAlone ==
  ASSUME TypeOK, NEW w \in Requests, Handle(w), NEW v \in Requests, v # w
  PROVE  req'[v] = req[v]
BY DEF TypeOK, Handle, Goto, Return, Lock, Read, ReadRejects, InsertRow, InsertFails,
   MarkDestroying, Save, MarkError, ForkWrite, RtCreate, RtCreateFails, Performed,
   RtStart, RtStop, RtDestroy, Inspect, RtFails, SnapPause, SnapPauseUnheard,
   SnapPauseFails,
   SnapCommit, SnapCommitFails, SnapUnpause, SnapRecord, SnapRecordFails,
   SnapRollback, UseFiles

\* The only steps of a handler that write to the database.
LEMMA HandleWrites ==
  ASSUME NEW w \in Requests, Handle(w)
  PROVE  \/ UNCHANGED rows
         \/ InsertRow(w) \/ MarkDestroying(w) \/ Save(w) \/ MarkError(w)
         \/ ForkWrite(w)
BY DEF Handle, Lock, Read, ReadRejects, InsertFails, RtCreate, RtCreateFails,
   RtStart, RtStop, RtDestroy, Inspect, RtFails, SnapPause, SnapPauseUnheard,
   SnapPauseFails,
   SnapCommit, SnapCommitFails, SnapUnpause, SnapRecord, SnapRecordFails,
   SnapRollback, UseFiles

LEMMA StepRefines ==
  ASSUME IInv, [Next]_vars
  PROVE  [States!Next]_StateColumn
<1>1. CASE UNCHANGED rows
  BY <1>1 DEF StateColumn
<1>2. CASE \E w \in Requests : Handle(w)
  BY <1>1, <1>2, HandleWrites, WritesRefine
<1>3. CASE Next /\ ~\E w \in Requests : Handle(w)
  <2>1. UNCHANGED rows
    <3>1. CASE Boot
      BY <3>1 DEF Boot, BootList, BootUnpause, BootServe
    <3>2. CASE ~Boot
      <4>1. CASE \E w \in Requests, t \in Sandboxes, p \in Image, kind \in Offered :
                   Arrive(w, kind, t, p) \/ ArriveNew(w, kind, t, p)
        BY <4>1 DEF Arrive, ArriveNew
      <4>2. CASE \E w \in Requests : Cancel(w)
        BY <4>2 DEF Cancel
      <4>3. CASE \E c \in Containers : ContainerExits(c)
        BY <4>3 DEF ContainerExits
      <4>4. CASE Crash
        BY <4>4 DEF Crash
      <4>. QED  BY <1>3, <3>2, <4>1, <4>2, <4>3, <4>4 DEF Next
    <3>. QED  BY <3>1, <3>2
  <2>. QED  BY <1>1, <2>1
<1>4. CASE UNCHANGED vars
  BY <1>1, <1>4 DEF vars
<1>. QED  BY <1>2, <1>3, <1>4

LEMMA InitRefines == Init => States!Init
  BY DEF Init, States!Init, AbsentRow

\* Six operations, each in several database writes with runtime calls between
\* them, and every error path: together they implement the table of state.go.
THEOREM StateMachineHolds == Spec => StateMachine
<1>1. Init => States!Init
  BY InitRefines
<1>2. IInv /\ [Next]_vars => [States!Next]_StateColumn
  BY StepRefines
<1>. QED  BY <1>1, <1>2, Inductive, PTL DEF Spec, StateMachine, States!Spec, StateColumn
===============================================================================
