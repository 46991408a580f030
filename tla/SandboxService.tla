---------------------------- MODULE SandboxService ----------------------------
(***************************************************************************)
(* The sandbox service of orcald (internal/sandbox): the requests that     *)
(* create, start, stop, destroy, fork, restore, snapshot and reach into    *)
(* the files of a sandbox, the mutex per sandbox they serialise on, the    *)
(* rows they rewrite, the containers they drive, and what happens to all   *)
(* of it when a runtime call fails, a caller hangs up or the daemon dies.  *)
(*                                                                         *)
(* A request is a goroutine: it takes one step per database statement or   *)
(* runtime call, and other requests run between any two of its steps.  The *)
(* store runs over one connection, so a statement is atomic.               *)
(***************************************************************************)
EXTENDS Naturals, FiniteSets

CONSTANTS
  Sandboxes,    \* sandbox identifiers (id.New never repeats one)
  Containers,   \* identifiers the runtime gives to containers
  Snapshots,    \* snapshot identifiers, each standing for its image as well
  Requests,     \* slots for API requests in flight
  NoSandbox, NoContainer, NoSnapshot,
  Free,         \* the holder of an unlocked mutex
  Offered,      \* bound: the kinds of request that clients send
  MaxFaults,    \* bound: runtime calls that fail, or whose reply is lost
  MaxCancels,   \* bound: request contexts cancelled by their caller
  MaxCrashes    \* bound: deaths of the daemon

ASSUME NullsAssumption ==
  /\ NoSandbox \notin Sandboxes
  /\ NoContainer \notin Containers
  /\ NoSnapshot \notin Snapshots
  /\ Free \notin Requests

ASSUME BoundsAssumption ==
  MaxFaults \in Nat /\ MaxCancels \in Nat /\ MaxCrashes \in Nat

\* What the API offers (Offered narrows it down in the larger instances).
Kinds == {"create", "fork", "start", "stop", "destroy", "restore",
          "snapshot", "files"}

ASSUME OfferedAssumption == Offered \subseteq Kinds

VARIABLES
  rows,   \* the sandboxes table
  lock,   \* who holds the mutex of each sandbox
  ctr,    \* the containers of the runtime
  req,    \* progress of each request
  mode,   \* "serving", or where the boot sequence stands
  todo,   \* sandboxes UnpausePaused has still to look at
  spent   \* how much of each bound is used up; and, for the properties alone,
          \* the sandboxes that a hang-up left frozen since the last boot

vars == <<rows, lock, ctr, req, mode, todo, spent>>

-------------------------------------------------------------------------------
(* Rows, containers, requests                                                *)

States == INSTANCE SandboxStates
            WITH state <- [s \in Sandboxes |-> rows[s].state]

RowState  == States!States \cup {"absent"}
RuntimeID == Containers \cup {NoContainer}
Image     == Snapshots \cup {NoSnapshot}   \* NoSnapshot: a registry image
Row       == [state : RowState, rid : RuntimeID, parent : Image]
AbsentRow == [state |-> "absent", rid |-> NoContainer, parent |-> NoSnapshot]
NewRow    == [state |-> "creating", rid |-> NoContainer, parent |-> NoSnapshot]

Status    == {"unused", "running", "paused", "stopped", "gone"}
Container == [status : Status, image : Image, owner : Sandboxes \cup {NoSandbox}]
Unused    == [status |-> "unused", image |-> NoSnapshot, owner |-> NoSandbox]

Steps == {"lock", "read", "insert", "rtCreate", "rtStart", "rtStop",
          "rtDestroy", "inspect", "save", "mark", "markError", "forkWrite",
          "pause", "commit", "unpause", "record", "rollback", "use"}

\* row is the request's copy of the database row as it last read or wrote
\* it, rid the RuntimeID field of that copy in memory, snap the snapshot the
\* request resolved (or took), frozen that it paused the container, dead that
\* its context is cancelled.
Request == [kind : Kinds \cup {"none"}, pc : Steps \cup {"idle"},
            sb : Sandboxes \cup {NoSandbox}, row : Row, rid : RuntimeID,
            snap : Image, frozen : BOOLEAN, dead : BOOLEAN]
Idle    == [kind |-> "none", pc |-> "idle", sb |-> NoSandbox, row |-> AbsentRow,
            rid |-> NoContainer, snap |-> NoSnapshot, frozen |-> FALSE,
            dead |-> FALSE]

Spent   == [faults : Nat, cancels : Nat, crashes : Nat,
            stranded : SUBSET Sandboxes]

TypeOK ==
  /\ rows \in [Sandboxes -> Row]
  /\ lock \in [Sandboxes -> Requests \cup {Free}]
  /\ ctr \in [Containers -> Container]
  /\ req \in [Requests -> Request]
  /\ \A w \in Requests : req[w].pc # "idle" => req[w].sb \in Sandboxes
  /\ mode \in {"serving", "booting", "unpausing"}
  /\ todo \in SUBSET Sandboxes
  /\ spent \in Spent

Init ==
  /\ rows = [s \in Sandboxes |-> AbsentRow]
  /\ lock = [s \in Sandboxes |-> Free]
  /\ ctr = [c \in Containers |-> Unused]
  /\ req = [w \in Requests |-> Idle]
  /\ mode = "serving"
  /\ todo = {}
  /\ spent = [faults |-> 0, cancels |-> 0, crashes |-> 0, stranded |-> {}]

At(w, pc) == req[w].pc = pc
Goto(w, pc) == req' = [req EXCEPT ![w].pc = pc]

\* The deferred unlock runs and the handler returns.
Return(w) ==
  /\ lock' = [lock EXCEPT ![req[w].sb] = Free]
  /\ req' = [req EXCEPT ![w] = Idle]

SpendFault ==
  /\ spent.faults < MaxFaults
  /\ spent' = [spent EXCEPT !.faults = @ + 1]

\* A call of the runtime fails when it is cancelled, before or while it runs, or meets
\* a fault, and any other call succeeds.  One that fails may have taken effect all the
\* same: the daemon of the runtime had it, and its caller only never heard so.
Succeeds(w) == ~req[w].dead /\ UNCHANGED spent
Fails(w) == IF req[w].dead THEN UNCHANGED spent ELSE SpendFault

Live(c) == c \in Containers /\ ctr[c].status \in {"running", "paused", "stopped"}
SetStatus(c, st) == ctr' = [ctr EXCEPT ![c].status = st]

-------------------------------------------------------------------------------
(* Arrival, the per-sandbox mutex and the read under it                      *)

\* A request on a sandbox that has a row: Get resolves the reference before
\* the mutex is taken, and Restore resolves its snapshot before that.
Arrive(w, kind, s, p) ==
  /\ mode = "serving" /\ At(w, "idle")
  /\ rows[s].state # "absent"
  /\ kind \in Offered \ {"create", "fork"}
  /\ IF kind = "restore" THEN p \in Snapshots ELSE p = NoSnapshot
  /\ req' = [req EXCEPT ![w] = [Idle EXCEPT !.kind = kind, !.pc = "lock",
               !.sb = s, !.row = rows[s], !.rid = rows[s].rid, !.snap = p]]
  /\ UNCHANGED <<rows, lock, ctr, mode, todo, spent>>

\* Create mints an identifier, so its mutex is free and is taken at once.
\* Fork resolves the snapshot and runs Create with the image of it.
ArriveNew(w, kind, s, p) ==
  /\ mode = "serving" /\ At(w, "idle")
  /\ rows[s].state = "absent" /\ lock[s] = Free
  /\ kind \in Offered
  /\ \/ kind = "create" /\ p = NoSnapshot
     \/ kind = "fork" /\ p \in Snapshots
  /\ lock' = [lock EXCEPT ![s] = w]
  /\ req' = [req EXCEPT ![w] = [Idle EXCEPT !.kind = kind, !.pc = "insert",
               !.sb = s, !.snap = p]]
  /\ UNCHANGED <<rows, ctr, mode, todo, spent>>

\* Mutant: a mutex that lets a second holder in.
Lock_NoWait(w) ==
  /\ At(w, "lock")
  /\ lock' = [lock EXCEPT ![req[w].sb] = w]
  /\ Goto(w, "read")
  /\ UNCHANGED <<rows, ctr, mode, todo, spent>>

\* Mutant: a snapshot gets its source from a plain getter, without the mutex.
Lock_PlainGetter(w) ==
  /\ At(w, "lock")
  /\ req[w].kind # "snapshot" => lock[req[w].sb] = Free
  /\ lock' = [lock EXCEPT ![req[w].sb] = IF req[w].kind = "snapshot" THEN @ ELSE w]
  /\ Goto(w, "read")
  /\ UNCHANGED <<rows, ctr, mode, todo, spent>>

Lock(w) ==
  /\ At(w, "lock")
  /\ lock[req[w].sb] = Free
  /\ lock' = [lock EXCEPT ![req[w].sb] = w]
  /\ Goto(w, "read")
  /\ UNCHANGED <<rows, ctr, mode, todo, spent>>

\* The state check each operation makes on the row it read under the mutex.
Permits(kind, row) ==
  CASE kind = "start"   -> States!CanTransition(row.state, "running")
    [] kind = "stop"    -> States!CanTransition(row.state, "stopped")
    [] kind = "destroy" -> States!CanTransition(row.state, "destroying")
    [] kind = "fork"    -> TRUE
    [] kind = "files"   -> row.state \in {"running", "stopped"}
                             /\ row.rid # NoContainer
    [] OTHER            -> row.state \in {"running", "stopped"}

FirstStep(kind, row) ==
  CASE kind = "start"    -> "rtStart"
    [] kind = "stop"     -> "rtStop"
    [] kind = "destroy"  -> "mark"
    [] kind = "fork"     -> "forkWrite"
    [] kind = "snapshot" -> "pause"
    [] kind = "files"    -> "use"
    [] OTHER -> IF row.rid = NoContainer THEN "rtCreate" ELSE "rtDestroy"

\* Mutant: the row read before the mutex was taken is used under it.
Read_Stale(w) ==
  /\ At(w, "read") /\ ~req[w].dead
  /\ Permits(req[w].kind, req[w].row)
  /\ Goto(w, FirstStep(req[w].kind, req[w].row))
  /\ UNCHANGED <<rows, lock, ctr, mode, todo, spent>>

\* Mutant: Fork goes on with the sandbox that Create returned.
Read_ForkStale(w) ==
  LET row == IF req[w].kind = "fork" THEN req[w].row ELSE rows[req[w].sb] IN
  /\ At(w, "read") /\ ~req[w].dead
  /\ Permits(req[w].kind, row)
  /\ req' = [req EXCEPT ![w].row = row, ![w].rid = row.rid,
               ![w].pc = FirstStep(req[w].kind, row)]
  /\ UNCHANGED <<rows, lock, ctr, mode, todo, spent>>

Read(w) ==
  LET s == req[w].sb IN
  /\ At(w, "read")
  /\ ~req[w].dead
  /\ Permits(req[w].kind, rows[s])
  /\ req' = [req EXCEPT ![w].row = rows[s], ![w].rid = rows[s].rid,
               ![w].pc = FirstStep(req[w].kind, rows[s])]
  /\ UNCHANGED <<rows, lock, ctr, mode, todo, spent>>

\* Mutant: the early return comes before the deferred unlock is registered.
ReadRejects_KeepsLock(w) ==
  /\ At(w, "read")
  /\ req[w].dead \/ ~Permits(req[w].kind, rows[req[w].sb])
  /\ req' = [req EXCEPT ![w] = Idle]
  /\ UNCHANGED <<rows, lock, ctr, mode, todo, spent>>

\* ErrInvalidState, or the read failed on a cancelled context.
ReadRejects(w) ==
  /\ At(w, "read")
  /\ req[w].dead \/ ~Permits(req[w].kind, rows[req[w].sb])
  /\ Return(w)
  /\ UNCHANGED <<rows, ctr, mode, todo, spent>>

-------------------------------------------------------------------------------
(* Database writes                                                           *)

\* repo.Update rewrites every column of the row from the copy in memory.
Update(w, row) == rows' = [rows EXCEPT ![req[w].sb] = row]

InsertRow(w) ==
  /\ At(w, "insert") /\ ~req[w].dead
  /\ Update(w, NewRow)
  /\ req' = [req EXCEPT ![w].row = NewRow, ![w].pc = "rtCreate"]
  /\ UNCHANGED <<lock, ctr, mode, todo, spent>>

\* The name is taken, or the context is cancelled: no row.
InsertFails(w) ==
  /\ At(w, "insert")
  /\ Return(w)
  /\ UNCHANGED <<rows, ctr, mode, todo, spent>>

\* Destroy records its intent before it touches the container.
MarkDestroying(w) ==
  LET row == [req[w].row EXCEPT !.state = "destroying"] IN
  /\ At(w, "mark")
  /\ IF req[w].dead
     THEN Return(w) /\ UNCHANGED rows
     ELSE /\ Update(w, row)
          /\ req' = [req EXCEPT ![w].row = row,
               ![w].pc = IF row.rid = NoContainer THEN "save" ELSE "rtDestroy"]
          /\ UNCHANGED lock
  /\ UNCHANGED <<ctr, mode, todo, spent>>

Target(kind) ==
  CASE kind = "stop" -> "stopped" [] kind = "destroy" -> "destroyed"
    [] OTHER -> "running"

\* Mutant: Restore records the container as the parent of the sandbox.
Outcome_WrongParent(r) ==
  [state |-> Target(r.kind), rid |-> r.rid,
   parent |-> IF r.kind = "restore" THEN r.rid ELSE r.row.parent]

\* The row a request that got through writes at its end.
Outcome(r) ==
  [state |-> Target(r.kind), rid |-> r.rid,
   parent |-> IF r.kind = "restore" THEN r.snap ELSE r.row.parent]

\* The final Update.  Fork goes on: Create has returned and released the
\* mutex, and the lineage is a second write under a second acquisition.
Save(w) ==
  /\ At(w, "save")
  /\ IF req[w].dead THEN UNCHANGED rows ELSE Update(w, Outcome(req[w]))
  /\ IF req[w].kind = "fork" /\ ~req[w].dead
     THEN /\ lock' = [lock EXCEPT ![req[w].sb] = Free]
          /\ req' = [req EXCEPT ![w].row = Outcome(req[w]), ![w].pc = "lock"]
     ELSE Return(w)
  /\ UNCHANGED <<ctr, mode, todo, spent>>

\* Mutant: the error row forgets the container that was just created.
MarkError_ForgetsContainer(w) ==
  /\ At(w, "markError")
  /\ IF req[w].dead
     THEN UNCHANGED rows
     ELSE Update(w, [req[w].row EXCEPT !.state = "error"])
  /\ Return(w)
  /\ UNCHANGED <<ctr, mode, todo, spent>>

\* Mutant: the row keeps the state it had.
MarkError_KeepsState(w) ==
  /\ At(w, "markError")
  /\ IF req[w].dead
     THEN UNCHANGED rows
     ELSE Update(w, [req[w].row EXCEPT !.rid = req[w].rid])
  /\ Return(w)
  /\ UNCHANGED <<ctr, mode, todo, spent>>

\* markError writes on the context of the request, so a cancelled request
\* leaves its row as it was.
MarkError(w) ==
  /\ At(w, "markError")
  /\ IF req[w].dead
     THEN UNCHANGED rows
     ELSE Update(w, [req[w].row EXCEPT !.state = "error", !.rid = req[w].rid])
  /\ Return(w)
  /\ UNCHANGED <<ctr, mode, todo, spent>>

ForkWrite(w) ==
  /\ At(w, "forkWrite")
  /\ IF req[w].dead
     THEN UNCHANGED rows
     ELSE Update(w, [req[w].row EXCEPT !.parent = req[w].snap])
  /\ Return(w)
  /\ UNCHANGED <<ctr, mode, todo, spent>>

-------------------------------------------------------------------------------
(* Runtime calls                                                             *)

\* The call on container c does its work; the request learns of it and goes on
\* to next, or is told of a failure and goes on to mark the row.
Performed(w, next) ==
  \/ Succeeds(w) /\ Goto(w, next)
  \/ Fails(w) /\ Goto(w, "markError")

RtCreate(w, c) ==
  /\ At(w, "rtCreate") /\ ctr[c] = Unused
  /\ ctr' = [ctr EXCEPT ![c] = [status |-> "stopped", image |-> req[w].snap,
                                owner |-> req[w].sb]]
  /\ \/ Succeeds(w) /\ req' = [req EXCEPT ![w].rid = c, ![w].pc = "rtStart"]
     \/ Fails(w) /\ Goto(w, "markError")
  /\ UNCHANGED <<rows, lock, mode, todo>>

\* Mutant: the failure is returned without marking the row.
RtCreateFails_Unmarked(w) ==
  /\ At(w, "rtCreate")
  /\ Return(w)
  /\ UNCHANGED <<rows, ctr, mode, todo, spent>>

\* No such image, an invalid specification, or a runtime that refuses.
RtCreateFails(w) ==
  /\ At(w, "rtCreate")
  /\ Goto(w, "markError")
  /\ UNCHANGED <<rows, lock, ctr, mode, todo, spent>>

\* Starting a running container is a success, starting a paused one is not.
Startable(c) == Live(c) /\ ctr[c].status # "paused"

RtStart(w) ==
  /\ At(w, "rtStart") /\ Startable(req[w].rid)
  /\ SetStatus(req[w].rid, "running")
  /\ Performed(w, IF req[w].kind = "start" THEN "save" ELSE "inspect")
  /\ UNCHANGED <<rows, lock, mode, todo>>

RtStop(w) ==
  /\ At(w, "rtStop") /\ Live(req[w].rid)
  /\ SetStatus(req[w].rid, "stopped")
  /\ Performed(w, "save")
  /\ UNCHANGED <<rows, lock, mode, todo>>

\* Removing is forced, and a container that is not there counts as removed.
RtDestroy(w) ==
  /\ At(w, "rtDestroy")
  /\ SetStatus(req[w].rid, "gone")
  /\ Performed(w, IF req[w].kind = "destroy" THEN "save" ELSE "rtCreate")
  /\ UNCHANGED <<rows, lock, mode, todo>>

\* Create and Restore require the container to have survived its start.
Inspect(w) ==
  /\ At(w, "inspect") /\ Succeeds(w)
  /\ Goto(w, IF ctr[req[w].rid].status = "running" THEN "save" ELSE "markError")
  /\ UNCHANGED <<rows, lock, ctr, mode, todo>>

\* Mutant: Destroy tolerates every failure of the removal, not only NotFound.
RtFails_Tolerated(w) ==
  /\ \/ req[w].pc \in {"rtStart", "rtStop", "rtDestroy", "inspect"} /\ Fails(w)
     \/ At(w, "rtStart") /\ ~Startable(req[w].rid) /\ UNCHANGED spent
     \/ At(w, "rtStop") /\ ~Live(req[w].rid) /\ UNCHANGED spent
  /\ Goto(w, IF At(w, "rtDestroy") /\ req[w].kind = "destroy"
             THEN "save" ELSE "markError")
  /\ UNCHANGED <<rows, lock, ctr, mode, todo>>

\* A call that fails without effect, or that the container's state rules out.
RtFails(w) ==
  /\ \/ req[w].pc \in {"rtStart", "rtStop", "rtDestroy", "inspect"} /\ Fails(w)
     \/ At(w, "rtStart") /\ ~Startable(req[w].rid) /\ UNCHANGED spent
     \/ At(w, "rtStop") /\ ~Live(req[w].rid) /\ UNCHANGED spent
  /\ Goto(w, "markError")
  /\ UNCHANGED <<rows, lock, ctr, mode, todo>>

-------------------------------------------------------------------------------
(* The callbacks that run under the mutex: rt.Snapshot and file access       *)

\* A running container is paused.
SnapPause(w) ==
  /\ At(w, "pause") /\ Live(req[w].rid)
  /\ Succeeds(w)
  /\ IF ctr[req[w].rid].status = "running"
     THEN /\ SetStatus(req[w].rid, "paused")
          /\ req' = [req EXCEPT ![w].frozen = TRUE, ![w].pc = "commit"]
     ELSE Goto(w, "commit") /\ UNCHANGED ctr
  /\ UNCHANGED <<rows, lock, mode, todo>>

\* The daemon pauses it, but the caller hung up meanwhile, or the reply is lost:
\* Snapshot returns before it has deferred the unpause.
SnapPauseUnheard(w) ==
  /\ At(w, "pause") /\ Live(req[w].rid) /\ ctr[req[w].rid].status = "running"
  /\ SetStatus(req[w].rid, "paused")
  /\ IF req[w].dead
     THEN spent' = [spent EXCEPT !.stranded = @ \cup {req[w].sb}]
     ELSE SpendFault
  /\ Return(w)
  /\ UNCHANGED <<rows, mode, todo>>

\* Inspect or pause failed: nothing to undo.
SnapPauseFails(w) ==
  /\ At(w, "pause")
  /\ Return(w)
  /\ UNCHANGED <<rows, ctr, mode, todo, spent>>

\* The image of the container is committed under a new reference p.
SnapCommit(w, p) ==
  /\ At(w, "commit")
  /\ \/ Succeeds(w) /\ req' = [req EXCEPT ![w].snap = p, ![w].pc = "unpause"]
     \/ Fails(w) /\ Goto(w, "unpause")
  /\ UNCHANGED <<rows, lock, ctr, mode, todo>>

SnapCommitFails(w) ==
  /\ At(w, "commit")
  /\ Goto(w, "unpause")
  /\ UNCHANGED <<rows, lock, ctr, mode, todo, spent>>

\* Mutant: the unpause runs on the context of the request.
SnapUnpause_Cancelled(w) ==
  /\ At(w, "unpause")
  /\ IF req[w].frozen /\ ~req[w].dead
     THEN \/ SetStatus(req[w].rid, "running") /\ UNCHANGED spent
          \/ SpendFault /\ UNCHANGED ctr
     ELSE UNCHANGED <<ctr, spent>>
  /\ IF req[w].snap = NoSnapshot
     THEN Return(w)
     ELSE Goto(w, "record") /\ UNCHANGED lock
  /\ UNCHANGED <<rows, mode, todo>>

\* The deferred unpause: unconditional, on a context that outlives the
\* request's, and its error is dropped.
SnapUnpause(w) ==
  /\ At(w, "unpause")
  /\ IF req[w].frozen
     THEN \/ SetStatus(req[w].rid, "running") /\ UNCHANGED spent
          \/ SpendFault /\ UNCHANGED ctr
     ELSE UNCHANGED <<ctr, spent>>
  /\ IF req[w].snap = NoSnapshot
     THEN Return(w)
     ELSE Goto(w, "record") /\ UNCHANGED lock
  /\ UNCHANGED <<rows, mode, todo>>

\* The snapshot service inserts its row, or fails to and rolls the image back.
SnapRecord(w) ==
  /\ At(w, "record") /\ ~req[w].dead
  /\ Return(w)
  /\ UNCHANGED <<rows, ctr, mode, todo, spent>>

SnapRecordFails(w) ==
  /\ At(w, "record")
  /\ Goto(w, "rollback")
  /\ UNCHANGED <<rows, lock, ctr, mode, todo, spent>>

SnapRollback(w) ==
  /\ At(w, "rollback")
  /\ Succeeds(w) \/ Fails(w)
  /\ Return(w)
  /\ UNCHANGED <<rows, ctr, mode, todo>>

\* files.Write runs its stat and its tar upload against the container.
UseFiles(w) ==
  /\ At(w, "use")
  /\ Return(w)
  /\ UNCHANGED <<rows, ctr, mode, todo, spent>>

-------------------------------------------------------------------------------
(* The world around the requests                                             *)

\* The command of the image ends by itself.
ContainerExits(c) ==
  /\ ctr[c].status = "running"
  /\ SetStatus(c, "stopped")
  /\ UNCHANGED <<rows, lock, req, mode, todo, spent>>

\* The client goes away, and net/http cancels the context of its request.
Cancel(w) ==
  /\ ~At(w, "idle") /\ ~req[w].dead
  /\ spent.cancels < MaxCancels
  /\ req' = [req EXCEPT ![w].dead = TRUE]
  /\ spent' = [spent EXCEPT !.cancels = @ + 1]
  /\ UNCHANGED <<rows, lock, ctr, mode, todo>>

\* orcald dies: goroutines and mutexes are gone, rows and containers stay.
Crash ==
  /\ spent.crashes < MaxCrashes
  /\ spent' = [spent EXCEPT !.crashes = @ + 1, !.stranded = {}]
  /\ req' = [w \in Requests |-> Idle]
  /\ lock' = [s \in Sandboxes |-> Free]
  /\ mode' = "booting"
  /\ todo' = {}
  /\ UNCHANGED <<rows, ctr>>

\* UnpausePaused lists the rows in state running that have a container; an
\* error of the listing is logged and the boot goes on.
BootList ==
  /\ mode = "booting" /\ mode' = "unpausing"
  /\ \/ /\ todo' = {s \in Sandboxes : rows[s].state = "running"
                                        /\ rows[s].rid # NoContainer}
        /\ UNCHANGED spent
     \/ SpendFault /\ todo' = {}
  /\ UNCHANGED <<rows, lock, ctr, req>>

\* A container that cannot be inspected or unpaused is skipped.
BootUnpause(s) ==
  LET c == rows[s].rid IN
  /\ mode = "unpausing" /\ s \in todo
  /\ todo' = todo \ {s}
  /\ IF ctr[c].status = "paused"
     THEN \/ SetStatus(c, "running") /\ UNCHANGED spent
          \/ SpendFault /\ UNCHANGED ctr
     ELSE UNCHANGED <<ctr, spent>>
  /\ UNCHANGED <<rows, lock, req, mode>>

\* Mutant: the server listens before the recovery is through.
BootServe_Early ==
  /\ mode = "unpausing"
  /\ mode' = "serving"
  /\ UNCHANGED <<rows, lock, ctr, req, todo, spent>>

BootServe ==
  /\ mode = "unpausing" /\ todo = {}
  /\ mode' = "serving"
  /\ UNCHANGED <<rows, lock, ctr, req, todo, spent>>

-------------------------------------------------------------------------------

\* One step of the handler that runs request w, once it has arrived.
Handle(w) ==
  \/ Lock(w) \/ Read(w) \/ ReadRejects(w)
  \/ InsertRow(w) \/ InsertFails(w)
  \/ MarkDestroying(w) \/ Save(w) \/ MarkError(w) \/ ForkWrite(w)
  \/ \E c \in Containers : RtCreate(w, c)
  \/ RtCreateFails(w)
  \/ RtStart(w) \/ RtStop(w) \/ RtDestroy(w) \/ Inspect(w) \/ RtFails(w)
  \/ SnapPause(w) \/ SnapPauseUnheard(w) \/ SnapPauseFails(w)
  \/ \E p \in Snapshots : SnapCommit(w, p)
  \/ SnapCommitFails(w) \/ SnapUnpause(w)
  \/ SnapRecord(w) \/ SnapRecordFails(w) \/ SnapRollback(w)
  \/ UseFiles(w)

Boot == BootList \/ (\E s \in Sandboxes : BootUnpause(s)) \/ BootServe

Next ==
  \/ \E w \in Requests, s \in Sandboxes, p \in Image, kind \in Offered :
       Arrive(w, kind, s, p) \/ ArriveNew(w, kind, s, p)
  \/ \E w \in Requests : Handle(w) \/ Cancel(w)
  \/ \E c \in Containers : ContainerExits(c)
  \/ Crash
  \/ Boot

Spec == Init /\ [][Next]_vars

-------------------------------------------------------------------------------
(* Properties                                                                *)

HoldsLock(w) == req[w].pc \notin {"idle", "lock"}
AtRest(s) == mode = "serving" /\ lock[s] = Free

\* What has not happened so far.
NoFault  == spent.faults = 0
NoHangup == spent.cancels = 0
NoDeath  == spent.crashes = 0

\* A sandbox is worked on by one request at a time: whoever is past Lock holds
\* the mutex of its sandbox, and only such a request holds one (keyedMutex).
MutualExclusion ==
  /\ \A w \in Requests : HoldsLock(w) => lock[req[w].sb] = w
  /\ \A s \in Sandboxes : lock[s] # Free =>
       HoldsLock(lock[s]) /\ req[lock[s]].sb = s

\* repo.Update rewrites every column, so a request must never write from a copy
\* that another one has outdated: from its read under the mutex on, the copy in
\* memory is the row in the database.
NoLostUpdate ==
  \A w \in Requests : HoldsLock(w) /\ ~At(w, "read") => req[w].row = rows[req[w].sb]

\* Create, Start, Stop, Destroy, Fork, Restore and markError together move the
\* state column only along the table of state.go; a destroyed row stays so.
StateMachine == States!Spec

\* While nothing fails, every container that exists is the one its sandbox's row
\* names, or the one the request at work on that sandbox has in hand.
NoLeakedContainer ==
  NoFault /\ NoHangup /\ NoDeath => \A c \in Containers : Live(c) =>
    LET s == ctr[c].owner IN
    \/ rows[s].rid = c
    \/ lock[s] # Free /\ req[lock[s]].rid = c

\* Whatever calls of the runtime fail, a row nobody is working on is in none of the
\* states in between and tells the truth of its container: running and stopped ones
\* have it, and a stopped one is stopped; that of a destroyed sandbox is gone.
RowMatchesContainer ==
  NoHangup /\ NoDeath => \A s \in Sandboxes : AtRest(s) =>
    LET row == rows[s] IN
    /\ row.state \notin {"creating", "destroying"}
    /\ row.state = "running" => Live(row.rid)
    /\ row.state = "stopped" => Live(row.rid) /\ ctr[row.rid].status = "stopped"
    /\ row.state = "destroyed" => ~Live(row.rid)

\* Whatever fails, a snapshot commits and unpauses a container that is there: no
\* Destroy or Restore lands between reading the runtime ID and committing it.
CommitsLiveContainer ==
  \A w \in Requests : req[w].pc \in {"commit", "unpause"} => Live(req[w].rid)

\* While the runtime answers, a sandbox that reads as running is not frozen: not after
\* a death of the daemon and the boot that follows (UnpausePaused), and not by a caller
\* who hangs up, but for one case.  One who hangs up while the pause itself is in
\* flight can leave it frozen, until the next boot at the latest.
RunningIsNotFrozen ==
  NoFault => \A s \in Sandboxes \ spent.stranded :
    AtRest(s) /\ rows[s].state = "running" /\ rows[s].rid # NoContainer =>
      ctr[rows[s].rid].status # "paused"

\* Destroy keeps its word across crashes: the container a destroyed row names
\* is gone, whatever happened in between.
DestroyedIsGone ==
  \A s \in Sandboxes : rows[s].state = "destroyed" => ~Live(rows[s].rid)

\* "a sandbox knows the snapshot it came from" (CHANGELOG.md:34): a sandbox that
\* can be snapshotted names no other snapshot than its container was made from.
TrueLineage ==
  \A s \in Sandboxes :
    AtRest(s) /\ rows[s].state \in {"running", "stopped"} /\ Live(rows[s].rid) =>
      rows[s].parent \in {NoSnapshot, ctr[rows[s].rid].image}

\* Either end of a request is a legal move of its row: the state its operation
\* aims at, and "error".
MayEnd(r) ==
  /\ r.row.state = Target(r.kind) \/ States!CanTransition(r.row.state, Target(r.kind))
  /\ States!CanTransition(r.row.state, "error")

\* What a request can rely on at each of its steps.
RequestInv(w) ==
  LET r == req[w] IN
  /\ r.pc \in {"lock", "read"} => rows[r.sb].state # "absent"
  /\ r.pc = "insert" => r.row = AbsentRow /\ r.kind \in {"create", "fork"}
  /\ r.pc = "mark" => r.kind = "destroy"
                       /\ States!CanTransition(r.row.state, "destroying")
  /\ r.pc = "forkWrite" => r.row.state # "absent"
  /\ r.pc \in {"rtCreate", "rtStart", "rtStop", "rtDestroy", "inspect", "save",
               "markError"} => MayEnd(r)

\* The inductive invariant behind MutualExclusion, NoLostUpdate, StateMachine.
IInv ==
  /\ TypeOK
  /\ MutualExclusion
  /\ NoLostUpdate
  /\ \A w \in Requests : RequestInv(w)
  /\ \A s \in Sandboxes : rows[s].state = "absent" => rows[s] = AbsentRow

\* The runtime and the database answer every call, the boot sequence runs, and a
\* mutex that keeps being released is not withheld from one waiter for ever
\* (sync.Mutex hands over to a starved waiter).
Fairness ==
  /\ WF_vars(Boot)
  /\ \A w \in Requests : WF_vars(Handle(w)) /\ SF_vars(Lock(w))

FairSpec == Spec /\ Fairness

\* Every request returns, whatever the others do: no path leaves a mutex locked.
EveryRequestReturns ==
  \A w \in Requests : ~At(w, "idle") ~> At(w, "idle")

===============================================================================
