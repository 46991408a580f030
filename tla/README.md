# TLA+ models of orcal

orcal is a daemon (`orcald`) that manages sandboxes, containers with a row in a
SQLite database, for clients that speak HTTP: a command line tool, a Go client and
two SDKs. This directory models the parts of the daemon where several actors meet:
requests that race on a sandbox, runtime calls that fail or whose reply is lost,
callers that hang up, deletions of snapshots that are in use, commands whose output is
followed while it is written, tokens that are revoked while the daemon boots again,
files that are read while they change, pages that are read while rows come and go, and
daemon deaths.
The modules are checked with TLC and, for every value of the constants, with TLAPS.

## Inventory

| Component | State | Operations | Hard because |
|---|---|---|---|
| Sandbox service (`internal/sandbox`) | `sandboxes` rows; a mutex per sandbox (`lock.go`) | Create, Start, Stop, Destroy, Fork, Restore, WithSnapshotSource, WithLockedRuntimeID, RuntimeID, UnpausePaused | requests race; each takes several database writes and runtime calls, any of which fails; `Update` rewrites the whole row; Fork takes the mutex twice; the context of a request can be cancelled |
| Snapshot service (`internal/snapshot`) | `snapshots` rows, images in the runtime | Create, Resolve, Delete | an image and its row are written one after the other; Delete takes no mutex; resolution precedes use |
| Docker adapter (`internal/runtime/docker`) | none (containers and images live in Docker) | New, EnsureNetwork, ResolveRuntime, Create, Start, Stop, Destroy, Inspect, Snapshot, Unpause, Exec, file archives | Snapshot pauses, commits and unpauses, and must unpause whatever happens |
| Exec service (`internal/exec`) | `execs` rows; in memory the supervisors, pollers and broadcasters | Create, supervise, Reconcile, pollUntilExit, Shutdown | processes outlive the daemon; output flags do not |
| Exec log (`internal/exec/log.go`) | one append-only file per exec | Append, repairTornTail, ReadRecords | torn tails after a death; offsets are resume cursors |
| Exec streaming (`internal/api/execs.go`, `broadcaster.go`) | waiters | Wait, Notify, drain | lost wake-ups, resumption, the end of the stream |
| Auth (`internal/auth`) | `tokens` rows, settings | Create, Revoke, Authenticate, Bootstrap | the last admin token; a pinned bootstrap token |
| Audit (`internal/audit`) | `events` rows | Record, List, Prune | pruning while pages are read and events recorded; recorded on a context that may be cancelled |
| Files (`internal/files`) | none | Read, Write, List, Stat, archives | a goroutine and a pipe between the client and the runtime; two errors for one upload; limits; files that change while they are read |
| SQLite store (`internal/store/sqlite`) | the database, over one connection | statements, migrations | a death between applying a migration and recording it |
| HTTP API (`internal/api`) | none | one handler per operation, middleware | calls the services; cancels contexts |
| CLI, Go client, SDKs | none | wrappers of the HTTP API | resumption of log streams; what the end of a response means |

How they interact: an HTTP handler calls one service on the goroutine and the
context of its request. The snapshot service calls back into the sandbox service
(`WithSnapshotSource`) to run under the mutex of the sandbox; the sandbox service
calls the snapshot service (`Resolve`) without any mutex. Files and execs ask the
sandbox service for the runtime ID, `files.Write` under the mutex. All services share
one database connection, so a statement is atomic and nothing wider is: no operation
uses a transaction. At boot `main.go` migrates the schema, makes a Docker client, makes sure
of its two networks and of the container runtime, and of a bootstrap token, makes the directory
of the exec logs, runs `UnpausePaused`, then `Reconcile` of the exec service, and listens
afterwards; each step before `UnpausePaused` can end the boot, and none of the two after it. From
then on the daemon prunes the audit log every hour. Every request but those for the health of the
daemon is authenticated first, and an audit event of it is recorded after its response.

## Modules

| Module | Models | Kind |
|---|---|---|
| `SandboxStates` | what the service promises about the state column: the table of `state.go` | abstract specification |
| `SandboxService` | sandbox service, mutex, runtime, hang-ups, deaths, recovery at boot | detailed specification |
| `SnapshotService` | snapshot service composed with `SandboxService` | composition |
| `ExecLife` | what the exec service promises about an exec: registered, written to while it runs, ended once | abstract specification |
| `ExecService` | exec service, broadcaster, output streams, reconciliation, shutdown | detailed specification |
| `AppendLog` | what a log promises: append-only, each record delivered once and in order | abstract specification |
| `ExecLog` | the log file byte by byte: append, cap, torn tails, repair, reading by offset | component |
| `FollowLogs` | `ExecLog` composed with the stream of the daemon and `orcal logs` | detailed specification |
| `Migrations` | the migration loop, statement by statement | component |
| `TokenService` | `Migrations` composed with the boot, tokens, authentication, scopes, audit events | composition |
| `Listing` | pages, and the retention of audit events | component |
| `FileService` | writing, uploading, reading, downloading and listing the files of a sandbox | component |
| `MCSandboxService`, `MCSnapshotService`, `MCExecService`, `MCExecLog`, `MCTokenService` | symmetry sets, payloads and grants for TLC | model checking |
| `SandboxSafetyProofs` | type correctness, mutual exclusion, no lost update, the table of states | proofs |
| `SandboxContainerProofs` | who owns which container: commits, destroyed sandboxes, rows that tell the truth, containers that leak or stay frozen, the snapshot a row names | proofs |
| `SnapshotProofs` | the composition refines `SandboxService`; lineage; images in use, images without a row | proofs |
| `ExecProofs` | who is in charge of an exec: honest rows, the refinement of `ExecLife`, stranded execs, lost output, streams | proofs |
| `LogProofs` | what the walks over a log find; repairs; commands that print it; the refinement of `AppendLog` | proofs |
| `TokenProofs` | boots, migrations, who administers, audit events | proofs |
| `FileProofs` | uploads, reads, walks over a directory | proofs |
| `ListingProofs` | pages and retention | proofs |

### SandboxService

`rows` is the `sandboxes` table cut down to state, `runtime_id` and
`parent_snapshot_id`; an identifier without a row reads as `AbsentRow`. `lock[s]` is
the holder of the mutex of `s`. `ctr` is what the runtime knows of each container: its
status, the image it was made from, and (for the properties) its sandbox. A snapshot
identifier also stands for the image committed under it.

`req[w]` is a request in flight. Its `pc` names the next database statement or runtime
call; between two of them any other request, the outside world or a death of the daemon
may step. `row` is the row as this request last read or wrote it, `rid` the field
`RuntimeID` of its copy in memory, which differs from `row.rid` between `rt.Create` and
the final `Update`. `snap` is the snapshot it resolved, or the image it committed.

| Code | Actions |
|---|---|
| `Get`, `Resolve`, then `locks.lock`, then `repo.Get` | `Arrive`, `Lock`, `Read` / `ReadRejects` |
| Create | `ArriveNew`, `InsertRow` / `InsertFails`, `RtCreate` / `RtCreateFails`, `RtStart`, `Inspect`, `Save` |
| Start, Stop (`transition`) | `RtStart` / `RtStop`, `Save` |
| Destroy | `MarkDestroying`, `RtDestroy`, `Save` |
| Fork | as Create, then `Lock`, `Read`, `ForkWrite` |
| Restore | `RtDestroy`, `RtCreate`, `RtStart`, `Inspect`, `Save` |
| `markError` | `RtFails` and the failing branches, then `MarkError` |
| `WithSnapshotSource` and `Docker.Snapshot` | `SnapPause` / `SnapPauseUnheard` / `SnapPauseFails`, `SnapCommit`, `SnapUnpause`, then `SnapRecord`, or `SnapRecordFails` and `SnapRollback` |
| `WithLockedRuntimeID` (`files.Write`) | `UseFiles` |
| `UnpausePaused`, then listening | `BootList`, `BootUnpause`, `BootServe` |
| caller hangs up, container exits, daemon dies | `Cancel`, `ContainerExits`, `Crash` |

A runtime call succeeds, fails without effect, or takes effect while its caller is told that it
failed (`Succeeds`, `Fails`). The same goes for a call whose context is cancelled: if that
happens while it is in flight it returns an error, and may have taken effect. Only a call that
fails while its caller is there is a fault and spends one. `spent.stranded`, for the properties,
has the sandboxes whose caller hung up while the pause was in flight, until the next boot. The
failures that the state of a container causes (starting a paused one, stopping one that is gone)
are not counted against any bound, and neither are the failures of `rt.Create`, of the commit
and of the inserts, which have many causes.

### SnapshotService

`snaps[p]` says whether `p` has a row, what became of its image, which image it was
committed on and which parent its row names. The actions of `SandboxService` that touch
snapshots are strengthened (`CreateContainer`, `Commit`, `Record`, `Rollback`), the
others are taken over; `del[d]` is a deletion: count the children, remove the image,
delete the row. The foreign key of `parent_id` is part of `Record` and `DeleteRow`.
Whether the runtime refuses to remove an image that others were committed on depends on
it, so it is the constant `ChildrenPin`.

### ExecService

`rows` is the `execs` table cut down to state, whether `runtime_exec_id` is set, and the columns
`output_bytes` and `truncated`. `proc[e]` is the process in the runtime: its status and how many
frames of output it has put out. `files[e]` is the log, one entry per record, and `torn` whether a
part of one follows: a write that stops short leaves it, and so does a death within one
(`BeingWritten`); the next writer drops it when it opens the log. Streams pass over it, as `ExecLog`
shows byte by byte; `FileSize`, which becomes `output_bytes`, counts it. A frame has size 2 and a
gap size 1, so that a log can be too full for a frame and still take a gap, and, with an even `Cap`,
too full for both.

`job[e]` is the goroutine in charge of an exec, whichever it is: the request that creates
it, the supervisor it leaves behind, `Reconcile` at boot, or a poller. `readers[r]` is a
request inside `handleExecOutput`, and `waiting` the streams whose channel is still open.
Everything in `job`, `readers` and `waiting` is memory: a death or an exit clears it.

| Code | Actions |
|---|---|
| `Create` | `CreateArrives`, `InsertRow` / `InsertFails`, `StartExec` / `StartFails`, `RecordHandle` / `RecordFails`, `MarkFailed` |
| `supervise` | `OpenLog`, `Recv` / `RecvAppendFails` / `RecvOversize` / `RecvBreaks` / `RecvEOF` / `RecvEarlyEOF`, `NotifyRecord`, `WaitExit`, `Finish`, `Announce` |
| `Reconcile` | `ReconcileList`, then one exec after the other `ReconcileRunning` / `ReconcileOver` / `ReconcileUnknown`, `Finish`, `Announce`, at last `Serve` |
| `pollUntilExit` | `Poll`, `PollStops`, `Finish`, `Announce` |
| `handleExecOutput` | `Follow`, `Arm`, `Drain`, `GetState`, `LastDrain`, `Wake`, `Heartbeat`, `Leave` |
| `Shutdown`, end or death of the daemon | `Shutdown`, `Exit`, `Crash` |
| outside `src/` | `Produce`, `Exits`, `ContainerGoes`, `Cancel` |

`Recv` and `RecvBreaks` include `LogWriter.Append`: the cap, the truncated flag that stays set, the
error that ends the loop. `RecvOversize` is a frame larger than a record may be, which needs no
failing disk. `AppendGap` has a writer of its own: it opens the log, drops a torn record and appends
the gap (`GapLands`), or fails at any of these (`GapFails`), and its errors are dropped.
`RecvEarlyEOF` is a connection that goes down at the boundary of a frame or right behind its header,
both of which the demultiplexer reports as `io.EOF`. `Exit` may happen at any time after `Shutdown`,
since waiting for the goroutines is bounded by 15 seconds.

### ExecLog and FollowLogs

`file` is the sequence of bytes on disk; the header has two bytes where the code has five.
`w` is the `LogWriter`. `Open` repairs, `AppendFrame`, `AppendTruncates` and `AppendFails`
are the outcomes of `Append`, and `Dies` leaves any prefix of the frame being written. The
walk of `repairTornTail` and that of `ReadRecords` are both there, over the same notion of a
whole frame.

`FollowLogs` adds the row of the exec (`row`: whether it runs, and the size `finish` has
written) and a command `cli` that prints the log: `orcal logs`, with or without `--follow`,
run again and again with `--from` the `offset` it has got to. `got` is what was printed.

| Code | Actions |
|---|---|
| `supervise`, `finish`, death of the daemon | `Supervise`, `Finish`, `DaemonDies` |
| `logsCmd` | `Run` |
| `readAvailableLogs` | `Ask`, then `Receive` up to what `Ask` was told |
| `followLogs` | `Receive`, `ReceiveExit`, `StreamEnds` (which reconnects) |
| `drain` and `handleExecOutput` without their waiting, which is in `ExecService` | `Receive`, `ReceiveExit`, `StreamEnds` |
| a response or a terminal that fails | `StreamFails` |

### Migrations and TokenService

`schema` says of each migration how much of its body has been executed and whether its version is
recorded. The body is not one transaction, so `Tears` leaves any part of it. `rows` is the `tokens`
table: state, name, the secret whose hash it has, scopes, and whether its expiry has passed. The two
unique indexes are conditions of `Insert`: no two rows that are not revoked with one name, no two
rows with one hash. `setting` is the token of a database from before there was a table of tokens.
`boot` is the daemon: how far a boot is, the secret it is told to pin, what it finds of its Docker
host (`Hosts`: fit, or the first defect that ends the boot), and whether something it asked for was
refused. `req[w]` is a request in flight. `known`, `owed` and `raced` are there for the properties:
secrets that somebody holds, changes not yet recorded as events, and whether two revocations
overlapped.

| Code | Actions |
|---|---|
| `store.Open`, `migrate` | `Start`, `Migrate`, `Record` |
| `docker.New`, `EnsureNetwork` for both networks, `ResolveRuntime` | `NewClient`, `EnsureNetworks`, `ResolveRuntime` |
| `Bootstrap`: the legacy token, a pinned token, a generated one | `MigrateSettingsToken`, `DeleteSetting`, `PinBootstrap`, `HasLiveToken`, `Generate`, `Announce` |
| `exec.NewService` with the directory of its logs | `OpenExecs` |
| a refused statement, a call that Docker does not answer, a directory that cannot be made; a death | `BootRefused`; `Crash` |
| `authenticate`, `requireScope` | `Authenticate` |
| `handleCreateToken`, `Create` | `CreateToken`, `CreateNameTaken` |
| `handleRevokeToken`, `Revoke` | `RevokeGet`, `RevokeCount`, `RevokeUpdate` |
| the audit middleware | `Audit` |
| a refused statement or a caller that hangs up | `GivesUp` |

A request that is denied, refused for its scopes or asks for a token that does not exist
changes nothing and is not followed. A denial is recorded as an event too; only events of
changes are followed to the table, since the properties are about these.

### Listing

`row[i]` is how far the row with the identifier `i` has come: its identifier is taken, it is
stamped (events only), listed, no longer listed. Identifiers grow in the order in which they
are taken, `INSERT`s may be in another. `Pages` is what the statement of `List` returns with its
order, cursor and `LIMIT`, said by what a page has and what it leaves out; `ListPage` the
handler, which sets a cursor on a full page. The two
statements of `Prune` are `DeleteOlderThan` and `DeleteBeyondCount`. `table` chooses between
events (newest first, pruned) and the other listings (oldest first, whose rows leave the
listing and may come back, as a sandbox does that is destroyed or changes its state).

### FileService

`disk` is one directory of the sandbox, `Change` what its processes and other requests do
to it. A writing request `up` holds the mutex of the sandbox from `StartWrite` on. Its
client (`body`) sends entries, ends or breaks off; `san` is the goroutine that runs
`sanitizeArchive`; `pipe` the `io.Pipe` behind it; `rt` the runtime, which queues entries and
applies them. A reading request `rd` takes no lock, and nothing stops the container: the runtime
copies a file in pieces (`CopyMore`), and `Change` may write to it in between, in place
(`rewritten`) or to another file that takes its name. `intact` counts the bytes received that are
surely those of the file as it was opened. Writes and uploads may be applied although their answer
is lost, and be given up with a file removed or half written (`CutShort`).

| Code | Actions |
|---|---|
| `WithLockedRuntimeID`, `Write`, `WriteArchive` | `StartWrite`, `StatTarget`, `WriteFile`, `WriteFails`, `StatDestination`, `WriteReturns`, `UploadReturns` |
| `sanitizeArchive` and its limits | `ClientSendsEntry`, `ClientEnds`, `ClientBreaks`, and the steps of `san` |
| `CopyToContainer` | `RuntimeTakes`, `RuntimeApplies`, `RuntimeEnds` |
| `handleReadFile`, `Read` | `StartRead`, `OpenFile`, `CopyMore`, `CopyEnds` |
| `handleDownloadArchive`, `handleListFiles`, `List` | `StartWalk`, `Visit`, `WalkEnds`, `StreamBreaks` |

Names of entries, and the checks of each one, are abstracted to whether the entry passes
(`safe`); contents to their sizes. The directories that `Write` makes above a file whose parent is
missing are in the same archive and are not followed.

## Runs

| Run | Instance | Question |
|---|---|---|
| `sandbox_faults` | 2 requests, 1 sandbox, 2 containers, 1 failure, 1 hang-up, 2 deaths | exclusion, stale writes, table of states, leaks; does every error path leave a true row; is a paused container always unpaused; commit against Destroy and Restore; destroyed means gone |
| `sandbox_live` | 2 requests, 1 hang-up, fairness | does every request return |
| `snapshot_races` | 1 request, 1 deletion, 2 sandboxes, 2 snapshots, 1 failure, 1 death, `ChildrenPin` FALSE | deletion against fork, restore and snapshot; images without rows |
| `exec_log` | payloads of 0 and 2 bytes, the latter like a header, 7 bytes of file, 1 short write, 2 deaths, 2 commands, 1 reconnect | is the file an append-only log; do the commands that print it print each record once, and all they promise; when do they wait |
| `exec_streams` | 1 exec, 2 streams, 2 frames, a log that cuts the second; one each of fault, early end, disk fault, hang-up, and 2 deaths or shutdowns | wake-ups, exit events, ending once, honest rows, stranded execs, marked loss |
| `exec_live` | 2 execs, 1 stream, 1 death or shutdown, fairness | do ends get recorded, do streams end |
| `tokens` | 2 migrations, 3 tokens, 2 requests, 1 secret to pin, 2 troubles | who administers; why a boot gives up; what it hands over; which events get lost |
| `listing` | 4 rows, 3 instants, pages of 1 and 2, 1 unit of age, 2 events kept | what a client sees over its pages; what is pruned |
| `files` | 3 names, contents of 1 and 2 bytes, archives of 2 entries and 3 bytes, files of 1 byte, listings of 2 entries and 3 bytes, 1 change, fairness | what success of an upload means; what is read; does an upload return |
| `sandbox_lineage` | 2 requests, 2 snapshots, nothing goes wrong | finding, see below |
| `token_last_admin` | as `tokens`, nothing goes wrong | finding |
| `file_download` | as `files` | finding |

Several properties say what holds under some disturbances and not under others. They name
the ones they exclude (`NoFault`, `NoHangup`, `NoDeath`, or a count in `spent`), and the run
has all of them, so that each property is checked in every state it speaks of.

Bounds. Requests are slots that are used again, so each run covers histories of any
length, as far as the identifiers go: containers and snapshots are not used twice. Two
containers let a Restore, or a second Create, happen after a first. Two requests are those
that interfere; that a third changes nothing is proved: the invariants hold for every number of them.
`MaxFaults`, `MaxCancels` and `MaxCrashes` bound how often the world interferes; they are
constants of the modules, and the proofs hold for all of their values.

In `exec_log` the cap is three empty frames and a byte, or one full frame, an empty one and a
byte, so that frames of each size meet the cap exactly, by one byte and by two; two deaths
let a tail be torn, repaired, extended and torn again; two commands are one that is cut short
and one that goes on, and one reconnect is enough for one that works and one too many. In
the exec runs a frame before and a frame behind each event are enough to lose, duplicate or
reorder one. Two streams share a channel of the broadcaster. Two execs, in `exec_live`, share
the loop of `Reconcile`. `Cap` is 3 in the passing exec runs: the second frame is cut, and a
gap fits behind one frame but not behind another gap.

In `tokens` two migrations are one that a database may have and one it lacks. Three tokens are the
bootstrap token and two that are issued, or two that administer and the new bootstrap token of the
next boot. Each boot finds any state of its Docker host, so that one fails for it before, between
and after boots that do not. `MaxTroubles` counts refused statements and calls of a boot, requests
cut short, deaths and expiries together: two of any of them in one history, the second during the
recovery from the first. Grants are all of `admin` or all of `read`: the code tells apart who
administers and who lacks a scope. In `listing` four rows are two pages of two and the empty one
behind a full last page, and three instants are one within, at and beyond the age that is kept. In
`files` an archive of two entries can break off, be refused or clash before, between and behind
them, fits the limit exactly or exceeds it by one byte; `MaxChanges` is one since what is under a
name can be anything to begin with. A content of two bytes is copied in one piece or two, and
written to before, between or behind them.

Fairness (`sandbox_live`). Weak fairness of `Handle(w)`: the database and the runtime
answer each call, as they do or the call returns an error. Strong fairness of `Lock(w)`: a
`sync.Mutex` hands over to a waiter that has starved for a millisecond, so a waiter is not
passed over for ever. Nothing is assumed of containers or the outside world, and of clients
one thing: `UseFiles`, a step of `Handle(w)`, stands for a file operation that reads the body
its client sends while it holds the mutex. That this step comes to its end is
`UploadsReturn` of the run `files`, under the fairness stated there.

Fairness (`exec_live`). Weak fairness of the goroutine of each exec, of each stream (its
30-second heartbeat among its steps), of the boot sequence, and of the exit that follows
`SIGTERM` within 15 seconds. A daemon that died is started again. Processes need not end:
`EveryExecEnds` starts where one has. The run has no failing database: `finish` drops the
error of its `Update`, and the exec is then ended by the next boot only; nor a hang-up, which
strands an exec (see below).

Fairness (`files`). Weak fairness of `RequestMoves` and `WriteFails`, the goroutines of the
request; of `RuntimeMoves`, since the runtime answers or its connection breaks; and of
`ClientMoves`: a client that is waited for sends on, ends or breaks off. The last is an
assumption about clients: the server sets no deadline for a body, so a client that stays
connected and silent keeps the mutex of its sandbox as long as it likes. Reads and `Change`
are not fair, and the property is not about them.

## What the checks show

They hold: mutual exclusion across both acquisitions of a Fork; no stale whole-row update;
every error path of a runtime call ends in a row that says the truth of its container, unless a
caller hung up or the daemon died (a database that refuses the last write with its context alive is
not modelled apart: it leaves the same row as a hang-up there, which the property excludes); no
container leaks without a failure of the runtime; a snapshot never commits a container that is
gone; a hang-up leaves a running container paused only if it comes while the call that pauses it is
in flight, and then until the next boot; the lineage of snapshots never dangles, and the
image of a container in use never loses its row although deletion takes no mutex.

Of execs: the log on disk is append-only through torn writes and repairs; no wake-up is lost
although streams read between two looks at the row; the exit event comes behind all output;
supervisor, poller, reconciliation and `markFailed` end an exec once between them; every row
that reads running has somebody to end it, across deaths and shutdowns, if no caller hung up and the
database did not fail; a row that reads exited has a process that is over, and one that has ended the
size of its log. Commands that print a log and take up where the last one
was cut off print each record once and in order.

Of tokens: somebody can administer, and holds the secret for it, through boots, revocations, deaths
and hang-ups, but for the race below, an expiry, and a secret whose only copy was lost with its
response; a death of the daemon at any point behind the migrations does not stand in the way of the
next boot; a boot that serves has a Docker host that passed its checks, all migrations behind it and
a token that works; every lost audit event was paid for by a hang-up, a refused statement or a
death.

Of files and listings: a write or an upload succeeds only when all its client sent was applied, in
whatever order the goroutine, the pipe and the runtime come to their ends, and gives the mutex back
whichever of them fails; what is read without an error is the file as it was when it was opened,
unless it had grown since its size was asked for or was written to during the copy; a listing that
is not marked as truncated is complete; pages never repeat or miss a row that was there throughout,
and the two statements of the retention never remove what either allows to keep.

They fail, each with a short history:

* `sandbox_lineage`: Fork writes the lineage of a sandbox after it has released its mutex. A
  Restore that is served in between is overwritten: the row names a snapshot the container
  does not come from (`service.go:387`, against CHANGELOG.md:34). That nothing else leads
  to such a row is proved, see below.
* `token_last_admin`: `Revoke` looks for another admin token and then revokes, in two
  statements. Two revocations at the same time find each other's token, and nobody is left to
  administer until a restart with `ORCAL_TOKEN` (`auth/service.go:86`, against
  `auth/errors.go:11`).
* `file_download`: the handler of a download drops the error of its copy, so the response ends
  in good order when the stream from the runtime breaks. If it breaks between two entries, the
  client takes what it has for all of the archive (`api/files.go:84`, against
  spec/openapi.yaml:341).

Limits of the code that a passing property names in its statement, rather than a run of its own:

* `RunningIsNotFrozen` is about rows that read running. A Start whose caller hangs up leaves the row
  `stopped` over a running container; a snapshot of it pauses the container, and if the daemon dies
  there, `UnpausePaused` passes the row over because it lists running rows only
  (`sandbox/service.go:468`).
* A caller that hangs up while `ContainerPause` is in flight: the call returns an error although
  Docker pauses the container, and `Snapshot` returns before the unpause is deferred
  (`docker.go:276`, `docker.go:282`). The sandbox reads running and is frozen until the next boot,
  where `UnpausePaused` finds it. `RunningIsNotFrozen` excludes such sandboxes one by one
  (`spent.stranded`), and answers to the pause that are lost otherwise with the faults.
* `NoOrphanIfCalm` excludes failures and hang-ups: the roll-back of a snapshot runs on the context
  whose cancellation made the insert fail, so it fails as well, and leaves an image without a row
  (`snapshot/service.go:80`).
* `StrandedOnlyByHangup`: the same in `exec.Create`: `markFailed` runs on the cancelled context, and
  the exec stays running in the table, without a supervisor, until the next boot
  (`exec/service.go:137`). It also excludes a failing database, whose errors `finish` drops.
* `LossIsMarkedIfRoom`: a stream that breaks right behind a header is an error "truncated stream
  payload" that wraps `io.EOF`; `supervise` takes it for the end of the stream, and the loss is not
  marked (`docker/demux.go:29`, `exec/service.go:163`). A gap whose write fails is dropped with the
  error. And the gap of `appendGap` is dropped without an error when the log is full to its last
  bytes (`exec/service.go:267`).
* `PrintsAll`: `orcal logs` without `--follow` takes a response that ends early in good order for
  the end of the log; with `--follow` it reconnects three times and then gives up.
* `RowTellsTruth`: `output_bytes` counts what a failed write has left of a record, which nobody can
  read (`log.go:155`, `service.go:181`); without a failed write it counts whole records only.
* `WaitsOnlyIfTorn`: `output_bytes` counts a torn tail, so `orcal logs` behind one waits for output
  it will not get until the exec is over.
* `BootFailsOnlyIf` speaks of a boot from the opening of its database until it listens: not of its
  configuration, of the data directory or of a listener that cannot be bound. Beside refused
  statements and calls it lists what keeps a daemon from booting until somebody intervenes: an
  address no Docker client can be made for, a network that exists with the other `internal`, a
  runtime that is not registered or `runsc` without its arguments (`main.go:56-78`,
  docs/SECURITY.md:103); a migration torn between two of its statements, or executed and not
  recorded (`sqlite.go:78`); a pinned secret whose token was revoked (`bootstrap.go:77`); a token
  named `bootstrap` that has expired and not been revoked, when no other is live
  (`bootstrap.go:41`).
* `OkIsWhole` has no converse: an answer of the runtime that is lost makes an error of a write or an
  upload that was applied, and one that gives up on the way may leave the file removed or cut short
  (`docker/files.go:70`). It says nothing of which error a failed upload reports: one that the
  runtime ends early is answered with the closed pipe of the goroutine, an internal error, rather
  than with the conflict the runtime found (`files/archive.go:61`).
* `ReadIsAVersion`: the copy runs beside a container that goes on. A file that is written to in
  place meanwhile can arrive as a mixture of two versions without an error (`files/service.go:94`,
  `api/files.go:29`). A file that grows between `StatPath` and `ReadArchive` is normally a broken
  response, since the server refuses the write that would cross the length announced; if a write
  ends exactly at that length, its client has a prefix and no error.
* A snapshot that a listed sandbox names as its parent can be deleted, once the race of
  `sandbox_lineage` has made the row name one its container does not use.

A mutant in the modules marks what each property depends on: a definition named `X_Y` is
the definition `X` with a plausible bug.

## What is proved

Every invariant, action property and refinement that a passing run checks is a theorem, for all
values of the constants: any number of sandboxes, containers, requests, execs, streams,
tokens, migrations and records, any limits, and any number of failures, hang-ups and deaths. Each
rests on an inductive invariant, which TLC checked on the run of its module before it was proved.

`SandboxSafetyProofs` proves `Spec => []TypeOK`, with one lemma per group of actions, then `Spec
=> []MutualExclusion`, `Spec => []NoLostUpdate` and `Spec => StateMachine`, the last being the
refinement of `SandboxStates`. None of them is inductive alone, since whether a write is an
allowed transition was decided when the row was read, several steps earlier. `IInv` adds what a
request relies on at each of its steps (`RequestInv`): its operation may end in the state it aims
at and in `error`, both judged on the row it read, which by `NoLostUpdate` is the row still in the
database, because by `MutualExclusion` nobody else has written it. The argument has a single core,
`InsideKeeps`: a step of the holder of a mutex that touches no other sandbox or request, and that
goes on with the row in the database or releases the mutex, keeps `IInv`. The actions are then
shown to be such steps; `Arrive`, `ArriveNew`, `Lock`, `Cancel` and `Crash`, which are not, are
treated one by one.

`SandboxContainerProofs` proves five properties from ownership (`CInv`, inductive beside `IInv`):
the container in the hand of a request, and the container a row names, were made for that
sandbox. Two requests that have the same container in hand therefore work on the same sandbox,
and by `MutualExclusion` they are one. `CommitsLiveContainer` and `DestroyedIsGone` follow from
how little a step can do to the containers of others (`Tame`, `Removed`). For
`RowMatchesContainer`, `RunningIsNotFrozen` and `NoLeakedContainer`, `PInv` says at each step of a
request what has become of its container (`Working`): at `Save` it runs, or is stopped if the
request was a Stop; until a request changes something the row is as true as a row at rest
(`Settled`); the one live container of a sandbox is the one that its row, or the holder of its
mutex, remembers (`Remembered`); and a running sandbox that is frozen has a snapshot that will
thaw it, or a boot that will list it or has it on its list, or is one whose caller hung up during the
pause (`FreezeInv`). `Apart` confines a step of a handler to its
sandbox, so that each fact is shown for one sandbox and its one container.

The last section of `SandboxContainerProofs` bounds the finding of `sandbox_lineage`.
`LineageBreaksByForkRaceOnly`: where Fork or Restore is not called, `TrueLineage` holds through all
other operations, failures, hang-ups and deaths. The two writes of a Fork with a Restore between
them are therefore the only way to a row that names a snapshot its container does not come from.
`LineageInv` says that the container in the hand of a request that builds one is from the snapshot
it resolved (`Carries`), and that, without Restore, the sandbox of a Fork that waits for its second
acquisition still has the container the Fork made (`Undisturbed`).

`SnapshotProofs` first proves `SnapSpec => Spec`: each action of the composition is an action of
the sandbox service or leaves its variables alone, so all the theorems above hold of the
composition. `SInv` then says what is known at each point: an image in the hand of a snapshot
request has no row yet (`Knows`) and is nobody else's (`OwnImages`), the snapshot that a Fork or
Restore resolved is listed or its image has been removed, and a deletion that has come to the
row has removed the image (`ImageFirst`). With it `LineageIsClosed` and `UsedSnapshotIsListed`
are inductive. The second combines both sides of the race: a container that is made finds the
image present, hence the row; a deletion that finds the image in use goes no further. Neither
needs `ChildrenPin`. For `NoOrphanIfCalm`, an image without a row is pledged (`Pledges`): some
request is between its commit and its row, or about to roll it back, and only its own steps change
that.

`ExecProofs` proves `TypeOK`, `RowTellsTruth` and `LivesOnce`, the refinement of `ExecLife`. No
lock keeps the actors of an exec apart: what does is that one of them at a time is in charge of it,
and knows the state of its row without reading it. `InCharge` says so at each step of each actor:
whoever supervises, polls or finishes has a row that runs; nothing is written to a log before the
supervisor is there; `Reconcile`, which acts on rows it listed earlier, still finds them running
when their turn comes; who is about to record `exited` has seen the process end. `Elsewhere` shows
that a step for one exec leaves the others alone, and `ActsOnce` that such a step registers,
writes, ends or changes nothing, which is `ExecLife`. On top of it `XInv` has `Attended` (a running
exec that nobody is in charge of will be listed at a boot, is listed, or was left by a daemon going
down), `Accounted` (where the output of an exec is, from its start to its end), `Whole` (without a
failed write, nothing torn stays at the end of a log whose exec is over: a death may tear one that is
written to, and the writer that `Reconcile` opens repairs it before anybody finishes) and `Following`
(what a stream can rely on: with its channel open, it has seen all there was or a Notify is still to
come). They give `StrandedOnlyByHangup`, `LossIsMarkedIfRoom`, `ExitMeansAll` and `NoLostWakeup`.

`LogProofs` proves that the bytes on disk and the commands implement `AppendLog` (`FollowsLog`), and
`FollowTypeOK`, `PrintsAll` and `WaitsOnlyIfTorn`. The walks over the file are recursive functions;
that they are well defined (`Recursion`, for any function defined along the frames of a file)
and what they return (`TrailIsRead`) is proved by induction over the length of the file, and
induction itself (`Induction`) from the least element of a set of numbers. A `Trail` is the
sequence of records that follow each other from the start of a file. A cut write leaves it
(`TrailTorn`), a whole one adds its record (`TrailGrows`), a repair cuts the file to it
(`TrailRepaired`). `FInv` says that the file has a trail and, unless something was torn or while a
writer is at work, ends with it; that what was printed is a beginning of it, up to the offset; and
that a command without `--follow` waits for no more than it asked for. `RepairIsSafeHolds`
adds that a repair at any moment keeps every record and leaves nothing torn. `RepairOfAnyFile`
needs no history: for any sequence of bytes, what a repair leaves is a beginning of the file with
every record `ReadRecords` found in it, and a second repair changes nothing.

`TokenProofs` proves `TokenTypeOK`, `SomeoneAdministers`, `BootFailsOnlyIf`, `EachLossIsPaidFor` and
the action property `BootHandsOver`, from `TokenIInv`. `HostInv`: a boot that is past its checks of
the Docker host found it fit. `SchemaInv`: a body that was executed and
not recorded is about to be recorded, or something went wrong. `BootInv`: what a boot has
established at each of its steps; until the setting is gone the only row is the one made from it,
so that the statements behind it meet no other. `AdminInv`: a revocation that found another admin
token still has one, unless two overlap. Audit events are counted as the cardinality of the changes
that are owed one, against the requests in flight at a death.

`FileProofs` proves `FileTypeOK`, `OkIsWhole`, `ReadIsAVersion` and `WalkIsComplete`. `ChainInv` counts
the entries along the chain from the client over the goroutine and the pipe to the runtime
(`HandedOn`): none is lost while the goroutine goes on and the runtime takes what it writes, and the
runtime comes to the end of an archive only if the client ended it and all of it was handed on.
`ReaderInv` says that what was received is what was opened until somebody writes to the file, and
`ApartInv` that the reading and the writing request are not both at work.

`ListingProofs` proves `ListingTypeOK`, `PagesAreExact` and `NeverPrunedEarly`. `PagerInv`: each row
listed throughout has been seen or is behind the cursor, and the cursor is the last row seen. That
pages never gather more rows than there are identifiers is a pigeonhole argument
(`SortedIsShort`), and that an event which is gone keeps its reason (`ReasonsStand`) compares
cardinalities of the later ones.

The assumptions are those the modules name: the null values are not members of the sets they
complete, the bounds are natural numbers, the kinds of request are those the API offers, there are
finitely many requests, pages, files and archives have room for at least one entry, the kinds of
secrets differ, bytes are natural numbers, and a payload fits into a frame. That a payload fits is
about the frames that are written: `Append` refuses longer data before it writes anything.

Only model-checked: `EveryRequestReturns`, `EveryExecEnds`, `EveryStreamEnds` and `UploadsReturn`
(liveness under fairness is out of the prover's reach), and the three runs that find a violation.

## Not modelled

Names, resources, labels and environment of sandboxes; encoding of rows; filters of listings.
The state between a container's exit and the next request is what `ContainerExits` does: no
code watches containers. `RuntimeID` and `RuntimeIDFor` read a row without the mutex: in
`ExecService` a sandbox may be gone between that read and any later step (`StartFails`,
`ContainerGoes`). Whether a process blocks on a pipe that the supervisor no longer reads is up
to Docker; no property covers what follows from it. Commands, their environment and the listing
of execs are left out.

Hashing, prefixes and `last_used_at` of tokens, and what an audit event says. Paths, and the
checks of the single entries of an archive, are pure functions of strings. Hardening, networks
and resources of a container are set when it is made and never change.

The fake runtime is a test double. `internal/apigen`, `cmd/orcal/render.go` and the SDKs are
generated or format what they are given; the other commands of the command line client send
one request each. None of them keeps a state.

## Plan

1. The cardinalities in `ListingProofs` and `TokenProofs` and the walks in `LogProofs` share
   lemmas about finite sets and numbers; a module of such lemmas would serve all three.
2. Filters of the listings (state, labels, sandbox): a row that stops to match between two pages
   is one that leaves the listing, which `Listing` has; that the cursor need not match is not there.
3. `RuntimeID` without the mutex in the file service: a read that meets a Restore.
4. A process that blocks on a pipe after a failed append: a bound for the pipe, and an exec that
   ends under a fairness of the supervisor alone.
