----------------------------- MODULE FileService -----------------------------
(***************************************************************************)
(* Files of a sandbox (internal/files, internal/api/files.go,              *)
(* internal/runtime/docker/files.go): writing a file, uploading an         *)
(* archive, reading a file, downloading and listing a directory.           *)
(*                                                                         *)
(* Writing requests hold the mutex of the sandbox from start to end, while *)
(* they read the body their client sends.  An upload has a goroutine that  *)
(* checks the entries of the body and hands them through a pipe to the     *)
(* runtime, which buffers and applies them.  Reading requests take no      *)
(* lock: the runtime walks the directory while its files change.           *)
(*                                                                         *)
(* One directory and one request are followed.  What other requests and    *)
(* the processes of the sandbox do to the files is the action Change.      *)
(***************************************************************************)
EXTENDS Integers, FiniteSets, Sequences

CONSTANTS
  Names,              \* names in the directory
  Sizes,              \* contents of a file, told apart by their sizes
  Absent, Directory,  \* what else there may be under a name
  None,
  FileMaxBytes, ArchiveMaxBytes, ListMaxEntries, ListMaxScanBytes,
  MaxEntries,         \* bound: entries of an uploaded archive
  MaxChanges          \* bound: changes by others

ASSUME FileAssumption ==
  /\ Sizes \subseteq Nat \ {0}
  /\ {FileMaxBytes, ArchiveMaxBytes, ListMaxEntries, ListMaxScanBytes, MaxChanges} \subseteq Nat
  /\ MaxEntries \in Nat \ {0}
  /\ Absent \notin Sizes /\ Directory \notin Sizes /\ Absent # Directory
  /\ None \notin Names

VARIABLES
  disk,      \* the directory
  changes,   \* how many changes others have made
  up,        \* the writing request
  body,      \* its client: entries sent so far, and whether it goes on
  san,       \* the goroutine of an upload that checks the entries
  pipe,      \* the pipe from it to the runtime
  rt,        \* WriteArchive in the runtime
  rd,        \* the reading request
  stayed     \* for the properties: names there ever since the walk began

writer == <<up, body, san, pipe, rt>>
vars   == <<disk, changes, up, body, san, pipe, rt, rd, stayed>>

Content == Sizes \cup {Directory}
Entry   == [name : Names, content : Content]
Bytes(content) == IF content = Directory THEN 0 ELSE content

UpType   == [op : {"write", "upload"}, name : Names,
             pc : {"idle", "stat", "body", "target", "archive", "wait", "done"},
             answer : {"none", "ok", "refused", "unsafe", "too large", "broken",
                       "closed pipe", "conflict", "runtime"}]
BodyType == [sent : 0 .. MaxEntries, bytes : Nat, client : {"sending", "ended", "broken"}]
SanType  == [pc : {"off", "next", "put", "trailer", "done"}, entry : Entry \cup {None},
             err : {"none", "unsafe", "too large", "broken", "closed pipe"}]
RtType   == [pc : {"off", "open", "eof", "ok", "conflict", "runtime"}, queue : Seq(Entry),
             applied : 0 .. MaxEntries]
RdType   == [op : {"read", "download", "list"}, pc : {"idle", "open", "copy", "walk", "done"},
             name : Names \cup {None}, size : Sizes \cup {0}, content : Sizes \cup {Absent},
             intact : Nat, rewritten : BOOLEAN,
             todo : SUBSET Names, got : SUBSET Names, scanned : Nat, truncated : BOOLEAN,
             cut : {"no", "between", "within"}, answer : {"none", "ok", "error"}]

FileTypeOK ==
  /\ disk \in [Names -> Content \cup {Absent}] /\ changes \in 0 .. MaxChanges
  /\ up \in UpType /\ body \in BodyType /\ san \in SanType
  \* Nothing is handed over beyond the limit of an archive.
  /\ san.pc = "put" => body.bytes <= ArchiveMaxBytes
  /\ pipe \in {"open", "closed"}
  /\ rt \in RtType /\ Len(rt.queue) <= MaxEntries
  /\ rd \in RdType /\ stayed \subseteq Names

NoRead == [op |-> "read", pc |-> "idle", name |-> None, size |-> 0, content |-> Absent,
           intact |-> 0, rewritten |-> FALSE, todo |-> {}, got |-> {}, scanned |-> 0,
           truncated |-> FALSE, cut |-> "no", answer |-> "none"]

FileInit ==
  /\ disk \in [Names -> Content \cup {Absent}]
  /\ changes = 0
  /\ \E name \in Names :
       up = [op |-> "write", name |-> name, pc |-> "idle", answer |-> "none"]
  /\ body = [sent |-> 0, bytes |-> 0, client |-> "sending"]
  /\ san = [pc |-> "off", entry |-> None, err |-> "none"]
  /\ pipe = "open"
  /\ rt = [pc |-> "off", queue |-> <<>>, applied |-> 0]
  /\ rd = NoRead
  /\ stayed = {}

Regular(name) == disk[name] \in Sizes
Put(name, content) == disk' = [disk EXCEPT ![name] = content]

Copied(name) == rd.op = "read" /\ rd.pc = "copy" /\ rd.name = name

\* A file that is being copied may also be written with as many bytes as it has: in
\* place, where the copy meets them, or to another file that takes its name.
Change(name, content) ==
  /\ changes < MaxChanges /\ (content # disk[name] \/ Copied(name))
  /\ changes' = changes + 1
  /\ Put(name, content)
  /\ stayed' = IF content = Absent THEN stayed \ {name} ELSE stayed
  /\ \/ UNCHANGED rd
     \/ Copied(name) /\ rd' = [rd EXCEPT !.rewritten = TRUE]
  /\ UNCHANGED writer

-------------------------------------------------------------------------------
(* The client of a writing request, and who reads what it sends              *)

Idle    == up.pc = "idle" /\ rd.pc = "idle"
Reading == UNCHANGED <<changes, rd, stayed>>
Answer(a) == up' = [up EXCEPT !.pc = "done", !.answer = a]

\* WithLockedRuntimeID; the mutex is held until the request is done.
StartWrite(op, name) ==
  /\ Idle
  /\ up' = [up EXCEPT !.op = op, !.name = name,
                      !.pc = IF op = "write" THEN "body" ELSE "stat"]
  /\ UNCHANGED <<disk, body, san, pipe, rt>> /\ Reading

\* Somebody waits for the client: the request itself, or the goroutine.
Awaited == /\ body.client = "sending"
           /\ up.pc = "body" \/ san.pc = "next"

Stops(err) == san' = [san EXCEPT !.pc = "done", !.err = err]

\* Mutant: the bytes are not counted.
ClientSendsEntry_Uncounted(e, safe) ==
  /\ Awaited /\ up.op = "upload" /\ body.sent < MaxEntries
  /\ body' = [body EXCEPT !.sent = @ + 1, !.bytes = @ + Bytes(e.content)]
  /\ IF ~safe THEN Stops("unsafe") ELSE san' = [san EXCEPT !.pc = "put", !.entry = e]
  /\ UNCHANGED <<disk, up, pipe, rt>> /\ Reading

\* sanitizeArchive has a header: an entry that is unsafe, or one too many bytes, is
\* the end of the upload.
ClientSendsEntry(e, safe) ==
  /\ Awaited /\ up.op = "upload" /\ body.sent < MaxEntries
  /\ body' = [body EXCEPT !.sent = @ + 1, !.bytes = @ + Bytes(e.content)]
  /\ IF ~safe THEN Stops("unsafe")
     ELSE IF body'.bytes > ArchiveMaxBytes THEN Stops("too large")
     ELSE san' = [san EXCEPT !.pc = "put", !.entry = e]
  /\ UNCHANGED <<disk, up, pipe, rt>> /\ Reading

\* Files.Write reads the whole body, up to one byte more than it takes.
ClientSendsFile(size) ==
  /\ Awaited /\ up.op = "write"
  /\ body' = [sent |-> 1, bytes |-> size, client |-> "ended"]
  /\ IF size > FileMaxBytes THEN Answer("too large") ELSE up' = [up EXCEPT !.pc = "target"]
  /\ UNCHANGED <<disk, san, pipe, rt>> /\ Reading

ClientEnds ==
  /\ Awaited /\ up.op = "upload"
  /\ body' = [body EXCEPT !.client = "ended"]
  /\ san' = [san EXCEPT !.pc = "trailer"]
  /\ UNCHANGED <<disk, up, pipe, rt>> /\ Reading

\* Mutant: a body that breaks off is one that ends.
ClientBreaks_Ends ==
  /\ Awaited /\ up.op = "upload"
  /\ body' = [body EXCEPT !.client = "broken"]
  /\ san' = [san EXCEPT !.pc = "trailer"]
  /\ UNCHANGED <<disk, up, pipe, rt>> /\ Reading

ClientBreaks ==
  /\ Awaited
  /\ body' = [body EXCEPT !.client = "broken"]
  /\ IF up.op = "write" THEN Answer("broken") /\ UNCHANGED san
     ELSE Stops("broken") /\ UNCHANGED up
  /\ UNCHANGED <<disk, pipe, rt>> /\ Reading

-------------------------------------------------------------------------------
(* Writing a file                                                            *)

\* The target must be a regular file or nothing; then the archive is built.
StatTarget ==
  /\ up.pc = "target"
  /\ \/ /\ disk[up.name] # Directory
        /\ up' = [up EXCEPT !.pc = "archive"]
     \/ (disk[up.name] = Directory /\ Answer("refused"))
     \/ Answer("runtime")
  /\ UNCHANGED <<disk, body, san, pipe, rt>> /\ Reading

Clashes(name, content) ==
  /\ disk[name] # Absent
  /\ (disk[name] = Directory) # (content = Directory)

\* The runtime removes the file that is there before it writes the new one.
CutShort(name, content) ==
  \E left \in {size \in Sizes : size < Bytes(content)} \cup {Absent} : Put(name, left)

\* WriteArchive of the archive built in memory.  The runtime applies it and is heard or
\* not, or gives up somewhere on the way.  (The directories that are missing above the
\* file are in the same archive; only the file's own is followed.)
WriteFile ==
  /\ up.op = "write" /\ up.pc = "archive"
  /\ \/ /\ ~Clashes(up.name, body.bytes)
        /\ \/ /\ Put(up.name, body.bytes)
              /\ Answer("ok") \/ Answer("runtime")
              /\ rt' = [rt EXCEPT !.applied = 1]
           \/ CutShort(up.name, body.bytes) /\ Answer("runtime") /\ UNCHANGED rt
     \/ Clashes(up.name, body.bytes) /\ Answer("conflict") /\ UNCHANGED <<disk, rt>>
     \/ Answer("runtime") /\ UNCHANGED <<disk, rt>>
  /\ UNCHANGED <<body, san, pipe>> /\ Reading

-------------------------------------------------------------------------------
(* Uploading an archive                                                      *)

\* The destination is there and a directory, or the upload is refused.
StatDestination ==
  /\ up.pc = "stat"
  /\ \/ /\ up' = [up EXCEPT !.pc = "archive"]
        /\ san' = [san EXCEPT !.pc = "next"]
        /\ rt' = [rt EXCEPT !.pc = "open"]
     \/ Answer("refused") /\ UNCHANGED <<san, rt>>
  /\ UNCHANGED <<disk, body, pipe>> /\ Reading

\* The runtime takes what the goroutine writes; the last of it is the trailer.
RuntimeTakes ==
  /\ rt.pc = "open" /\ pipe = "open"
  /\ \/ /\ san.pc = "put"
        /\ rt' = [rt EXCEPT !.queue = Append(@, san.entry)]
        /\ san' = [san EXCEPT !.pc = "next", !.entry = None]
     \/ /\ san.pc = "trailer"
        /\ rt' = [rt EXCEPT !.pc = "eof"]
        /\ Stops("none")
  /\ UNCHANGED <<disk, up, body, pipe>> /\ Reading

RuntimeApplies ==
  /\ rt.pc \in {"open", "eof"} /\ rt.queue # <<>>
  /\ LET e == Head(rt.queue) IN
       \/ /\ ~Clashes(e.name, e.content)
          /\ Put(e.name, e.content)
          /\ rt' = [rt EXCEPT !.queue = Tail(@), !.applied = @ + 1]
       \/ /\ Clashes(e.name, e.content)
          /\ rt' = [rt EXCEPT !.pc = "conflict", !.queue = <<>>]
          /\ UNCHANGED disk
  /\ UNCHANGED <<up, body, san, pipe>> /\ Reading

RuntimeEnds ==
  /\ \/ /\ rt.pc = "eof" /\ rt.queue = <<>>
        /\ rt' = [rt EXCEPT !.pc = "ok"]
        /\ UNCHANGED disk
     \* The body ends with the goroutine's error, the container vanishes, all is applied
     \* and the answer lost, ...
     \/ /\ rt.pc \in {"open", "eof"}
        /\ rt' = [rt EXCEPT !.pc = "runtime", !.queue = <<>>]
        /\ \/ UNCHANGED disk
           \/ /\ rt.queue # <<>> /\ Head(rt.queue).content \in Sizes
              /\ ~Clashes(Head(rt.queue).name, Head(rt.queue).content)
              /\ CutShort(Head(rt.queue).name, Head(rt.queue).content)
  /\ UNCHANGED <<up, body, san, pipe>> /\ Reading

RuntimeEnded == rt.pc \in {"ok", "conflict", "runtime"}

\* Mutant: the pipe is left open.
WriteReturns_LeavesPipe ==
  /\ up.op = "upload" /\ up.pc = "archive" /\ RuntimeEnded
  /\ up' = [up EXCEPT !.pc = "wait"]
  /\ UNCHANGED <<disk, body, san, pipe, rt>> /\ Reading

\* pr.Close, and then on to the goroutine's error.
WriteReturns ==
  /\ up.op = "upload" /\ up.pc = "archive" /\ RuntimeEnded
  /\ pipe' = "closed"
  /\ up' = [up EXCEPT !.pc = "wait"]
  /\ UNCHANGED <<disk, body, san, rt>> /\ Reading

\* A write to a pipe that nobody reads any more fails.
WriteFails ==
  /\ san.pc \in {"put", "trailer"} /\ pipe = "closed"
  /\ san' = [san EXCEPT !.pc = "done", !.err = "closed pipe", !.entry = None]
  /\ UNCHANGED <<disk, up, body, pipe, rt>> /\ Reading

\* The goroutine's error comes before the runtime's.
UploadReturns ==
  /\ up.op = "upload" /\ up.pc = "wait" /\ san.pc = "done"
  /\ Answer(IF san.err # "none" THEN san.err ELSE rt.pc)
  /\ UNCHANGED <<disk, body, san, pipe, rt>> /\ Reading

-------------------------------------------------------------------------------
(* Reading a file                                                            *)

Writing == UNCHANGED <<changes, writer>>
Reply(a) == rd' = [rd EXCEPT !.pc = "done", !.answer = a]

\* Service.Read: StatPath; its size will be the Content-Length of the response.
StartRead(name) ==
  /\ Idle
  /\ rd' = [NoRead EXCEPT !.name = name,
                         !.pc = IF Regular(name) THEN "open" ELSE "done",
                         !.size = IF Regular(name) THEN disk[name] ELSE 0,
                         !.answer = IF Regular(name) THEN "none" ELSE "error"]
  /\ UNCHANGED <<disk, stayed>> /\ Writing

\* ReadArchive and the first header, with the size the file has by now.
OpenFile ==
  /\ rd.op = "read" /\ rd.pc = "open"
  /\ IF Regular(rd.name) THEN rd' = [rd EXCEPT !.pc = "copy", !.content = disk[rd.name]]
     ELSE Reply("error")
  /\ UNCHANGED <<disk, stayed>> /\ Writing

\* Mutant: no length is announced, and the error of the copy dropped all the same.
Received_Unannounced == Reply("ok")

\* The copy is over.  A body that is not as long as announced is a broken response.
Received == Reply(IF rd.scanned = rd.size THEN "ok" ELSE "error")

\* io.Copy writes n more bytes of the entry, which is as long as its header says.  What
\* it meets of a file that has been written meanwhile need not be what was opened.  The
\* server refuses all of a write that would go beyond the length announced.
CopyMore(n) ==
  /\ rd.op = "read" /\ rd.pc = "copy" /\ rd.scanned + n <= rd.content
  /\ IF rd.scanned + n > rd.size THEN Received
     ELSE rd' = [rd EXCEPT !.scanned = @ + n,
                           !.intact = IF rd.rewritten THEN @ ELSE @ + n]
  /\ UNCHANGED <<disk, stayed>> /\ Writing

\* The end of the entry, or where the stream from the runtime breaks.
CopyEnds ==
  /\ rd.op = "read" /\ rd.pc = "copy"
  /\ Received
  /\ UNCHANGED <<disk, stayed>> /\ Writing

-------------------------------------------------------------------------------
(* Walking the directory: DownloadArchive, List                              *)

StartWalk(op) ==
  /\ Idle
  /\ rd' = [NoRead EXCEPT !.op = op, !.pc = "walk", !.todo = Names]
  /\ stayed' = {name \in Names : disk[name] # Absent}
  /\ UNCHANGED disk /\ Writing

Take(name) ==
  rd' = [rd EXCEPT !.todo = @ \ {name},
                   !.got = IF disk[name] = Absent THEN @ ELSE @ \cup {name},
                   !.scanned = IF disk[name] = Absent THEN @ ELSE @ + Bytes(disk[name])]

\* The limits of List: bytes are counted before an entry, entries when there is one more.
ScannedEnough == rd.scanned > ListMaxScanBytes
Overfull(name) == disk[name] # Absent /\ Cardinality(rd.got) >= ListMaxEntries

\* Mutant: a listing that is cut off does not say so.
Truncate_Silent == rd' = [rd EXCEPT !.pc = "done", !.answer = "ok"]

Truncate == rd' = [rd EXCEPT !.pc = "done", !.answer = "ok", !.truncated = TRUE]

\* The next entry of the stream, of the directory as it is by now.
Visit(name) ==
  /\ rd.pc = "walk" /\ name \in rd.todo
  /\ IF rd.op = "list" /\ (ScannedEnough \/ Overfull(name)) THEN Truncate ELSE Take(name)
  /\ UNCHANGED <<disk, stayed>> /\ Writing

WalkEnds ==
  /\ rd.pc = "walk" /\ rd.todo = {}
  /\ IF rd.op = "list" /\ ScannedEnough THEN Truncate ELSE Reply("ok")
  /\ UNCHANGED <<disk, stayed>> /\ Writing

\* The stream from the runtime breaks.  List reports that.  A download has sent its
\* status and drops the error, so the response ends as if it were complete: its client
\* notices within an entry, and takes the boundary between two for the end.
StreamBreaks(where) ==
  /\ rd.pc = "walk"
  /\ rd' = [rd EXCEPT !.pc = "done", !.cut = where,
                      !.answer = IF rd.op = "download" /\ where = "between" THEN "ok"
                                 ELSE "error"]
  /\ UNCHANGED <<disk, stayed>> /\ Writing

-------------------------------------------------------------------------------

ClientMoves ==
  \/ \E name \in Names, content \in Content, safe \in BOOLEAN :
       ClientSendsEntry([name |-> name, content |-> content], safe)
  \/ \E size \in Sizes : ClientSendsFile(size)
  \/ ClientEnds \/ ClientBreaks

RuntimeMoves == RuntimeTakes \/ RuntimeApplies \/ RuntimeEnds
RequestMoves == StatTarget \/ WriteFile \/ StatDestination \/ WriteReturns \/ UploadReturns

ReadMoves ==
  \/ OpenFile \/ (\E n \in Sizes : CopyMore(n)) \/ CopyEnds
  \/ \E name \in Names : Visit(name)
  \/ WalkEnds
  \/ \E where \in {"between", "within"} : StreamBreaks(where)

FileNext ==
  \/ \E name \in Names, content \in Content \cup {Absent} : Change(name, content)
  \/ \E op \in {"write", "upload"}, name \in Names : StartWrite(op, name)
  \/ ClientMoves \/ RuntimeMoves \/ RequestMoves \/ WriteFails
  \/ \E name \in Names : StartRead(name)
  \/ \E op \in {"download", "list"} : StartWalk(op)
  \/ ReadMoves

\* Goroutines are scheduled, the runtime answers, and a client that is waited for sends
\* on or is gone: nothing in the daemon bounds how long that may take it.
FileSpec ==
  /\ FileInit /\ [][FileNext]_vars
  /\ WF_vars(ClientMoves) /\ WF_vars(RuntimeMoves)
  /\ WF_vars(RequestMoves) /\ WF_vars(WriteFails)

-------------------------------------------------------------------------------
(* Properties                                                                *)

\* A writing request is answered with success (internal/files/archive.go:61) only if
\* its client has sent the whole body and the runtime has applied all of it, however the
\* goroutine, the pipe and the runtime's buffer have interleaved.  An answer that is lost
\* may make an error of what was applied.
OkIsWhole ==
  up.pc = "done" /\ up.answer = "ok" =>
    body.client = "ended" /\ rt.applied = body.sent

\* A client that reads a file without an error (internal/api/files.go:26) has the whole
\* of what it was when the runtime opened it, with two exceptions it cannot tell from
\* that: a prefix, if the file had grown since StatPath; and bytes of another version,
\* if it was written while it was being copied.
ReadIsAVersion ==
  rd.op = "read" /\ rd.answer = "ok" =>
    \/ rd.intact = rd.content
    \/ rd.size < rd.content /\ rd.intact = rd.size
    \/ rd.rewritten /\ rd.intact < rd.scanned

\* A listing that is not marked as truncated (internal/files/list.go:64), and a download
\* that its client takes for complete (internal/api/files.go:84), hold every name that
\* was there throughout, unless the stream of a download has broken between two entries.
WalkIsComplete ==
  rd.op \in {"list", "download"} /\ rd.answer = "ok" /\ ~rd.truncated =>
    \/ stayed \subseteq rd.got
    \/ rd.op = "download" /\ rd.cut = "between"

\* A writing request comes to its end, and gives the mutex of the sandbox back
\* (internal/files/archive.go:59-61), if its client goes on or breaks off.
UploadsReturn == (up.pc \in {"stat", "body", "target", "archive", "wait"}) ~> (up.pc = "done")

\* "Tar archive of the path" (spec/openapi.yaml:341), whatever becomes of the stream.
DownloadIsComplete ==
  rd.op = "download" /\ rd.answer = "ok" => stayed \subseteq rd.got
==============================================================================
