------------------------------ MODULE FileProofs ------------------------------
(***************************************************************************)
(* The files of a sandbox, proved for any names, contents, limits, lengths *)
(* of an archive and changes by others: a writing request says ok only     *)
(* when all was sent and all was applied, a file that is read is one that  *)
(* was there or was written meanwhile, and a walk that looks complete has  *)
(* what stayed.                                                            *)
(***************************************************************************)
EXTENDS FileService, SequenceTheorems, TLAPS

-------------------------------------------------------------------------------
(* The inductive invariant                                                   *)

\* Entries that have reached the runtime, its buffer, or the pipe to it.
HandedOn == rt.applied + Len(rt.queue) + (IF san.pc = "put" THEN 1 ELSE 0)

Fresh == /\ body.sent = 0 /\ body.client = "sending"
         /\ san.pc = "off" /\ rt.pc = "off" /\ rt.queue = <<>> /\ rt.applied = 0

\* How far a writing request is, and what its client, the goroutine and the runtime
\* have done by then.
WriterInv ==
  /\ up.pc \in {"idle", "stat", "body"} => Fresh
  /\ up.pc \in {"body", "target"} => up.op = "write"
  /\ up.pc \in {"stat", "wait"} => up.op = "upload"
  /\ up.op = "write" \/ up.pc = "stat" => san.pc = "off" /\ rt.pc = "off"
  /\ up.pc = "idle" => up.op = "write"
  /\ up.op = "write" /\ up.pc \in {"target", "archive"} =>
       /\ body.client = "ended" /\ body.bytes \in Sizes
       /\ body.sent = 1 /\ rt.applied = 0
  /\ up.op = "upload" /\ up.pc \in {"archive", "wait"} => san.pc # "off" /\ rt.pc # "off"
  /\ up.op = "upload" /\ up.pc = "done" =>
       \/ san.pc = "done" /\ RuntimeEnded /\ (up.answer = "ok" <=> rt.pc = "ok")
       \/ body.client = "sending" /\ san.pc = "off" /\ rt.pc = "off" /\ up.answer # "ok"

\* The chain from the client to the runtime: nothing is lost on the way as long as the
\* goroutine goes on and the runtime takes what it writes, and the runtime only comes to
\* the end of an archive that has one.
ChainInv ==
  /\ san.pc \in {"next", "put"} => body.client = "sending"
  /\ san.pc = "trailer" => body.client = "ended"
  /\ san.pc = "put" => san.entry \in Entry
  /\ HandedOn <= body.sent
  /\ rt.pc = "open" /\ san.pc # "done" => HandedOn = body.sent
  /\ rt.pc \in {"eof", "ok"} =>
       /\ san.pc = "done" /\ san.err = "none" /\ body.client = "ended"
       /\ HandedOn = body.sent
  /\ rt.pc \notin {"open", "eof"} => rt.queue = <<>>
  /\ pipe = "closed" \/ up.pc = "wait" => RuntimeEnded

\* A read has sizes to compare; names that stayed are there, and are taken or to come.
ReaderInv ==
  /\ rd.pc \in {"open", "copy"} => rd.op = "read" /\ rd.name \in Names
  /\ rd.pc = "copy" => /\ rd.content \in Sizes /\ rd.scanned <= rd.content
                       /\ rd.scanned <= rd.size /\ rd.intact <= rd.scanned
                       /\ ~rd.rewritten => rd.intact = rd.scanned
  /\ rd.pc = "open" => rd.scanned = 0 /\ rd.intact = 0 /\ ~rd.rewritten
  /\ rd.pc = "walk" => rd.op \in {"download", "list"}
  /\ rd.pc # "done" => rd.answer = "none"
  /\ \A name \in stayed : disk[name] # Absent
  /\ rd.pc = "walk" => stayed \subseteq rd.got \cup rd.todo

\* The request that is followed either reads or writes.
ApartInv ==
  /\ rd.pc = "idle" => stayed = {}
  /\ up.pc # "idle" => rd.pc = "idle"

FileIInv ==
  /\ FileTypeOK /\ WriterInv /\ ChainInv /\ OkIsWhole /\ ApartInv
  /\ ReaderInv /\ ReadIsAVersion /\ WalkIsComplete

-------------------------------------------------------------------------------
(* The parts of a step                                                       *)

\* What the writing request, its client, the goroutine and the runtime do.
Writes ==
  \/ \E op \in {"write", "upload"}, name \in Names : StartWrite(op, name)
  \/ ClientMoves \/ RuntimeMoves \/ RequestMoves \/ WriteFails

\* What the reading request does.
Reads ==
  \/ \E name \in Names : StartRead(name)
  \/ \E op \in {"download", "list"} : StartWalk(op)
  \/ ReadMoves

Changes == \E name \in Names, content \in Content \cup {Absent} : Change(name, content)

\* How many bytes an entry has.
LEMMA BytesType ==
  /\ \A c \in Content : Bytes(c) \in Nat
  /\ \A s \in Sizes : Bytes(s) = s /\ s \in Nat /\ s # 0 /\ s # Absent /\ s # Directory
  /\ Absent \notin Content
  BY FileAssumption DEF Bytes, Content

\* The writing request only steps while nothing is being read.
LEMMA WritesAlone ==
  ASSUME FileIInv, Writes
  PROVE  rd.pc = "idle" /\ stayed = {}
<1>1. ApartInv /\ (up.pc = "idle" => Fresh)
  BY DEF FileIInv, WriterInv
<1>2. Idle \/ up.pc # "idle"
  <2>1. CASE \E op \in {"write", "upload"}, name \in Names : StartWrite(op, name)
    BY <2>1 DEF StartWrite
  <2>2. CASE ClientMoves \/ WriteFails
    BY <1>1, <2>2 DEF ClientMoves, ClientSendsEntry, ClientSendsFile, ClientEnds, ClientBreaks,
       Awaited, WriteFails, Fresh
  <2>3. CASE RuntimeMoves
    BY <1>1, <2>3 DEF RuntimeMoves, RuntimeTakes, RuntimeApplies, RuntimeEnds, Fresh
  <2>4. CASE RequestMoves
    BY <2>4 DEF RequestMoves, StatTarget, WriteFile, StatDestination, WriteReturns, UploadReturns
  <2> QED BY <2>1, <2>2, <2>3, <2>4 DEF Writes
<1> QED BY <1>1, <1>2 DEF ApartInv, Idle

\* A step of the writing request does nothing to the reading one.
LEMMA WritesDisk ==
  ASSUME FileIInv, Writes
  PROVE  /\ UNCHANGED <<changes, rd, stayed>>
         /\ disk' \in [Names -> Content \cup {Absent}]
<1> USE DEF Reading
<1>1. UNCHANGED <<changes, rd, stayed>>
  BY DEF Writes, StartWrite, ClientMoves, ClientSendsEntry, ClientSendsFile, ClientEnds,
     ClientBreaks, RuntimeMoves, RuntimeTakes, RuntimeApplies, RuntimeEnds, RequestMoves,
     StatTarget, WriteFile, StatDestination, WriteReturns, UploadReturns, WriteFails
<1>2. disk \in [Names -> Content \cup {Absent}] /\ up.name \in Names /\ rt.queue \in Seq(Entry)
  BY DEF FileIInv, FileTypeOK, UpType, RtType
<1>3. \/ UNCHANGED disk
      \/ \E name \in Names, content \in Content \cup {Absent} : Put(name, content)
  <2>0. ASSUME NEW name \in Names, NEW content, CutShort(name, content)
        PROVE  \E left \in Content \cup {Absent} : Put(name, left)
    BY <2>0 DEF CutShort, Content
  <2>1. CASE RuntimeApplies \/ RuntimeEnds
    <3>1. rt.queue # <<>> => Head(rt.queue).name \in Names /\ Head(rt.queue).content \in Content
      <4>1. rt.queue # <<>> => Head(rt.queue) \in Entry
        BY <1>2, HeadTailProperties
      <4> QED BY <4>1 DEF Entry
    <3>2. CASE RuntimeApplies
      BY <3>1, <3>2 DEF RuntimeApplies
    <3>3. CASE RuntimeEnds
      BY <2>0, <3>1, <3>3 DEF RuntimeEnds
    <3> QED BY <2>1, <3>2, <3>3
  <2>2. CASE WriteFile
    <3>1. up.op = "write" /\ up.pc = "archive" => body.bytes \in Sizes
      BY DEF FileIInv, WriterInv
    <3> QED BY <1>2, <2>0, <2>2, <3>1 DEF WriteFile, Content
  <2>3. CASE ~RuntimeApplies /\ ~RuntimeEnds /\ ~WriteFile
    BY <2>3 DEF Writes, StartWrite, ClientMoves, ClientSendsEntry, ClientSendsFile, ClientEnds,
       ClientBreaks, RuntimeMoves, RuntimeTakes, RequestMoves,
       StatTarget, StatDestination, WriteReturns, UploadReturns, WriteFails
  <2> QED BY <2>1, <2>2, <2>3
<1> QED BY <1>1, <1>2, <1>3, BytesType DEF Put

-------------------------------------------------------------------------------
(* Writing                                                                   *)

\* What the invariant says of a step's state before, for the proofs below.
LEMMA WriterTypes ==
  FileIInv => /\ up \in UpType /\ body \in BodyType /\ san \in SanType /\ rt \in RtType
              /\ pipe \in {"open", "closed"} /\ Len(rt.queue) <= MaxEntries
              /\ rt.queue \in Seq(Entry) /\ Len(rt.queue) \in Nat
              /\ san.pc = "put" => body.bytes <= ArchiveMaxBytes
              /\ body.sent \in 0 .. MaxEntries /\ body.bytes \in Nat /\ rt.applied \in 0 .. MaxEntries
              /\ MaxEntries \in Nat \ {0}
  BY LenProperties, FileAssumption DEF FileIInv, FileTypeOK, BodyType, RtType

\* What the writing request, and those who work for it, keep.
WriterKept ==
  /\ up \in UpType /\ body \in BodyType /\ san \in SanType /\ rt \in RtType
  /\ pipe \in {"open", "closed"} /\ Len(rt.queue) <= MaxEntries
  /\ san.pc = "put" => body.bytes <= ArchiveMaxBytes
  /\ WriterInv /\ ChainInv /\ OkIsWhole

LEMMA StartKeeps ==
  ASSUME FileIInv, NEW op \in {"write", "upload"}, NEW name \in Names, StartWrite(op, name)
  PROVE  WriterKept'
<1>1. /\ up.pc = "idle" /\ UNCHANGED <<body, san, pipe, rt>>
      /\ up'.pc = (IF op = "write" THEN "body" ELSE "stat") /\ up'.op = op
      /\ up' \in UpType /\ Fresh
  BY WriterTypes DEF StartWrite, Idle, UpType, FileIInv, WriterInv
<1>2. WriterInv' /\ ChainInv' /\ OkIsWhole'
  BY <1>1, WriterTypes DEF FileIInv, WriterInv, ChainInv, OkIsWhole, Fresh, HandedOn, RuntimeEnded
<1> QED BY <1>1, <1>2, WriterTypes DEF WriterKept

LEMMA ClientKeeps ==
  ASSUME FileIInv, ClientMoves
  PROVE  WriterKept'
<1> USE DEF Reading
<1>1. WriterInv /\ ChainInv /\ OkIsWhole
  BY DEF FileIInv
<1>2. ASSUME NEW e \in Entry, NEW safe \in BOOLEAN, ClientSendsEntry(e, safe)
      PROVE  WriterKept'
  <2>2. Bytes(e.content) \in Nat
    BY BytesType DEF Entry
  <2>3. /\ up.op = "upload" /\ san.pc = "next" /\ body.client = "sending"
        /\ up.pc \in {"archive", "wait"} /\ UNCHANGED <<up, pipe, rt>>
        /\ body.sent < MaxEntries
    BY <1>1, <1>2, WriterTypes DEF ClientSendsEntry, Awaited, WriterInv, Fresh, UpType
  <2>4. /\ body'.sent = body.sent + 1 /\ body'.client = "sending" /\ body' \in BodyType
        /\ body'.bytes = body.bytes + Bytes(e.content)
    <3>1. /\ body.sent + 1 \in 0 .. MaxEntries
          /\ body.bytes + Bytes(e.content) \in Nat
      BY <2>2, <2>3, WriterTypes
    <3>2. body' = [body EXCEPT !.sent = @ + 1, !.bytes = @ + Bytes(e.content)]
      BY <1>2 DEF ClientSendsEntry
    <3> QED BY <2>3, <3>1, <3>2, WriterTypes DEF BodyType
  <2>5. /\ san' \in SanType
        /\ \/ san'.pc = "done" /\ san'.err \in {"unsafe", "too large"}
           \/ san'.pc = "put" /\ san'.entry = e /\ body'.bytes <= ArchiveMaxBytes
    <3>1. ArchiveMaxBytes \in Nat /\ body'.bytes \in Nat
      BY <2>4, FileAssumption DEF BodyType
    <3>2. \/ san' = [san EXCEPT !.pc = "done", !.err = "unsafe"]
          \/ san' = [san EXCEPT !.pc = "done", !.err = "too large"]
          \/ san' = [san EXCEPT !.pc = "put", !.entry = e] /\ body'.bytes <= ArchiveMaxBytes
      BY <1>2, <3>1 DEF ClientSendsEntry, Stops
    <3> QED BY <3>2, WriterTypes DEF SanType
  <2>6. WriterInv' /\ OkIsWhole'
    BY <1>1, <2>3, <2>4, <2>5 DEF WriterInv, OkIsWhole, RuntimeEnded
  <2>7. ChainInv'
    <3>1. /\ HandedOn \in Nat /\ body.sent \in Nat
          /\ HandedOn' = IF san'.pc = "put" THEN HandedOn + 1 ELSE HandedOn
      <4>1. /\ Len(rt.queue) \in Nat /\ rt.applied \in Nat /\ body.sent \in Nat
            /\ rt' = rt /\ san.pc = "next"
        BY <2>3, WriterTypes
      <4> QED BY <4>1 DEF HandedOn
    <3>2. rt.pc \notin {"eof", "ok"} /\ rt' = rt /\ up' = up /\ pipe' = pipe
      BY <1>1, <2>3 DEF ChainInv
    <3>3. HandedOn' <= body'.sent /\ (HandedOn = body.sent /\ san'.pc = "put" => HandedOn' = body'.sent)
      BY <1>1, <2>4, <3>1 DEF ChainInv
    <3> QED BY <1>1, <2>3, <2>4, <2>5, <3>2, <3>3 DEF ChainInv, RuntimeEnded
  <2> QED BY <2>3, <2>4, <2>5, <2>6, <2>7, WriterTypes DEF WriterKept
<1>3. CASE \E size \in Sizes : ClientSendsFile(size)
  <2>1. PICK size \in Sizes : ClientSendsFile(size)
    BY <1>3
  <2>2. /\ up.op = "write" /\ up.pc = "body" /\ Fresh /\ UNCHANGED <<san, pipe, rt>>
        /\ up' \in UpType /\ up'.op = "write"
        /\ up'.pc = "target" \/ (up'.pc = "done" /\ up'.answer = "too large")
    BY <1>1, <2>1, WriterTypes DEF ClientSendsFile, Awaited, WriterInv, UpType, Answer
  <2>3. /\ body' \in BodyType /\ body'.sent = 1 /\ body'.bytes \in Sizes
        /\ body'.client = "ended"
    <3>1. size \in Nat
      BY BytesType
    <3>2. 1 \in 0 .. MaxEntries
      BY FileAssumption
    <3>3. body' = [sent |-> 1, bytes |-> size, client |-> "ended"]
      BY <2>1 DEF ClientSendsFile
    <3> QED BY <3>1, <3>2, <3>3 DEF BodyType
  <2>4. /\ san'.pc = "off" /\ rt'.pc = "off" /\ rt'.applied = 0 /\ rt'.queue = <<>>
        /\ rt'.applied # body'.sent /\ HandedOn' <= body'.sent
    <3>1. /\ san'.pc = "off" /\ rt'.pc = "off" /\ rt'.applied = 0 /\ rt'.queue = <<>>
      BY <2>2 DEF Fresh
    <3>2. HandedOn' = 0
      BY <3>1, EmptySeq DEF HandedOn
    <3>3. 0 # body'.sent /\ 0 <= body'.sent
      BY <2>3
    <3> QED BY <3>1, <3>2, <3>3
  <2>5. WriterInv' /\ OkIsWhole'
    BY <2>2, <2>3, <2>4 DEF WriterInv, OkIsWhole
  <2>6. ChainInv'
    BY <1>1, <2>2, <2>4 DEF ChainInv, RuntimeEnded
  <2> QED BY <2>2, <2>3, <2>4, <2>5, <2>6, WriterTypes DEF WriterKept
<1>4. CASE ClientEnds
  <2>1. /\ up.op = "upload" /\ san.pc = "next" /\ UNCHANGED <<up, pipe, rt>>
        /\ up.pc \in {"archive", "wait"}
    BY <1>1, <1>4, WriterTypes DEF ClientEnds, Awaited, WriterInv, Fresh, UpType
  <2>2. /\ body' \in BodyType /\ body'.client = "ended" /\ body'.sent = body.sent
        /\ san' \in SanType /\ san'.pc = "trailer"
    BY <1>4, WriterTypes DEF ClientEnds, BodyType, SanType
  <2>3. WriterInv' /\ OkIsWhole'
    BY <1>1, <2>1, <2>2 DEF WriterInv, OkIsWhole, RuntimeEnded
  <2>4. ChainInv'
    BY <1>1, <2>1, <2>2, WriterTypes DEF ChainInv, HandedOn, RuntimeEnded
  <2> QED BY <2>1, <2>2, <2>3, <2>4, WriterTypes DEF WriterKept
<1>5. CASE ClientBreaks
  <2>1. /\ UNCHANGED <<pipe, rt>> /\ body' \in BodyType /\ body'.client = "broken"
        /\ body'.sent = body.sent
    BY <1>5, WriterTypes DEF ClientBreaks, BodyType
  <2>2. CASE up.op = "write"
    <3>1. /\ up.pc = "body" /\ Fresh /\ UNCHANGED san
          /\ up' \in UpType /\ up'.pc = "done" /\ up'.answer = "broken" /\ up'.op = "write"
      BY <1>1, <1>5, <2>2, WriterTypes DEF ClientBreaks, Awaited, WriterInv, Answer, UpType
    <3>2. WriterInv' /\ OkIsWhole' /\ ChainInv'
      BY <1>1, <2>1, <3>1, WriterTypes
         DEF WriterInv, OkIsWhole, ChainInv, HandedOn, RuntimeEnded, Fresh
    <3> QED BY <2>1, <3>1, <3>2, WriterTypes DEF WriterKept, Fresh
  <2>3. CASE up.op = "upload"
    <3>1. /\ san.pc = "next" /\ UNCHANGED up /\ up.pc \in {"archive", "wait"}
          /\ san' \in SanType /\ san'.pc = "done" /\ san'.err = "broken"
      BY <1>1, <1>5, <2>3, WriterTypes
         DEF ClientBreaks, Awaited, WriterInv, Stops, UpType, SanType, Fresh
    <3>2. WriterInv' /\ OkIsWhole'
      BY <1>1, <2>1, <2>3, <3>1 DEF WriterInv, OkIsWhole, RuntimeEnded
    <3>3. ChainInv'
      BY <1>1, <2>1, <2>3, <3>1, WriterTypes DEF ChainInv, HandedOn, RuntimeEnded
    <3> QED BY <2>1, <3>1, <3>2, <3>3, WriterTypes DEF WriterKept
  <2> QED BY <2>2, <2>3, WriterTypes DEF UpType
<1>6. \A name \in Names, content \in Content : [name |-> name, content |-> content] \in Entry
  BY DEF Entry
<1> QED BY <1>2, <1>3, <1>4, <1>5, <1>6 DEF ClientMoves

LEMMA RuntimeKeeps ==
  ASSUME FileIInv, RuntimeMoves
  PROVE  WriterKept'
<1> USE DEF Reading
<1>1. WriterInv /\ ChainInv /\ OkIsWhole
  BY DEF FileIInv
<1>2. /\ UNCHANGED <<up, body, pipe>> /\ rt.pc \in {"open", "eof"}
      /\ up.op = "upload" /\ up.pc = "archive"
  BY <1>1, WriterTypes DEF RuntimeMoves, RuntimeTakes, RuntimeApplies, RuntimeEnds,
     WriterInv, ChainInv, RuntimeEnded, Fresh, UpType
<1>3. CASE RuntimeTakes
  <2>1. CASE /\ san.pc = "put" /\ rt' = [rt EXCEPT !.queue = Append(@, san.entry)]
             /\ san' = [san EXCEPT !.pc = "next", !.entry = None]
    <3>1. san.entry \in Entry /\ rt.pc = "open"
      BY <1>1, <1>3, <2>1 DEF ChainInv, RuntimeTakes
    <3>2. /\ Append(rt.queue, san.entry) \in Seq(Entry)
          /\ Len(Append(rt.queue, san.entry)) = Len(rt.queue) + 1
      BY <3>1, WriterTypes, AppendProperties
    <3>3. /\ rt' \in RtType /\ Len(rt'.queue) = Len(rt.queue) + 1 /\ rt'.pc = "open"
          /\ rt'.applied = rt.applied
          /\ san' \in SanType /\ san'.pc = "next"
      BY <2>1, <3>1, <3>2, WriterTypes DEF RtType, SanType
    <3>4. WriterInv' /\ OkIsWhole'
      BY <1>1, <1>2, <3>1, <3>3 DEF WriterInv, OkIsWhole, RuntimeEnded
    <3>5. /\ HandedOn = rt.applied + Len(rt.queue) + 1
          /\ HandedOn' = rt.applied + (Len(rt.queue) + 1) + 0
      BY <2>1, <3>3 DEF HandedOn
    <3>6. HandedOn <= body.sent /\ HandedOn = body.sent
      BY <1>1, <2>1, <3>1 DEF ChainInv
    <3>7. /\ rt.applied \in Nat /\ Len(rt.queue) \in Nat /\ MaxEntries \in Nat
          /\ body.sent \in Nat /\ body.sent <= MaxEntries
      BY WriterTypes
    <3>8. HandedOn' = body.sent /\ Len(rt'.queue) <= MaxEntries
      BY <3>3, <3>5, <3>6, <3>7
    <3>9. /\ HandedOn' <= body'.sent /\ HandedOn' = body'.sent
          /\ UNCHANGED <<up, body, pipe>> /\ up.pc = "archive" /\ body.client = "sending"
      BY <1>1, <1>2, <2>1, <3>7, <3>8 DEF ChainInv
    <3>10. pipe # "closed"
      BY <1>1, <3>1 DEF ChainInv, RuntimeEnded
    <3>11. ChainInv'
      BY <3>3, <3>9, <3>10 DEF ChainInv
    <3> QED BY <1>2, <3>3, <3>4, <3>8, <3>11, WriterTypes DEF WriterKept
  <2>2. CASE san.pc = "trailer" /\ rt' = [rt EXCEPT !.pc = "eof"] /\ Stops("none")
    <3>1. /\ rt' \in RtType /\ rt'.queue = rt.queue /\ rt'.pc = "eof" /\ rt.pc = "open"
          /\ rt'.applied = rt.applied
          /\ san' \in SanType /\ san'.pc = "done" /\ san'.err = "none"
      BY <1>3, <2>2, WriterTypes DEF RuntimeTakes, RtType, SanType, Stops
    <3>2. WriterInv' /\ OkIsWhole'
      BY <1>1, <1>2, <3>1 DEF WriterInv, OkIsWhole, RuntimeEnded
    <3>3. ChainInv'
      BY <1>1, <1>2, <2>2, <3>1, WriterTypes DEF ChainInv, HandedOn, RuntimeEnded
    <3> QED BY <1>2, <3>1, <3>2, <3>3, WriterTypes DEF WriterKept
  <2> QED BY <1>3, <2>1, <2>2 DEF RuntimeTakes
<1>4. CASE RuntimeApplies
  <2>1. /\ rt.queue # <<>> /\ UNCHANGED san
        /\ \/ rt' = [rt EXCEPT !.queue = Tail(@), !.applied = @ + 1]
           \/ rt' = [rt EXCEPT !.pc = "conflict", !.queue = <<>>]
    BY <1>4 DEF RuntimeApplies
  <2>2. /\ Tail(rt.queue) \in Seq(Entry) /\ Len(Tail(rt.queue)) = Len(rt.queue) - 1
        /\ Len(rt.queue) >= 1
    BY <2>1, WriterTypes, HeadTailProperties, EmptySeq
  <2>3. CASE rt' = [rt EXCEPT !.queue = Tail(@), !.applied = @ + 1]
    <3>1. rt.applied + 1 \in 0 .. MaxEntries
      BY <1>1, <2>2, WriterTypes DEF ChainInv, HandedOn
    <3>2. /\ rt' \in RtType /\ Len(rt'.queue) = Len(rt.queue) - 1 /\ rt'.pc = rt.pc
          /\ rt'.applied = rt.applied + 1
      BY <2>2, <2>3, <3>1, WriterTypes DEF RtType
    <3>3. WriterInv' /\ OkIsWhole'
      BY <1>1, <1>2, <2>1, <3>2 DEF WriterInv, OkIsWhole, RuntimeEnded
    <3>4. ChainInv'
      BY <1>1, <1>2, <2>1, <2>2, <3>2, WriterTypes DEF ChainInv, HandedOn, RuntimeEnded
    <3> QED BY <1>2, <2>1, <2>2, <3>2, <3>3, <3>4, WriterTypes DEF WriterKept
  <2>4. CASE rt' = [rt EXCEPT !.pc = "conflict", !.queue = <<>>]
    <3>1. /\ rt' \in RtType /\ rt'.queue = <<>> /\ rt'.pc = "conflict"
          /\ rt'.applied = rt.applied /\ Len(rt'.queue) = 0
      BY <2>4, WriterTypes, EmptySeq DEF RtType
    <3>2. WriterInv' /\ OkIsWhole'
      BY <1>1, <1>2, <2>1, <3>1 DEF WriterInv, OkIsWhole, RuntimeEnded
    <3>3. ChainInv'
      BY <1>1, <1>2, <2>1, <3>1, WriterTypes DEF ChainInv, HandedOn, RuntimeEnded
    <3> QED BY <1>2, <2>1, <3>1, <3>2, <3>3, WriterTypes DEF WriterKept
  <2> QED BY <2>1, <2>3, <2>4
<1>5. CASE RuntimeEnds
  <2>1. UNCHANGED san
    BY <1>5 DEF RuntimeEnds
  <2>2. CASE rt.pc = "eof" /\ rt.queue = <<>> /\ rt' = [rt EXCEPT !.pc = "ok"]
    <3>1. /\ rt' \in RtType /\ rt'.queue = rt.queue /\ rt'.pc = "ok" /\ rt'.applied = rt.applied
      BY <2>2, WriterTypes DEF RtType
    <3>2. WriterInv' /\ OkIsWhole'
      BY <1>1, <1>2, <2>1, <3>1 DEF WriterInv, OkIsWhole, RuntimeEnded
    <3>3. ChainInv'
      BY <1>1, <1>2, <2>1, <2>2, <3>1, WriterTypes DEF ChainInv, HandedOn, RuntimeEnded
    <3> QED BY <1>2, <2>1, <3>1, <3>2, <3>3, WriterTypes DEF WriterKept
  <2>3. CASE rt' = [rt EXCEPT !.pc = "runtime", !.queue = <<>>]
    <3>1. /\ rt' \in RtType /\ rt'.queue = <<>> /\ rt'.pc = "runtime"
          /\ rt'.applied = rt.applied /\ Len(rt'.queue) = 0
      BY <2>3, WriterTypes, EmptySeq DEF RtType
    <3>2. WriterInv' /\ OkIsWhole'
      BY <1>1, <1>2, <2>1, <3>1 DEF WriterInv, OkIsWhole, RuntimeEnded
    <3>3. ChainInv'
      BY <1>1, <1>2, <2>1, <3>1, WriterTypes DEF ChainInv, HandedOn, RuntimeEnded
    <3> QED BY <1>2, <2>1, <3>1, <3>2, <3>3, WriterTypes DEF WriterKept
  <2> QED BY <1>5, <2>2, <2>3 DEF RuntimeEnds
<1> QED BY <1>3, <1>4, <1>5 DEF RuntimeMoves

LEMMA RequestKeeps ==
  ASSUME FileIInv, RequestMoves \/ WriteFails
  PROVE  WriterKept'
<1> USE DEF Reading
<1>1. WriterInv /\ ChainInv /\ OkIsWhole
  BY DEF FileIInv
<1>2. ASSUME NEW a \in {"ok", "refused", "unsafe", "too large", "broken", "closed pipe",
                        "conflict", "runtime"}, Answer(a)
      PROVE  up' \in UpType /\ up'.pc = "done" /\ up'.answer = a /\ up'.op = up.op
  BY <1>2, WriterTypes DEF Answer, UpType
<1>3. ASSUME up.op = "write", up.pc \in {"target", "archive"}, UNCHANGED <<body, san, pipe>>,
             NEW a \in {"refused", "conflict", "runtime"}, Answer(a), UNCHANGED rt
      PROVE  WriterKept'
  <2>1. rt.applied # body.sent
    BY <1>1, <1>3 DEF WriterInv
  <2>2. WriterInv' /\ OkIsWhole'
    BY <1>1, <1>2, <1>3, <2>1 DEF WriterInv, OkIsWhole
  <2>3. ChainInv'
    BY <1>1, <1>2, <1>3 DEF ChainInv, HandedOn, RuntimeEnded
  <2> QED BY <1>2, <1>3, <2>2, <2>3, WriterTypes DEF WriterKept
<1>4. CASE StatTarget
  <2>1. UNCHANGED <<body, san, pipe, rt>> /\ up.pc = "target" /\ up.op = "write"
    BY <1>1, <1>4 DEF StatTarget, WriterInv
  <2>2. CASE up' = [up EXCEPT !.pc = "archive"]
    <3>1. up' \in UpType /\ up'.pc = "archive" /\ up'.op = "write"
      BY <2>1, <2>2, WriterTypes DEF UpType
    <3>2. WriterInv' /\ OkIsWhole'
      BY <1>1, <2>1, <3>1 DEF WriterInv, OkIsWhole
    <3>3. ChainInv'
      BY <1>1, <2>1, <3>1 DEF ChainInv, HandedOn, RuntimeEnded
    <3> QED BY <2>1, <3>1, <3>2, <3>3, WriterTypes DEF WriterKept
  <2> QED BY <1>3, <1>4, <2>1, <2>2 DEF StatTarget
<1>5. CASE WriteFile
  <2>1. UNCHANGED <<body, san, pipe>> /\ up.pc = "archive" /\ up.op = "write"
    BY <1>5 DEF WriteFile
  <2>2. ASSUME NEW a \in {"ok", "runtime"}, Answer(a), rt' = [rt EXCEPT !.applied = 1]
        PROVE  WriterKept'
    <3>1. /\ rt' \in RtType /\ rt'.applied = 1 /\ rt'.pc = rt.pc /\ rt'.queue = rt.queue
      <4>1. 1 \in 0 .. MaxEntries
        BY WriterTypes
      <4> QED BY <2>2, <4>1, WriterTypes DEF RtType
    <3>2. rt'.applied = body'.sent /\ body'.client = "ended" /\ body.sent = 1
      BY <1>1, <2>1, <3>1 DEF WriterInv
    <3>3. WriterInv' /\ OkIsWhole'
      BY <1>1, <1>2, <2>1, <2>2, <3>1, <3>2 DEF WriterInv, OkIsWhole
    <3>4. HandedOn' <= body'.sent
      <4>1. san'.pc = "off" /\ rt.pc = "off" /\ rt'.queue = <<>>
        BY <1>1, <2>1, <3>1 DEF WriterInv, ChainInv
      <4>2. HandedOn' = 1
        BY <3>1, <4>1, EmptySeq DEF HandedOn
      <4>3. 1 <= body'.sent
        BY <2>1, <3>2
      <4> QED BY <4>2, <4>3
    <3>5. ChainInv'
      BY <1>1, <1>2, <2>1, <2>2, <3>1, <3>4 DEF ChainInv, WriterInv, RuntimeEnded
    <3> QED BY <1>2, <2>1, <2>2, <3>1, <3>3, <3>5, WriterTypes DEF WriterKept
  <2> QED BY <1>3, <1>5, <2>1, <2>2 DEF WriteFile
<1>6. CASE StatDestination
  <2>1. /\ up.pc = "stat" /\ up.op = "upload" /\ Fresh /\ UNCHANGED <<body, pipe>>
    BY <1>1, <1>6 DEF StatDestination, WriterInv
  <2>2. body.client = "sending" /\ rt.applied = body.sent /\ Len(rt.queue) = 0
    BY <2>1, EmptySeq DEF Fresh
  <2>3. CASE /\ up' = [up EXCEPT !.pc = "archive"] /\ san' = [san EXCEPT !.pc = "next"]
             /\ rt' = [rt EXCEPT !.pc = "open"]
    <3>1. /\ up' \in UpType /\ up'.pc = "archive" /\ up'.op = "upload"
          /\ san' \in SanType /\ san'.pc = "next"
          /\ rt' \in RtType /\ rt'.pc = "open" /\ rt'.queue = rt.queue /\ rt'.applied = rt.applied
      BY <2>1, <2>3, WriterTypes DEF UpType, SanType, RtType
    <3>2. HandedOn' = body.sent /\ HandedOn' <= body.sent
      BY <2>2, <3>1, WriterTypes DEF HandedOn
    <3>3. WriterInv' /\ OkIsWhole'
      BY <3>1 DEF WriterInv, OkIsWhole
    <3>4. ChainInv'
      BY <1>1, <2>1, <2>2, <3>1, <3>2 DEF ChainInv, RuntimeEnded, Fresh
    <3> QED BY <2>1, <3>1, <3>3, <3>4, WriterTypes DEF WriterKept
  <2>4. CASE Answer("refused") /\ UNCHANGED <<san, rt>>
    <3>1. WriterInv' /\ OkIsWhole'
      BY <1>2, <2>1, <2>2, <2>4 DEF WriterInv, OkIsWhole, Fresh
    <3>2. ChainInv'
      BY <1>1, <1>2, <2>1, <2>4 DEF ChainInv, HandedOn, RuntimeEnded
    <3> QED BY <1>2, <2>1, <2>4, <3>1, <3>2, WriterTypes DEF WriterKept
  <2> QED BY <1>6, <2>3, <2>4 DEF StatDestination
<1>7. CASE WriteReturns
  <2>1. /\ up.op = "upload" /\ up.pc = "archive" /\ RuntimeEnded /\ pipe' = "closed"
        /\ UNCHANGED <<body, san, rt>>
        /\ up' \in UpType /\ up'.op = "upload" /\ up'.pc = "wait"
    BY <1>7, WriterTypes DEF WriteReturns, UpType
  <2>2. WriterInv' /\ OkIsWhole'
    BY <1>1, <2>1 DEF WriterInv, OkIsWhole, RuntimeEnded
  <2>3. ChainInv'
    BY <1>1, <2>1 DEF ChainInv, HandedOn, RuntimeEnded
  <2> QED BY <2>1, <2>2, <2>3, WriterTypes DEF WriterKept
<1>8. CASE UploadReturns
  <2>1. /\ up.op = "upload" /\ up.pc = "wait" /\ san.pc = "done" /\ RuntimeEnded
        /\ UNCHANGED <<body, san, pipe, rt>>
    BY <1>1, <1>8 DEF UploadReturns, ChainInv
  <2> DEFINE a == IF san.err # "none" THEN san.err ELSE rt.pc
  <2>2. /\ a \in {"ok", "unsafe", "too large", "broken", "closed pipe", "conflict", "runtime"}
        /\ a = "ok" <=> rt.pc = "ok"
    BY <1>1, <2>1, WriterTypes DEF RuntimeEnded, SanType, ChainInv
  <2>3. /\ up' \in UpType /\ up'.pc = "done" /\ up'.op = "upload"
        /\ up'.answer = "ok" <=> rt.pc = "ok"
    BY <1>2, <1>8, <2>1, <2>2 DEF UploadReturns
  <2>4. rt.pc = "ok" => body.client = "ended" /\ rt.applied = body.sent
    <3>1. rt.pc = "ok" => HandedOn = body.sent /\ body.client = "ended" /\ rt.queue = <<>>
      BY <1>1 DEF ChainInv
    <3>2. rt.queue = <<>> => HandedOn = rt.applied
      BY <2>1, WriterTypes, EmptySeq DEF HandedOn
    <3> QED BY <3>1, <3>2
  <2>5. WriterInv' /\ OkIsWhole'
    BY <2>1, <2>3, <2>4 DEF WriterInv, OkIsWhole, RuntimeEnded
  <2>6. ChainInv'
    BY <1>1, <2>1 DEF ChainInv, HandedOn, RuntimeEnded
  <2> QED BY <2>1, <2>3, <2>5, <2>6, WriterTypes DEF WriterKept
<1>9. CASE WriteFails
  <2>1. /\ UNCHANGED <<up, body, pipe, rt>> /\ san.pc \in {"put", "trailer"} /\ RuntimeEnded
        /\ san' \in SanType /\ san'.pc = "done" /\ rt.pc # "ok"
    BY <1>1, <1>9, WriterTypes DEF WriteFails, ChainInv, SanType, RuntimeEnded
  <2>2. WriterInv' /\ OkIsWhole'
    BY <1>1, <2>1 DEF WriterInv, OkIsWhole, RuntimeEnded
  <2>3. HandedOn' <= body'.sent
    <3>1. PICK applied, queued : applied = rt.applied /\ queued = Len(rt.queue)
      OBVIOUS
    <3>2. applied \in Nat /\ queued \in Nat /\ body.sent \in Nat
      BY <3>1, WriterTypes
    <3>3. HandedOn' = applied + queued
      BY <2>1, <3>1, <3>2 DEF HandedOn
    <3>4. HandedOn = applied + queued + (IF san.pc = "put" THEN 1 ELSE 0)
      BY <3>1 DEF HandedOn
    <3>5. HandedOn <= body.sent
      BY <1>1 DEF ChainInv
    <3> QED BY <2>1, <3>2, <3>3, <3>4, <3>5
  <2>4. ChainInv'
    BY <1>1, <2>1, <2>3 DEF ChainInv, RuntimeEnded
  <2> QED BY <2>1, <2>2, <2>4, WriterTypes DEF WriterKept
<1> QED BY <1>4, <1>5, <1>6, <1>7, <1>8, <1>9 DEF RequestMoves

-------------------------------------------------------------------------------
(* Reading                                                                   *)

LEMMA ReaderTypes ==
  FileIInv => /\ rd \in RdType /\ stayed \subseteq Names
              /\ disk \in [Names -> Content \cup {Absent}]
              /\ ReaderInv /\ ReadIsAVersion /\ WalkIsComplete
  BY DEF FileIInv, FileTypeOK

\* What a reading request keeps.
ReaderKept ==
  rd \in RdType /\ stayed \subseteq Names /\ ReaderInv /\ ReadIsAVersion /\ WalkIsComplete

\* Others may only take names away from those that stayed.
LEMMA ReaderStays ==
  ASSUME FileIInv, UNCHANGED rd, stayed' \subseteq stayed,
         \A name \in stayed' : disk'[name] # Absent
  PROVE  ReaderKept'
  BY ReaderTypes DEF ReaderKept, ReaderInv, ReadIsAVersion, WalkIsComplete

\* A file that is written while it is being copied.
LEMMA ReaderRewritten ==
  ASSUME FileIInv, NEW name \in Names, Copied(name), rd' = [rd EXCEPT !.rewritten = TRUE],
         stayed' \subseteq stayed, \A n \in stayed' : disk'[n] # Absent
  PROVE  ReaderKept'
<1>1. /\ rd' \in RdType /\ rd'.rewritten /\ rd'.pc = rd.pc /\ rd'.op = rd.op
      /\ rd'.name = rd.name /\ rd'.content = rd.content /\ rd'.scanned = rd.scanned
      /\ rd'.size = rd.size /\ rd'.intact = rd.intact /\ rd'.answer = rd.answer
  BY ReaderTypes DEF RdType
<1>2. rd.pc = "copy" /\ rd.op = "read" /\ rd.answer = "none"
  BY ReaderTypes DEF Copied, ReaderInv
<1> QED BY <1>1, <1>2, ReaderTypes DEF ReaderKept, ReaderInv, ReadIsAVersion, WalkIsComplete

LEMMA ReadsKeep ==
  ASSUME FileIInv, Reads
  PROVE  ReaderKept'
<1> USE DEF Writing
<1>1. /\ rd \in RdType /\ stayed \subseteq Names
      /\ disk \in [Names -> Content \cup {Absent}]
      /\ ReaderInv /\ ReadIsAVersion /\ WalkIsComplete
  BY ReaderTypes
<1>2. NoRead \in RdType
  BY FileAssumption DEF NoRead, RdType
<1>3. CASE \E name \in Names : StartRead(name)
  <2>1. PICK name \in Names : StartRead(name)
    BY <1>3
  <2>2. disk[name] \in Sizes => disk[name] \in Sizes \cup {0}
    OBVIOUS
  <2>3. /\ rd' \in RdType /\ rd'.op = "read" /\ rd'.name = name /\ UNCHANGED <<disk, stayed>>
        /\ rd'.scanned = 0 /\ rd'.intact = 0 /\ ~rd'.rewritten
        /\ \/ rd'.pc = "open" /\ rd'.answer = "none"
           \/ rd'.pc = "done" /\ rd'.answer = "error"
    <3>1. /\ NoRead.op = "read" /\ NoRead.scanned = 0 /\ NoRead.intact = 0 /\ ~NoRead.rewritten
          /\ UNCHANGED <<disk, stayed>>
      BY <2>1 DEF NoRead, StartRead
    <3>2. PICK pc \in {"open", "done"}, size \in Sizes \cup {0}, answer \in {"none", "error"} :
            /\ rd' = [NoRead EXCEPT !.name = name, !.pc = pc, !.size = size, !.answer = answer]
            /\ (pc = "open" /\ answer = "none") \/ (pc = "done" /\ answer = "error")
      <4>1. CASE Regular(name)
        <5>1. rd' = [NoRead EXCEPT !.name = name, !.pc = "open", !.size = disk[name],
                                  !.answer = "none"]
          BY <2>1, <4>1 DEF StartRead
        <5> QED BY <2>2, <4>1, <5>1 DEF Regular
      <4>2. CASE ~Regular(name)
        <5>1. rd' = [NoRead EXCEPT !.name = name, !.pc = "done", !.size = 0,
                                  !.answer = "error"]
          BY <2>1, <4>2 DEF StartRead
        <5> QED BY <5>1
      <4> QED BY <4>1, <4>2
    <3> QED BY <1>2, <3>1, <3>2 DEF RdType
  <2> QED BY <1>1, <2>3 DEF ReaderKept, ReaderInv, ReadIsAVersion, WalkIsComplete
<1>4. CASE \E op \in {"download", "list"} : StartWalk(op)
  <2>1. PICK op \in {"download", "list"} : StartWalk(op)
    BY <1>4
  <2>2. /\ rd' \in RdType /\ rd'.op = op /\ rd'.pc = "walk" /\ rd'.todo = Names
        /\ rd'.answer = "none" /\ UNCHANGED disk
        /\ stayed' = {name \in Names : disk[name] # Absent}
    BY <1>2, <2>1 DEF StartWalk, NoRead, RdType
  <2> QED BY <1>1, <2>2 DEF ReaderKept, ReaderInv, ReadIsAVersion, WalkIsComplete
<1>5. CASE OpenFile
  <2>1. /\ rd.op = "read" /\ rd.pc = "open" /\ rd.name \in Names /\ UNCHANGED <<disk, stayed>>
        /\ rd.scanned = 0 /\ rd.intact = 0 /\ ~rd.rewritten
    BY <1>1, <1>5 DEF OpenFile, ReaderInv
  <2>2. /\ rd' \in RdType /\ rd'.op = "read" /\ rd'.name \in Names
        /\ rd'.scanned = 0 /\ rd'.intact = 0 /\ ~rd'.rewritten
        /\ \/ rd'.pc = "copy" /\ rd'.content \in Sizes /\ rd'.answer = "none"
           \/ rd'.pc = "done" /\ rd'.answer = "error"
    <3>1. CASE Regular(rd.name)
      <4>1. rd' = [rd EXCEPT !.pc = "copy", !.content = disk[rd.name]] /\ disk[rd.name] \in Sizes
        BY <1>5, <3>1 DEF OpenFile, Regular
      <4>2. rd.answer = "none"
        BY <1>1, <2>1 DEF ReaderInv
      <4> QED BY <1>1, <2>1, <4>1, <4>2 DEF RdType
    <3>2. CASE ~Regular(rd.name)
      <4>1. rd' = [rd EXCEPT !.pc = "done", !.answer = "error"]
        BY <1>5, <3>2 DEF OpenFile, Reply
      <4> QED BY <1>1, <2>1, <4>1 DEF RdType
    <3> QED BY <3>1, <3>2
  <2>3. rd'.pc = "copy" => /\ rd'.scanned <= rd'.content /\ rd'.scanned <= rd'.size
                           /\ rd'.intact <= rd'.scanned
    <3>1. rd'.size \in Nat /\ (rd'.pc = "copy" => rd'.content \in Nat)
      BY <2>2, BytesType DEF RdType
    <3> QED BY <2>2, <3>1
  <2> QED BY <1>1, <2>1, <2>2, <2>3 DEF ReaderKept, ReaderInv, ReadIsAVersion, WalkIsComplete
<1>6. ASSUME rd.op = "read", rd.pc = "copy"
      PROVE  /\ rd.name \in Names /\ rd.content \in Sizes /\ rd.answer = "none"
             /\ rd.content \in Nat /\ rd.size \in Nat /\ rd.scanned \in Nat /\ rd.intact \in Nat
             /\ rd.scanned <= rd.content /\ rd.scanned <= rd.size /\ rd.intact <= rd.scanned
             /\ ~rd.rewritten => rd.intact = rd.scanned
  BY <1>1, <1>6, BytesType DEF ReaderInv, RdType
<1>10. ASSUME rd.op = "read", rd.pc = "copy", Received, UNCHANGED <<disk, stayed>>
       PROVE  ReaderKept'
  <2>1. /\ rd' \in RdType /\ rd'.op = "read" /\ rd'.pc = "done" /\ rd'.scanned = rd.scanned
        /\ rd'.size = rd.size /\ rd'.content = rd.content /\ rd'.intact = rd.intact
        /\ rd'.rewritten = rd.rewritten
        /\ rd'.answer = "ok" => rd.scanned = rd.size
    BY <1>1, <1>10 DEF Received, Reply, RdType
  <2>2. rd.scanned = rd.size =>
          \/ rd.intact = rd.content
          \/ rd.size < rd.content /\ rd.intact = rd.size
          \/ rd.rewritten /\ rd.intact < rd.scanned
    BY <1>6, <1>10
  <2>3. ReadIsAVersion'
    BY <2>1, <2>2 DEF ReadIsAVersion
  <2> QED BY <1>1, <1>10, <2>1, <2>3 DEF ReaderKept, ReaderInv, WalkIsComplete
<1>11. ASSUME NEW n \in Sizes, CopyMore(n)
       PROVE  ReaderKept'
  <2>1. rd.op = "read" /\ rd.pc = "copy" /\ UNCHANGED <<disk, stayed>> /\ n \in Nat
        /\ rd.scanned + n <= rd.content
    BY <1>11, BytesType DEF CopyMore
  <2>2. CASE rd.scanned + n > rd.size
    BY <1>10, <1>11, <2>1, <2>2 DEF CopyMore
  <2>3. CASE rd.scanned + n <= rd.size
    <3>1. PICK m \in Nat : /\ m = (IF rd.rewritten THEN rd.intact ELSE rd.intact + n)
                           /\ m <= rd.scanned + n
                           /\ ~rd.rewritten => m = rd.scanned + n
      BY <1>6, <2>1
    <3>2. rd' = [rd EXCEPT !.scanned = rd.scanned + n, !.intact = m]
      BY <1>6, <1>11, <2>1, <2>3, <3>1 DEF CopyMore
    <3>3. rd.scanned + n \in Nat
      BY <1>6, <2>1
    <3>4. /\ rd' \in RdType /\ rd'.op = "read" /\ rd'.pc = "copy" /\ rd'.name = rd.name
          /\ rd'.scanned = rd.scanned + n /\ rd'.intact = m /\ rd'.answer = rd.answer
          /\ rd'.size = rd.size /\ rd'.content = rd.content /\ rd'.rewritten = rd.rewritten
      BY <1>1, <2>1, <3>2, <3>3 DEF RdType
    <3>5. ReaderInv'
      BY <1>1, <1>6, <2>1, <2>3, <3>1, <3>4 DEF ReaderInv
    <3>6. ReadIsAVersion' /\ WalkIsComplete'
      BY <1>6, <2>1, <3>4 DEF ReadIsAVersion, WalkIsComplete
    <3> QED BY <1>1, <2>1, <3>4, <3>5, <3>6 DEF ReaderKept
  <2> QED BY <1>6, <2>1, <2>2, <2>3
<1>12. CASE CopyEnds
  BY <1>10, <1>12 DEF CopyEnds
<1>7. ASSUME NEW name \in Names, Visit(name)
      PROVE  ReaderKept'
  <2>1. /\ rd.pc = "walk" /\ rd.op \in {"download", "list"} /\ name \in rd.todo
        /\ rd.answer = "none" /\ UNCHANGED <<disk, stayed>>
    BY <1>1, <1>7 DEF Visit, ReaderInv
  <2>2. CASE Truncate
    <3>1. /\ rd' \in RdType /\ rd'.op = rd.op /\ rd'.pc = "done" /\ rd'.truncated
      BY <1>1, <2>2 DEF Truncate, RdType
    <3> QED BY <1>1, <2>1, <3>1 DEF ReaderKept, ReaderInv, ReadIsAVersion, WalkIsComplete
  <2>3. CASE Take(name)
    <3>1. disk[name] # Absent => disk[name] \in Content /\ Bytes(disk[name]) \in Nat
      BY <1>1, BytesType
    <3>2. /\ rd' \in RdType /\ rd'.op = rd.op /\ rd'.pc = "walk" /\ rd'.answer = "none"
      <4>1. disk[name] # Absent => rd.scanned + Bytes(disk[name]) \in Nat
        BY <1>1, <3>1 DEF RdType
      <4> QED BY <1>1, <2>1, <2>3, <4>1 DEF Take, RdType
    <3>3. /\ rd'.todo = rd.todo \ {name} /\ rd.got \subseteq rd'.got
          /\ disk[name] # Absent => name \in rd'.got
      BY <1>1, <2>3 DEF Take, RdType
    <3>4. stayed' \subseteq rd'.got \cup rd'.todo
      BY <1>1, <2>1, <3>3 DEF ReaderInv
    <3> QED BY <1>1, <2>1, <3>2, <3>4 DEF ReaderKept, ReaderInv, ReadIsAVersion, WalkIsComplete
  <2> QED BY <1>7, <2>2, <2>3 DEF Visit
<1>8. CASE WalkEnds
  <2>1. /\ rd.pc = "walk" /\ rd.op \in {"download", "list"} /\ rd.todo = {}
        /\ stayed \subseteq rd.got /\ UNCHANGED <<disk, stayed>>
    BY <1>1, <1>8 DEF WalkEnds, ReaderInv
  <2>2. rd' \in RdType /\ rd'.op = rd.op /\ rd'.pc = "done" /\ rd'.got = rd.got
    <3>1. CASE Truncate
      BY <1>1, <3>1 DEF Truncate, RdType
    <3>2. CASE Reply("ok")
      BY <1>1, <3>2 DEF Reply, RdType
    <3> QED BY <1>8, <3>1, <3>2 DEF WalkEnds
  <2> QED BY <1>1, <2>1, <2>2 DEF ReaderKept, ReaderInv, ReadIsAVersion, WalkIsComplete
<1>9. ASSUME NEW where \in {"between", "within"}, StreamBreaks(where)
      PROVE  ReaderKept'
  <2>1. /\ rd.pc = "walk" /\ rd.op \in {"download", "list"} /\ UNCHANGED <<disk, stayed>>
    BY <1>1, <1>9 DEF StreamBreaks, ReaderInv
  <2>2. /\ rd' \in RdType /\ rd'.op = rd.op /\ rd'.pc = "done" /\ rd'.cut = where
        /\ rd'.answer = "ok" => rd.op = "download" /\ where = "between"
    <3>1. PICK answer \in {"ok", "error"} :
            /\ answer = "ok" => rd.op = "download" /\ where = "between"
            /\ rd' = [rd EXCEPT !.pc = "done", !.cut = where, !.answer = answer]
      BY <1>9 DEF StreamBreaks
    <3> QED BY <1>1, <3>1 DEF RdType
  <2> QED BY <1>1, <2>1, <2>2 DEF ReaderKept, ReaderInv, ReadIsAVersion, WalkIsComplete
<1> QED BY <1>3, <1>4, <1>5, <1>7, <1>8, <1>9, <1>11, <1>12 DEF Reads, ReadMoves

-------------------------------------------------------------------------------
(* The theorems                                                              *)

LEMMA FileIInvParts ==
  FileIInv <=> /\ disk \in [Names -> Content \cup {Absent}] /\ changes \in 0 .. MaxChanges
               /\ WriterKept /\ ReaderKept /\ ApartInv
  BY DEF FileIInv, FileTypeOK, WriterKept, ReaderKept

LEMMA FileIInvInit == FileInit => FileIInv
<1> SUFFICES ASSUME FileInit PROVE FileIInv OBVIOUS
<1>1. /\ up \in UpType /\ up.pc = "idle" /\ up.op = "write"
  BY DEF FileInit, UpType
<1>2. /\ body \in BodyType /\ san \in SanType /\ rt \in RtType /\ Fresh
      /\ pipe = "open" /\ Len(rt.queue) = 0
  BY FileAssumption, EmptySeq DEF FileInit, BodyType, SanType, RtType, Fresh
<1>3. /\ HandedOn = 0 /\ body.sent = 0
  BY <1>2 DEF Fresh, HandedOn
<1>4. WriterInv /\ OkIsWhole
  BY <1>1, <1>2 DEF WriterInv, OkIsWhole, Fresh
<1>5. HandedOn <= body.sent
  BY <1>3
<1>6. ChainInv
  BY <1>1, <1>2, <1>5 DEF ChainInv, Fresh
<1>7. WriterKept
  BY <1>1, <1>2, <1>4, <1>6, FileAssumption DEF WriterKept, Fresh
<1>8. ReaderKept
  <2>1. rd \in RdType /\ rd.pc = "idle" /\ rd.answer = "none" /\ stayed = {}
    BY FileAssumption DEF FileInit, NoRead, RdType
  <2> QED BY <2>1 DEF ReaderKept, ReaderInv, ReadIsAVersion, WalkIsComplete
<1>9. ApartInv
  BY <1>1 DEF FileInit, ApartInv
<1> QED BY <1>7, <1>8, <1>9, FileIInvParts, FileAssumption DEF FileInit

LEMMA FileIInvStep == FileIInv /\ [FileNext]_vars => FileIInv'
<1> SUFFICES ASSUME FileIInv, [FileNext]_vars PROVE FileIInv' OBVIOUS
<1>1. /\ disk \in [Names -> Content \cup {Absent}] /\ changes \in 0 .. MaxChanges
      /\ WriterKept /\ ReaderKept /\ ReaderInv /\ stayed \subseteq Names /\ ApartInv
  BY FileIInvParts DEF ReaderKept
<1>0. ASSUME /\ disk' \in [Names -> Content \cup {Absent}] /\ changes' \in 0 .. MaxChanges
             /\ WriterKept' /\ ReaderKept' /\ ApartInv'
      PROVE  FileIInv'
  BY <1>0 DEF FileIInv, WriterKept, ReaderKept, FileTypeOK
<1>2. UNCHANGED writer => WriterKept'
  BY <1>1 DEF writer, WriterKept, WriterInv, ChainInv, OkIsWhole, HandedOn, Fresh, RuntimeEnded
<1>3. CASE Changes
  <2>1. PICK name \in Names, content \in Content \cup {Absent} : Change(name, content)
    BY <1>3 DEF Changes
  <2>2. /\ disk' = [disk EXCEPT ![name] = content] /\ changes' = changes + 1
        /\ changes < MaxChanges /\ UNCHANGED writer
        /\ UNCHANGED rd \/ (Copied(name) /\ rd' = [rd EXCEPT !.rewritten = TRUE])
        /\ stayed' = IF content = Absent THEN stayed \ {name} ELSE stayed
    BY <2>1 DEF Change, Put
  <2>3. \A n \in stayed' : disk'[n] # Absent
    BY <1>1, <2>2 DEF ReaderInv
  <2>4. ReaderKept'
    <3>1. stayed' \subseteq stayed
      BY <2>2
    <3> QED BY <2>2, <2>3, <3>1, ReaderStays, ReaderRewritten
  <2>5. changes' \in 0 .. MaxChanges /\ disk' \in [Names -> Content \cup {Absent}]
    BY <1>1, <2>2, FileAssumption
  <2>6. rd'.pc = rd.pc /\ up' = up
    BY <2>2, ReaderTypes DEF writer, RdType
  <2>7. ApartInv'
    BY <1>1, <2>2, <2>6 DEF ApartInv
  <2> QED BY <1>0, <1>2, <2>2, <2>4, <2>5, <2>7
<1>4. CASE Writes
  <2>1. WriterKept'
    BY <1>4, StartKeeps, ClientKeeps, RuntimeKeeps, RequestKeeps DEF Writes
  <2>2. ReaderKept'
    <3>1. stayed' = {} /\ stayed' \subseteq stayed
      BY <1>4, WritesDisk, WritesAlone
    <3> QED BY <1>4, <3>1, WritesDisk, ReaderStays
  <2>3. ApartInv'
    BY <1>4, WritesDisk, WritesAlone DEF ApartInv
  <2> QED BY <1>0, <1>1, <1>4, <2>1, <2>2, <2>3, WritesDisk
<1>5. CASE Reads
  <2>1. UNCHANGED <<disk, changes, writer>>
    BY <1>5 DEF Reads, ReadMoves, StartRead, StartWalk, OpenFile, CopyMore, CopyEnds,
       Visit, WalkEnds, StreamBreaks, Writing
  <2>2. ApartInv'
    <3>1. CASE \/ \E name \in Names : StartRead(name)
               \/ \E op \in {"download", "list"} : StartWalk(op)
      <4>1. up.pc = "idle" /\ rd'.pc # "idle"
        BY <3>1 DEF StartRead, StartWalk, Idle, NoRead
      <4> QED BY <2>1, <4>1 DEF ApartInv, writer
    <3>2. CASE ReadMoves
      <4>1. rd.pc # "idle" /\ rd'.pc # "idle"
        BY <3>2, ReaderTypes DEF ReadMoves, OpenFile, CopyMore, CopyEnds, Received, Reply, Visit,
           Truncate, Take, WalkEnds, StreamBreaks, RdType
      <4> QED BY <1>1, <2>1, <4>1 DEF ApartInv, writer
    <3> QED BY <1>5, <3>1, <3>2 DEF Reads
  <2> QED BY <1>0, <1>1, <1>2, <1>5, <2>1, <2>2, ReadsKeep
<1>6. CASE UNCHANGED vars
  <2>1. ReaderKept'
    BY <1>1, <1>6, ReaderStays DEF vars, ReaderInv
  <2>2. ApartInv'
    BY <1>1, <1>6 DEF ApartInv, vars, writer
  <2> QED BY <1>0, <1>1, <1>2, <1>6, <2>1, <2>2 DEF vars, writer
<1> QED BY <1>3, <1>4, <1>5, <1>6 DEF FileNext, Writes, Reads, Changes

LEMMA FileInvariant == FileSpec => []FileIInv
  BY FileIInvInit, FileIInvStep, PTL DEF FileSpec

\* Every variable keeps its type, for any length of an archive and any limits; nothing
\* is handed on beyond the limit of an archive, and never more than was sent.
THEOREM FileTyped == FileSpec => []FileTypeOK
<1>1. FileIInv => FileTypeOK
  BY DEF FileIInv
<1> QED BY <1>1, FileInvariant, PTL

\* A write or an upload says ok only when all of its body was sent and all of it was
\* applied (internal/files/archive.go:59-69): neither the goroutine's end nor the
\* runtime's can hide the other's failure.
THEOREM OkMeansWhole == FileSpec => []OkIsWhole
<1>1. FileIInv => OkIsWhole
  BY DEF FileIInv
<1> QED BY <1>1, FileInvariant, PTL

\* What is read without an error is the whole file as it was when it was opened, or, if it
\* had grown since StatPath, a prefix of it; or the file was written while it was being
\* copied (internal/files/service.go:94, internal/api/files.go:26).
THEOREM ReadsAreVersions == FileSpec => []ReadIsAVersion
<1>1. FileIInv => ReadIsAVersion
  BY DEF FileIInv
<1> QED BY <1>1, FileInvariant, PTL

\* A listing that is not marked as truncated, and a download that looks complete, have
\* every name that stayed, but for a stream broken between entries of a download
\* (internal/files/list.go:64, internal/api/files.go:84).
THEOREM WalksAreComplete == FileSpec => []WalkIsComplete
<1>1. FileIInv => WalkIsComplete
  BY DEF FileIInv
<1> QED BY <1>1, FileInvariant, PTL

===============================================================================
