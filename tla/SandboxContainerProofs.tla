------------------------ MODULE SandboxContainerProofs ------------------------
(***************************************************************************)
(* What the sandbox service does to containers, proved: the container a    *)
(* snapshot commits is there, and that of a destroyed sandbox is not; a    *)
(* row nobody works on tells the truth of its container, none is left      *)
(* behind while nothing fails, a sandbox that reads as running is not      *)
(* frozen, and a row names the snapshot its container was made from        *)
(* unless a Restore comes into a Fork.  All of it rests on ownership: no   *)
(* two sandboxes ever name the same container.                             *)
(***************************************************************************)
EXTENDS SandboxSafetyProofs

\* What a request knows of the container it has in hand.
Owned(w) ==
  LET r == req[w] IN
  /\ r.pc \notin {"idle", "lock", "read"} /\ r.rid \in Containers =>
       ctr[r.rid].owner = r.sb
  /\ r.pc = "mark" => r.rid = r.row.rid
  /\ r.pc \in {"rtCreate", "rtStart", "rtStop", "inspect"} => r.kind # "destroy"
  /\ r.pc \in {"commit", "unpause"} => Live(r.rid)
  /\ r.pc = "save" /\ r.kind = "destroy" => ~Live(r.rid)

RowsOwn == \A s \in Sandboxes :
  rows[s].rid \in Containers => ctr[rows[s].rid].owner = s

CInv ==
  /\ \A w \in Requests : Owned(w)
  /\ RowsOwn
  /\ DestroyedIsGone

\* A container that has an owner keeps it, and does not come back to life.
Tame == \A c \in Containers : ctr[c].owner # NoSandbox =>
  /\ ctr'[c].owner = ctr[c].owner
  /\ Live(c)' => Live(c)

\* No container comes to life, and those alive stay what they were made from.
Quiet == \A c \in Containers :
  Live(c)' => Live(c) /\ ctr'[c].image = ctr[c].image

\* A container that dies is removed by a request that has it in hand.
Removed(w) == \A c \in Containers : Live(c) /\ ~Live(c)' =>
  HoldsLock(w) /\ ~At(w, "read") /\ req[w].rid = c

LEMMA StatusTame ==
  ASSUME TypeOK, NEW c, NEW st, SetStatus(c, st),
         c \in Containers => Live(c) \/ st = "gone"
  PROVE  Tame /\ Quiet
  BY DEF TypeOK, SetStatus, Tame, Quiet, Live, Container

LEMMA StatusLives ==
  ASSUME TypeOK, NEW c, NEW st \in {"running", "paused", "stopped"}, SetStatus(c, st)
  PROVE  \A d \in Containers : Live(d) => Live(d)'
  BY DEF TypeOK, SetStatus, Live, Container

LEMMA SameTame ==
  ASSUME UNCHANGED ctr
  PROVE  Tame /\ Quiet /\ \A d \in Containers : Live(d) => Live(d)'
  BY DEF Tame, Quiet, Live

LEMMA HandleTame ==
  ASSUME IInv, CInv, NEW w \in Requests, Handle(w)
  PROVE  Tame /\ Removed(w) /\ (Quiet \/ \E c \in Containers : RtCreate(w, c))
<1>1. TypeOK /\ Owned(w)
  BY DEF IInv, CInv
<1>2. CASE UNCHANGED ctr
  BY <1>2, SameTame DEF Removed
<1>3. ASSUME NEW c \in Containers, RtCreate(w, c)
      PROVE  Tame /\ Removed(w)
  BY <1>1, <1>3 DEF RtCreate, TypeOK, Tame, Removed, Live, Unused
<1>4. ASSUME NEW st \in {"running", "paused", "stopped"}, SetStatus(req[w].rid, st),
             Live(req[w].rid)
      PROVE  Tame /\ Removed(w) /\ Quiet
  BY <1>1, <1>4, StatusTame, StatusLives DEF Removed
<1>5. CASE RtDestroy(w)
  <2>1. Tame /\ Quiet
    BY <1>1, <1>5, StatusTame DEF RtDestroy
  <2>2. Removed(w)
    BY <1>1, <1>5 DEF RtDestroy, SetStatus, Removed, TypeOK, At, HoldsLock, Live
  <2>. QED  BY <2>1, <2>2
<1>6. CASE RtStart(w) \/ RtStop(w)
  BY <1>4, <1>6 DEF RtStart, RtStop, Startable
<1>7. CASE SnapPause(w)
  BY <1>2, <1>4, <1>7 DEF SnapPause
<1>10. CASE SnapPauseUnheard(w)
  BY <1>4, <1>10 DEF SnapPauseUnheard
<1>8. CASE SnapUnpause(w)
  <2>1. Live(req[w].rid)
    BY <1>1, <1>8 DEF SnapUnpause, Owned, At
  <2>. QED  BY <1>2, <1>4, <1>8, <2>1 DEF SnapUnpause
<1>9. CASE ~(\/ \E c \in Containers : RtCreate(w, c)
             \/ RtDestroy(w) \/ RtStart(w) \/ RtStop(w) \/ SnapPause(w)
             \/ SnapPauseUnheard(w) \/ SnapUnpause(w))
  BY <1>2, <1>9 DEF Handle, Lock, Read, ReadRejects, InsertRow, InsertFails,
     MarkDestroying, Save, MarkError, ForkWrite, RtCreateFails, Inspect, RtFails,
     SnapPauseFails, SnapCommit, SnapCommitFails, SnapRecord, SnapRecordFails,
     SnapRollback, UseFiles
<1>. QED  BY <1>3, <1>5, <1>6, <1>7, <1>8, <1>9, <1>10

LEMMA WorldTame ==
  ASSUME IInv,
         \/ \E c \in Containers : ContainerExits(c)
         \/ Boot
  PROVE  Tame /\ Quiet /\ \A d \in Containers : Live(d) => Live(d)'
<1>1. TypeOK
  BY DEF IInv
<1>2. CASE UNCHANGED ctr
  BY <1>2, SameTame
<1>3. ASSUME NEW c, NEW st \in {"running", "stopped"}, SetStatus(c, st),
             c \in Containers => ctr[c].status \in {"running", "paused"}
      PROVE  Tame /\ Quiet /\ \A d \in Containers : Live(d) => Live(d)'
  BY <1>1, <1>3, StatusTame, StatusLives DEF Live
<1>4. CASE \E c \in Containers : ContainerExits(c)
  BY <1>3, <1>4 DEF ContainerExits
<1>5. CASE Boot
  BY <1>2, <1>3, <1>5 DEF Boot, BootList, BootUnpause, BootServe
<1>. QED  BY <1>4, <1>5

\* A request that does not move keeps what it knows of its container, unless
\* that container is removed.
LEMMA OthersOwned ==
  ASSUME IInv, CInv, Tame, NEW v \in Requests, req'[v] = req[v],
         HoldsLock(v) /\ ~At(v, "read") /\ Live(req[v].rid) => Live(req[v].rid)'
  PROVE  Owned(v)'
<1>1. Owned(v) /\ (HoldsLock(v) => req[v].sb # NoSandbox)
  BY NullsAssumption DEF CInv, IInv, TypeOK, HoldsLock
<1>2. req[v].rid \notin Containers => ~Live(req[v].rid) /\ ~Live(req[v].rid)'
  BY DEF Live
<1>3. ASSUME HoldsLock(v), ~At(v, "read"), req[v].rid \in Containers
      PROVE  ctr[req[v].rid].owner = req[v].sb /\ ctr'[req[v].rid].owner = req[v].sb
               /\ (Live(req[v].rid)' => Live(req[v].rid))
  BY <1>1, <1>3 DEF Owned, Tame, HoldsLock, At
<1>4. req[v].pc \in {"commit", "unpause"} => Live(req[v].rid)'
  BY <1>1, <1>2, <1>3 DEF Owned, HoldsLock, At
<1>5. req[v].pc = "save" /\ req[v].kind = "destroy" => ~Live(req[v].rid)'
  BY <1>1, <1>2, <1>3 DEF Owned, HoldsLock, At
<1>. QED  BY <1>1, <1>3, <1>4, <1>5 DEF Owned, HoldsLock, At

\* A row that is not rewritten stays true of its container.
LEMMA RowKept ==
  ASSUME IInv, CInv, Tame, NEW s \in Sandboxes, rows'[s] = rows[s]
  PROVE  /\ rows'[s].rid \in Containers => ctr'[rows'[s].rid].owner = s
         /\ rows'[s].state = "destroyed" => ~Live(rows[s].rid)'
<1>1. s # NoSandbox
  BY NullsAssumption
<1>2. ASSUME rows[s].rid \in Containers
      PROVE  ctr[rows[s].rid].owner = s /\ ctr'[rows[s].rid].owner = s
               /\ (Live(rows[s].rid)' => Live(rows[s].rid))
  BY <1>1, <1>2 DEF CInv, RowsOwn, Tame, Live
<1>3. rows[s].rid \notin Containers => ~Live(rows[s].rid)'
  BY DEF Live
<1>4. rows[s].state = "destroyed" => ~Live(rows[s].rid)
  BY DEF CInv, DestroyedIsGone
<1>. QED  BY <1>2, <1>3, <1>4

\* Going on to another step with the same container in hand.
LEMMA GotoOwned ==
  ASSUME IInv, CInv, Tame, NEW w \in Requests, HoldsLock(w), ~At(w, "read"),
         NEW pc, Goto(w, pc), pc # "mark",
         pc \in {"rtCreate", "rtStart", "rtStop", "inspect"} => req[w].kind # "destroy",
         pc \in {"commit", "unpause"} => Live(req[w].rid)',
         pc = "save" /\ req[w].kind = "destroy" => ~Live(req[w].rid)'
  PROVE  Owned(w)'
<1>1. req[w] \in Request /\ req'[w] = [req[w] EXCEPT !.pc = pc]
  BY DEF IInv, TypeOK, Goto
<1>2. req'[w].pc = pc /\ req'[w].rid = req[w].rid /\ req'[w].sb = req[w].sb
        /\ req'[w].kind = req[w].kind
  BY <1>1 DEF Request
<1>3. req[w].rid \in Containers => ctr'[req[w].rid].owner = req[w].sb
  BY NullsAssumption DEF CInv, Owned, Tame, IInv, TypeOK, HoldsLock, At
<1>. QED  BY <1>2, <1>3 DEF Owned, Live

LEMMA ReturnOwned ==
  ASSUME IInv, NEW w \in Requests, Return(w)
  PROVE  Owned(w)'
BY DEF IInv, TypeOK, Return, Owned, Idle

LEMMA ActorOwned ==
  ASSUME IInv, CInv, Tame, NEW w \in Requests, Handle(w)
  PROVE  Owned(w)'
<1>. DEFINE r == req[w]
            s == r.sb
<1>1. r \in Request /\ req \in [Requests -> Request] /\ Owned(w) /\ TypeOK
  BY DEF IInv, TypeOK, CInv
<1>2. CASE Return(w)
  BY <1>2, ReturnOwned
<1>3. CASE Lock(w)
  <2>1. req'[w].pc = "read"
    BY <1>1, <1>3 DEF Lock, Goto
  <2>. QED  BY <2>1 DEF Owned
<1>4. CASE Read(w)
  <2>. DEFINE n == [r EXCEPT !.row = rows[s], !.rid = rows[s].rid,
                             !.pc = FirstStep(r.kind, rows[s])]
  <2>1. req'[w] = n /\ UNCHANGED ctr /\ s \in Sandboxes
    BY <1>1, <1>4 DEF Read, At, TypeOK
  <2>2. n.rid = rows[s].rid /\ n.row = rows[s] /\ n.sb = s /\ n.kind = r.kind
          /\ n.pc = FirstStep(r.kind, rows[s])
    BY <1>1 DEF Request
  <2>3. /\ n.pc \notin {"commit", "unpause", "save", "inspect"}
        /\ n.pc \in {"rtCreate", "rtStart", "rtStop"} => n.kind # "destroy"
    BY <2>2 DEF FirstStep
  <2>. QED  BY <2>1, <2>2, <2>3 DEF Owned, CInv, RowsOwn
<1>5. CASE InsertRow(w)
  <2>. DEFINE n == [r EXCEPT !.row = NewRow, !.pc = "rtCreate"]
  <2>1. req'[w] = n /\ UNCHANGED ctr /\ r.pc = "insert" /\ r.kind \in {"create", "fork"}
    BY <1>1, <1>5 DEF InsertRow, At, IInv, RequestInv
  <2>2. n.rid = r.rid /\ n.sb = s /\ n.kind = r.kind /\ n.pc = "rtCreate"
    BY <1>1 DEF Request
  <2>. QED  BY <1>1, <2>1, <2>2 DEF Owned
<1>6. CASE MarkDestroying(w) /\ ~r.dead
  <2>. DEFINE row == [r.row EXCEPT !.state = "destroying"]
              n == [r EXCEPT !.row = row,
                 !.pc = IF row.rid = NoContainer THEN "save" ELSE "rtDestroy"]
  <2>1. req'[w] = n /\ UNCHANGED ctr /\ r.pc = "mark" /\ r.rid = r.row.rid
    BY <1>1, <1>6 DEF MarkDestroying, At, Owned
  <2>2. row.rid = r.row.rid
    BY <1>1 DEF Request, Row
  <2>3. n.rid = r.rid /\ n.sb = s /\ n.kind = r.kind
          /\ n.pc = (IF row.rid = NoContainer THEN "save" ELSE "rtDestroy")
    BY <1>1 DEF Request
  <2>4. n.pc = "save" => ~Live(n.rid)'
    BY <2>1, <2>2, <2>3, NullsAssumption DEF Live
  <2>. QED  BY <1>1, <2>1, <2>3, <2>4 DEF Owned, Live
<1>7. CASE Save(w)
  <2>1. CASE ~Return(w)
    <3>. DEFINE n == [r EXCEPT !.row = Outcome(r), !.pc = "lock"]
    <3>1. req'[w] = n
      BY <1>1, <1>7, <2>1 DEF Save
    <3>2. n.pc = "lock"
      BY <1>1 DEF Request
    <3>. QED  BY <3>1, <3>2 DEF Owned
  <2>. QED  BY <1>2, <2>1
<1>8. CASE \E c \in Containers : RtCreate(w, c)
  <2>1. PICK c \in Containers : RtCreate(w, c)
    BY <1>8
  <2>2. r.kind # "destroy" /\ HoldsLock(w) /\ ~At(w, "read")
    BY <1>1, <2>1 DEF RtCreate, Owned, At, HoldsLock
  <2>3. CASE req' = [req EXCEPT ![w].rid = c, ![w].pc = "rtStart"]
    <3>. DEFINE n == [r EXCEPT !.rid = c, !.pc = "rtStart"]
    <3>1. req'[w] = n /\ n.rid = c /\ n.sb = s /\ n.kind = r.kind /\ n.pc = "rtStart"
      BY <1>1, <2>3 DEF Request
    <3>2. ctr'[c].owner = s
      BY <1>1, <2>1 DEF RtCreate, TypeOK
    <3>. QED  BY <2>2, <3>1, <3>2 DEF Owned
  <2>4. CASE Goto(w, "markError")
    BY <2>2, <2>4, GotoOwned
  <2>. QED  BY <2>1, <2>3, <2>4 DEF RtCreate
<1>9. CASE RtCreateFails(w) \/ RtStart(w) \/ RtStop(w) \/ Inspect(w) \/ RtFails(w)
  <2>1. HoldsLock(w) /\ ~At(w, "read")
    BY <1>9 DEF RtCreateFails, RtStart, RtStop, Inspect, RtFails, HoldsLock, At
  <2>2. ASSUME RtStart(w) \/ RtStop(w) \/ Inspect(w)
        PROVE  r.kind # "destroy"
    BY <1>1, <2>2 DEF RtStart, RtStop, Inspect, Owned, At
  <2>3. \/ Goto(w, "markError")
        \/ r.kind # "destroy" /\ \E pc \in {"save", "inspect"} : Goto(w, pc)
    BY <1>9, <2>2 DEF RtCreateFails, RtStart, RtStop, Inspect, RtFails, Performed
  <2>. QED  BY <2>1, <2>3, GotoOwned
<1>10. CASE RtDestroy(w)
  <2>1. HoldsLock(w) /\ ~At(w, "read")
    BY <1>10 DEF RtDestroy, HoldsLock, At
  <2>2. r.rid \in Containers => ctr'[r.rid].status = "gone"
    BY <1>1, <1>10 DEF RtDestroy, SetStatus, TypeOK, Container
  <2>3. req' = [req EXCEPT ![w].pc = req'[w].pc]
    BY <1>1, <1>10 DEF RtDestroy, Performed, Goto
  <2>4. req'[w].rid = r.rid
    BY <1>1, <2>3 DEF Request
  <2>5. ~Live(req[w].rid)'
    BY <2>2, <2>4 DEF Live
  <2>6. \/ Goto(w, "markError") \/ Goto(w, "save")
        \/ r.kind # "destroy" /\ Goto(w, "rtCreate")
    BY <1>10 DEF RtDestroy, Performed
  <2>. QED  BY <2>1, <2>5, <2>6, GotoOwned
<1>11. CASE SnapPause(w)
  <2>1. HoldsLock(w) /\ ~At(w, "read") /\ Live(r.rid)
    BY <1>11 DEF SnapPause, HoldsLock, At
  <2>2. CASE Goto(w, "commit") /\ UNCHANGED ctr
    <3>1. req'[w].rid = r.rid
      BY <1>1, <2>2 DEF Goto, Request
    <3>2. Live(req[w].rid)'
      BY <2>1, <2>2, <3>1 DEF Live
    <3>. QED  BY <2>1, <2>2, <3>2, GotoOwned
  <2>3. CASE /\ SetStatus(r.rid, "paused")
             /\ req' = [req EXCEPT ![w].frozen = TRUE, ![w].pc = "commit"]
    <3>. DEFINE n == [r EXCEPT !.frozen = TRUE, !.pc = "commit"]
    <3>1. req'[w] = n /\ n.rid = r.rid /\ n.sb = s /\ n.kind = r.kind /\ n.pc = "commit"
      BY <1>1, <2>3 DEF Request
    <3>2. Live(r.rid) /\ r.rid \in Containers /\ ctr'[r.rid].status = "paused"
            /\ ctr'[r.rid].owner = ctr[r.rid].owner
      BY <1>1, <2>1, <2>3 DEF SetStatus, Live, TypeOK, Container
    <3>. QED  BY <1>1, <2>1, <3>1, <3>2 DEF Owned, Live, HoldsLock, At
  <2>. QED  BY <1>11, <2>2, <2>3 DEF SnapPause
<1>12. CASE (\E p \in Snapshots : SnapCommit(w, p)) \/ SnapCommitFails(w)
  <2>1. r.pc = "commit" /\ UNCHANGED ctr /\ Live(r.rid)
    BY <1>1, <1>12 DEF SnapCommit, SnapCommitFails, At, Owned
  <2>2. CASE Goto(w, "unpause")
    <3>1. req'[w].pc = "unpause" /\ req'[w].rid = r.rid /\ req'[w].sb = s
            /\ req'[w].kind = r.kind
      BY <1>1, <2>2 DEF Goto, Request
    <3>. QED  BY <1>1, <2>1, <3>1 DEF Owned, Live
  <2>3. ASSUME NEW p \in Snapshots,
               req' = [req EXCEPT ![w].snap = p, ![w].pc = "unpause"]
        PROVE  Owned(w)'
    <3>. DEFINE n == [r EXCEPT !.snap = p, !.pc = "unpause"]
    <3>1. req'[w] = n /\ n.rid = r.rid /\ n.sb = s /\ n.kind = r.kind /\ n.pc = "unpause"
      BY <1>1, <2>3 DEF Request
    <3>. QED  BY <1>1, <2>1, <3>1 DEF Owned, Live
  <2>. QED  BY <1>12, <2>2, <2>3 DEF SnapCommit, SnapCommitFails
<1>13. CASE (SnapUnpause(w) \/ SnapRecordFails(w)) /\ ~Return(w)
  <2>1. HoldsLock(w) /\ ~At(w, "read")
          /\ \E pc \in {"record", "rollback"} : Goto(w, pc)
    BY <1>13 DEF SnapUnpause, SnapRecordFails, HoldsLock, At
  <2>. QED  BY <2>1, GotoOwned
<1>14. ASSUME ReadRejects(w) \/ InsertFails(w) \/ (MarkDestroying(w) /\ r.dead)
              \/ MarkError(w) \/ ForkWrite(w) \/ SnapPauseUnheard(w)
              \/ SnapPauseFails(w) \/ SnapRecord(w)
              \/ SnapRollback(w) \/ UseFiles(w)
       PROVE  Return(w)
  BY <1>14 DEF ReadRejects, InsertFails, MarkDestroying, MarkError, ForkWrite,
     SnapPauseUnheard, SnapPauseFails, SnapRecord, SnapRollback, UseFiles
<1>. QED  BY <1>2, <1>3, <1>4, <1>5, <1>6, <1>7, <1>8, <1>9, <1>10, <1>11, <1>12,
             <1>13, <1>14 DEF Handle

\* What a request writes names a container it owns, and a destroyed row one that
\* is not there.
LEMMA WritesOwn ==
  ASSUME IInv, CInv, Tame, NEW w \in Requests, Handle(w), NEW t \in Sandboxes
  PROVE  /\ rows'[t].rid \in Containers => ctr'[rows'[t].rid].owner = t
         /\ rows'[t].state = "destroyed" => ~Live(rows[t].rid)'
<1>. DEFINE r == req[w]
            s == r.sb
<1>1. CASE rows'[t] = rows[t]
  BY <1>1, RowKept
<1>2. ASSUME UNCHANGED ctr, HoldsLock(w), ~At(w, "read"), NEW row, Update(w, row),
             row.rid \in {r.rid, rows[s].rid, NoContainer},
             row.state = "destroyed" =>
               \/ r.pc = "save" /\ r.kind = "destroy" /\ row.rid = r.rid
               \/ rows[s].state = "destroyed" /\ row.rid = rows[s].rid
      PROVE  /\ rows'[t].rid \in Containers => ctr'[rows'[t].rid].owner = t
             /\ rows'[t].state = "destroyed" => ~Live(rows[t].rid)'
  <2>1. s \in Sandboxes /\ rows' = [rows EXCEPT ![s] = row] /\ rows \in [Sandboxes -> Row]
    BY <1>2 DEF IInv, TypeOK, HoldsLock, Update
  <2>2. CASE t # s
    BY <1>1, <2>1, <2>2
  <2>3. CASE t = s
    <3>1. rows'[t] = row
      BY <2>1, <2>3
    <3>2. row.rid \in Containers => ctr[row.rid].owner = s
      BY <1>2, <2>1, NullsAssumption DEF CInv, Owned, RowsOwn, HoldsLock, At
    <3>3. row.state = "destroyed" => ~Live(row.rid)
      BY <1>2, <2>1 DEF CInv, Owned, DestroyedIsGone
    <3>. QED  BY <1>2, <2>3, <3>1, <3>2, <3>3 DEF Live
  <2>. QED  BY <2>2, <2>3
<1>3. r \in Request /\ r.row \in Row /\ (HoldsLock(w) /\ ~At(w, "read") => r.row = rows[s])
  BY DEF IInv, TypeOK, Request, NoLostUpdate
<1>4. CASE UNCHANGED rows
  BY <1>1, <1>4
<1>5. CASE InsertRow(w)
  BY <1>2, <1>5 DEF InsertRow, NewRow, At, HoldsLock
<1>6. CASE MarkDestroying(w)
  <2>. DEFINE row == [r.row EXCEPT !.state = "destroying"]
  <2>1. HoldsLock(w) /\ ~At(w, "read") /\ UNCHANGED ctr /\ (UNCHANGED rows \/ Update(w, row))
    BY <1>6 DEF MarkDestroying, At, HoldsLock
  <2>2. row.rid = rows[s].rid /\ row.state = "destroying"
    BY <1>3, <2>1 DEF Row
  <2>. QED  BY <1>2, <1>4, <2>1, <2>2
<1>7. CASE Save(w)
  <2>1. Outcome(r).rid = r.rid /\ (Outcome(r).state = "destroyed" => r.kind = "destroy")
    BY DEF Outcome, Target
  <2>. QED  BY <1>2, <1>4, <1>7, <2>1 DEF Save, At, HoldsLock
<1>8. CASE MarkError(w)
  <2>. DEFINE row == [r.row EXCEPT !.state = "error", !.rid = r.rid]
  <2>1. HoldsLock(w) /\ ~At(w, "read") /\ UNCHANGED ctr /\ (UNCHANGED rows \/ Update(w, row))
    BY <1>8 DEF MarkError, At, HoldsLock
  <2>2. row.rid = r.rid /\ row.state = "error"
    BY <1>3 DEF Row
  <2>. QED  BY <1>2, <1>4, <2>1, <2>2
<1>9. CASE ForkWrite(w)
  <2>. DEFINE row == [r.row EXCEPT !.parent = r.snap]
  <2>1. HoldsLock(w) /\ ~At(w, "read") /\ UNCHANGED ctr /\ (UNCHANGED rows \/ Update(w, row))
    BY <1>9 DEF ForkWrite, At, HoldsLock
  <2>2. row.rid = rows[s].rid /\ row.state = rows[s].state
    BY <1>3, <2>1 DEF Row
  <2>. QED  BY <1>2, <1>4, <2>1, <2>2
<1>10. \/ UNCHANGED rows
       \/ InsertRow(w) \/ MarkDestroying(w) \/ Save(w) \/ MarkError(w) \/ ForkWrite(w)
  BY HandleWrites
<1>. QED  BY <1>4, <1>5, <1>6, <1>7, <1>8, <1>9, <1>10

LEMMA HandleOwns ==
  ASSUME IInv, CInv, NEW w \in Requests, Handle(w)
  PROVE  CInv'
<1>1. Tame /\ Removed(w)
  BY HandleTame
<1>2. ASSUME NEW v \in Requests
      PROVE  Owned(v)'
  <2>1. CASE v = w
    BY <1>1, <2>1, ActorOwned
  <2>2. CASE v # w
    <3>1. req'[v] = req[v]
      BY <2>2, HandleAlone DEF IInv
    <3>2. ASSUME HoldsLock(v), ~At(v, "read"), Live(req[v].rid)
          PROVE  Live(req[v].rid)'
      <4>1. CASE Live(req[v].rid)'
        BY <4>1
      <4>2. CASE ~Live(req[v].rid)'
        <5>1. req[v].rid \in Containers /\ req'[v].rid = req[v].rid
          BY <3>1, <3>2 DEF Live
        <5>2. HoldsLock(w) /\ ~At(w, "read") /\ req[w].rid = req[v].rid
          BY <1>1, <3>2, <4>2, <5>1 DEF Removed, Live
        <5>3. req[v].sb = req[w].sb
          BY <3>2, <5>1, <5>2 DEF CInv, Owned, HoldsLock, At
        <5>. QED  BY <2>2, <3>2, <5>2, <5>3 DEF IInv, MutualExclusion
      <4>. QED  BY <4>1, <4>2
    <3>. QED  BY <1>1, <3>1, <3>2, OthersOwned
  <2>. QED  BY <2>1, <2>2
<1>3. ASSUME NEW t \in Sandboxes
      PROVE  /\ rows'[t].rid \in Containers => ctr'[rows'[t].rid].owner = t
             /\ rows'[t].state = "destroyed" => ~Live(rows[t].rid)'
  BY <1>1, WritesOwn
<1>. QED  BY <1>2, <1>3 DEF CInv, RowsOwn, DestroyedIsGone

\* The world around the requests removes no container and writes no row.
LEMMA WorldOwns ==
  ASSUME IInv, CInv,
         \/ \E w \in Requests : Cancel(w)
         \/ \E c \in Containers : ContainerExits(c)
         \/ Crash \/ Boot \/ UNCHANGED vars
  PROVE  CInv'
<1>1. Tame /\ (\A d \in Containers : Live(d) => Live(d)') /\ UNCHANGED rows
  BY WorldTame, SameTame DEF Cancel, ContainerExits, Crash, Boot, BootList,
     BootUnpause, BootServe, vars
<1>2. RowsOwn' /\ DestroyedIsGone'
  BY <1>1, RowKept DEF RowsOwn, DestroyedIsGone
<1>3. ASSUME NEW v \in Requests
      PROVE  Owned(v)'
  <2>1. CASE req'[v] = req[v]
    BY <1>1, <2>1, OthersOwned DEF Live
  <2>2. CASE req'[v] = Idle
    BY <2>2 DEF Owned, Idle
  <2>3. CASE \E w \in Requests : Cancel(w)
    <3>1. PICK w \in Requests : Cancel(w)
      BY <2>3
    <3>2. req[v] \in Request /\ UNCHANGED ctr
            /\ (req'[v] = req[v] \/ req'[v] = [req[v] EXCEPT !.dead = TRUE])
      BY <3>1 DEF Cancel, IInv, TypeOK
    <3>3. req'[v].pc = req[v].pc /\ req'[v].rid = req[v].rid /\ req'[v].sb = req[v].sb
            /\ req'[v].kind = req[v].kind /\ req'[v].row = req[v].row
      BY <3>2 DEF Request
    <3>4. Owned(v)
      BY DEF CInv
    <3>. QED  BY <3>2, <3>3, <3>4 DEF Owned, Live
  <2>. QED  BY <2>1, <2>2, <2>3 DEF ContainerExits, Crash, Boot, BootList,
       BootUnpause, BootServe, vars
<1>. QED  BY <1>2, <1>3 DEF CInv

\* A request that has just arrived has no container in hand.
LEMMA ArrivalOwns ==
  ASSUME IInv, CInv, NEW w \in Requests, NEW s \in Sandboxes, NEW p \in Image,
         NEW kind \in Offered,
         Arrive(w, kind, s, p) \/ ArriveNew(w, kind, s, p)
  PROVE  CInv'
<1>1. UNCHANGED <<rows, ctr>> /\ req \in [Requests -> Request]
  BY DEF Arrive, ArriveNew, IInv, TypeOK
<1>2. ASSUME NEW v \in Requests
      PROVE  Owned(v)'
  <2>1. CASE v # w
    <3>1. req'[v] = req[v] /\ Owned(v)
      BY <1>1, <2>1 DEF Arrive, ArriveNew, CInv
    <3>. QED  BY <1>1, <3>1 DEF Owned, Live
  <2>2. CASE v = w /\ Arrive(w, kind, s, p)
    <3>1. req'[v].pc = "lock"
      BY <1>1, <2>2 DEF Arrive, Idle
    <3>. QED  BY <3>1 DEF Owned
  <2>3. CASE v = w /\ ArriveNew(w, kind, s, p)
    <3>1. req'[v].pc = "insert" /\ req'[v].rid = NoContainer
      BY <1>1, <2>3 DEF ArriveNew, Idle
    <3>. QED  BY <3>1, NullsAssumption DEF Owned
  <2>. QED  BY <2>1, <2>2, <2>3
<1>. QED  BY <1>1, <1>2 DEF CInv, RowsOwn, DestroyedIsGone, Live

LEMMA StepOwns ==
  ASSUME IInv, CInv, [Next]_vars
  PROVE  CInv'
BY HandleOwns, WorldOwns, ArrivalOwns DEF Next

LEMMA InitOwns == Init => CInv
  BY NullsAssumption DEF Init, CInv, Owned, RowsOwn, DestroyedIsGone, Idle, AbsentRow

\* Ownership holds throughout.
THEOREM Ownership == Spec => [](IInv /\ CInv)
<1>1. Init => IInv /\ CInv
  BY InitKeeps, InitOwns
<1>2. IInv /\ CInv /\ [Next]_vars => (IInv /\ CInv)'
  BY StepKeeps, StepOwns
<1>. QED  BY <1>1, <1>2, PTL DEF Spec

\* No Destroy or Restore lands between the moment a snapshot reads the runtime
\* ID of its sandbox and the moment it has committed and unpaused the container.
THEOREM CommitsLiveContainerHolds == Spec => []CommitsLiveContainer
<1>1. CInv => CommitsLiveContainer
  BY DEF CInv, Owned, CommitsLiveContainer
<1>. QED  BY <1>1, Ownership, PTL

\* The container that a destroyed row names is gone, for good.
THEOREM DestroyedIsGoneHolds == Spec => []DestroyedIsGone
<1>1. CInv => DestroyedIsGone
  BY DEF CInv
<1>. QED  BY <1>1, Ownership, PTL

-------------------------------------------------------------------------------
(* Rows that tell the truth, containers that are not left behind or frozen   *)

\* The steps at which a request has rewritten nothing since it read the row.
Looking == {"mark", "forkWrite", "pause", "commit", "unpause", "record",
            "rollback", "use"}

\* What a request knows of the container it has in hand, whatever has failed.
Working(w) ==
  LET r == req[w] IN
  /\ r.pc \in {"rtCreate", "rtDestroy", "rtStart", "inspect"} => r.kind # "stop"
  /\ r.pc = "rtStop" => r.kind = "stop"
  /\ r.pc \in Looking => r.rid = r.row.rid
  /\ r.pc = "insert" => r.rid = NoContainer
  /\ r.pc = "rtCreate" => ~Live(r.rid)
  /\ r.pc = "inspect" \/ (r.pc = "save" /\ r.kind \notin {"stop", "destroy"}) =>
       Live(r.rid) /\ ctr[r.rid].status # "paused"
  /\ r.pc = "save" /\ r.kind = "stop" =>
       Live(r.rid) /\ ctr[r.rid].status = "stopped"

\* Only a snapshot that paused its container is marked so.
Thaws(w) ==
  req[w].frozen => req[w].pc \in {"commit", "unpause", "record", "rollback"}

LiveOwned == \A c \in Containers : Live(c) => ctr[c].owner \in Sandboxes

\* Nothing is served during the boot; what has not happened left no trace.
ModeInv ==
  /\ mode # "serving" => \A w \in Requests : At(w, "idle")
  /\ NoDeath => mode = "serving"
  /\ NoHangup => \A w \in Requests : ~req[w].dead

\* A settled row is as true of its container as a row at rest.
RowTrue(s) ==
  LET row == rows[s] IN
  /\ row.state \notin {"creating", "destroying"}
  /\ row.state = "running" => Live(row.rid)
  /\ row.state = "stopped" => Live(row.rid) /\ ctr[row.rid].status = "stopped"

Settled(s) ==
  lock[s] = Free \/ req[lock[s]].pc \in (Looking \ {"mark"}) \cup {"read", "insert"}

Freezes(w) == req[w].pc \in {"commit", "unpause"} /\ req[w].frozen

TruthInv ==
  NoHangup /\ NoDeath =>
    /\ \A s \in Sandboxes : Settled(s) => RowTrue(s)
    /\ \A w \in Requests : Freezes(w) => rows[req[w].sb].state # "stopped"

\* A running sandbox is frozen by a snapshot that will thaw it, or the boot will; or a
\* hang-up met its pause in flight.
FrozenRow(s) ==
  /\ rows[s].state = "running" /\ rows[s].rid \in Containers
  /\ ctr[rows[s].rid].status = "paused"

FreezeInv ==
  NoFault => \A s \in Sandboxes \ spent.stranded : FrozenRow(s) =>
    \/ mode = "booting"
    \/ mode = "unpausing" /\ s \in todo
    \/ lock[s] # Free /\ Freezes(lock[s])

\* Where the one container of a sandbox is remembered.
Remembered(s) ==
  IF lock[s] = Free THEN rows[s].rid
  ELSE IF At(lock[s], "read") THEN rows[s].rid ELSE req[lock[s]].rid

LeakInv ==
  NoFault /\ NoHangup /\ NoDeath =>
    \A c \in Containers : Live(c) => Remembered(ctr[c].owner) = c

PInv ==
  /\ \A w \in Requests : Working(w) /\ Thaws(w)
  /\ LiveOwned
  /\ ModeInv
  /\ TruthInv
  /\ FreezeInv
  /\ LeakInv

-------------------------------------------------------------------------------
(* How far a step of a handler reaches                                       *)

\* A step of w leaves other requests, other sandboxes and their containers alone.
Apart(w) ==
  LET s == req[w].sb IN
  /\ \A v \in Requests \ {w} : req'[v] = req[v]
  /\ \A t \in Sandboxes \ {s} : rows'[t] = rows[t] /\ lock'[t] = lock[t]
  /\ \A c \in Containers : ctr[c].owner \in Sandboxes \ {s} => ctr'[c] = ctr[c]
  /\ UNCHANGED <<mode, todo>>

LEMMA HandleApart ==
  ASSUME IInv, CInv, NEW w \in Requests, Handle(w)
  PROVE  Apart(w)
<1>. DEFINE s == req[w].sb
<1>1. TypeOK /\ Owned(w)
  BY DEF IInv, CInv
<1>2. \A v \in Requests \ {w} : req'[v] = req[v]
  BY <1>1, HandleAlone
<1>3. \A t \in Sandboxes \ {s} : rows'[t] = rows[t]
  BY <1>1, HandleWrites DEF InsertRow, MarkDestroying, Save, MarkError, ForkWrite,
     Update, TypeOK
<1>4. \A t \in Sandboxes \ {s} : lock'[t] = lock[t]
  <2>1. \/ UNCHANGED lock
        \/ \E h : lock' = [lock EXCEPT ![s] = h]
    BY DEF Handle, Return, Lock, Read, ReadRejects, InsertRow, InsertFails,
       MarkDestroying, Save, MarkError, ForkWrite, RtCreate, RtCreateFails,
       RtStart, RtStop, RtDestroy, Inspect, RtFails, SnapPause, SnapPauseUnheard,
       SnapPauseFails,
       SnapCommit, SnapCommitFails, SnapUnpause, SnapRecord, SnapRecordFails,
       SnapRollback, UseFiles
  <2>. QED  BY <1>1, <2>1 DEF TypeOK
<1>5. UNCHANGED <<mode, todo>>
  BY DEF Handle, Lock, Read, ReadRejects, InsertRow, InsertFails,
     MarkDestroying, Save, MarkError, ForkWrite, RtCreate, RtCreateFails,
     RtStart, RtStop, RtDestroy, Inspect, RtFails, SnapPause, SnapPauseUnheard,
     SnapPauseFails,
     SnapCommit, SnapCommitFails, SnapUnpause, SnapRecord, SnapRecordFails,
     SnapRollback, UseFiles
<1>6. ASSUME NEW c \in Containers, ctr[c].owner \in Sandboxes \ {s}
      PROVE  ctr'[c] = ctr[c]
  <2>1. ctr[c] # Unused
    BY <1>6, NullsAssumption DEF Unused
  <2>2. CASE UNCHANGED ctr
    BY <2>2
  <2>3. ASSUME NEW d \in Containers, RtCreate(w, d)
        PROVE  ctr'[c] = ctr[c]
    BY <1>1, <2>1, <2>3 DEF RtCreate, TypeOK
  <2>4. ASSUME HoldsLock(w), ~At(w, "read"), NEW st, SetStatus(req[w].rid, st)
        PROVE  ctr'[c] = ctr[c]
    <3>1. c # req[w].rid
      BY <1>1, <1>6, <2>4 DEF Owned, HoldsLock, At
    <3>. QED  BY <1>1, <2>4, <3>1 DEF SetStatus, TypeOK
  <2>5. CASE RtStart(w) \/ RtStop(w) \/ RtDestroy(w) \/ SnapPause(w)
             \/ SnapPauseUnheard(w) \/ SnapUnpause(w)
    <3>1. HoldsLock(w) /\ ~At(w, "read")
      BY <2>5 DEF RtStart, RtStop, RtDestroy, SnapPause, SnapPauseUnheard, SnapUnpause,
         At, HoldsLock
    <3>2. UNCHANGED ctr \/ \E st : SetStatus(req[w].rid, st)
      BY <2>5 DEF RtStart, RtStop, RtDestroy, SnapPause, SnapPauseUnheard, SnapUnpause
    <3>. QED  BY <2>2, <2>4, <3>1, <3>2
  <2>6. \/ UNCHANGED ctr
        \/ \E d \in Containers : RtCreate(w, d)
        \/ RtStart(w) \/ RtStop(w) \/ RtDestroy(w) \/ SnapPause(w)
        \/ SnapPauseUnheard(w) \/ SnapUnpause(w)
    BY DEF Handle, Lock, Read, ReadRejects, InsertRow, InsertFails,
       MarkDestroying, Save, MarkError, ForkWrite, RtCreateFails, Inspect, RtFails,
       SnapPauseFails, SnapCommit, SnapCommitFails, SnapRecord, SnapRecordFails,
       SnapRollback, UseFiles
  <2>. QED  BY <2>2, <2>3, <2>5, <2>6
<1>. QED  BY <1>2, <1>3, <1>4, <1>5, <1>6 DEF Apart

\* Going on to another step changes nothing else of a request.
LEMMA GotoMoves ==
  ASSUME TypeOK, NEW w \in Requests, NEW pc, Goto(w, pc)
  PROVE  /\ req'[w].pc = pc /\ req'[w].kind = req[w].kind /\ req'[w].sb = req[w].sb
         /\ req'[w].row = req[w].row /\ req'[w].rid = req[w].rid
         /\ req'[w].frozen = req[w].frozen /\ req'[w].dead = req[w].dead
BY DEF TypeOK, Goto, Request

LEMMA ReturnIdles ==
  ASSUME TypeOK, NEW w \in Requests, Return(w)
  PROVE  req'[w] = Idle
BY DEF TypeOK, Return

\* The request at work on a sandbox, and its sandbox.
LEMMA Holder ==
  ASSUME IInv, NEW w \in Requests, HoldsLock(w)
  PROVE  /\ req[w].sb \in Sandboxes /\ lock[req[w].sb] = w /\ w # Free
         /\ ~At(w, "read") => req[w].row = rows[req[w].sb]
         /\ \A v \in Requests : HoldsLock(v) /\ req[v].sb = req[w].sb => v = w
BY NullsAssumption DEF IInv, TypeOK, MutualExclusion, NoLostUpdate, HoldsLock
\* A handler runs for a request that has arrived.
LEMMA Busy ==
  ASSUME IInv, NEW w \in Requests, Handle(w)
  PROVE  /\ req[w].pc # "idle" /\ req[w].sb \in Sandboxes
         /\ HoldsLock(w) \/ Lock(w)
<1>1. req[w].pc # "idle"
  BY DEF Handle, Lock, Read, ReadRejects, InsertRow, InsertFails,
     MarkDestroying, Save, MarkError, ForkWrite, RtCreate, RtCreateFails, RtStart,
     RtStop, RtDestroy, Inspect, RtFails, SnapPause, SnapPauseUnheard, SnapPauseFails, SnapCommit,
     SnapCommitFails, SnapUnpause, SnapRecord, SnapRecordFails, SnapRollback,
     UseFiles, At
<1>2. HoldsLock(w) \/ Lock(w)
  BY DEF HoldsLock, Handle, Lock, Read, ReadRejects, InsertRow, InsertFails,
     MarkDestroying, Save, MarkError, ForkWrite, RtCreate, RtCreateFails, RtStart,
     RtStop, RtDestroy, Inspect, RtFails, SnapPause, SnapPauseUnheard, SnapPauseFails, SnapCommit,
     SnapCommitFails, SnapUnpause, SnapRecord, SnapRecordFails, SnapRollback,
     UseFiles, At
<1>. QED  BY <1>1, <1>2 DEF IInv, TypeOK

\* While it does, no other request is past the mutex of its sandbox.
LEMMA OneAtWork ==
  ASSUME IInv, NEW w \in Requests, Handle(w), NEW v \in Requests, v # w, HoldsLock(v)
  PROVE  req[v].sb \in Sandboxes \ {req[w].sb}
<1>1. CASE HoldsLock(w)
  BY <1>1, Holder
<1>2. CASE Lock(w)
  BY <1>2, Holder DEF Lock
<1>. QED  BY <1>1, <1>2, Busy

LEMMA StatusSet ==
  ASSUME TypeOK, NEW c \in Containers, NEW st, SetStatus(c, st)
  PROVE  ctr'[c].status = st /\ ctr'[c].owner = ctr[c].owner
           /\ \A d \in Containers \ {c} : ctr'[d] = ctr[d]
BY DEF TypeOK, SetStatus, Container

-------------------------------------------------------------------------------
(* What a request knows of its container                                     *)

LEMMA ActorWorking ==
  ASSUME IInv, CInv, NEW w \in Requests, Working(w), Handle(w)
  PROVE  Working(w)'
<1>. DEFINE r == req[w]
            s == r.sb
            n == req'[w]
<1>1. r \in Request /\ TypeOK /\ Owned(w) /\ RequestInv(w)
  BY DEF IInv, TypeOK, CInv
<1>2. CASE n.pc \in {"idle", "lock", "read", "markError"}
  BY <1>2 DEF Working, Looking
<1>3. CASE Return(w)
  BY <1>1, <1>2, <1>3, ReturnIdles DEF Idle
<1>4. CASE Goto(w, "markError")
  BY <1>1, <1>2, <1>4, GotoMoves
<1>5. CASE Lock(w)
  BY <1>1, <1>2, <1>5, GotoMoves DEF Lock
<1>6. CASE Read(w)
  <2>1. n = [r EXCEPT !.row = rows[s], !.rid = rows[s].rid,
                      !.pc = FirstStep(r.kind, rows[s])]
    BY <1>1, <1>6 DEF Read, TypeOK
  <2>2. n.rid = rows[s].rid /\ n.row = rows[s] /\ n.kind = r.kind
          /\ n.pc = FirstStep(r.kind, rows[s])
    BY <1>1, <2>1 DEF Request
  <2>3. /\ n.pc \notin {"insert", "inspect", "save"}
        /\ n.pc \in {"rtCreate", "rtDestroy", "rtStart"} => r.kind # "stop"
        /\ n.pc = "rtStop" => r.kind = "stop"
        /\ n.pc = "rtCreate" => n.rid = NoContainer
    BY <2>2 DEF FirstStep
  <2>. QED  BY <2>2, <2>3, NullsAssumption DEF Working, Live, Looking
<1>7. CASE InsertRow(w)
  <2>1. n = [r EXCEPT !.row = NewRow, !.pc = "rtCreate"] /\ r.kind # "stop"
          /\ r.rid = NoContainer
    BY <1>1, <1>7 DEF InsertRow, TypeOK, RequestInv, At, Working
  <2>2. n.rid = NoContainer /\ n.kind = r.kind /\ n.pc = "rtCreate"
    BY <1>1, <2>1 DEF Request
  <2>. QED  BY <2>1, <2>2, NullsAssumption DEF Working, Live, Looking
<1>8. CASE MarkDestroying(w) /\ ~r.dead
  <2>. DEFINE row == [r.row EXCEPT !.state = "destroying"]
  <2>1. r.kind = "destroy" /\ n = [r EXCEPT !.row = row,
                 !.pc = IF row.rid = NoContainer THEN "save" ELSE "rtDestroy"]
    BY <1>1, <1>8 DEF MarkDestroying, At, RequestInv, TypeOK
  <2>2. n.kind = r.kind /\ n.pc \in {"save", "rtDestroy"}
    BY <1>1, <2>1 DEF Request
  <2>. QED  BY <2>1, <2>2 DEF Working, Looking
<1>9. CASE Save(w) /\ ~Return(w)
  <2>1. n = [r EXCEPT !.row = Outcome(r), !.pc = "lock"]
    BY <1>1, <1>9 DEF Save, TypeOK
  <2>2. n.pc = "lock"
    BY <1>1, <2>1 DEF Request
  <2>. QED  BY <1>2, <2>2
<1>10. ASSUME NEW c \in Containers, RtCreate(w, c), ~Goto(w, "markError")
       PROVE  Working(w)'
  <2>1. n = [r EXCEPT !.rid = c, !.pc = "rtStart"] /\ r.kind # "stop"
    BY <1>1, <1>10 DEF RtCreate, TypeOK, At, Working
  <2>2. n.kind = r.kind /\ n.pc = "rtStart"
    BY <1>1, <2>1 DEF Request
  <2>. QED  BY <2>1, <2>2 DEF Working, Looking
<1>11. CASE RtStart(w) /\ ~Goto(w, "markError")
  <2>1. r.kind # "stop" /\ r.rid \in Containers /\ Goto(w, IF r.kind = "start" THEN "save" ELSE "inspect")
    BY <1>11 DEF RtStart, Performed, Startable, Live, At, Working
  <2>2. n.pc \in {"save", "inspect"} /\ n.kind = r.kind /\ n.rid = r.rid
    BY <1>1, <2>1, GotoMoves
  <2>3. ctr'[r.rid].status = "running"
    BY <1>1, <1>11, <2>1, StatusSet DEF RtStart
  <2>. QED  BY <2>1, <2>2, <2>3 DEF Working, Live, Looking
<1>12. CASE RtStop(w) /\ ~Goto(w, "markError")
  <2>1. r.kind = "stop" /\ r.rid \in Containers /\ Goto(w, "save")
    BY <1>12 DEF RtStop, Performed, Live, At, Working
  <2>2. n.pc = "save" /\ n.kind = r.kind /\ n.rid = r.rid
    BY <1>1, <2>1, GotoMoves
  <2>3. ctr'[r.rid].status = "stopped"
    BY <1>1, <1>12, <2>1, StatusSet DEF RtStop
  <2>. QED  BY <2>1, <2>2, <2>3 DEF Working, Live, Looking
<1>13. CASE RtDestroy(w) /\ ~Goto(w, "markError")
  <2>1. r.kind # "stop" /\ Goto(w, IF r.kind = "destroy" THEN "save" ELSE "rtCreate")
    BY <1>13 DEF RtDestroy, Performed, At, Working
  <2>2. n.pc \in {"save", "rtCreate"} /\ n.kind = r.kind /\ n.rid = r.rid
          /\ (n.pc = "save" => r.kind = "destroy")
    BY <1>1, <2>1, GotoMoves
  <2>3. r.rid \in Containers => ctr'[r.rid].status = "gone"
    BY <1>1, <1>13, StatusSet DEF RtDestroy
  <2>. QED  BY <2>1, <2>2, <2>3 DEF Working, Live, Looking
<1>14. CASE Inspect(w) /\ ~Goto(w, "markError")
  <2>1. r.kind # "stop" /\ Goto(w, "save") /\ UNCHANGED ctr
          /\ Live(r.rid) /\ ctr[r.rid].status # "paused"
    BY <1>14 DEF Inspect, At, Working
  <2>2. n.pc = "save" /\ n.kind = r.kind /\ n.rid = r.rid
    BY <1>1, <2>1, GotoMoves
  <2>. QED  BY <2>1, <2>2 DEF Working, Live, Looking
<1>15. ASSUME r.pc \in Looking, n.rid = r.rid, n.row = r.row, n.pc \in Looking
       PROVE  Working(w)'
  BY <1>15 DEF Working, Looking
<1>16. ASSUME r.pc \in Looking, NEW pc \in Looking, Goto(w, pc)
       PROVE  Working(w)'
  BY <1>1, <1>15, <1>16, GotoMoves
<1>17. CASE SnapPause(w)
  <2>1. r.pc \in Looking /\ \/ Goto(w, "commit")
                            \/ req' = [req EXCEPT ![w].frozen = TRUE, ![w].pc = "commit"]
    BY <1>17 DEF SnapPause, At, Looking
  <2>2. CASE Goto(w, "commit")
    BY <1>16, <2>1, <2>2 DEF Looking
  <2>3. CASE req' = [req EXCEPT ![w].frozen = TRUE, ![w].pc = "commit"]
    <3>1. n = [r EXCEPT !.frozen = TRUE, !.pc = "commit"]
      BY <1>1, <2>3 DEF TypeOK
    <3>2. n.rid = r.rid /\ n.row = r.row /\ n.pc = "commit"
      BY <1>1, <3>1 DEF Request
    <3>. QED  BY <1>15, <2>1, <3>2 DEF Looking
  <2>. QED  BY <2>1, <2>2, <2>3
<1>18. ASSUME NEW p \in Snapshots, SnapCommit(w, p), ~Goto(w, "unpause")
       PROVE  Working(w)'
  <2>1. r.pc \in Looking /\ n = [r EXCEPT !.snap = p, !.pc = "unpause"]
    BY <1>1, <1>18 DEF SnapCommit, At, Looking, TypeOK
  <2>2. n.rid = r.rid /\ n.row = r.row /\ n.pc = "unpause"
    BY <1>1, <2>1 DEF Request
  <2>. QED  BY <1>15, <2>1, <2>2 DEF Looking
<1>19. CASE \/ \E p \in Snapshots : SnapCommit(w, p) /\ Goto(w, "unpause")
            \/ SnapCommitFails(w)
            \/ SnapUnpause(w) /\ ~Return(w)
            \/ SnapRecordFails(w)
  <2>1. r.pc \in Looking /\ \E pc \in Looking : Goto(w, pc)
    BY <1>19 DEF SnapCommit, SnapCommitFails, SnapUnpause, SnapRecordFails, At, Looking
  <2>. QED  BY <1>16, <2>1
<1>20. CASE RtCreateFails(w) \/ RtFails(w)
  BY <1>4, <1>20 DEF RtCreateFails, RtFails
<1>21. ASSUME ReadRejects(w) \/ InsertFails(w) \/ (MarkDestroying(w) /\ r.dead)
              \/ MarkError(w) \/ ForkWrite(w) \/ SnapPauseUnheard(w)
              \/ SnapPauseFails(w) \/ SnapRecord(w)
              \/ SnapRollback(w) \/ UseFiles(w)
       PROVE  Return(w)
  BY <1>21 DEF ReadRejects, InsertFails, MarkDestroying, MarkError, ForkWrite,
     SnapPauseUnheard, SnapPauseFails, SnapRecord, SnapRollback, UseFiles
<1>. QED  BY <1>3, <1>4, <1>5, <1>6, <1>7, <1>8, <1>9, <1>10, <1>11, <1>12, <1>13,
             <1>14, <1>17, <1>18, <1>19, <1>20, <1>21 DEF Handle

\* Nobody else touches the container a request has in hand.
LEMMA HandleWorking ==
  ASSUME IInv, CInv, NEW w \in Requests, Handle(w), NEW v \in Requests, Working(v)
  PROVE  Working(v)'
<1>1. CASE v = w
  BY <1>1, ActorWorking
<1>2. CASE v # w
  <2>1. req'[v] = req[v]
    BY <1>2, HandleApart DEF Apart
  <2>2. ASSUME HoldsLock(v), ~At(v, "read"), req[v].rid \in Containers
        PROVE  ctr'[req[v].rid] = ctr[req[v].rid]
    <3>1. req[v].sb \in Sandboxes \ {req[w].sb}
      BY <1>2, <2>2, OneAtWork
    <3>2. ctr[req[v].rid].owner = req[v].sb
      BY <2>2 DEF CInv, Owned, HoldsLock, At
    <3>. QED  BY <2>2, <3>1, <3>2, HandleApart DEF Apart
  <2>3. ASSUME req[v].pc \in {"rtCreate", "inspect", "save"}
        PROVE  /\ Live(req[v].rid)' <=> Live(req[v].rid)
               /\ Live(req[v].rid) => ctr'[req[v].rid] = ctr[req[v].rid]
    BY <2>1, <2>2, <2>3 DEF HoldsLock, At, Live
  <2>. QED  BY <2>1, <2>3 DEF Working, Looking
<1>. QED  BY <1>1, <1>2

\* The command of an image may end at any time: what is running may be stopped.
LEMMA ExitFacts ==
  ASSUME TypeOK, NEW c \in Containers, ContainerExits(c), NEW d
  PROVE  /\ Live(d)' <=> Live(d)
         /\ d \in Containers => /\ ctr'[d].owner = ctr[d].owner
                                /\ ctr'[d].status = "paused" => ctr[d].status = "paused"
                                /\ ctr[d].status = "stopped" => ctr'[d].status = "stopped"
<1>1. ctr[c].status = "running" /\ ctr'[c].status = "stopped"
        /\ ctr'[c].owner = ctr[c].owner /\ \A e \in Containers \ {c} : ctr'[e] = ctr[e]
  BY StatusSet DEF ContainerExits
<1>. QED  BY <1>1 DEF Live

\* A cancelled request is where it was.
LEMMA CancelFacts ==
  ASSUME TypeOK, NEW w \in Requests, Cancel(w), NEW v \in Requests
  PROVE  /\ req'[v].pc = req[v].pc /\ req'[v].kind = req[v].kind
         /\ req'[v].sb = req[v].sb /\ req'[v].row = req[v].row
         /\ req'[v].rid = req[v].rid /\ req'[v].frozen = req[v].frozen
BY DEF TypeOK, Cancel, Request

LEMMA WorldWorking ==
  ASSUME IInv, ModeInv, NEW v \in Requests, Working(v),
         \/ \E w \in Requests : Cancel(w)
         \/ \E c \in Containers : ContainerExits(c)
         \/ Crash \/ Boot \/ UNCHANGED vars
  PROVE  Working(v)'
<1>1. TypeOK
  BY DEF IInv
<1>2. CASE UNCHANGED vars
  BY <1>2 DEF vars, Working, Live
<1>3. CASE Crash
  <2>1. req'[v] = Idle
    BY <1>3 DEF Crash
  <2>. QED  BY <2>1 DEF Working, Idle, Looking
<1>4. CASE Boot
  <2>1. req'[v].pc = "idle"
    BY <1>4 DEF Boot, BootList, BootUnpause, BootServe, ModeInv, At
  <2>. QED  BY <2>1 DEF Working, Looking
<1>5. CASE \E c \in Containers : ContainerExits(c)
  <2>1. PICK c \in Containers : ContainerExits(c)
    BY <1>5
  <2>2. req'[v] = req[v]
    BY <2>1 DEF ContainerExits
  <2>3. /\ Live(req[v].rid)' <=> Live(req[v].rid)
        /\ Live(req[v].rid) =>
             /\ ctr'[req[v].rid].status = "paused" => ctr[req[v].rid].status = "paused"
             /\ ctr[req[v].rid].status = "stopped" => ctr'[req[v].rid].status = "stopped"
    <3>1. Live(req[v].rid) => req[v].rid \in Containers
      BY DEF Live
    <3>2. Live(req[v].rid)' <=> Live(req[v].rid)
      BY <1>1, <2>1, <2>2, ExitFacts DEF Live
    <3>. QED  BY <1>1, <2>1, <3>1, <3>2, ExitFacts
  <2>. QED  BY <2>2, <2>3 DEF Working
<1>6. CASE \E w \in Requests : Cancel(w)
  <2>1. UNCHANGED ctr /\ req'[v].pc = req[v].pc /\ req'[v].kind = req[v].kind
          /\ req'[v].rid = req[v].rid /\ req'[v].row = req[v].row
    BY <1>1, <1>6, CancelFacts DEF Cancel
  <2>. QED  BY <2>1 DEF Working, Live
<1>. QED  BY <1>2, <1>3, <1>4, <1>5, <1>6

LEMMA ArrivalWorking ==
  ASSUME IInv, NEW w \in Requests, NEW s \in Sandboxes, NEW p \in Image,
         NEW kind \in Offered, NEW v \in Requests, Working(v),
         Arrive(w, kind, s, p) \/ ArriveNew(w, kind, s, p)
  PROVE  Working(v)'
<1>1. UNCHANGED ctr /\ req \in [Requests -> Request]
  BY DEF Arrive, ArriveNew, IInv, TypeOK
<1>2. CASE v # w
  <2>1. req'[v] = req[v]
    BY <1>1, <1>2 DEF Arrive, ArriveNew
  <2>. QED  BY <1>1, <2>1 DEF Working, Live
<1>3. CASE v = w /\ Arrive(w, kind, s, p)
  <2>1. req'[v].pc = "lock"
    BY <1>1, <1>3 DEF Arrive, Idle
  <2>. QED  BY <2>1 DEF Working, Looking
<1>4. CASE v = w /\ ArriveNew(w, kind, s, p)
  <2>1. req'[v].pc = "insert" /\ req'[v].rid = NoContainer
    BY <1>1, <1>4 DEF ArriveNew, Idle
  <2>. QED  BY <2>1 DEF Working, Looking
<1>. QED  BY <1>2, <1>3, <1>4

LEMMA StepWorking ==
  ASSUME IInv, CInv, ModeInv, [Next]_vars, NEW v \in Requests, Working(v)
  PROVE  Working(v)'
BY HandleWorking, WorldWorking, ArrivalWorking DEF Next

-------------------------------------------------------------------------------
(* Owners, the boot and the failures that are counted                        *)

LEMMA StepLiveOwned ==
  ASSUME IInv, CInv, LiveOwned, [Next]_vars
  PROVE  LiveOwned'
<1>1. TypeOK
  BY DEF IInv
<1>2. ASSUME NEW c \in Containers, Live(c)'
      PROVE  ctr'[c].owner \in Sandboxes
  <2>1. CASE Tame /\ Quiet
    BY <1>2, <2>1, NullsAssumption DEF Tame, Quiet, LiveOwned
  <2>2. ASSUME NEW w \in Requests, Handle(w)
        PROVE  ctr'[c].owner \in Sandboxes
    <3>1. Tame
      BY <2>2, HandleTame
    <3>2. ASSUME NEW d \in Containers, RtCreate(w, d)
          PROVE  ctr'[c].owner \in Sandboxes
      <4>1. req[w].sb \in Sandboxes
        BY <1>1, <3>2 DEF RtCreate, At, TypeOK
      <4>2. CASE c = d
        BY <1>1, <3>2, <4>1, <4>2 DEF RtCreate, TypeOK
      <4>3. CASE c # d
        <5>1. ctr'[c] = ctr[c]
          BY <1>1, <3>2, <4>3 DEF RtCreate, TypeOK
        <5>. QED  BY <1>2, <5>1 DEF LiveOwned, Live
      <4>. QED  BY <4>2, <4>3
    <3>. QED  BY <2>1, <2>2, <3>1, <3>2, HandleTame
  <2>3. CASE ~\E w \in Requests : Handle(w)
    <3>1. CASE (\E d \in Containers : ContainerExits(d)) \/ Boot
      BY <2>1, <3>1, WorldTame
    <3>2. CASE ~((\E d \in Containers : ContainerExits(d)) \/ Boot)
      <4>1. UNCHANGED ctr
        <5>1. CASE UNCHANGED vars
          BY <5>1 DEF vars
        <5>2. CASE Next
          <6>1. CASE \E w \in Requests, s \in Sandboxes, p \in Image, kind \in Offered :
                       Arrive(w, kind, s, p) \/ ArriveNew(w, kind, s, p)
            BY <6>1 DEF Arrive, ArriveNew
          <6>2. CASE \E w \in Requests : Cancel(w)
            BY <6>2 DEF Cancel
          <6>3. CASE Crash
            BY <6>3 DEF Crash
          <6>. QED  BY <2>3, <3>2, <5>2, <6>1, <6>2, <6>3 DEF Next
        <5>. QED  BY <5>1, <5>2
      <4>. QED  BY <2>1, <4>1, SameTame
    <3>. QED  BY <3>1, <3>2
  <2>. QED  BY <2>2, <2>3
<1>. QED  BY <1>2 DEF LiveOwned

\* What has happened cannot be undone.
LEMMA SpentGrows ==
  ASSUME TypeOK, [Next]_vars
  PROVE  /\ (NoFault' => NoFault) /\ (NoHangup' => NoHangup) /\ (NoDeath' => NoDeath)
         /\ Crash \/ spent.stranded \subseteq spent'.stranded
<1>1. CASE UNCHANGED spent
  BY <1>1 DEF NoFault, NoHangup, NoDeath
<1>2. CASE SpendFault
  BY <1>2 DEF SpendFault, TypeOK, Spent, NoFault, NoHangup, NoDeath
<1>3. CASE \E w \in Requests : Cancel(w)
  BY <1>3 DEF Cancel, TypeOK, Spent, NoFault, NoHangup, NoDeath
<1>4. CASE Crash
  BY <1>4 DEF Crash, TypeOK, Spent, NoFault, NoHangup, NoDeath
<1>5. CASE \E w \in Requests : Handle(w)
  <2>. PICK w \in Requests : Handle(w)
    BY <1>5
  <2>1. CASE Lock(w) \/ Read(w) \/ ReadRejects(w) \/ InsertRow(w) \/ InsertFails(w)
             \/ MarkDestroying(w) \/ Save(w) \/ MarkError(w) \/ ForkWrite(w)
    BY <1>1, <1>2, <2>1 DEF Lock, Read, ReadRejects, InsertRow, InsertFails,
       MarkDestroying, Save, MarkError, ForkWrite, Succeeds, Fails
  <2>2. CASE (\E c \in Containers : RtCreate(w, c)) \/ RtCreateFails(w) \/ RtStart(w)
             \/ RtStop(w) \/ RtDestroy(w) \/ Inspect(w) \/ RtFails(w)
    BY <1>1, <1>2, <2>2 DEF RtCreate, RtCreateFails, RtStart, RtStop, RtDestroy,
       Inspect, RtFails, Performed, Succeeds, Fails
  <2>3. CASE SnapPause(w) \/ SnapPauseFails(w) \/ SnapCommitFails(w)
             \/ (\E p \in Snapshots : SnapCommit(w, p))
    BY <1>1, <1>2, <2>3 DEF SnapPause, SnapPauseFails, SnapCommit, SnapCommitFails,
       Succeeds, Fails
  <2>5. CASE SnapPauseUnheard(w)
    <3>1. SpendFault \/ spent' = [spent EXCEPT !.stranded = @ \cup {req[w].sb}]
      BY <2>5 DEF SnapPauseUnheard
    <3>2. CASE spent' = [spent EXCEPT !.stranded = @ \cup {req[w].sb}]
      BY <3>2 DEF TypeOK, Spent, NoFault, NoHangup, NoDeath
    <3>. QED  BY <1>2, <3>1, <3>2
  <2>4. CASE SnapUnpause(w) \/ SnapRecord(w) \/ SnapRecordFails(w) \/ SnapRollback(w)
             \/ UseFiles(w)
    BY <1>1, <1>2, <2>4 DEF SnapUnpause, SnapRecord, SnapRecordFails, SnapRollback,
       UseFiles, Performed, Succeeds, Fails
  <2>. QED  BY <2>1, <2>2, <2>3, <2>4, <2>5 DEF Handle
<1>6. CASE Boot
  BY <1>1, <1>2, <1>6 DEF Boot, BootList, BootUnpause, BootServe
<1>7. CASE UNCHANGED vars
  BY <1>1, <1>7 DEF vars
<1>8. CASE \E w \in Requests, s \in Sandboxes, p \in Image, kind \in Offered :
             Arrive(w, kind, s, p) \/ ArriveNew(w, kind, s, p)
  BY <1>1, <1>8 DEF Arrive, ArriveNew
<1>9. CASE \E c \in Containers : ContainerExits(c)
  BY <1>1, <1>9 DEF ContainerExits
<1>. QED  BY <1>3, <1>4, <1>5, <1>6, <1>7, <1>8, <1>9 DEF Next

\* A hang-up or a death that a step counts has happened.
LEMMA OthersCount ==
  ASSUME TypeOK
  PROVE  /\ (\E w \in Requests : Cancel(w)) => ~NoHangup'
         /\ Crash => ~NoDeath'
<1>1. spent.cancels \in Nat /\ spent.crashes \in Nat /\ spent \in Spent
  BY DEF TypeOK, Spent
<1>2. ASSUME NEW w \in Requests, Cancel(w)
      PROVE  ~NoHangup'
  <2>1. spent'.cancels = spent.cancels + 1
    BY <1>1, <1>2 DEF Cancel, Spent
  <2>. QED  BY <1>1, <2>1 DEF NoHangup
<1>3. ASSUME Crash
      PROVE  ~NoDeath'
  <2>1. spent'.crashes = spent.crashes + 1
    BY <1>1, <1>3 DEF Crash, Spent
  <2>. QED  BY <1>1, <2>1 DEF NoDeath
<1>. QED  BY <1>2, <1>3

\* A fault that a step counts has happened.
LEMMA FaultCounts ==
  ASSUME TypeOK, SpendFault
  PROVE  ~NoFault'
BY DEF SpendFault, TypeOK, Spent, NoFault

\* A handler goes on, or returns: only a snapshot's pause sets a flag.
LEMMA HandleFlags ==
  ASSUME TypeOK, NEW w \in Requests, Handle(w)
  PROVE  \/ req'[w] = Idle
         \/ /\ req'[w].dead = req[w].dead /\ req'[w].sb = req[w].sb
            /\ \/ req'[w].frozen = req[w].frozen
               \/ At(w, "pause") /\ req'[w].pc = "commit"
<1>1. req[w] \in Request /\ req \in [Requests -> Request]
  BY DEF TypeOK
<1>2. CASE Return(w)
  BY <1>2, ReturnIdles
<1>3. CASE \E pc : Goto(w, pc)
  BY <1>3, GotoMoves
<1>4. CASE Read(w)
  BY <1>1, <1>4 DEF Read, Request
<1>5. CASE InsertRow(w)
  BY <1>1, <1>5 DEF InsertRow, Request
<1>6. CASE MarkDestroying(w) /\ ~Return(w)
  BY <1>1, <1>6 DEF MarkDestroying, Request
<1>7. CASE Save(w) /\ ~Return(w)
  BY <1>1, <1>7 DEF Save, Request
<1>8. CASE \E c \in Containers : RtCreate(w, c)
  BY <1>1, <1>3, <1>8 DEF RtCreate, Request
<1>9. CASE SnapPause(w)
  BY <1>1, <1>2, <1>3, <1>9 DEF SnapPause, Request
<1>10. CASE \E p \in Snapshots : SnapCommit(w, p)
  BY <1>1, <1>3, <1>10 DEF SnapCommit, Request
<1>. QED  BY <1>2, <1>3, <1>4, <1>5, <1>6, <1>7, <1>8, <1>9, <1>10
     DEF Handle, Lock, ReadRejects, InsertFails, MarkError, ForkWrite, RtCreateFails,
     RtStart, RtStop, RtDestroy, Inspect, RtFails, Performed, SnapPauseUnheard,
     SnapPauseFails, SnapCommitFails, SnapUnpause, SnapRecord, SnapRecordFails, SnapRollback, UseFiles

LEMMA StepThaws ==
  ASSUME IInv, CInv, [Next]_vars, NEW v \in Requests, Thaws(v)
  PROVE  Thaws(v)'
<1>1. TypeOK
  BY DEF IInv
<1>2. CASE req'[v] = req[v] \/ req'[v] = Idle
  BY <1>2 DEF Thaws, Idle
<1>3. ASSUME NEW w \in Requests, Handle(w)
      PROVE  Thaws(v)'
  <2>1. CASE v # w
    BY <1>2, <1>3, <2>1, HandleApart DEF Apart
  <2>2. CASE v = w /\ req'[w].frozen = req[w].frozen /\ req[w].frozen
    <3>1. req[w].pc \in {"commit", "unpause", "record", "rollback"}
      BY <2>2 DEF Thaws
    <3>2. CASE Return(w)
      BY <1>1, <1>2, <2>2, <3>2, ReturnIdles
    <3>3. CASE \E p \in Snapshots : SnapCommit(w, p) /\ ~Goto(w, "unpause")
      <4>1. req'[w].pc = "unpause"
        BY <1>1, <3>3 DEF SnapCommit, TypeOK, Request
      <4>. QED  BY <2>2, <4>1 DEF Thaws
    <3>4. CASE \E pc \in {"unpause", "record", "rollback"} : Goto(w, pc)
      <4>1. req'[w].pc \in {"unpause", "record", "rollback"}
        BY <1>1, <3>4, GotoMoves
      <4>. QED  BY <2>2, <4>1 DEF Thaws
    <3>. QED  BY <1>3, <3>1, <3>2, <3>3, <3>4 DEF
         Handle, Lock, Read, ReadRejects, InsertRow, InsertFails,
         MarkDestroying, Save, MarkError, ForkWrite, RtCreate, RtCreateFails,
         RtStart, RtStop, RtDestroy, Inspect, RtFails, SnapPause, SnapPauseUnheard,
         SnapPauseFails,
         SnapCommit, SnapCommitFails, SnapUnpause, SnapRecord, SnapRecordFails,
         SnapRollback, UseFiles, At
  <2>3. CASE v = w /\ ~(req'[w].frozen = req[w].frozen /\ req[w].frozen)
    <3>1. \/ req'[w] = Idle \/ req'[w].pc = "commit"
          \/ req'[w].frozen = req[w].frozen
      BY <1>1, <1>3, HandleFlags
    <3>. QED  BY <1>2, <2>3, <3>1 DEF Thaws
  <2>. QED  BY <2>1, <2>2, <2>3
<1>4. ASSUME NEW w \in Requests, NEW s \in Sandboxes, NEW p \in Image,
             NEW kind \in Offered,
             Arrive(w, kind, s, p) \/ ArriveNew(w, kind, s, p)
      PROVE  Thaws(v)'
  <2>1. CASE v # w
    BY <1>1, <1>2, <1>4, <2>1 DEF Arrive, ArriveNew, TypeOK
  <2>2. CASE v = w /\ Arrive(w, kind, s, p)
    <3>1. ~req'[v].frozen
      BY <1>1, <2>2 DEF Arrive, TypeOK, Idle
    <3>. QED  BY <3>1 DEF Thaws
  <2>3. CASE v = w /\ ArriveNew(w, kind, s, p)
    <3>1. ~req'[v].frozen
      BY <1>1, <2>3 DEF ArriveNew, TypeOK, Idle
    <3>. QED  BY <3>1 DEF Thaws
  <2>. QED  BY <1>4, <2>1, <2>2, <2>3
<1>5. CASE \E w \in Requests : Cancel(w)
  BY <1>1, <1>5, CancelFacts DEF Thaws
<1>6. CASE Crash \/ UNCHANGED req
  BY <1>2, <1>6 DEF Crash
<1>. QED  BY <1>3, <1>4, <1>5, <1>6 DEF Next, ContainerExits, Boot, BootList,
     BootUnpause, BootServe, vars

LEMMA StepModes ==
  ASSUME IInv, CInv, ModeInv, [Next]_vars
  PROVE  ModeInv'
<1>1. TypeOK /\ (NoDeath' => NoDeath) /\ (NoHangup' => NoHangup)
  BY SpentGrows DEF IInv
<1>2. CASE UNCHANGED vars
  BY <1>2 DEF vars, ModeInv, At, NoDeath, NoHangup
<1>3. ASSUME NEW w \in Requests, Handle(w)
      PROVE  ModeInv'
  <2>1. mode = "serving" /\ mode' = "serving"
    <3>1. ~At(w, "idle")
      BY <1>3, Busy DEF At
    <3>2. mode' = mode
      BY <1>3, HandleApart DEF Apart
    <3>. QED  BY <3>1, <3>2 DEF ModeInv
  <2>2. ASSUME NEW v \in Requests, ~req[v].dead
        PROVE  ~req'[v].dead
    <3>1. CASE v # w
      BY <1>3, <2>2, <3>1, HandleApart DEF Apart
    <3>2. CASE v = w
      BY <1>1, <1>3, <2>2, <3>2, HandleFlags DEF Idle
    <3>. QED  BY <3>1, <3>2
  <2>. QED  BY <1>1, <2>1, <2>2 DEF ModeInv
<1>4. ASSUME NEW w \in Requests, NEW s \in Sandboxes, NEW p \in Image,
             NEW kind \in Offered,
             Arrive(w, kind, s, p) \/ ArriveNew(w, kind, s, p)
      PROVE  ModeInv'
  <2>1. mode = "serving" /\ mode' = "serving"
    BY <1>4 DEF Arrive, ArriveNew
  <2>2. ASSUME NEW v \in Requests
        PROVE  ~req'[v].dead \/ req'[v] = req[v]
    <3>1. CASE v # w
      BY <1>1, <1>4, <3>1 DEF Arrive, ArriveNew, TypeOK
    <3>2. CASE v = w /\ Arrive(w, kind, s, p)
      BY <1>1, <3>2 DEF Arrive, TypeOK, Idle
    <3>3. CASE v = w /\ ArriveNew(w, kind, s, p)
      BY <1>1, <3>3 DEF ArriveNew, TypeOK, Idle
    <3>. QED  BY <1>4, <3>1, <3>2, <3>3
  <2>. QED  BY <1>1, <2>1, <2>2 DEF ModeInv
<1>5. ASSUME NEW w \in Requests, Cancel(w)
      PROVE  ModeInv'
  <2>1. ~NoHangup' /\ mode' = mode /\ mode = "serving"
    BY <1>1, <1>5 DEF Cancel, TypeOK, NoHangup, ModeInv
  <2>. QED  BY <1>1, <2>1 DEF ModeInv
<1>6. CASE Crash
  <2>1. ~NoDeath' /\ \A v \in Requests : req'[v] = Idle
    BY <1>1, <1>6 DEF Crash, TypeOK, NoDeath
  <2>. QED  BY <2>1 DEF ModeInv, Idle, At
<1>7. CASE (\E c \in Containers : ContainerExits(c)) \/ Boot
  <2>1. UNCHANGED req /\ (mode' = mode \/ (mode # "serving"))
    BY <1>7 DEF ContainerExits, Boot, BootList, BootUnpause, BootServe
  <2>. QED  BY <1>1, <2>1 DEF ModeInv, At
<1>. QED  BY <1>2, <1>3, <1>4, <1>5, <1>6, <1>7 DEF Next

-------------------------------------------------------------------------------
(* Settled rows tell the truth                                               *)

\* What a step of w leaves alone of a sandbox it does not work on.
LEMMA OtherSandbox ==
  ASSUME IInv, CInv, NEW w \in Requests, Handle(w),
         NEW t \in Sandboxes, t # req[w].sb
  PROVE  /\ rows'[t] = rows[t] /\ lock'[t] = lock[t]
         /\ lock[t] # Free => lock[t] \in Requests /\ req'[lock[t]] = req[lock[t]]
         /\ rows[t].rid \in Containers => ctr'[rows[t].rid] = ctr[rows[t].rid]
<1>1. Apart(w)
  BY HandleApart
<1>2. lock[t] # Free => lock[t] \in Requests \ {w}
  BY DEF IInv, TypeOK, MutualExclusion
<1>3. rows[t].rid \in Containers => ctr[rows[t].rid].owner = t
  BY DEF CInv, RowsOwn
<1>. QED  BY <1>1, <1>2, <1>3 DEF Apart

LEMMA Truthful ==
  ASSUME NEW t, RowTrue(t), rows'[t] = rows[t],
         rows[t].rid \in Containers => ctr'[rows[t].rid] = ctr[rows[t].rid]
  PROVE  RowTrue(t)'
BY DEF RowTrue, Live

\* The row of the sandbox that a handler works on, when the step is taken.
LEMMA ActorTruth ==
  ASSUME IInv, CInv, NEW w \in Requests, Working(w), Thaws(w), Handle(w), ~req[w].dead,
         NEW s \in Sandboxes, s = req[w].sb,
         Settled(s) => RowTrue(s),
         Freezes(w) => rows[s].state # "stopped"
  PROVE  /\ Settled(s)' => RowTrue(s)'
         /\ Freezes(w)' => rows'[s].state # "stopped"
<1>. DEFINE r == req[w]
            n == req'[w]
<1>1. r \in Request /\ r.row \in Row /\ TypeOK /\ Owned(w)
  BY DEF IInv, TypeOK, CInv, Request
<1>2. HoldsLock(w) => lock[s] = w /\ w # Free /\ (~At(w, "read") => r.row = rows[s])
  BY Holder
<1>3. ASSUME HoldsLock(w), lock' = lock,
             n.pc \notin (Looking \ {"mark"}) \cup {"read", "insert"}
      PROVE  ~Settled(s)' /\ ~Freezes(w)'
  BY <1>2, <1>3 DEF Settled, Freezes, Looking
<1>4. r.pc \in (Looking \ {"mark"}) \cup {"read", "insert"} => HoldsLock(w) /\ RowTrue(s)
  BY <1>2 DEF Settled, HoldsLock, Looking
<1>5. UNCHANGED <<rows, ctr>> /\ RowTrue(s) => RowTrue(s)'
  BY DEF RowTrue, Live
<1>6. CASE Lock(w)
  <2>1. RowTrue(s) /\ n.pc = "read"
    BY <1>1, <1>6, GotoMoves DEF Lock, Settled
  <2>. QED  BY <1>5, <1>6, <2>1 DEF Lock, Freezes
<1>7. CASE Read(w)
  <2>1. RowTrue(s) /\ n = [r EXCEPT !.row = rows[s], !.rid = rows[s].rid,
                                    !.pc = FirstStep(r.kind, rows[s])]
    BY <1>1, <1>4, <1>7 DEF Read, At, TypeOK
  <2>2. n.pc = FirstStep(r.kind, rows[s])
    BY <1>1, <2>1 DEF Request
  <2>3. n.pc \notin {"commit", "unpause"}
    BY <2>2 DEF FirstStep
  <2>. QED  BY <1>5, <1>7, <2>1, <2>3 DEF Read, Freezes
<1>8. CASE ReadRejects(w) \/ InsertFails(w) \/ SnapPauseFails(w) \/ SnapRecord(w)
           \/ SnapRollback(w) \/ UseFiles(w)
  <2>1. RowTrue(s) /\ UNCHANGED <<rows, ctr>> /\ Return(w)
    BY <1>4, <1>8 DEF ReadRejects, InsertFails, SnapPauseFails, SnapRecord,
       SnapRollback, UseFiles, At, Looking
  <2>. QED  BY <1>1, <1>5, <2>1, ReturnIdles DEF Idle, Freezes
<1>9. CASE InsertRow(w)
  <2>1. n = [r EXCEPT !.row = NewRow, !.pc = "rtCreate"]
    BY <1>1, <1>9 DEF InsertRow, TypeOK
  <2>2. n.pc = "rtCreate"
    BY <1>1, <2>1 DEF Request
  <2>. QED  BY <1>3, <1>9, <2>2 DEF InsertRow, HoldsLock, At, Looking
<1>10. CASE MarkDestroying(w)
  <2>. DEFINE row == [r.row EXCEPT !.state = "destroying"]
  <2>1. n = [r EXCEPT !.row = row,
                 !.pc = IF row.rid = NoContainer THEN "save" ELSE "rtDestroy"]
    BY <1>1, <1>10 DEF MarkDestroying, TypeOK
  <2>2. n.pc \in {"save", "rtDestroy"}
    BY <1>1, <2>1 DEF Request
  <2>. QED  BY <1>3, <1>10, <2>2 DEF MarkDestroying, HoldsLock, At, Looking
<1>11. CASE Save(w)
  <2>1. UNCHANGED ctr /\ rows'[s] = Outcome(r) /\ r.pc = "save"
    BY <1>1, <1>11 DEF Save, Update, At, TypeOK
  <2>2. Outcome(r).rid = r.rid /\ Outcome(r).state = Target(r.kind)
    BY DEF Outcome
  <2>3. /\ Target(r.kind) = "running" => Live(r.rid)
        /\ Target(r.kind) = "stopped" => Live(r.rid) /\ ctr[r.rid].status = "stopped"
        /\ Target(r.kind) \notin {"creating", "destroying"}
    BY <2>1 DEF Working, Target
  <2>4. n.pc \in {"idle", "lock"}
    <3>1. CASE Return(w)
      BY <1>1, <3>1, ReturnIdles DEF Idle
    <3>2. CASE ~Return(w)
      BY <1>1, <1>11, <3>2 DEF Save, TypeOK, Request
    <3>. QED  BY <3>1, <3>2
  <2>. QED  BY <2>1, <2>2, <2>3, <2>4 DEF RowTrue, Live, Freezes
<1>12. CASE MarkError(w)
  <2>1. rows'[s] = [r.row EXCEPT !.state = "error", !.rid = r.rid] /\ n = Idle
    BY <1>1, <1>12, ReturnIdles DEF MarkError, Update, TypeOK
  <2>2. rows'[s].state = "error"
    BY <1>1, <2>1 DEF Row
  <2>. QED  BY <2>1, <2>2 DEF RowTrue, Freezes, Idle
<1>13. CASE ForkWrite(w)
  <2>1. /\ rows'[s] = [r.row EXCEPT !.parent = r.snap] /\ n = Idle /\ UNCHANGED ctr
        /\ RowTrue(s) /\ r.row = rows[s]
    BY <1>1, <1>2, <1>4, <1>13, ReturnIdles DEF ForkWrite, Update, At, TypeOK, Looking
  <2>2. rows'[s].state = rows[s].state /\ rows'[s].rid = rows[s].rid
    BY <1>1, <2>1 DEF Row
  <2>3. RowTrue(s)'
    BY <2>1, <2>2 DEF RowTrue, Live
  <2>4. ~Freezes(w)'
    BY <2>1 DEF Freezes, Idle
  <2>. QED  BY <2>3, <2>4
<1>14. ASSUME NEW c \in Containers, RtCreate(w, c)
       PROVE  /\ Settled(s)' => RowTrue(s)'
              /\ Freezes(w)' => rows'[s].state # "stopped"
  <2>1. HoldsLock(w) /\ lock' = lock
    BY <1>14 DEF RtCreate, At, HoldsLock
  <2>2. n.pc \in {"rtStart", "markError"}
    <3>1. CASE Goto(w, "markError")
      BY <1>1, <3>1, GotoMoves
    <3>2. CASE ~Goto(w, "markError")
      BY <1>1, <1>14, <3>2 DEF RtCreate, TypeOK, Request
    <3>. QED  BY <3>1, <3>2
  <2>. QED  BY <1>3, <2>1, <2>2 DEF Looking
<1>15. CASE RtCreateFails(w) \/ RtStart(w) \/ RtStop(w) \/ RtDestroy(w) \/ Inspect(w)
            \/ RtFails(w)
  <2>1. HoldsLock(w) /\ lock' = lock
    BY <1>15 DEF RtCreateFails, RtStart, RtStop, RtDestroy, Inspect, RtFails, At, HoldsLock
  <2>2. \E pc \in {"markError", "save", "inspect", "rtCreate"} : Goto(w, pc)
    BY <1>15 DEF RtCreateFails, RtStart, RtStop, RtDestroy, Inspect, RtFails, Performed
  <2>3. n.pc \in {"markError", "save", "inspect", "rtCreate"}
    BY <1>1, <2>2, GotoMoves
  <2>. QED  BY <1>3, <2>1, <2>3 DEF Looking
<1>16. CASE SnapPause(w)
  <2>1. RowTrue(s) /\ r.rid = rows[s].rid /\ Live(r.rid) /\ r.rid \in Containers
          /\ UNCHANGED rows
    BY <1>2, <1>4, <1>16 DEF SnapPause, At, Looking, Working, Live
  <2>2. CASE ctr[r.rid].status = "running"
    <3>1. ctr'[r.rid].status = "paused"
      BY <1>1, <1>16, <2>1, <2>2, StatusSet DEF SnapPause
    <3>2. rows[s].state # "stopped"
      BY <2>1, <2>2 DEF RowTrue
    <3>. QED  BY <2>1, <3>1, <3>2 DEF RowTrue, Live
  <2>3. CASE ctr[r.rid].status # "running"
    <3>1. UNCHANGED ctr /\ Goto(w, "commit")
      BY <1>16, <2>3 DEF SnapPause
    <3>2. ~n.frozen
      BY <1>1, <1>16, <3>1, GotoMoves DEF SnapPause, At, Thaws
    <3>. QED  BY <1>5, <2>1, <3>1, <3>2 DEF Freezes
  <2>. QED  BY <2>2, <2>3
<1>20. CASE SnapPauseUnheard(w)
  <2>1. RowTrue(s) /\ r.rid = rows[s].rid /\ r.rid \in Containers /\ UNCHANGED rows
          /\ SetStatus(r.rid, "paused") /\ Return(w) /\ ctr[r.rid].status = "running"
    BY <1>2, <1>4, <1>20 DEF SnapPauseUnheard, At, Looking, Working, Live
  <2>2. ctr'[r.rid].status = "paused" /\ rows[s].state # "stopped"
    BY <1>1, <2>1, StatusSet DEF RowTrue
  <2>3. n.pc = "idle"
    BY <1>1, <2>1, ReturnIdles DEF Idle
  <2>. QED  BY <1>5, <2>1, <2>2, <2>3 DEF RowTrue, Live, Freezes
<1>17. CASE (\E p \in Snapshots : SnapCommit(w, p)) \/ SnapCommitFails(w)
  <2>1. RowTrue(s) /\ UNCHANGED <<rows, ctr>> /\ r.pc = "commit"
    BY <1>4, <1>17 DEF SnapCommit, SnapCommitFails, At, Looking
  <2>2. n.frozen => r.frozen
    BY <1>1, <2>1, HandleFlags DEF At, Idle
  <2>. QED  BY <1>5, <2>1, <2>2 DEF Freezes
<1>18. CASE SnapUnpause(w)
  <2>1. RowTrue(s) /\ r.rid = rows[s].rid /\ Live(r.rid) /\ r.rid \in Containers
          /\ UNCHANGED rows
    BY <1>1, <1>2, <1>4, <1>18 DEF SnapUnpause, At, Looking, Working, Owned, Live
  <2>2. n.pc \in {"idle", "record"}
    BY <1>1, <1>18, ReturnIdles, GotoMoves DEF SnapUnpause, Idle
  <2>3. CASE UNCHANGED ctr
    BY <1>5, <2>1, <2>2, <2>3 DEF Freezes
  <2>4. CASE ~UNCHANGED ctr
    <3>1. SetStatus(r.rid, "running") /\ rows[s].state # "stopped"
      BY <1>18, <2>4 DEF SnapUnpause, Freezes, At
    <3>2. ctr'[r.rid].status = "running"
      BY <1>1, <2>1, <3>1, StatusSet
    <3>. QED  BY <2>1, <2>2, <3>1, <3>2 DEF RowTrue, Live, Freezes
  <2>. QED  BY <2>3, <2>4
<1>19. CASE SnapRecordFails(w)
  <2>1. RowTrue(s) /\ UNCHANGED <<rows, ctr>> /\ n.pc = "rollback"
    BY <1>1, <1>4, <1>19, GotoMoves DEF SnapRecordFails, At, Looking
  <2>. QED  BY <1>5, <2>1 DEF Freezes
<1>. QED  BY <1>6, <1>7, <1>8, <1>9, <1>10, <1>11, <1>12, <1>13, <1>14, <1>15, <1>16,
             <1>17, <1>18, <1>19, <1>20 DEF Handle

LEMMA HandleTruth ==
  ASSUME IInv, CInv, ModeInv, TruthInv, NEW w \in Requests, Working(w), Thaws(w),
         Handle(w), (NoHangup /\ NoDeath)' => NoHangup /\ NoDeath
  PROVE  TruthInv'
<1>. SUFFICES ASSUME NoHangup', NoDeath'
              PROVE  /\ \A t \in Sandboxes : Settled(t)' => RowTrue(t)'
                     /\ \A v \in Requests : Freezes(v)' => rows'[req'[v].sb].state # "stopped"
  BY DEF TruthInv
<1>1. NoHangup /\ NoDeath /\ ~req[w].dead
  BY DEF ModeInv
<1>2. PICK s \in Sandboxes : s = req[w].sb
  BY Busy
<1>3. /\ Settled(s)' => RowTrue(s)'
      /\ Freezes(w)' => rows'[s].state # "stopped"
  BY <1>1, <1>2, ActorTruth DEF TruthInv
<1>4. ASSUME NEW t \in Sandboxes, Settled(t)'
      PROVE  RowTrue(t)'
  <2>1. CASE t = s
    BY <1>3, <1>4, <2>1
  <2>2. CASE t # s
    <3>1. /\ rows'[t] = rows[t] /\ lock'[t] = lock[t]
          /\ lock[t] # Free => req'[lock[t]] = req[lock[t]]
          /\ rows[t].rid \in Containers => ctr'[rows[t].rid] = ctr[rows[t].rid]
      BY <1>2, <2>2, OtherSandbox
    <3>2. Settled(t)
      BY <1>4, <3>1 DEF Settled
    <3>3. RowTrue(t)
      BY <1>1, <3>2 DEF TruthInv
    <3>. QED  BY <3>1, <3>3, Truthful
  <2>. QED  BY <2>1, <2>2
<1>5. ASSUME NEW v \in Requests, Freezes(v)'
      PROVE  rows'[req'[v].sb].state # "stopped"
  <2>1. CASE v = w
    <3>1. req'[w].sb = s
      <4>1. req'[w].pc # "idle" /\ HoldsLock(w)'
        BY <1>5, <2>1 DEF Freezes, HoldsLock
      <4>2. CASE req'[w].sb = req[w].sb
        BY <1>2, <4>2
      <4>3. req'[w].sb = req[w].sb \/ req'[w] = Idle
        BY HandleFlags DEF IInv
      <4>. QED  BY <4>1, <4>2, <4>3 DEF Idle
    <3>. QED  BY <1>3, <1>5, <2>1, <3>1
  <2>2. CASE v # w
    <3>1. req'[v] = req[v] /\ HoldsLock(v)
      BY <1>5, <2>2, HandleApart DEF Apart, Freezes, HoldsLock
    <3>2. req[v].sb \in Sandboxes \ {s}
      BY <1>2, <2>2, <3>1, OneAtWork
    <3>3. rows[req[v].sb].state # "stopped"
      BY <1>1, <1>5, <3>1 DEF TruthInv, Freezes
    <3>. QED  BY <1>2, <3>1, <3>2, <3>3, HandleApart DEF Apart
  <2>. QED  BY <2>1, <2>2
<1>. QED  BY <1>4, <1>5
\* An arrival takes a free mutex or none, and no row changes.
LEMMA ArrivalFacts ==
  ASSUME IInv, NEW w \in Requests, NEW s \in Sandboxes, NEW p \in Image,
         NEW kind \in Offered, Arrive(w, kind, s, p) \/ ArriveNew(w, kind, s, p)
  PROVE  /\ UNCHANGED <<rows, ctr, mode, todo, spent>>
         /\ \A v \in Requests \ {w} : req'[v] = req[v]
         /\ req'[w].pc \in {"lock", "insert"}
         /\ \A t \in Sandboxes :
              \/ lock'[t] = lock[t]
              \/ /\ t = s /\ lock[t] = Free /\ lock'[t] = w
                 /\ rows[t].rid = NoContainer
                 /\ req'[w].pc = "insert" /\ req'[w].rid = NoContainer
         /\ \A t \in Sandboxes : lock[t] # Free => lock[t] \in Requests \ {w}
<1>1. TypeOK /\ At(w, "idle")
  BY DEF IInv, Arrive, ArriveNew
<1>2. \A t \in Sandboxes : lock[t] # Free => lock[t] \in Requests \ {w}
  BY <1>1 DEF IInv, TypeOK, MutualExclusion, HoldsLock, At
<1>3. CASE Arrive(w, kind, s, p)
  BY <1>1, <1>2, <1>3 DEF Arrive, TypeOK, Idle
<1>4. CASE ArriveNew(w, kind, s, p)
  <2>1. rows[s] = AbsentRow /\ rows[s].rid = NoContainer
    BY <1>4 DEF IInv, ArriveNew, AbsentRow
  <2>2. req'[w].pc = "insert" /\ req'[w].rid = NoContainer
    BY <1>1, <1>4 DEF ArriveNew, TypeOK, Idle
  <2>3. /\ \A t \in Sandboxes \ {s} : lock'[t] = lock[t]
        /\ lock[s] = Free /\ lock'[s] = w
        /\ \A v \in Requests \ {w} : req'[v] = req[v]
        /\ UNCHANGED <<rows, ctr, mode, todo, spent>>
    BY <1>1, <1>4 DEF ArriveNew, TypeOK
  <2>. QED  BY <1>2, <2>1, <2>2, <2>3
<1>. QED  BY <1>3, <1>4

LEMMA StepTruth ==
  ASSUME IInv, CInv, ModeInv, TruthInv, [Next]_vars,
         \A w \in Requests : Working(w) /\ Thaws(w)
  PROVE  TruthInv'
<1>1. TypeOK /\ ((NoHangup /\ NoDeath)' => NoHangup /\ NoDeath)
  BY SpentGrows DEF IInv
<1>2. CASE UNCHANGED vars
  BY <1>2 DEF vars, TruthInv, NoHangup, NoDeath, Settled, RowTrue, Live, Freezes
<1>3. CASE \E w \in Requests : Handle(w)
  BY <1>1, <1>3, HandleTruth
<1>4. CASE (\E w \in Requests : Cancel(w)) \/ Crash
  <2>1. ~(NoHangup /\ NoDeath)'
    BY <1>1, <1>4, OthersCount
  <2>. QED  BY <2>1 DEF TruthInv
<1>5. CASE Boot
  <2>1. ~NoDeath
    BY <1>5 DEF Boot, BootList, BootUnpause, BootServe, ModeInv
  <2>. QED  BY <1>1, <2>1 DEF TruthInv
<1>6. ASSUME NEW c \in Containers, ContainerExits(c), (NoHangup /\ NoDeath)'
      PROVE  TruthInv'
  <2>1. UNCHANGED <<rows, lock, req>>
    BY <1>6 DEF ContainerExits
  <2>2. ASSUME NEW t \in Sandboxes, Settled(t)
        PROVE  RowTrue(t)'
    <3>1. RowTrue(t)
      BY <1>1, <1>6, <2>2 DEF TruthInv
    <3>2. /\ Live(rows[t].rid) => Live(rows[t].rid)' /\ rows[t].rid \in Containers
          /\ rows[t].rid \in Containers /\ ctr[rows[t].rid].status = "stopped" =>
               ctr'[rows[t].rid].status = "stopped"
      BY <1>1, <1>6, <2>1, ExitFacts DEF Live
    <3>. QED  BY <2>1, <3>1, <3>2 DEF RowTrue
  <2>. QED  BY <1>1, <1>6, <2>1, <2>2 DEF TruthInv, Settled, Freezes
<1>7. ASSUME NEW w \in Requests, NEW s \in Sandboxes, NEW p \in Image,
             NEW kind \in Offered, (NoHangup /\ NoDeath)',
             Arrive(w, kind, s, p) \/ ArriveNew(w, kind, s, p)
      PROVE  TruthInv'
  <2>1. UNCHANGED <<rows, ctr>> /\ NoHangup /\ NoDeath
    BY <1>1, <1>7, ArrivalFacts
  <2>2. ASSUME NEW t \in Sandboxes, Settled(t)'
        PROVE  RowTrue(t)'
    <3>1. Settled(t)
      <4>1. \/ lock'[t] = lock[t] \/ lock[t] = Free
        BY <1>7, ArrivalFacts
      <4>2. lock[t] # Free => req'[lock[t]] = req[lock[t]]
        BY <1>7, ArrivalFacts
      <4>. QED  BY <2>2, <4>1, <4>2 DEF Settled
    <3>2. RowTrue(t)
      BY <2>1, <3>1 DEF TruthInv
    <3>. QED  BY <2>1, <3>2 DEF RowTrue, Live
  <2>3. ASSUME NEW v \in Requests, Freezes(v)'
        PROVE  rows'[req'[v].sb].state # "stopped"
    <3>1. req'[v] = req[v]
      BY <1>7, <2>3, ArrivalFacts DEF Freezes
    <3>. QED  BY <2>1, <2>3, <3>1 DEF TruthInv, Freezes
  <2>. QED  BY <2>2, <2>3 DEF TruthInv
<1>8. CASE ~(NoHangup /\ NoDeath)'
  BY <1>8 DEF TruthInv
<1>. QED  BY <1>2, <1>3, <1>4, <1>5, <1>6, <1>7, <1>8 DEF Next

-------------------------------------------------------------------------------
(* Running sandboxes are not left frozen                                     *)

\* What a step of w does, while no call fails, to the sandbox it works on.
LEMMA ActorFreeze ==
  ASSUME IInv, CInv, NEW w \in Requests, Working(w), Thaws(w), Handle(w), NoFault',
         NEW s \in Sandboxes, s = req[w].sb,
         FrozenRow(s) => lock[s] # Free /\ Freezes(lock[s]),
         FrozenRow(s)', s \notin spent'.stranded
  PROVE  lock'[s] # Free /\ Freezes(lock[s])'
<1>. DEFINE r == req[w]
            n == req'[w]
<1>1. r \in Request /\ r.row \in Row /\ TypeOK /\ Owned(w) /\ ~SpendFault
  BY FaultCounts DEF IInv, TypeOK, CInv, Request
<1>2. HoldsLock(w) => lock[s] = w /\ w # Free /\ (~At(w, "read") => r.row = rows[s])
  BY Holder
<1>3. ~FrozenRow(s) \/ (lock[s] = w /\ w # Free /\ r.pc \in {"commit", "unpause"} /\ r.frozen)
  <2>1. CASE HoldsLock(w)
    BY <1>2, <2>1 DEF Freezes
  <2>2. CASE Lock(w)
    BY <2>2 DEF Lock
  <2>. QED  BY <2>1, <2>2, Busy
<1>4. CASE UNCHANGED <<rows, ctr>>
  <2>1. FrozenRow(s)
    BY <1>4 DEF FrozenRow
  <2>2. lock[s] = w /\ w # Free /\ r.pc \in {"commit", "unpause"} /\ r.frozen
    BY <1>3, <2>1
  <2>3. CASE (\E p \in Snapshots : SnapCommit(w, p)) \/ SnapCommitFails(w)
    <3>1. lock' = lock /\ r.pc = "commit"
      BY <2>3 DEF SnapCommit, SnapCommitFails, At
    <3>2. n.pc = "unpause"
      <4>1. CASE Goto(w, "unpause")
        BY <1>1, <4>1, GotoMoves
      <4>2. CASE ~Goto(w, "unpause")
        <5>1. PICK p \in Snapshots : req' = [req EXCEPT ![w].snap = p, ![w].pc = "unpause"]
          BY <2>3, <4>2 DEF SnapCommit, SnapCommitFails
        <5>2. req \in [Requests -> Request] /\ req[w] \in Request
          BY <1>1 DEF TypeOK
        <5>. QED  BY <1>1, <5>1, <5>2 DEF Request
      <4>. QED  BY <4>1, <4>2
    <3>3. n.frozen
      BY <1>1, <2>2, <3>1, <3>2, HandleFlags DEF At, Idle
    <3>. QED  BY <2>2, <3>1, <3>2, <3>3 DEF Freezes
  <2>4. CASE SnapUnpause(w)
    <3>1. SetStatus(r.rid, "running")
      BY <1>1, <2>2, <2>4 DEF SnapUnpause
    <3>2. r.rid = rows[s].rid
      BY <1>2, <2>2 DEF Working, Looking, HoldsLock, At
    <3>3. ctr'[rows[s].rid].status = "running"
      BY <1>1, <2>1, <3>1, <3>2, StatusSet DEF FrozenRow
    <3>. QED  BY <1>4, <3>3 DEF FrozenRow
  <2>. QED  BY <2>2, <2>3, <2>4 DEF Handle, Lock, Read, ReadRejects, InsertRow, InsertFails,
     MarkDestroying, Save, MarkError, ForkWrite, RtCreate, RtCreateFails, RtStart,
     RtStop, RtDestroy, Inspect, RtFails, SnapPause, SnapPauseUnheard, SnapPauseFails,
     SnapRecord, SnapRecordFails, SnapRollback, UseFiles, At
<1>5. CASE Save(w)
  <2>1. UNCHANGED ctr /\ r.pc = "save" /\ (rows'[s] = Outcome(r) \/ UNCHANGED rows)
    BY <1>1, <1>5 DEF Save, Update, At, TypeOK
  <2>2. Outcome(r).rid = r.rid /\ Outcome(r).state = Target(r.kind)
    BY DEF Outcome
  <2>3. Target(r.kind) = "running" => ctr[r.rid].status # "paused"
    BY <2>1 DEF Working, Target
  <2>. QED  BY <1>4, <2>1, <2>2, <2>3 DEF FrozenRow
<1>6. CASE MarkError(w)
  <2>1. UNCHANGED ctr
          /\ (rows'[s] = [r.row EXCEPT !.state = "error", !.rid = r.rid] \/ UNCHANGED rows)
    BY <1>1, <1>6 DEF MarkError, Update, TypeOK
  <2>2. [r.row EXCEPT !.state = "error", !.rid = r.rid].state = "error"
    BY <1>1 DEF Row
  <2>. QED  BY <1>4, <2>1, <2>2 DEF FrozenRow
<1>7. CASE ForkWrite(w)
  <2>1. /\ (rows'[s] = [r.row EXCEPT !.parent = r.snap] \/ UNCHANGED rows)
        /\ UNCHANGED ctr /\ r.row = rows[s] /\ r.pc = "forkWrite"
    BY <1>1, <1>2, <1>7 DEF ForkWrite, Update, At, TypeOK, HoldsLock
  <2>2. rows'[s].state = rows[s].state /\ rows'[s].rid = rows[s].rid
    BY <1>1, <2>1 DEF Row
  <2>3. ~FrozenRow(s)
    BY <1>3, <2>1
  <2>. QED  BY <2>1, <2>2, <2>3 DEF FrozenRow
<1>8. CASE InsertRow(w)
  <2>1. rows'[s].state = "creating"
    BY <1>1, <1>8 DEF InsertRow, Update, NewRow, TypeOK
  <2>. QED  BY <2>1 DEF FrozenRow
<1>9. CASE MarkDestroying(w)
  <2>1. UNCHANGED ctr
          /\ (rows'[s] = [r.row EXCEPT !.state = "destroying"] \/ UNCHANGED rows)
    BY <1>1, <1>9 DEF MarkDestroying, Update, TypeOK
  <2>2. [r.row EXCEPT !.state = "destroying"].state = "destroying"
    BY <1>1 DEF Row
  <2>. QED  BY <1>4, <2>1, <2>2 DEF FrozenRow
<1>10. ASSUME UNCHANGED rows, r.pc \notin {"commit", "unpause"},
              \A d \in Containers : ctr'[d].status = "paused" => ctr[d].status = "paused"
       PROVE  FALSE
  BY <1>3, <1>10 DEF FrozenRow
<1>11. ASSUME NEW c \in Containers, RtCreate(w, c)
       PROVE  FALSE
  <2>1. /\ UNCHANGED rows /\ r.pc = "rtCreate" /\ ctr'[c].status = "stopped"
        /\ \A d \in Containers \ {c} : ctr'[d] = ctr[d]
    BY <1>1, <1>11 DEF RtCreate, At, TypeOK
  <2>. QED  BY <1>10, <2>1
<1>12. CASE RtStart(w) \/ RtStop(w) \/ RtDestroy(w)
  <2>1. /\ UNCHANGED rows /\ r.pc \in {"rtStart", "rtStop", "rtDestroy"}
        /\ \E st \in {"running", "stopped", "gone"} : SetStatus(r.rid, st)
    BY <1>12 DEF RtStart, RtStop, RtDestroy, At
  <2>2. \A d \in Containers : ctr'[d].status = "paused" => ctr[d].status = "paused"
    BY <1>1, <2>1 DEF SetStatus, TypeOK, Container
  <2>. QED  BY <1>10, <2>1, <2>2
<1>15. CASE SnapPauseUnheard(w)
  <2>1. spent' = [spent EXCEPT !.stranded = @ \cup {s}]
    BY <1>1, <1>15 DEF SnapPauseUnheard
  <2>. QED  BY <1>1, <2>1 DEF TypeOK, Spent
<1>13. CASE SnapPause(w)
  <2>1. UNCHANGED rows /\ lock[s] = w /\ w # Free
    BY <1>2, <1>13 DEF SnapPause, At, HoldsLock
  <2>2. CASE UNCHANGED ctr
    BY <1>4, <2>1, <2>2
  <2>3. CASE ~UNCHANGED ctr
    <3>1. lock' = lock /\ req' = [req EXCEPT ![w].frozen = TRUE, ![w].pc = "commit"]
      BY <1>1, <1>13, <2>3 DEF SnapPause
    <3>2. n.frozen /\ n.pc = "commit"
      BY <1>1, <3>1 DEF TypeOK, Request
    <3>. QED  BY <2>1, <3>1, <3>2 DEF Freezes
  <2>. QED  BY <2>2, <2>3
<1>14. CASE SnapUnpause(w)
  <2>1. UNCHANGED rows /\ r.pc = "unpause" /\ r.rid = rows[s].rid
    BY <1>2, <1>14 DEF SnapUnpause, At, HoldsLock, Working, Looking
  <2>2. CASE UNCHANGED ctr
    BY <1>4, <2>1, <2>2
  <2>3. CASE ~UNCHANGED ctr
    <3>1. SetStatus(r.rid, "running") /\ rows[s].rid \in Containers
      BY <1>14, <2>1, <2>3 DEF SnapUnpause, FrozenRow
    <3>2. ctr'[rows[s].rid].status = "running"
      BY <1>1, <2>1, <3>1, StatusSet
    <3>. QED  BY <2>1, <3>2 DEF FrozenRow
  <2>. QED  BY <2>2, <2>3
<1>. QED  BY <1>4, <1>5, <1>6, <1>7, <1>8, <1>9, <1>11, <1>12, <1>13, <1>14, <1>15
     DEF Handle, Lock, Read, ReadRejects, InsertFails, RtCreateFails, Inspect, RtFails,
     SnapPauseFails, SnapCommit, SnapCommitFails, SnapRecord, SnapRecordFails,
     SnapRollback, UseFiles

LEMMA StepFreeze ==
  ASSUME IInv, CInv, ModeInv, FreezeInv, [Next]_vars,
         \A w \in Requests : Working(w) /\ Thaws(w)
  PROVE  FreezeInv'
<1>. SUFFICES ASSUME NoFault', NEW t \in Sandboxes, FrozenRow(t)',
                     t \notin spent'.stranded
              PROVE  \/ mode' = "booting"
                     \/ mode' = "unpausing" /\ t \in todo'
                     \/ lock'[t] # Free /\ Freezes(lock[t])'
  BY DEF FreezeInv
<1>8. CASE Crash
  BY <1>8 DEF Crash
<1>. SUFFICES ASSUME ~Crash
              PROVE  \/ mode' = "booting"
                     \/ mode' = "unpausing" /\ t \in todo'
                     \/ lock'[t] # Free /\ Freezes(lock[t])'
  BY <1>8
<1>1. TypeOK /\ NoFault /\ ~SpendFault /\ t \notin spent.stranded
  BY SpentGrows, FaultCounts DEF IInv
<1>2. FrozenRow(t) => \/ mode = "booting"
                      \/ mode = "unpausing" /\ t \in todo
                      \/ lock[t] # Free /\ Freezes(lock[t])
  BY <1>1 DEF FreezeInv
<1>3. mode # "serving" => ~(lock[t] # Free /\ Freezes(lock[t]))
  BY <1>1 DEF ModeInv, At, Freezes, TypeOK
<1>4. ASSUME NEW w \in Requests, Handle(w)
      PROVE  lock'[t] # Free /\ Freezes(lock[t])'
  <2>1. mode = "serving"
    BY <1>4, Busy DEF ModeInv, At
  <2>2. CASE t = req[w].sb
    BY <1>2, <1>4, <2>1, <2>2, ActorFreeze
  <2>3. CASE t # req[w].sb
    <3>1. /\ rows'[t] = rows[t] /\ lock'[t] = lock[t]
          /\ lock[t] # Free => req'[lock[t]] = req[lock[t]]
          /\ rows[t].rid \in Containers => ctr'[rows[t].rid] = ctr[rows[t].rid]
      BY <1>4, <2>3, OtherSandbox
    <3>2. FrozenRow(t)
      BY <3>1 DEF FrozenRow
    <3>. QED  BY <1>2, <2>1, <3>1, <3>2 DEF Freezes
  <2>. QED  BY <2>2, <2>3
<1>5. ASSUME NEW w \in Requests, NEW s \in Sandboxes, NEW p \in Image,
             NEW kind \in Offered,
             Arrive(w, kind, s, p) \/ ArriveNew(w, kind, s, p)
      PROVE  lock'[t] # Free /\ Freezes(lock[t])'
  <2>1. mode = "serving" /\ FrozenRow(t)
    BY <1>5, ArrivalFacts DEF Arrive, ArriveNew, FrozenRow
  <2>2. lock[t] # Free => lock'[t] = lock[t] /\ req'[lock[t]] = req[lock[t]]
    BY <1>5, ArrivalFacts
  <2>. QED  BY <1>2, <2>1, <2>2 DEF Freezes
<1>6. ASSUME NEW w \in Requests, Cancel(w)
      PROVE  \/ mode' = "booting"
             \/ mode' = "unpausing" /\ t \in todo'
             \/ lock'[t] # Free /\ Freezes(lock[t])'
  <2>1. UNCHANGED <<mode, todo, lock>> /\ FrozenRow(t)
    BY <1>6 DEF Cancel, FrozenRow
  <2>2. lock[t] # Free => (Freezes(lock[t]) => Freezes(lock[t])')
    BY <1>1, <1>6, <2>1, CancelFacts DEF Freezes, TypeOK
  <2>. QED  BY <1>2, <2>1, <2>2
<1>7. ASSUME NEW c \in Containers, ContainerExits(c)
      PROVE  \/ mode' = "booting"
             \/ mode' = "unpausing" /\ t \in todo'
             \/ lock'[t] # Free /\ Freezes(lock[t])'
  <2>1. UNCHANGED <<rows, mode, todo, lock, req>>
    BY <1>7 DEF ContainerExits
  <2>2. FrozenRow(t)
    BY <1>1, <1>7, <2>1, ExitFacts DEF FrozenRow
  <2>. QED  BY <1>2, <2>1, <2>2 DEF Freezes
<1>9. CASE BootList
  <2>1. t \in todo' /\ mode' = "unpausing"
    BY <1>1, <1>9, NullsAssumption DEF BootList, FrozenRow
  <2>. QED  BY <2>1
<1>10. ASSUME NEW s \in Sandboxes, BootUnpause(s)
       PROVE  mode' = "unpausing" /\ t \in todo'
  <2>1. mode = "unpausing" /\ mode' = "unpausing" /\ UNCHANGED rows /\ todo' = todo \ {s}
    BY <1>10 DEF BootUnpause
  <2>2. ctr' = ctr \/ SetStatus(rows[s].rid, "running")
    BY <1>10 DEF BootUnpause
  <2>3. FrozenRow(t)
    BY <1>1, <2>1, <2>2 DEF FrozenRow, SetStatus, TypeOK, Container
  <2>4. t \in todo
    BY <1>2, <1>3, <2>1, <2>3
  <2>5. t # s
    <3>1. ASSUME t = s
          PROVE  FALSE
      <4>1. SetStatus(rows[t].rid, "running") /\ rows[t].rid \in Containers
        BY <1>1, <1>10, <2>3, <3>1 DEF BootUnpause, FrozenRow
      <4>2. ctr'[rows[t].rid].status = "running"
        BY <1>1, <4>1, StatusSet
      <4>. QED  BY <2>1, <4>2 DEF FrozenRow
    <3>. QED  BY <3>1
  <2>. QED  BY <2>1, <2>4, <2>5
<1>11. CASE BootServe
  <2>1. mode = "unpausing" /\ todo = {} /\ FrozenRow(t)
    BY <1>11 DEF BootServe, FrozenRow
  <2>. QED  BY <1>2, <1>3, <2>1
<1>12. CASE UNCHANGED vars
  <2>1. FrozenRow(t)
    BY <1>12 DEF vars, FrozenRow
  <2>. QED  BY <1>2, <1>12, <2>1 DEF vars, Freezes
<1>. QED  BY <1>4, <1>5, <1>6, <1>7, <1>8, <1>9, <1>10, <1>11, <1>12 DEF Next, Boot

-------------------------------------------------------------------------------
(* No container is left behind while nothing fails                           *)

\* What a step of w, not cancelled, remembers of the sandbox it works on.
LEMMA ActorRemembers ==
  ASSUME IInv, CInv, NEW w \in Requests, Working(w), Handle(w), ~req[w].dead, NoFault',
         NEW s \in Sandboxes, s = req[w].sb,
         NEW c \in Containers, Live(c)', ctr'[c].owner = s,
         Live(c) /\ ctr[c].owner = s => Remembered(s) = c
  PROVE  Remembered(s)' = c
<1>. DEFINE r == req[w]
            n == req'[w]
<1>1. /\ r \in Request /\ r.row \in Row /\ TypeOK /\ Owned(w) /\ ~SpendFault
      /\ w # Free /\ NoContainer \notin Containers
  BY NullsAssumption, FaultCounts DEF IInv, TypeOK, CInv, Request
<1>2. HoldsLock(w) => lock[s] = w /\ (~At(w, "read") => r.row = rows[s])
  BY Holder
<1>3. CASE \E d \in Containers : RtCreate(w, d)
  <2>1. PICK d \in Containers : RtCreate(w, d)
    BY <1>3
  <2>2. lock[s] = w /\ lock' = lock /\ ~Live(r.rid)
    BY <1>2, <2>1 DEF RtCreate, At, HoldsLock, Working
  <2>3. n = [r EXCEPT !.rid = d, !.pc = "rtStart"]
    BY <1>1, <2>1 DEF RtCreate, Fails, TypeOK
  <2>4. n.rid = d /\ n.pc = "rtStart"
    BY <1>1, <2>3 DEF Request
  <2>5. c = d
    <3>1. ASSUME c # d
          PROVE  FALSE
      <4>1. ctr'[c] = ctr[c]
        BY <1>1, <2>1, <3>1 DEF RtCreate, TypeOK
      <4>2. Live(c) /\ Remembered(s) = c
        BY <4>1 DEF Live
      <4>3. Remembered(s) = r.rid
        BY <1>1, <2>1, <2>2 DEF Remembered, RtCreate, At
      <4>. QED  BY <2>2, <4>2, <4>3
    <3>. QED  BY <3>1
  <2>. QED  BY <1>1, <2>2, <2>4, <2>5 DEF Remembered, At
<1>4. CASE ~\E d \in Containers : RtCreate(w, d)
  <2>1. Live(c) /\ ctr[c].owner = s
    <3>1. Tame /\ Quiet
      BY <1>4, HandleTame
    <3>2. Live(c)
      BY <3>1 DEF Quiet
    <3>3. ctr[c].owner = s
      <4>1. ctr' = ctr \/ \E st : SetStatus(r.rid, st)
        BY <1>4 DEF Handle, Lock, Read, ReadRejects, InsertRow, InsertFails,
           MarkDestroying, Save, MarkError, ForkWrite, RtCreateFails, RtStart,
           RtStop, RtDestroy, Inspect, RtFails, SnapPause, SnapPauseUnheard,
           SnapPauseFails,
           SnapCommit, SnapCommitFails, SnapUnpause, SnapRecord, SnapRecordFails,
           SnapRollback, UseFiles
      <4>2. ASSUME NEW st, SetStatus(r.rid, st)
            PROVE  ctr'[c].owner = ctr[c].owner
        <5>1. CASE r.rid \in Containers
          BY <1>1, <4>2, <5>1, StatusSet
        <5>2. CASE r.rid \notin Containers
          BY <1>1, <4>2, <5>2 DEF SetStatus, TypeOK
        <5>. QED  BY <5>1, <5>2
      <4>. QED  BY <4>1, <4>2
    <3>. QED  BY <3>2, <3>3
  <2>2. Remembered(s) = c
    BY <2>1
  <2>3. HoldsLock(w) /\ ~At(w, "read") => r.rid = c
    BY <1>1, <1>2, <2>2 DEF Remembered
  <2>4. CASE Lock(w)
    <3>1. rows[s].rid = c /\ n.pc = "read" /\ lock'[s] = w /\ UNCHANGED rows
      BY <1>1, <2>2, <2>4, GotoMoves DEF Lock, Remembered, TypeOK
    <3>. QED  BY <1>1, <3>1 DEF Remembered, At
  <2>5. CASE Read(w)
    <3>1. rows[s].rid = c /\ lock[s] = w /\ UNCHANGED <<rows, lock>>
      BY <1>1, <1>2, <2>2, <2>5 DEF Read, Remembered, HoldsLock, At
    <3>2. n = [r EXCEPT !.row = rows[s], !.rid = rows[s].rid,
                        !.pc = FirstStep(r.kind, rows[s])]
      BY <1>1, <2>5 DEF Read, TypeOK
    <3>3. n.rid = c
      BY <1>1, <3>1, <3>2 DEF Request
    <3>. QED  BY <3>1, <3>3 DEF Remembered
  <2>6. CASE ReadRejects(w)
    <3>1. rows[s].rid = c /\ lock'[s] = Free /\ UNCHANGED rows
      BY <1>1, <1>2, <2>2, <2>6 DEF ReadRejects, Return, Remembered, HoldsLock, At, TypeOK
    <3>. QED  BY <3>1 DEF Remembered
  <2>7. CASE InsertFails(w) \/ InsertRow(w)
    <3>1. r.rid = NoContainer /\ HoldsLock(w) /\ ~At(w, "read")
      BY <2>7 DEF InsertFails, InsertRow, At, Working, HoldsLock
    <3>. QED  BY <1>1, <2>3, <3>1
  <2>8. ASSUME HoldsLock(w), ~At(w, "read"), lock' = lock, n.rid = r.rid, n.pc # "read"
        PROVE  Remembered(s)' = c
    BY <1>1, <1>2, <2>3, <2>8 DEF Remembered, At
  <2>9. ASSUME HoldsLock(w), lock' = lock, NEW pc, Goto(w, pc), pc # "read", ~At(w, "read")
        PROVE  Remembered(s)' = c
    BY <1>1, <2>8, <2>9, GotoMoves
  <2>10. CASE MarkDestroying(w)
    <3>. DEFINE row == [r.row EXCEPT !.state = "destroying"]
    <3>1. n = [r EXCEPT !.row = row,
                 !.pc = IF row.rid = NoContainer THEN "save" ELSE "rtDestroy"]
      BY <1>1, <2>10 DEF MarkDestroying, TypeOK
    <3>2. n.rid = r.rid /\ n.pc \in {"save", "rtDestroy"}
      BY <1>1, <3>1 DEF Request
    <3>. QED  BY <2>8, <2>10, <3>2 DEF MarkDestroying, HoldsLock, At
  <2>11. CASE Save(w)
    <3>1. rows'[s] = Outcome(r) /\ lock'[s] = Free /\ r.rid = c
      BY <1>1, <2>3, <2>11 DEF Save, Update, Return, At, HoldsLock, TypeOK
    <3>2. Outcome(r).rid = r.rid
      BY DEF Outcome
    <3>. QED  BY <3>1, <3>2 DEF Remembered
  <2>12. CASE MarkError(w)
    <3>1. rows'[s] = [r.row EXCEPT !.state = "error", !.rid = r.rid]
            /\ lock'[s] = Free /\ r.rid = c
      BY <1>1, <2>3, <2>12 DEF MarkError, Update, Return, At, HoldsLock, TypeOK
    <3>2. rows'[s].rid = r.rid
      BY <1>1, <3>1 DEF Row
    <3>. QED  BY <3>1, <3>2 DEF Remembered
  <2>13. CASE ForkWrite(w)
    <3>1. rows'[s] = [r.row EXCEPT !.parent = r.snap] /\ lock'[s] = Free
            /\ r.rid = c /\ r.rid = r.row.rid
      BY <1>1, <2>3, <2>13 DEF ForkWrite, Update, Return, At, HoldsLock, TypeOK,
         Working, Looking
    <3>2. rows'[s].rid = r.row.rid
      BY <1>1, <3>1 DEF Row
    <3>. QED  BY <3>1, <3>2 DEF Remembered
  <2>14. CASE \/ RtCreateFails(w) \/ RtStart(w) \/ RtStop(w) \/ RtDestroy(w)
              \/ Inspect(w) \/ RtFails(w) \/ SnapCommitFails(w) \/ SnapRecordFails(w)
    <3>1. HoldsLock(w) /\ ~At(w, "read") /\ lock' = lock
      BY <2>14 DEF RtCreateFails, RtStart, RtStop, RtDestroy, Inspect, RtFails,
         SnapCommitFails, SnapRecordFails, HoldsLock, At
    <3>2. \E pc \in Steps \ {"read"} : Goto(w, pc)
      BY <2>14 DEF RtCreateFails, RtStart, RtStop, RtDestroy, Inspect, RtFails,
         SnapCommitFails, SnapRecordFails, Performed, Steps
    <3>. QED  BY <2>9, <3>1, <3>2
  <2>15. ASSUME r.pc \in Looking, Return(w), UNCHANGED rows
         PROVE  Remembered(s)' = c
    <3>1. HoldsLock(w) /\ ~At(w, "read")
      BY <2>15 DEF Looking, HoldsLock, At
    <3>2. rows[s].rid = c /\ lock'[s] = Free
      BY <1>1, <1>2, <2>3, <2>15, <3>1 DEF Working, Return, TypeOK
    <3>. QED  BY <2>15, <3>2 DEF Remembered
  <2>16. CASE SnapPause(w)
    <3>1. HoldsLock(w) /\ ~At(w, "read") /\ lock' = lock
      BY <2>16 DEF SnapPause, HoldsLock, At
    <3>2. n.rid = r.rid /\ n.pc = "commit"
      <4>1. CASE Goto(w, "commit")
        BY <1>1, <4>1, GotoMoves
      <4>2. CASE ~Goto(w, "commit")
        BY <1>1, <2>16, <4>2 DEF SnapPause, TypeOK, Request
      <4>. QED  BY <4>1, <4>2
    <3>. QED  BY <2>8, <3>1, <3>2
  <2>17. CASE \E p \in Snapshots : SnapCommit(w, p)
    <3>1. HoldsLock(w) /\ ~At(w, "read") /\ lock' = lock
      BY <2>17 DEF SnapCommit, HoldsLock, At
    <3>2. CASE Goto(w, "unpause")
      BY <2>9, <3>1, <3>2
    <3>3. CASE ~Goto(w, "unpause")
      <4>1. n.rid = r.rid /\ n.pc = "unpause"
        BY <1>1, <2>17, <3>3 DEF SnapCommit, TypeOK, Request
      <4>. QED  BY <2>8, <3>1, <4>1
    <3>. QED  BY <3>2, <3>3
  <2>18. CASE SnapUnpause(w)
    <3>1. UNCHANGED rows /\ r.pc \in Looking
      BY <2>18 DEF SnapUnpause, At, Looking
    <3>2. CASE Return(w)
      BY <2>15, <3>1, <3>2
    <3>3. CASE ~Return(w)
      BY <2>9, <2>18, <3>3 DEF SnapUnpause, HoldsLock, At
    <3>. QED  BY <3>2, <3>3
  <2>19. CASE SnapPauseUnheard(w) \/ SnapPauseFails(w) \/ SnapRecord(w) \/ SnapRollback(w)
              \/ UseFiles(w)
    BY <2>15, <2>19 DEF SnapPauseUnheard, SnapPauseFails, SnapRecord, SnapRollback, UseFiles, At, Looking
  <2>. QED  BY <1>4, <2>4, <2>5, <2>6, <2>7, <2>10, <2>11, <2>12, <2>13, <2>14, <2>16,
               <2>17, <2>18, <2>19 DEF Handle
<1>. QED  BY <1>3, <1>4

\* A sandbox at which a step does nothing remembers what it did.
LEMMA RememberedKept ==
  ASSUME NEW s, rows'[s] = rows[s], lock'[s] = lock[s],
         lock[s] # Free => req'[lock[s]].pc = req[lock[s]].pc
                             /\ req'[lock[s]].rid = req[lock[s]].rid
  PROVE  Remembered(s)' = Remembered(s)
BY DEF Remembered, At

LEMMA StepLeaks ==
  ASSUME IInv, CInv, ModeInv, LiveOwned, LiveOwned', LeakInv, [Next]_vars,
         \A w \in Requests : Working(w)
  PROVE  LeakInv'
<1>. SUFFICES ASSUME NoFault', NoHangup', NoDeath', NEW c \in Containers, Live(c)'
              PROVE  Remembered(ctr[c].owner)' = c
  BY DEF LeakInv
<1>1. /\ TypeOK /\ NoFault /\ NoHangup /\ NoDeath /\ mode = "serving"
      /\ \A w \in Requests : ~req[w].dead
  BY SpentGrows DEF IInv, ModeInv
<1>2. \A d \in Containers : Live(d) => Remembered(ctr[d].owner) = d
  BY <1>1 DEF LeakInv
<1>3. PICK s \in Sandboxes : s = ctr'[c].owner
  BY DEF LiveOwned
<1>4. SUFFICES Remembered(s)' = c
  BY <1>3 DEF Remembered, At
<1>5. ASSUME Live(c), ctr[c].owner = s, rows'[s] = rows[s], lock'[s] = lock[s],
             lock[s] # Free => req'[lock[s]].pc = req[lock[s]].pc
                                 /\ req'[lock[s]].rid = req[lock[s]].rid
      PROVE  Remembered(s)' = c
  BY <1>2, <1>5, RememberedKept
<1>6. ASSUME NEW w \in Requests, Handle(w)
      PROVE  Remembered(s)' = c
  <2>1. CASE s = req[w].sb
    BY <1>1, <1>2, <1>3, <1>6, <2>1, ActorRemembers
  <2>2. CASE s # req[w].sb
    <3>1. /\ rows'[s] = rows[s] /\ lock'[s] = lock[s]
          /\ lock[s] # Free => req'[lock[s]] = req[lock[s]]
      BY <1>6, <2>2, OtherSandbox
    <3>2. Live(c) /\ ctr[c].owner = s
      <4>1. CASE \E d \in Containers : RtCreate(w, d)
        <5>1. PICK d \in Containers : RtCreate(w, d)
          BY <4>1
        <5>2. ctr'[d].owner = req[w].sb
          BY <1>1, <5>1 DEF RtCreate, TypeOK
        <5>3. c # d
          BY <1>3, <2>2, <5>2
        <5>4. ctr'[c] = ctr[c]
          BY <1>1, <5>1, <5>3 DEF RtCreate, TypeOK
        <5>. QED  BY <1>3, <5>4 DEF Live
      <4>2. CASE ~\E d \in Containers : RtCreate(w, d)
        <5>1. Tame /\ Quiet
          BY <1>6, <4>2, HandleTame
        <5>2. Live(c) /\ ctr[c].owner \in Sandboxes
          BY <5>1 DEF Quiet, LiveOwned
        <5>3. ctr'[c].owner = ctr[c].owner
          BY <5>1, <5>2, NullsAssumption DEF Tame
        <5>. QED  BY <1>3, <5>2, <5>3
      <4>. QED  BY <4>1, <4>2
    <3>. QED  BY <1>5, <3>1, <3>2
  <2>. QED  BY <2>1, <2>2
<1>7. ASSUME NEW w \in Requests, NEW t \in Sandboxes, NEW p \in Image,
             NEW kind \in Offered,
             Arrive(w, kind, t, p) \/ ArriveNew(w, kind, t, p)
      PROVE  Remembered(s)' = c
  <2>1. UNCHANGED <<rows, ctr>>
    BY <1>7, ArrivalFacts
  <2>2. Live(c) /\ ctr[c].owner = s
    BY <1>3, <2>1 DEF Live
  <2>3. CASE lock'[s] = lock[s]
    <3>1. lock[s] # Free => req'[lock[s]] = req[lock[s]]
      BY <1>7, ArrivalFacts
    <3>. QED  BY <1>5, <2>1, <2>2, <2>3, <3>1
  <2>4. CASE lock'[s] # lock[s]
    <3>1. lock[s] = Free /\ rows[s].rid = NoContainer
      BY <1>7, <2>4, ArrivalFacts
    <3>2. c = NoContainer
      BY <1>2, <2>2, <3>1 DEF Remembered
    <3>. QED  BY <3>2, NullsAssumption
  <2>. QED  BY <2>3, <2>4
<1>8. ASSUME NEW d \in Containers, ContainerExits(d)
      PROVE  Remembered(s)' = c
  BY <1>1, <1>3, <1>5, <1>8, ExitFacts DEF ContainerExits
<1>9. ~((\E w \in Requests : Cancel(w)) \/ Crash)
  BY <1>1, OthersCount
<1>10. ~Boot
  BY <1>1 DEF Boot, BootList, BootUnpause, BootServe
<1>11. CASE UNCHANGED vars
  BY <1>3, <1>5, <1>11 DEF vars, Live
<1>. QED  BY <1>6, <1>7, <1>8, <1>9, <1>10, <1>11 DEF Next

-------------------------------------------------------------------------------
(* The theorems                                                              *)

LEMMA StepTells ==
  ASSUME IInv, CInv, PInv, [Next]_vars
  PROVE  PInv'
<1>1. \A w \in Requests : Working(w)' /\ Thaws(w)'
  BY StepWorking, StepThaws DEF PInv
<1>2. LiveOwned' /\ ModeInv'
  BY StepLiveOwned, StepModes DEF PInv
<1>3. TruthInv' /\ FreezeInv' /\ LeakInv'
  BY <1>2, StepTruth, StepFreeze, StepLeaks DEF PInv
<1>. QED  BY <1>1, <1>2, <1>3 DEF PInv

LEMMA InitTells == Init => PInv
<1>. SUFFICES ASSUME Init
              PROVE  PInv
  OBVIOUS
<1>1. \A w \in Requests : req[w] = Idle
  BY DEF Init
<1>2. \A c \in Containers : ~Live(c)
  BY DEF Init, Live, Unused
<1>3. \A s \in Sandboxes : rows[s] = AbsentRow
  BY DEF Init
<1>4. ASSUME NEW w \in Requests
      PROVE  Working(w) /\ Thaws(w) /\ ~Freezes(w) /\ ~req[w].dead
  BY <1>1, <1>4 DEF Working, Thaws, Freezes, Idle, Looking
<1>5. ASSUME NEW s \in Sandboxes
      PROVE  RowTrue(s) /\ ~FrozenRow(s)
  BY <1>3, <1>5 DEF RowTrue, FrozenRow, AbsentRow
<1>6. mode = "serving"
  BY DEF Init
<1>. QED  BY <1>2, <1>4, <1>5, <1>6 DEF PInv, LiveOwned, ModeInv, TruthInv, FreezeInv,
     LeakInv

\* Whatever is called, fails, hangs up or dies, requests and rows are tied to the
\* containers as PInv says.
THEOREM RowsAndContainers == Spec => [](IInv /\ CInv /\ PInv)
<1>1. Init => IInv /\ CInv /\ PInv
  BY InitKeeps, InitOwns, InitTells
<1>2. IInv /\ CInv /\ PInv /\ [Next]_vars => (IInv /\ CInv /\ PInv)'
  BY StepKeeps, StepOwns, StepTells
<1>. QED  BY <1>1, <1>2, PTL DEF Spec

\* While nothing fails, no container is left behind: Create, Restore and Destroy
\* between them lose none, whatever interleaves.
THEOREM NoLeakedContainerHolds == Spec => []NoLeakedContainer
<1>1. PInv => NoLeakedContainer
  <2>. SUFFICES ASSUME PInv, NoFault, NoHangup, NoDeath, NEW c \in Containers, Live(c)
                PROVE  \/ rows[ctr[c].owner].rid = c
                       \/ lock[ctr[c].owner] # Free /\ req[lock[ctr[c].owner]].rid = c
    BY DEF NoLeakedContainer
  <2>1. Remembered(ctr[c].owner) = c
    BY DEF PInv, LeakInv
  <2>. QED  BY <2>1 DEF Remembered
<1>. QED  BY <1>1, RowsAndContainers, PTL

\* A row at rest tells the truth of its container, whatever calls of the runtime
\* fail on the way.
THEOREM RowMatchesContainerHolds == Spec => []RowMatchesContainer
<1>1. CInv /\ PInv => RowMatchesContainer
  <2>. SUFFICES ASSUME CInv, PInv, NoHangup, NoDeath, NEW s \in Sandboxes, AtRest(s)
                PROVE  RowTrue(s) /\ (rows[s].state = "destroyed" => ~Live(rows[s].rid))
    BY DEF RowMatchesContainer, RowTrue
  <2>1. RowTrue(s)
    BY DEF PInv, TruthInv, Settled, AtRest
  <2>2. rows[s].state = "destroyed" => ~Live(rows[s].rid)
    BY DEF CInv, DestroyedIsGone
  <2>. QED  BY <2>1, <2>2
<1>. QED  BY <1>1, RowsAndContainers, PTL

\* No death of the daemon leaves a sandbox that reads as running frozen, once the boot
\* sequence is through, and no hang-up but one that meets the pause in flight.
THEOREM RunningIsNotFrozenHolds == Spec => []RunningIsNotFrozen
<1>1. IInv /\ PInv => RunningIsNotFrozen
  <2>. SUFFICES ASSUME IInv, PInv, NoFault, NEW s \in Sandboxes \ spent.stranded,
                       AtRest(s), rows[s].state = "running", rows[s].rid # NoContainer,
                       ctr[rows[s].rid].status = "paused"
                PROVE  FALSE
    BY DEF RunningIsNotFrozen
  <2>1. rows[s].rid \in Containers
    BY DEF IInv, TypeOK, Row, RuntimeID
  <2>2. FrozenRow(s)
    BY <2>1 DEF FrozenRow
  <2>. QED  BY <2>2 DEF PInv, FreezeInv, AtRest
<1>. QED  BY <1>1, RowsAndContainers, PTL
-------------------------------------------------------------------------------
(* The snapshot a sandbox came from.  TrueLineage does not hold: Fork writes *)
(* the lineage under a second acquisition of the mutex, and a Restore can    *)
(* come in between.  Without either of the two it holds, whatever else       *)
(* happens, so nothing but that race breaks it.                              *)

Builders == {"create", "fork", "restore"}

\* A container that is there was made from image p.
From(c, p) == Live(c) => ctr[c].image = p

\* What the kind of a request says of the steps it gets to, and of its copy of
\* the row.
Course(w) ==
  LET r == req[w] IN
  /\ r.pc # "idle" => r.kind \in Offered
  /\ r.pc \in {"lock", "read"} => r.kind # "create"
  /\ r.pc = "rtCreate" => r.kind \in Builders
  /\ r.pc = "rtStop" => r.kind = "stop"
  /\ r.pc = "rtDestroy" => r.kind \in {"destroy", "restore"}
  /\ r.pc = "forkWrite" => r.kind = "fork"
  /\ r.pc \notin {"idle", "lock", "read"} /\ r.kind \notin Builders =>
       r.rid = r.row.rid
  /\ r.pc \in {"rtCreate", "rtStart", "inspect", "save", "markError"}
       /\ r.kind \in {"create", "fork"} => r.row = NewRow

\* The container a request has built is from the snapshot the request resolved.
Carries(w) ==
  LET r == req[w] IN
  r.pc \in {"rtStart", "inspect", "save"} /\ r.kind \in Builders =>
    From(r.rid, r.snap)

\* No Restore has come between the two acquisitions of a Fork.
Undisturbed(w) ==
  LET r == req[w] IN
  r.pc \in {"lock", "read", "forkWrite"} /\ r.kind = "fork" =>
    rows[r.sb].state # "creating" /\ From(rows[r.sb].rid, r.snap)

\* A row names no other snapshot than its container was made from.
NamesOrigin(s) ==
  rows[s].state \in {"creating", "running", "stopped"} /\ Live(rows[s].rid) =>
    rows[s].parent \in {NoSnapshot, ctr[rows[s].rid].image}

LineageInv ==
  /\ \A w \in Requests : Course(w) /\ Carries(w)
  /\ "restore" \notin Offered => \A w \in Requests : Undisturbed(w)
  /\ \A s \in Sandboxes : NamesOrigin(s)

\* A container in use does not change its image.
Kept == \A c \in Containers :
  ctr[c].owner # NoSandbox /\ Live(c)' => Live(c) /\ ctr'[c].image = ctr[c].image

LEMMA StepKept ==
  ASSUME IInv, CInv, [Next]_vars
  PROVE  Kept
<1>1. CASE UNCHANGED ctr
  BY <1>1 DEF Kept, Live
<1>2. CASE Quiet
  BY <1>2 DEF Quiet, Kept
<1>3. ASSUME NEW w \in Requests, NEW d \in Containers, RtCreate(w, d)
      PROVE  Kept
  BY <1>3 DEF RtCreate, IInv, TypeOK, Kept, Live, Unused
<1>4. CASE \E w \in Requests : Handle(w)
  BY <1>2, <1>3, <1>4, HandleTame
<1>5. CASE (\E c \in Containers : ContainerExits(c)) \/ Boot
  BY <1>2, <1>5, WorldTame
<1>6. CASE \E w \in Requests, s \in Sandboxes, p \in Image, kind \in Offered :
             Arrive(w, kind, s, p) \/ ArriveNew(w, kind, s, p)
  BY <1>1, <1>6 DEF Arrive, ArriveNew
<1>7. CASE \E w \in Requests : Cancel(w)
  BY <1>1, <1>7 DEF Cancel
<1>8. CASE Crash
  BY <1>1, <1>8 DEF Crash
<1>9. CASE UNCHANGED vars
  BY <1>1, <1>9 DEF vars
<1>. QED  BY <1>4, <1>5, <1>6, <1>7, <1>8, <1>9 DEF Next

\* So what is from a snapshot stays from it.
LEMMA FromKept ==
  ASSUME Kept, NEW c, NEW p, c \in Containers => ctr[c].owner # NoSandbox, From(c, p)
  PROVE  From(c, p)'
BY DEF Kept, From, Live

\* Going on to another step keeps the snapshot a request has in hand.
LEMMA GotoSnap ==
  ASSUME TypeOK, NEW w \in Requests, NEW pc, Goto(w, pc)
  PROVE  req'[w].snap = req[w].snap
BY DEF TypeOK, Goto, Request

\* A request keeps to the course of its kind.
LEMMA ActorCourse ==
  ASSUME IInv, NEW w \in Requests, Course(w), Handle(w)
  PROVE  Course(w)'
<1>. DEFINE r == req[w]
            s == r.sb
            n == req'[w]
            Building == {"rtCreate", "rtStart", "inspect", "save", "markError"}
            Guarded == {"lock", "read", "rtCreate", "rtStop", "rtDestroy", "forkWrite"}
<1>1. r \in Request /\ r.row \in Row /\ TypeOK /\ RequestInv(w)
  BY DEF IInv, TypeOK, Request
<1>2. r.pc # "idle" /\ r.kind \in Offered
  BY Busy DEF Course
<1>3. CASE Return(w)
  <2>1. n.pc = "idle"
    BY <1>1, <1>3, ReturnIdles DEF Idle
  <2>. QED  BY <2>1 DEF Course
<1>4. ASSUME n.kind = r.kind, n.row = r.row, n.rid = r.rid,
             r.pc \notin {"lock", "read"},
             n.pc \notin Guarded, n.pc \in Building => r.pc \in Building
      PROVE  Course(w)'
  BY <1>2, <1>4 DEF Course
<1>5. ASSUME NEW pc, Goto(w, pc), r.pc \notin {"lock", "read"},
             pc \notin Guarded, pc \in Building => r.pc \in Building
      PROVE  Course(w)'
  BY <1>1, <1>4, <1>5, GotoMoves
<1>6. CASE Lock(w)
  <2>1. n.pc = "read" /\ n.kind = r.kind /\ r.kind # "create"
    BY <1>1, <1>6, GotoMoves DEF Lock, At, Course
  <2>. QED  BY <1>2, <2>1 DEF Course
<1>7. CASE Read(w)
  <2>1. n = [r EXCEPT !.row = rows[s], !.rid = rows[s].rid,
                      !.pc = FirstStep(r.kind, rows[s])]
    BY <1>1, <1>7 DEF Read, TypeOK
  <2>2. n.rid = rows[s].rid /\ n.row = rows[s] /\ n.kind = r.kind
          /\ n.pc = FirstStep(r.kind, rows[s])
    BY <1>1, <2>1 DEF Request
  <2>3. r.kind # "create" /\ r.kind \in Kinds
    BY <1>1, <1>2, <1>7, OfferedAssumption DEF Read, At, Course
  <2>4. /\ n.pc \notin {"idle", "lock", "read"}
        /\ n.pc = "rtCreate" => r.kind = "restore"
        /\ n.pc = "rtStop" => r.kind = "stop"
        /\ n.pc = "rtDestroy" => r.kind = "restore"
        /\ n.pc = "forkWrite" => r.kind = "fork"
        /\ n.pc \in Building => r.kind \notin {"create", "fork"}
    BY <2>2, <2>3 DEF FirstStep, Kinds
  <2>. QED  BY <1>2, <2>2, <2>4 DEF Course, Builders
<1>8. CASE InsertRow(w)
  <2>1. n = [r EXCEPT !.row = NewRow, !.pc = "rtCreate"] /\ r.kind \in {"create", "fork"}
    BY <1>1, <1>8 DEF InsertRow, TypeOK, RequestInv, At
  <2>2. n.row = NewRow /\ n.kind = r.kind /\ n.pc = "rtCreate"
    BY <1>1, <2>1 DEF Request
  <2>. QED  BY <1>2, <2>1, <2>2 DEF Course, Builders
<1>9. CASE MarkDestroying(w) /\ ~r.dead
  <2>. DEFINE row == [r.row EXCEPT !.state = "destroying"]
  <2>1. /\ r.kind = "destroy" /\ r.rid = r.row.rid
        /\ n = [r EXCEPT !.row = row,
                         !.pc = IF row.rid = NoContainer THEN "save" ELSE "rtDestroy"]
    BY <1>1, <1>9 DEF MarkDestroying, At, RequestInv, TypeOK, Course, Builders
  <2>2. row.rid = r.row.rid
    BY <1>1 DEF Row
  <2>3. n.kind = "destroy" /\ n.pc \in {"save", "rtDestroy"} /\ n.row = row /\ n.rid = r.rid
    BY <1>1, <2>1 DEF Request
  <2>. QED  BY <1>2, <2>1, <2>2, <2>3 DEF Course, Builders
<1>10. CASE Save(w) /\ ~Return(w)
  <2>1. n = [r EXCEPT !.row = Outcome(r), !.pc = "lock"] /\ r.kind = "fork"
    BY <1>1, <1>10 DEF Save, TypeOK
  <2>2. n.pc = "lock" /\ n.kind = "fork"
    BY <1>1, <2>1 DEF Request
  <2>. QED  BY <1>2, <2>1, <2>2 DEF Course
<1>11. ASSUME NEW c \in Containers, RtCreate(w, c), ~Goto(w, "markError")
       PROVE  Course(w)'
  <2>1. n = [r EXCEPT !.rid = c, !.pc = "rtStart"] /\ r.pc = "rtCreate"
    BY <1>1, <1>11 DEF RtCreate, TypeOK, At
  <2>2. n.kind = r.kind /\ n.pc = "rtStart" /\ n.row = r.row
    BY <1>1, <2>1 DEF Request
  <2>. QED  BY <1>2, <2>1, <2>2 DEF Course, Builders
<1>12. CASE RtDestroy(w) /\ ~Goto(w, "markError")
  <2>1. r.pc = "rtDestroy" /\ Goto(w, IF r.kind = "destroy" THEN "save" ELSE "rtCreate")
    BY <1>12 DEF RtDestroy, Performed, At
  <2>2. /\ n.kind = r.kind /\ n.row = r.row /\ n.rid = r.rid
        /\ n.pc = IF r.kind = "destroy" THEN "save" ELSE "rtCreate"
    BY <1>1, <2>1, GotoMoves
  <2>. QED  BY <1>2, <2>1, <2>2 DEF Course, Builders
<1>13. CASE RtStart(w) \/ Inspect(w) \/ RtCreateFails(w)
            \/ (RtFails(w) /\ r.pc \in {"rtStart", "inspect"})
            \/ (\E c \in Containers : RtCreate(w, c) /\ Goto(w, "markError"))
  <2>1. r.pc \in Building \ {"save", "markError"}
          /\ \E pc \in {"inspect", "save", "markError"} : Goto(w, pc)
    BY <1>13 DEF RtStart, Performed, Inspect, RtCreateFails, RtFails, RtCreate, At
  <2>. QED  BY <1>5, <2>1
<1>14. CASE RtStop(w) \/ (RtDestroy(w) /\ Goto(w, "markError"))
            \/ (RtFails(w) /\ r.pc \in {"rtStop", "rtDestroy"})
  <2>1. r.pc \in {"rtStop", "rtDestroy"} /\ \E pc \in {"save", "markError"} : Goto(w, pc)
    BY <1>14 DEF RtStop, Performed, RtDestroy, RtFails, At
  <2>2. /\ n.kind = r.kind /\ n.row = r.row /\ n.rid = r.rid
        /\ n.pc \in {"save", "markError"}
    BY <1>1, <2>1, GotoMoves
  <2>. QED  BY <1>2, <2>1, <2>2 DEF Course, Builders
<1>15. CASE \/ SnapPause(w)
            \/ (\E p \in Snapshots : SnapCommit(w, p)) \/ SnapCommitFails(w)
            \/ (SnapUnpause(w) /\ ~Return(w)) \/ SnapRecordFails(w)
  <2>1. /\ r.pc \in {"pause", "commit", "unpause", "record"}
        /\ \/ \E pc \in {"commit", "unpause", "record", "rollback"} : Goto(w, pc)
           \/ req' = [req EXCEPT ![w].frozen = TRUE, ![w].pc = "commit"]
           \/ \E p \in Snapshots : req' = [req EXCEPT ![w].snap = p, ![w].pc = "unpause"]
    BY <1>15 DEF SnapPause, SnapCommit, SnapCommitFails, SnapUnpause, SnapRecordFails, At
  <2>2. CASE \E pc \in {"commit", "unpause", "record", "rollback"} : Goto(w, pc)
    BY <1>5, <2>1, <2>2
  <2>3. CASE req' = [req EXCEPT ![w].frozen = TRUE, ![w].pc = "commit"]
    <3>1. n = [r EXCEPT !.frozen = TRUE, !.pc = "commit"]
      BY <1>1, <2>3 DEF TypeOK
    <3>2. n.kind = r.kind /\ n.row = r.row /\ n.rid = r.rid /\ n.pc = "commit"
      BY <1>1, <3>1 DEF Request
    <3>. QED  BY <1>4, <2>1, <3>2
  <2>4. ASSUME NEW p \in Snapshots, req' = [req EXCEPT ![w].snap = p, ![w].pc = "unpause"]
        PROVE  Course(w)'
    <3>1. n = [r EXCEPT !.snap = p, !.pc = "unpause"]
      BY <1>1, <2>4 DEF TypeOK
    <3>2. n.kind = r.kind /\ n.row = r.row /\ n.rid = r.rid /\ n.pc = "unpause"
      BY <1>1, <3>1 DEF Request
    <3>. QED  BY <1>4, <2>1, <3>2
  <2>. QED  BY <2>1, <2>2, <2>3, <2>4
<1>16. ASSUME ReadRejects(w) \/ InsertFails(w) \/ (MarkDestroying(w) /\ r.dead)
              \/ MarkError(w) \/ ForkWrite(w) \/ SnapPauseUnheard(w)
              \/ SnapPauseFails(w) \/ SnapRecord(w)
              \/ SnapRollback(w) \/ UseFiles(w)
       PROVE  Return(w)
  BY <1>16 DEF ReadRejects, InsertFails, MarkDestroying, MarkError, ForkWrite,
     SnapPauseUnheard, SnapPauseFails, SnapRecord, SnapRollback, UseFiles
<1>17. RtFails(w) => r.pc \in {"rtStart", "rtStop", "rtDestroy", "inspect"}
  BY DEF RtFails, At
<1>. QED  BY <1>3, <1>6, <1>7, <1>8, <1>9, <1>10, <1>11, <1>12, <1>13, <1>14,
             <1>15, <1>16, <1>17 DEF Handle

LEMMA StepCourse ==
  ASSUME IInv, [Next]_vars, NEW v \in Requests, Course(v)
  PROVE  Course(v)'
<1>1. TypeOK
  BY DEF IInv
<1>2. CASE req'[v] = req[v]
  BY <1>2 DEF Course
<1>3. ASSUME NEW w \in Requests, Handle(w)
      PROVE  Course(v)'
  BY <1>1, <1>2, <1>3, ActorCourse, HandleAlone
<1>4. ASSUME NEW w \in Requests, NEW s \in Sandboxes, NEW p \in Image, NEW kind \in Offered,
             Arrive(w, kind, s, p) \/ ArriveNew(w, kind, s, p), v = w
      PROVE  Course(v)'
  <2>1. CASE Arrive(w, kind, s, p)
    <3>1. req'[v].pc = "lock" /\ req'[v].kind = kind /\ kind # "create"
      BY <1>1, <1>4, <2>1 DEF Arrive, TypeOK, Idle
    <3>. QED  BY <3>1 DEF Course
  <2>2. CASE ArriveNew(w, kind, s, p)
    <3>1. req'[v].pc = "insert" /\ req'[v].kind = kind /\ kind \in {"create", "fork"}
      BY <1>1, <1>4, <2>2 DEF ArriveNew, TypeOK, Idle
    <3>. QED  BY <3>1 DEF Course, Builders
  <2>. QED  BY <1>4, <2>1, <2>2
<1>5. ASSUME NEW w \in Requests, NEW s \in Sandboxes, NEW p \in Image, NEW kind \in Offered,
             Arrive(w, kind, s, p) \/ ArriveNew(w, kind, s, p)
      PROVE  Course(v)'
  <2>1. v # w => req'[v] = req[v]
    BY <1>1, <1>5, ArrivalFacts
  <2>. QED  BY <1>2, <1>4, <1>5, <2>1
<1>6. ASSUME NEW w \in Requests, Cancel(w)
      PROVE  Course(v)'
  BY <1>1, <1>6, CancelFacts DEF Course
<1>7. CASE Crash
  BY <1>1, <1>7 DEF Crash, TypeOK, Course, Idle
<1>8. CASE (\E c \in Containers : ContainerExits(c)) \/ Boot \/ UNCHANGED vars
  BY <1>2, <1>8 DEF ContainerExits, Boot, BootList, BootUnpause, BootServe, vars
<1>. QED  BY <1>3, <1>5, <1>6, <1>7, <1>8 DEF Next

\* What a request past the read of its row has in hand has an owner.
LEMMA InHand ==
  ASSUME IInv, CInv, NEW w \in Requests, req[w].pc \notin {"idle", "lock", "read"}
  PROVE  req[w].rid \in Containers => ctr[req[w].rid].owner # NoSandbox
<1>1. Owned(w) /\ req[w].sb \in Sandboxes
  BY DEF CInv, IInv, TypeOK
<1>. QED  BY <1>1, NullsAssumption DEF Owned

LEMMA ActorCarries ==
  ASSUME IInv, CInv, Kept, NEW w \in Requests, Course(w), Carries(w), Handle(w)
  PROVE  Carries(w)'
<1>. DEFINE r == req[w]
            n == req'[w]
            Carrying == {"rtStart", "inspect", "save"}
<1>1. r \in Request /\ TypeOK /\ RequestInv(w)
  BY DEF IInv, TypeOK
<1>2. CASE n.pc \notin Carrying \/ n.kind \notin Builders
  BY <1>2 DEF Carries
<1>3. ASSUME r.pc \in Carrying, NEW pc, Goto(w, pc)
      PROVE  Carries(w)'
  <2>1. n.kind = r.kind /\ n.rid = r.rid /\ n.snap = r.snap
    BY <1>1, <1>3, GotoMoves, GotoSnap
  <2>2. r.rid \in Containers => ctr[r.rid].owner # NoSandbox
    BY <1>3, InHand
  <2>3. PICK c, p : c = r.rid /\ p = r.snap
    OBVIOUS
  <2>4. r.kind \in Builders => From(c, p)
    BY <1>3, <2>3 DEF Carries
  <2>5. r.kind \in Builders => From(c, p)'
    BY <2>2, <2>3, <2>4, FromKept
  <2>. QED  BY <2>1, <2>3, <2>5 DEF Carries, From
<1>4. CASE RtStart(w) \/ Inspect(w)
  BY <1>3, <1>4 DEF RtStart, Performed, Inspect, At
<1>5. ASSUME NEW c \in Containers, RtCreate(w, c), ~Goto(w, "markError")
      PROVE  Carries(w)'
  <2>1. n = [r EXCEPT !.rid = c, !.pc = "rtStart"]
    BY <1>1, <1>5 DEF RtCreate, TypeOK
  <2>2. n.rid = c /\ n.snap = r.snap
    BY <1>1, <2>1 DEF Request
  <2>3. ctr'[c].image = r.snap
    BY <1>1, <1>5 DEF RtCreate, TypeOK
  <2>. QED  BY <2>2, <2>3 DEF Carries, From
<1>6. CASE Return(w)
  BY <1>1, <1>2, <1>6, ReturnIdles DEF Idle
<1>7. CASE Goto(w, "markError") \/ Goto(w, "read") \/ Goto(w, "rollback")
  BY <1>1, <1>2, <1>7, GotoMoves
<1>8. CASE Read(w)
  <2>1. n = [r EXCEPT !.row = rows[r.sb], !.rid = rows[r.sb].rid,
                      !.pc = FirstStep(r.kind, rows[r.sb])]
    BY <1>1, <1>8 DEF Read, TypeOK
  <2>2. n.kind = r.kind /\ n.pc = FirstStep(r.kind, rows[r.sb])
    BY <1>1, <2>1 DEF Request
  <2>3. n.pc \in Carrying => n.kind = "start"
    BY <2>2 DEF FirstStep
  <2>. QED  BY <1>2, <2>3 DEF Builders
<1>9. CASE InsertRow(w)
  <2>1. n = [r EXCEPT !.row = NewRow, !.pc = "rtCreate"]
    BY <1>1, <1>9 DEF InsertRow, TypeOK
  <2>2. n.pc = "rtCreate"
    BY <1>1, <2>1 DEF Request
  <2>. QED  BY <1>2, <2>2
<1>10. CASE MarkDestroying(w) /\ ~r.dead
  <2>. DEFINE row == [r.row EXCEPT !.state = "destroying"]
  <2>1. r.kind = "destroy" /\ n = [r EXCEPT !.row = row,
                 !.pc = IF row.rid = NoContainer THEN "save" ELSE "rtDestroy"]
    BY <1>1, <1>10 DEF MarkDestroying, At, RequestInv, TypeOK
  <2>2. n.kind = "destroy"
    BY <1>1, <2>1 DEF Request
  <2>. QED  BY <1>2, <2>2 DEF Builders
<1>11. CASE Save(w) /\ ~Return(w)
  <2>1. n = [r EXCEPT !.row = Outcome(r), !.pc = "lock"]
    BY <1>1, <1>11 DEF Save, TypeOK
  <2>2. n.pc = "lock"
    BY <1>1, <2>1 DEF Request
  <2>. QED  BY <1>2, <2>2
<1>12. CASE RtDestroy(w) /\ ~Goto(w, "markError")
  <2>1. Goto(w, IF r.kind = "destroy" THEN "save" ELSE "rtCreate")
    BY <1>12 DEF RtDestroy, Performed
  <2>2. n.kind = r.kind /\ n.pc = IF r.kind = "destroy" THEN "save" ELSE "rtCreate"
    BY <1>1, <2>1, GotoMoves
  <2>. QED  BY <1>2, <2>2 DEF Builders
<1>13. CASE RtStop(w) /\ ~Goto(w, "markError")
  <2>1. Goto(w, "save") /\ r.kind = "stop"
    BY <1>13 DEF RtStop, Performed, At, Course
  <2>2. n.kind = "stop"
    BY <1>1, <2>1, GotoMoves
  <2>. QED  BY <1>2, <2>2 DEF Builders
<1>14. CASE \/ SnapPause(w)
            \/ (\E p \in Snapshots : SnapCommit(w, p)) \/ SnapCommitFails(w)
            \/ (SnapUnpause(w) /\ ~Return(w))
  <2>1. \/ \E pc \in {"commit", "unpause", "record"} : Goto(w, pc)
        \/ req' = [req EXCEPT ![w].frozen = TRUE, ![w].pc = "commit"]
        \/ \E p \in Snapshots : req' = [req EXCEPT ![w].snap = p, ![w].pc = "unpause"]
    BY <1>14 DEF SnapPause, SnapCommit, SnapCommitFails, SnapUnpause
  <2>2. CASE \E pc \in {"commit", "unpause", "record"} : Goto(w, pc)
    BY <1>1, <1>2, <2>2, GotoMoves
  <2>3. CASE req' = [req EXCEPT ![w].frozen = TRUE, ![w].pc = "commit"]
    <3>1. n = [r EXCEPT !.frozen = TRUE, !.pc = "commit"]
      BY <1>1, <2>3 DEF TypeOK
    <3>2. n.pc = "commit"
      BY <1>1, <3>1 DEF Request
    <3>. QED  BY <1>2, <3>2
  <2>4. ASSUME NEW p \in Snapshots, req' = [req EXCEPT ![w].snap = p, ![w].pc = "unpause"]
        PROVE  Carries(w)'
    <3>1. n = [r EXCEPT !.snap = p, !.pc = "unpause"]
      BY <1>1, <2>4 DEF TypeOK
    <3>2. n.pc = "unpause"
      BY <1>1, <3>1 DEF Request
    <3>. QED  BY <1>2, <3>2
  <2>. QED  BY <2>1, <2>2, <2>3, <2>4
<1>15. ASSUME Lock(w) \/ RtCreateFails(w) \/ RtFails(w) \/ SnapRecordFails(w)
              \/ ReadRejects(w) \/ InsertFails(w) \/ (MarkDestroying(w) /\ r.dead)
              \/ MarkError(w) \/ ForkWrite(w) \/ SnapPauseUnheard(w)
              \/ SnapPauseFails(w) \/ SnapRecord(w)
              \/ SnapRollback(w) \/ UseFiles(w)
       PROVE  Return(w) \/ Goto(w, "markError") \/ Goto(w, "read") \/ Goto(w, "rollback")
  BY <1>15 DEF Lock, RtCreateFails, RtFails, SnapRecordFails, ReadRejects, InsertFails,
     MarkDestroying, MarkError, ForkWrite, SnapPauseUnheard, SnapPauseFails,
     SnapRecord, SnapRollback,
     UseFiles
<1>. QED  BY <1>4, <1>5, <1>6, <1>7, <1>8, <1>9, <1>10, <1>11, <1>12, <1>13, <1>14,
             <1>15 DEF Handle

LEMMA StepCarries ==
  ASSUME IInv, CInv, [Next]_vars, NEW v \in Requests, Course(v), Carries(v)
  PROVE  Carries(v)'
<1>1. TypeOK /\ Kept
  BY StepKept DEF IInv
<1>2. ASSUME req'[v].pc = req[v].pc, req'[v].kind = req[v].kind,
             req'[v].rid = req[v].rid, req'[v].snap = req[v].snap
      PROVE  Carries(v)'
  <2>1. CASE req[v].pc \in {"rtStart", "inspect", "save"} /\ req[v].kind \in Builders
    <3>1. req[v].rid \in Containers => ctr[req[v].rid].owner # NoSandbox
      BY <2>1, InHand
    <3>2. PICK c, p : c = req[v].rid /\ p = req[v].snap
      OBVIOUS
    <3>3. From(c, p)
      BY <2>1, <3>2 DEF Carries
    <3>4. From(c, p)'
      BY <1>1, <3>1, <3>2, <3>3, FromKept
    <3>. QED  BY <1>2, <3>2, <3>4 DEF Carries, From
  <2>2. CASE ~(req[v].pc \in {"rtStart", "inspect", "save"} /\ req[v].kind \in Builders)
    BY <1>2, <2>2 DEF Carries
  <2>. QED  BY <2>1, <2>2
<1>3. CASE req'[v].pc \in {"idle", "lock", "insert"}
  BY <1>3 DEF Carries
<1>4. ASSUME NEW w \in Requests, Handle(w)
      PROVE  Carries(v)'
  BY <1>1, <1>2, <1>4, ActorCarries, HandleAlone
<1>5. ASSUME NEW w \in Requests, NEW s \in Sandboxes, NEW p \in Image, NEW kind \in Offered,
             Arrive(w, kind, s, p) \/ ArriveNew(w, kind, s, p)
      PROVE  Carries(v)'
  BY <1>2, <1>3, <1>5, ArrivalFacts
<1>6. ASSUME NEW w \in Requests, Cancel(w)
      PROVE  Carries(v)'
  <2>1. req'[v].snap = req[v].snap
    BY <1>1, <1>6 DEF Cancel, TypeOK, Request
  <2>. QED  BY <1>1, <1>2, <1>6, <2>1, CancelFacts
<1>7. CASE Crash
  BY <1>1, <1>3, <1>7 DEF Crash, TypeOK, Idle
<1>8. CASE (\E c \in Containers : ContainerExits(c)) \/ Boot \/ UNCHANGED vars
  BY <1>2, <1>8 DEF ContainerExits, Boot, BootList, BootUnpause, BootServe, vars
<1>. QED  BY <1>4, <1>5, <1>6, <1>7, <1>8 DEF Next

\* A row is rewritten by the request at work on it, past the read of the row, and by
\* nothing else.
LEMMA RowOfOther ==
  ASSUME IInv, NEW w \in Requests, Handle(w), NEW s \in Sandboxes,
         req[w].sb # s \/ ~HoldsLock(w) \/ At(w, "read")
  PROVE  rows'[s] = rows[s]
<1>1. CASE req[w].sb # s
  BY <1>1, HandleWrites DEF InsertRow, MarkDestroying, Save, MarkError, ForkWrite,
     Update, IInv, TypeOK
<1>2. CASE ~HoldsLock(w) \/ At(w, "read")
  BY <1>2, HandleWrites DEF InsertRow, MarkDestroying, Save, MarkError, ForkWrite,
     HoldsLock, At
<1>. QED  BY <1>1, <1>2

LEMMA RowsRest ==
  ASSUME [Next]_vars, ~\E w \in Requests : Handle(w)
  PROVE  UNCHANGED rows
<1>1. CASE \E w \in Requests, s \in Sandboxes, p \in Image, kind \in Offered :
             Arrive(w, kind, s, p) \/ ArriveNew(w, kind, s, p)
  BY <1>1 DEF Arrive, ArriveNew
<1>2. CASE (\E w \in Requests : Cancel(w)) \/ (\E c \in Containers : ContainerExits(c))
            \/ Crash
  BY <1>2 DEF Cancel, ContainerExits, Crash
<1>3. CASE Boot \/ UNCHANGED vars
  BY <1>3 DEF Boot, BootList, BootUnpause, BootServe, vars
<1>. QED  BY <1>1, <1>2, <1>3 DEF Next

\* Without Restore, a row that is past its creation keeps its container.
LEMMA StepPastCreation ==
  ASSUME IInv, [Next]_vars, \A w \in Requests : Course(w), "restore" \notin Offered,
         NEW s \in Sandboxes, rows[s].state \notin {"absent", "creating"}
  PROVE  rows'[s].rid = rows[s].rid /\ rows'[s].state \notin {"absent", "creating"}
<1>1. CASE rows'[s] = rows[s]
  BY <1>1
<1>2. ASSUME NEW w \in Requests, Handle(w), HoldsLock(w), ~At(w, "read"), req[w].sb = s
      PROVE  rows'[s].rid = rows[s].rid /\ rows'[s].state \notin {"absent", "creating"}
  <2>. DEFINE r == req[w]
  <2>1. /\ r \in Request /\ r.row \in Row /\ TypeOK /\ RequestInv(w) /\ Course(w)
        /\ r.row = rows[s] /\ r.pc # "idle"
    BY <1>2, Holder, Busy DEF IInv, TypeOK, Request
  <2>2. r.row # NewRow
    BY <2>1 DEF NewRow
  <2>3. ~InsertRow(w)
    BY <2>1 DEF InsertRow, At, RequestInv, AbsentRow
  <2>4. CASE MarkDestroying(w)
    <3>1. rows'[s] = rows[s] \/ rows'[s] = [r.row EXCEPT !.state = "destroying"]
      BY <1>2, <2>1, <2>4 DEF MarkDestroying, Update, TypeOK
    <3>. QED  BY <2>1, <3>1 DEF Row
  <2>5. CASE Save(w) \/ MarkError(w)
    <3>1. r.rid = r.row.rid
      BY <1>2, <2>1, <2>2, <2>5 DEF Course, Builders, Save, MarkError, At
    <3>2. CASE Save(w)
      <4>1. rows'[s] = rows[s] \/ rows'[s] = Outcome(r)
        BY <1>2, <2>1, <3>2 DEF Save, Update, TypeOK
      <4>. QED  BY <2>1, <3>1, <4>1 DEF Outcome, Target
    <3>3. CASE MarkError(w)
      <4>1. rows'[s] = rows[s] \/ rows'[s] = [r.row EXCEPT !.state = "error", !.rid = r.rid]
        BY <1>2, <2>1, <3>3 DEF MarkError, Update, TypeOK
      <4>. QED  BY <2>1, <3>1, <4>1 DEF Row
    <3>. QED  BY <2>5, <3>2, <3>3
  <2>6. CASE ForkWrite(w)
    <3>1. rows'[s] = rows[s] \/ rows'[s] = [r.row EXCEPT !.parent = r.snap]
      BY <1>2, <2>1, <2>6 DEF ForkWrite, Update, TypeOK
    <3>. QED  BY <2>1, <3>1 DEF Row
  <2>. QED  BY <1>1, <1>2, <2>3, <2>4, <2>5, <2>6, HandleWrites
<1>3. ASSUME NEW w \in Requests, Handle(w)
      PROVE  rows'[s].rid = rows[s].rid /\ rows'[s].state \notin {"absent", "creating"}
  BY <1>1, <1>2, <1>3, RowOfOther
<1>4. CASE ~\E w \in Requests : Handle(w)
  BY <1>1, <1>4, RowsRest
<1>. QED  BY <1>3, <1>4

\* Only Lock, Read and the end of a Fork's creation lead to the steps between
\* the two acquisitions of its mutex.
LEMMA HandleGoesOn ==
  ASSUME IInv, NEW w \in Requests, Handle(w),
         ~(Lock(w) \/ Read(w) \/ (Save(w) /\ ~Return(w)))
  PROVE  req'[w].pc \notin {"lock", "read", "forkWrite"}
<1>. DEFINE r == req[w]
            n == req'[w]
            Onward == Steps \ {"lock", "read", "forkWrite"}
<1>1. r \in Request /\ TypeOK
  BY DEF IInv, TypeOK
<1>2. CASE Return(w)
  BY <1>1, <1>2, ReturnIdles DEF Idle
<1>3. CASE \E pc \in Onward : Goto(w, pc)
  BY <1>1, <1>3, GotoMoves
<1>4. CASE InsertRow(w)
  <2>1. n = [r EXCEPT !.row = NewRow, !.pc = "rtCreate"]
    BY <1>1, <1>4 DEF InsertRow, TypeOK
  <2>. QED  BY <1>1, <2>1 DEF Request
<1>5. CASE MarkDestroying(w) /\ ~Return(w)
  <2>. DEFINE row == [r.row EXCEPT !.state = "destroying"]
  <2>1. n = [r EXCEPT !.row = row,
                      !.pc = IF row.rid = NoContainer THEN "save" ELSE "rtDestroy"]
    BY <1>1, <1>5 DEF MarkDestroying, TypeOK
  <2>. QED  BY <1>1, <2>1 DEF Request
<1>6. ASSUME NEW c \in Containers, RtCreate(w, c), ~\E pc \in Onward : Goto(w, pc)
      PROVE  n.pc = "rtStart"
  <2>1. n = [r EXCEPT !.rid = c, !.pc = "rtStart"]
    BY <1>1, <1>6 DEF RtCreate, TypeOK, Steps
  <2>. QED  BY <1>1, <2>1 DEF Request
<1>7. CASE SnapPause(w) /\ ~\E pc \in Onward : Goto(w, pc)
  <2>1. n = [r EXCEPT !.frozen = TRUE, !.pc = "commit"]
    BY <1>1, <1>7 DEF SnapPause, TypeOK, Steps
  <2>. QED  BY <1>1, <2>1 DEF Request
<1>8. ASSUME NEW p \in Snapshots, SnapCommit(w, p), ~\E pc \in Onward : Goto(w, pc)
      PROVE  n.pc = "unpause"
  <2>1. n = [r EXCEPT !.snap = p, !.pc = "unpause"]
    BY <1>1, <1>8 DEF SnapCommit, TypeOK, Steps
  <2>. QED  BY <1>1, <2>1 DEF Request
<1>9. ASSUME RtCreateFails(w) \/ RtStart(w) \/ RtStop(w) \/ RtDestroy(w) \/ Inspect(w)
             \/ RtFails(w)
      PROVE  \E pc \in Onward : Goto(w, pc)
  BY <1>9 DEF RtCreateFails, RtStart, RtStop, RtDestroy, Inspect, RtFails, Performed, Steps
<1>10. ASSUME SnapCommitFails(w) \/ SnapUnpause(w) \/ SnapRecordFails(w)
       PROVE  Return(w) \/ \E pc \in Onward : Goto(w, pc)
  BY <1>10 DEF SnapCommitFails, SnapUnpause, SnapRecordFails, Steps
<1>11. ASSUME ReadRejects(w) \/ InsertFails(w) \/ MarkError(w) \/ ForkWrite(w)
              \/ SnapPauseUnheard(w) \/ SnapPauseFails(w) \/ SnapRecord(w)
              \/ SnapRollback(w) \/ UseFiles(w)
       PROVE  Return(w)
  BY <1>11 DEF ReadRejects, InsertFails, MarkError, ForkWrite, SnapPauseUnheard, SnapPauseFails,
     SnapRecord, SnapRollback, UseFiles
<1>. QED  BY <1>2, <1>3, <1>4, <1>5, <1>6, <1>7, <1>8, <1>9, <1>10, <1>11 DEF Handle

\* Without Restore, nothing comes between the two acquisitions of a Fork.
LEMMA StepUndisturbed ==
  ASSUME IInv, CInv, LineageInv, [Next]_vars, "restore" \notin Offered,
         NEW v \in Requests
  PROVE  Undisturbed(v)'
<1>. DEFINE r == req[v]
            n == req'[v]
            Between == {"lock", "read", "forkWrite"}
<1>1. /\ TypeOK /\ Kept /\ r \in Request /\ RequestInv(v)
      /\ Course(v) /\ Carries(v) /\ Undisturbed(v)
  BY StepKept DEF IInv, TypeOK, LineageInv
<1>2. CASE n.pc \notin Between \/ n.kind # "fork"
  BY <1>2 DEF Undisturbed
<1>3. ASSUME r.pc \in Between, n.kind = r.kind, n.sb = r.sb, n.snap = r.snap
      PROVE  Undisturbed(v)'
  <2>1. CASE r.kind = "fork"
    <3>1. PICK s, c, p : s = r.sb /\ c = rows[s].rid /\ p = r.snap
      OBVIOUS
    <3>2. s \in Sandboxes
      BY <1>1, <1>3, <3>1 DEF TypeOK
    <3>3. rows[s].state \notin {"absent", "creating"} /\ From(c, p)
      <4>1. rows[s].state # "creating" /\ From(c, p)
        BY <1>1, <1>3, <2>1, <3>1 DEF Undisturbed
      <4>2. CASE r.pc \in {"lock", "read"}
        BY <1>1, <3>1, <4>1, <4>2 DEF RequestInv
      <4>3. CASE r.pc = "forkWrite"
        BY <1>1, <3>1, <4>1, <4>3 DEF RequestInv, IInv, NoLostUpdate, HoldsLock, At
      <4>. QED  BY <1>3, <4>1, <4>2, <4>3
    <3>4. rows'[s].rid = c /\ rows'[s].state # "creating"
      BY <3>1, <3>2, <3>3, StepPastCreation DEF LineageInv
    <3>5. c \in Containers => ctr[c].owner # NoSandbox
      BY <3>1, <3>2, NullsAssumption DEF CInv, RowsOwn
    <3>6. From(c, p)'
      BY <1>1, <3>3, <3>5, FromKept
    <3>. QED  BY <1>3, <3>1, <3>4, <3>6 DEF Undisturbed
  <2>2. CASE r.kind # "fork"
    BY <1>2, <1>3, <2>2
  <2>. QED  BY <2>1, <2>2
<1>4. CASE n = r
  BY <1>2, <1>3, <1>4
<1>5. CASE Handle(v)
  <2>1. CASE Lock(v)
    BY <1>1, <1>3, <2>1, GotoMoves, GotoSnap DEF Lock, At
  <2>2. CASE Read(v)
    <3>1. n = [r EXCEPT !.row = rows[r.sb], !.rid = rows[r.sb].rid,
                        !.pc = FirstStep(r.kind, rows[r.sb])]
      BY <1>1, <2>2 DEF Read, TypeOK
    <3>2. r \in Request /\ r.pc = "read"
      BY <1>1, <2>2 DEF Read, At
    <3>3. n.kind = r.kind /\ n.sb = r.sb /\ n.snap = r.snap
      BY <3>1, <3>2 DEF Request
    <3>. QED  BY <1>3, <3>2, <3>3
  <2>3. CASE Save(v) /\ ~Return(v)
    <3>1. n = [r EXCEPT !.row = Outcome(r), !.pc = "lock"]
            /\ r.pc = "save" /\ r.kind = "fork" /\ r.sb \in Sandboxes
      BY <1>1, <2>3 DEF Save, At, TypeOK
    <3>2. n.sb = r.sb /\ n.snap = r.snap
      BY <1>1, <3>1 DEF Request
    <3>3. PICK s, c, p : s = r.sb /\ c = r.rid /\ p = r.snap
      OBVIOUS
    <3>4. rows'[s] = Outcome(r)
      BY <1>1, <2>3, <3>1, <3>3 DEF Save, Update, TypeOK
    <3>5. rows'[s].state = "running" /\ rows'[s].rid = c
      BY <3>1, <3>3, <3>4 DEF Outcome, Target
    <3>6. From(c, p)
      BY <1>1, <3>1, <3>3 DEF Carries, Builders
    <3>7. c \in Containers => ctr[c].owner # NoSandbox
      BY <3>1, <3>3, InHand
    <3>8. From(c, p)'
      BY <1>1, <3>6, <3>7, FromKept
    <3>. QED  BY <3>2, <3>3, <3>5, <3>8 DEF Undisturbed
  <2>4. CASE ~(Lock(v) \/ Read(v) \/ (Save(v) /\ ~Return(v)))
    <3>1. n.pc \notin Between
      BY <1>1, <1>5, <2>4, HandleGoesOn
    <3>. QED  BY <1>2, <3>1
  <2>. QED  BY <2>1, <2>2, <2>3, <2>4
<1>6. ASSUME NEW w \in Requests, Handle(w)
      PROVE  Undisturbed(v)'
  BY <1>1, <1>4, <1>5, <1>6, HandleAlone
<1>7. ASSUME NEW w \in Requests, NEW s \in Sandboxes, NEW p \in Image, NEW kind \in Offered,
             Arrive(w, kind, s, p) \/ ArriveNew(w, kind, s, p)
      PROVE  Undisturbed(v)'
  <2>1. CASE v # w
    BY <1>4, <1>7, <2>1, ArrivalFacts
  <2>2. CASE v = w /\ Arrive(w, kind, s, p)
    <3>1. n.kind = kind /\ kind # "fork"
      BY <1>1, <2>2 DEF Arrive, TypeOK, Idle
    <3>. QED  BY <1>2, <3>1
  <2>3. CASE v = w /\ ArriveNew(w, kind, s, p)
    <3>1. n.pc = "insert"
      BY <1>1, <2>3 DEF ArriveNew, TypeOK, Idle
    <3>. QED  BY <1>2, <3>1
  <2>. QED  BY <1>7, <2>1, <2>2, <2>3
<1>8. ASSUME NEW w \in Requests, Cancel(w)
      PROVE  Undisturbed(v)'
  <2>1. n.snap = r.snap /\ n.pc = r.pc /\ n.kind = r.kind /\ n.sb = r.sb
    BY <1>1, <1>8 DEF Cancel, TypeOK, Request
  <2>. QED  BY <1>2, <1>3, <2>1
<1>9. CASE Crash
  <2>1. n.pc = "idle"
    BY <1>9 DEF Crash, Idle
  <2>. QED  BY <1>2, <2>1
<1>10. CASE (\E c \in Containers : ContainerExits(c)) \/ Boot \/ UNCHANGED vars
  BY <1>4, <1>10 DEF ContainerExits, Boot, BootList, BootUnpause, BootServe, vars
<1>. QED  BY <1>6, <1>7, <1>8, <1>9, <1>10 DEF Next

\* A write to a row leaves it with a true parent, unless it is that of a Fork.
LEMMA StepNamesOrigin ==
  ASSUME IInv, CInv, LineageInv, [Next]_vars, "fork" \notin Offered \/ "restore" \notin Offered,
         NEW s \in Sandboxes
  PROVE  NamesOrigin(s)'
<1>1. TypeOK /\ Kept /\ NamesOrigin(s)
  BY StepKept DEF IInv, LineageInv
<1>2. PICK c : c = rows[s].rid
  OBVIOUS
<1>3. c \in Containers => ctr[c].owner # NoSandbox
  BY <1>2, NullsAssumption DEF CInv, RowsOwn
<1>4. Live(c)' => Live(c) /\ ctr'[c].image = ctr[c].image
  BY <1>1, <1>3 DEF Kept, Live
<1>5. ASSUME rows'[s].rid = c, rows'[s].parent = rows[s].parent,
             rows[s].state \in {"creating", "running", "stopped"}
      PROVE  NamesOrigin(s)'
  BY <1>1, <1>2, <1>4, <1>5 DEF NamesOrigin
<1>6. CASE rows'[s] = rows[s]
  BY <1>1, <1>2, <1>4, <1>6 DEF NamesOrigin
<1>7. CASE rows'[s].state \notin {"creating", "running", "stopped"}
                \/ rows'[s].parent = NoSnapshot
  BY <1>7 DEF NamesOrigin
<1>8. ASSUME NEW w \in Requests, Handle(w), HoldsLock(w), ~At(w, "read"), req[w].sb = s
      PROVE  NamesOrigin(s)'
  <2>. DEFINE r == req[w]
  <2>1. /\ r \in Request /\ r.row \in Row /\ r.pc # "idle"
        /\ RequestInv(w) /\ Course(w) /\ Carries(w) /\ r.row = rows[s]
    BY <1>8, Holder, Busy DEF IInv, TypeOK, Request, LineageInv
  <2>2. CASE InsertRow(w)
    <3>1. rows'[s] = NewRow
      BY <1>1, <1>8, <2>2 DEF InsertRow, Update, TypeOK
    <3>. QED  BY <1>7, <3>1 DEF NewRow
  <2>3. CASE MarkDestroying(w)
    <3>1. rows'[s] = rows[s] \/ rows'[s] = [r.row EXCEPT !.state = "destroying"]
      BY <1>1, <1>8, <2>3 DEF MarkDestroying, Update, TypeOK
    <3>2. rows'[s] = rows[s] \/ rows'[s].state = "destroying"
      BY <2>1, <3>1 DEF Row
    <3>. QED  BY <1>6, <1>7, <3>2
  <2>4. CASE MarkError(w)
    <3>1. rows'[s] = rows[s] \/ rows'[s] = [r.row EXCEPT !.state = "error", !.rid = r.rid]
      BY <1>1, <1>8, <2>4 DEF MarkError, Update, TypeOK
    <3>2. rows'[s] = rows[s] \/ rows'[s].state = "error"
      BY <2>1, <3>1 DEF Row
    <3>. QED  BY <1>6, <1>7, <3>2
  <2>5. CASE Save(w) /\ rows'[s] # rows[s]
    <3>1. rows'[s] = Outcome(r) /\ r.pc = "save"
      BY <1>1, <1>8, <2>5 DEF Save, Update, TypeOK, At
    <3>2. CASE r.kind \in {"create", "fork"}
      <4>1. rows'[s].parent = NoSnapshot
        BY <2>1, <3>1, <3>2 DEF Course, Outcome, NewRow
      <4>. QED  BY <1>7, <4>1
    <3>3. CASE r.kind = "restore"
      <4>1. PICK d, p : d = r.rid /\ p = r.snap
        OBVIOUS
      <4>2. rows'[s].parent = p /\ rows'[s].rid = d
        BY <3>1, <3>3, <4>1 DEF Outcome
      <4>3. From(d, p)
        BY <2>1, <3>1, <3>3, <4>1 DEF Carries, Builders
      <4>4. d \in Containers => ctr[d].owner # NoSandbox
        BY <3>1, <4>1, InHand
      <4>5. From(d, p)'
        BY <1>1, <4>3, <4>4, FromKept
      <4>. QED  BY <4>2, <4>5 DEF NamesOrigin, From
    <3>4. CASE r.kind = "destroy"
      <4>1. rows'[s].state = "destroyed"
        BY <3>1, <3>4 DEF Outcome, Target
      <4>. QED  BY <1>7, <4>1
    <3>5. CASE r.kind \notin {"create", "fork", "restore", "destroy"}
      <4>1. r.rid = r.row.rid
        BY <2>1, <3>1, <3>5 DEF Course, Builders
      <4>2. rows'[s].rid = c /\ rows'[s].parent = rows[s].parent
        BY <1>2, <2>1, <3>1, <3>5, <4>1 DEF Outcome
      <4>3. Target(r.kind) \in {"running", "stopped"}
        BY <3>5 DEF Target
      <4>4. \/ r.row.state = Target(r.kind)
            \/ States!CanTransition(r.row.state, Target(r.kind))
        BY <2>1, <3>1 DEF RequestInv, MayEnd
      <4>5. r.row.state \in {"creating", "running", "stopped"}
        BY <4>3, <4>4 DEF States!CanTransition, States!transitions, States!States
      <4>. QED  BY <1>5, <2>1, <4>2, <4>5
    <3>. QED  BY <3>2, <3>3, <3>4, <3>5
  <2>6. CASE ForkWrite(w)
    <3>1. r.pc = "forkWrite" /\ r.kind = "fork" /\ "restore" \notin Offered
      BY <2>1, <2>6 DEF ForkWrite, At, Course
    <3>2. PICK p : p = r.snap
      OBVIOUS
    <3>3. From(c, p)
      BY <1>2, <1>8, <3>1, <3>2 DEF LineageInv, Undisturbed
    <3>4. rows'[s] = rows[s] \/ rows'[s] = [r.row EXCEPT !.parent = p]
      BY <1>1, <1>8, <2>6, <3>2 DEF ForkWrite, Update, TypeOK
    <3>5. rows'[s] = rows[s] \/ (rows'[s].rid = c /\ rows'[s].parent = p)
      BY <1>2, <2>1, <3>4 DEF Row
    <3>6. From(c, p)'
      BY <1>1, <1>3, <3>3, FromKept
    <3>7. CASE rows'[s].rid = c /\ rows'[s].parent = p
      BY <3>6, <3>7 DEF NamesOrigin, From
    <3>. QED  BY <1>6, <3>5, <3>7
  <2>. QED  BY <1>6, <1>8, <2>2, <2>3, <2>4, <2>5, <2>6, HandleWrites
<1>9. ASSUME NEW w \in Requests, Handle(w)
      PROVE  NamesOrigin(s)'
  BY <1>6, <1>8, <1>9, RowOfOther
<1>10. CASE ~\E w \in Requests : Handle(w)
  BY <1>6, <1>10, RowsRest
<1>. QED  BY <1>9, <1>10

LEMMA InitLineage == Init => LineageInv
<1>. SUFFICES ASSUME Init
              PROVE  LineageInv
  OBVIOUS
<1>1. ASSUME NEW w \in Requests
      PROVE  Course(w) /\ Carries(w) /\ Undisturbed(w)
  <2>1. req[w].pc = "idle"
    BY DEF Init, Idle
  <2>. QED  BY <2>1 DEF Course, Carries, Undisturbed
<1>2. ASSUME NEW s \in Sandboxes
      PROVE  NamesOrigin(s)
  BY DEF Init, NamesOrigin, AbsentRow
<1>. QED  BY <1>1, <1>2 DEF LineageInv

\* A sandbox knows the snapshot it came from unless a Restore comes between the two
\* acquisitions of a Fork: where one of the two operations is not called, whatever
\* else is called, fails, hangs up or dies, a row names the snapshot its container
\* was made from, or none.
THEOREM LineageBreaksByForkRaceOnly ==
  ASSUME "fork" \notin Offered \/ "restore" \notin Offered
  PROVE  Spec => []TrueLineage
<1>1. Init => IInv /\ CInv /\ LineageInv
  BY InitKeeps, InitOwns, InitLineage
<1>2. IInv /\ CInv /\ LineageInv /\ [Next]_vars => (IInv /\ CInv /\ LineageInv)'
  <2>. SUFFICES ASSUME IInv, CInv, LineageInv, [Next]_vars
                PROVE  IInv' /\ CInv' /\ LineageInv'
    OBVIOUS
  <2>1. IInv' /\ CInv'
    BY StepKeeps, StepOwns
  <2>2. \A w \in Requests : Course(w)' /\ Carries(w)'
    BY StepCourse, StepCarries DEF LineageInv
  <2>3. "restore" \notin Offered => \A w \in Requests : Undisturbed(w)'
    BY StepUndisturbed
  <2>4. \A s \in Sandboxes : NamesOrigin(s)'
    BY StepNamesOrigin
  <2>. QED  BY <2>1, <2>2, <2>3, <2>4 DEF LineageInv
<1>3. LineageInv => TrueLineage
  BY DEF LineageInv, NamesOrigin, TrueLineage
<1>. QED  BY <1>1, <1>2, <1>3, PTL DEF Spec

===============================================================================
