---------------------------- MODULE SnapshotProofs ----------------------------
(***************************************************************************)
(* Proofs about the snapshot service: composed with the sandbox service it *)
(* only restricts what that does, so every theorem about the one holds of  *)
(* both; and the lineage and the images in use are safe from deletion.     *)
(***************************************************************************)
EXTENDS SnapshotService, SandboxContainerProofs

-------------------------------------------------------------------------------
(* The composition refines the sandbox service                               *)

LEMMA SnapStepRefines ==
  ASSUME [SnapNext]_allVars
  PROVE  [Next]_vars
<1>1. CASE \E w \in Requests : Elsewhere(w) /\ UNCHANGED snapVars
  BY <1>1 DEF Elsewhere, Next, Handle
<1>2. CASE \/ \E w \in Requests, c \in Containers : CreateContainer(w, c)
           \/ \E w \in Requests, p \in Snapshots : Commit(w, p)
           \/ \E w \in Requests : Record(w) \/ Rollback(w)
  BY <1>2 DEF CreateContainer, Commit, Record, Rollback, Next, Handle
<1>3. CASE \E d \in Deleters : Delete(d)
  BY <1>3 DEF Delete, DeleteArrives, DeleteCounts, DeleteImage, DeleteImageRefused,
     DeleteRow, DeleteCancelled, vars
<1>4. CASE \E w \in Requests, s \in Sandboxes, p \in Image, kind \in Offered :
             Arrive(w, kind, s, p) \/ ArriveNew(w, kind, s, p)
  BY <1>4 DEF Next
<1>5. CASE Boot \/ (\E c \in Containers : ContainerExits(c)) \/ Crash
  BY <1>5 DEF Next
<1>6. CASE UNCHANGED allVars
  BY <1>6 DEF allVars, vars
<1>. QED  BY <1>1, <1>2, <1>3, <1>4, <1>5, <1>6 DEF SnapNext

\* Whatever is proved of the sandbox service holds beside deletions too.
THEOREM ComposedRefinesSandboxService == SnapSpec => Spec
<1>1. SnapInit => Init
  BY DEF SnapInit
<1>2. [SnapNext]_allVars => [Next]_vars
  BY SnapStepRefines
<1>. QED  BY <1>1, <1>2, PTL DEF SnapSpec, Spec

-------------------------------------------------------------------------------
(* What requests and deletions know of snapshots                             *)

Committing == {"pause", "commit", "unpause", "record", "rollback"}

\* The image in the hand of a snapshot request has no row yet; the snapshot that
\* any other request resolved has one, unless it was deleted since.
Knows(w) ==
  LET r == req[w] IN
  /\ r.pc \in Committing => r.kind = "snapshot"
  /\ r.kind = "snapshot" /\ r.pc \notin {"unpause", "record", "rollback"} =>
       r.snap = NoSnapshot
  /\ r.pc \in {"record", "rollback"} => r.snap # NoSnapshot
  /\ r.pc \in {"unpause", "record", "rollback"} /\ r.snap # NoSnapshot =>
       ~snaps[r.snap].row /\ snaps[r.snap].image # "none"
  /\ r.pc \notin Committing /\ r.snap # NoSnapshot =>
       snaps[r.snap].row \/ snaps[r.snap].image = "removed"

\* No two snapshot requests have committed the same image.
OwnImages ==
  \A v, w \in Requests :
    /\ v # w
    /\ req[v].pc \in {"unpause", "record", "rollback"}
    /\ req[w].pc \in {"unpause", "record", "rollback"}
    /\ req[v].snap = req[w].snap
    => req[v].snap = NoSnapshot

\* A deletion gets to the row after the image is gone.
ImageFirst ==
  \A d \in Deleters :
    /\ del[d].pc # "idle" => del[d].snap \in Snapshots
    /\ del[d].pc = "row" => snaps[del[d].snap].image = "removed"

SInv ==
  /\ SnapTypeOK
  /\ \A w \in Requests : Knows(w)
  /\ OwnImages
  /\ ImageFirst
  /\ LineageIsClosed
  /\ UsedSnapshotIsListed

\* How the steps that leave snapshots alone move a request.
LEMMA Moves ==
  ASSUME TypeOK, NEW w \in Requests,
         Elsewhere(w) \/ (\E c \in Containers : RtCreate(w, c))
  PROVE  \/ req'[w] = Idle
         \/ /\ req'[w].kind = req[w].kind /\ req'[w].snap = req[w].snap
            /\ \/ req'[w].pc = req[w].pc
               \/ req[w].pc \notin Committing /\ req[w].pc # "idle"
                    /\ req'[w].pc \notin Committing
               \/ req'[w].pc = "pause" /\ req[w].kind = "snapshot" /\ req[w].pc = "read"
               \/ req[w].pc = "pause" /\ req'[w].pc = "commit"
               \/ req[w].pc = "commit" /\ req'[w].pc = "unpause"
               \/ req[w].pc = "unpause" /\ req'[w].pc = "record"
                    /\ req[w].snap # NoSnapshot
               \/ req[w].pc = "record" /\ req'[w].pc = "rollback"
<1>. DEFINE r == req[w]
<1>1. r \in Request /\ req \in [Requests -> Request]
  BY DEF TypeOK
<1>2. CASE Return(w)
  BY <1>1, <1>2 DEF Return
<1>3. ASSUME NEW pc, Goto(w, pc)
      PROVE  req'[w].kind = r.kind /\ req'[w].snap = r.snap /\ req'[w].pc = pc
  BY <1>1, <1>3 DEF Goto, Request
<1>4. CASE Lock(w) \/ RtCreateFails(w) \/ RtStart(w) \/ RtStop(w) \/ RtDestroy(w)
           \/ Inspect(w) \/ RtFails(w)
  BY <1>3, <1>4 DEF Lock, RtCreateFails, RtStart, RtStop, RtDestroy, Inspect, RtFails,
     Performed, At, Committing
<1>5. CASE Read(w)
  <2>. DEFINE s == r.sb
              n == [r EXCEPT !.row = rows[s], !.rid = rows[s].rid,
                             !.pc = FirstStep(r.kind, rows[s])]
  <2>1. req'[w] = n /\ r.pc = "read"
    BY <1>1, <1>5 DEF Read, At
  <2>2. n.kind = r.kind /\ n.snap = r.snap /\ n.pc = FirstStep(r.kind, rows[s])
    BY <1>1 DEF Request
  <2>3. n.pc \notin Committing \/ (n.pc = "pause" /\ r.kind = "snapshot")
    BY <2>2 DEF FirstStep, Committing
  <2>. QED  BY <2>1, <2>2, <2>3 DEF Committing
<1>6. CASE InsertRow(w) \/ MarkDestroying(w) \/ Save(w)
  <2>1. r.pc \in {"insert", "mark", "save"}
    BY <1>6 DEF InsertRow, MarkDestroying, Save, At
  <2>2. ASSUME NEW row, NEW pc \in {"rtCreate", "save", "rtDestroy", "lock"},
               req' = [req EXCEPT ![w].row = row, ![w].pc = pc]
        PROVE  /\ req'[w].kind = r.kind /\ req'[w].snap = r.snap
               /\ r.pc \notin Committing /\ r.pc # "idle" /\ req'[w].pc \notin Committing
    BY <1>1, <2>1, <2>2 DEF Request, Committing
  <2>3. \/ Return(w)
        \/ /\ req'[w].kind = r.kind /\ req'[w].snap = r.snap
           /\ r.pc \notin Committing /\ r.pc # "idle" /\ req'[w].pc \notin Committing
    <3>1. CASE InsertRow(w)
      BY <2>2, <3>1 DEF InsertRow
    <3>2. CASE MarkDestroying(w)
      BY <2>2, <3>2 DEF MarkDestroying
    <3>3. CASE Save(w)
      BY <2>2, <3>3 DEF Save
    <3>. QED  BY <1>6, <3>1, <3>2, <3>3
  <2>. QED  BY <1>2, <2>3
<1>7. CASE \E c \in Containers : RtCreate(w, c)
  <2>1. PICK c \in Containers : RtCreate(w, c)
    BY <1>7
  <2>2. ASSUME req' = [req EXCEPT ![w].rid = c, ![w].pc = "rtStart"]
        PROVE  req'[w].kind = r.kind /\ req'[w].snap = r.snap /\ req'[w].pc = "rtStart"
    BY <1>1, <2>2 DEF Request
  <2>3. req'[w].kind = r.kind /\ req'[w].snap = r.snap /\ r.pc = "rtCreate"
          /\ req'[w].pc \in {"rtStart", "markError"}
    BY <1>3, <2>1, <2>2 DEF RtCreate, At
  <2>. QED  BY <2>3 DEF Committing
<1>8. CASE SnapPause(w)
  <2>1. ASSUME req' = [req EXCEPT ![w].frozen = TRUE, ![w].pc = "commit"]
        PROVE  req'[w].kind = r.kind /\ req'[w].snap = r.snap /\ req'[w].pc = "commit"
    BY <1>1, <2>1 DEF Request
  <2>. QED  BY <1>2, <1>3, <1>8, <2>1 DEF SnapPause, At
<1>9. CASE SnapCommitFails(w) \/ SnapUnpause(w) \/ SnapRecordFails(w)
  BY <1>2, <1>3, <1>9 DEF SnapCommitFails, SnapUnpause, SnapRecordFails, At
<1>10. CASE Cancel(w)
  BY <1>1, <1>10 DEF Cancel, Request
<1>11. ASSUME ReadRejects(w) \/ InsertFails(w) \/ MarkError(w) \/ ForkWrite(w)
              \/ SnapPauseUnheard(w) \/ SnapPauseFails(w) \/ UseFiles(w)
       PROVE  Return(w)
  BY <1>11 DEF ReadRejects, InsertFails, MarkError, ForkWrite, SnapPauseUnheard,
     SnapPauseFails, UseFiles
<1>. QED  BY <1>2, <1>4, <1>5, <1>6, <1>7, <1>8, <1>9, <1>10, <1>11 DEF Elsewhere

-------------------------------------------------------------------------------
(* Every step keeps SInv                                                     *)

\* What the other parts of SInv say of the snapshots alone.
Shelf == SnapTypeOK /\ ImageFirst /\ LineageIsClosed

LEMMA SameShelf ==
  ASSUME SInv, UNCHANGED snaps, \A d \in Deleters : del'[d] \in {del[d], IdleDel},
         del' \in [Deleters -> Deletion]
  PROVE  Shelf'
<1>1. SnapTypeOK'
  BY DEF SInv, SnapTypeOK
<1>2. ImageFirst'
  BY DEF SInv, ImageFirst, IdleDel
<1>3. LineageIsClosed'
  BY DEF SInv, LineageIsClosed, Resolvable, Listed
<1>. QED  BY <1>1, <1>2, <1>3 DEF Shelf

\* Snapshots stay as they are and no container comes to life.
LEMMA QuietKeeps ==
  ASSUME SInv, UNCHANGED snaps, Quiet
  PROVE  UsedSnapshotIsListed'
BY DEF SInv, UsedSnapshotIsListed, Quiet

\* A request that does not move, over snapshots that stay as they are.
LEMMA StillKnows ==
  ASSUME UNCHANGED snaps, NEW v \in Requests, Knows(v), req'[v] = req[v]
  PROVE  Knows(v)'
BY DEF Knows

LEMMA IdleKnows ==
  ASSUME NEW v \in Requests, req'[v] = Idle
  PROVE  Knows(v)'
BY DEF Knows, Idle, Committing

\* Steps that leave the snapshots alone.
LEMMA ElsewhereKeeps ==
  ASSUME IInv, CInv, SInv, NEW w \in Requests, UNCHANGED snapVars,
         Elsewhere(w) \/ (\E c \in Containers : RtCreate(w, c)),
         UsedSnapshotIsListed'
  PROVE  SInv'
<1>1. TypeOK /\ UNCHANGED snaps /\ UNCHANGED del
  BY DEF IInv, snapVars
<1>2. Shelf'
  BY <1>1, SameShelf DEF SInv, SnapTypeOK
<1>3. ASSUME NEW v \in Requests, v # w
      PROVE  req'[v] = req[v]
  <2>1. Handle(w) \/ Cancel(w)
    BY DEF Elsewhere, Handle
  <2>2. Cancel(w) => req'[v] = req[v]
    BY <1>1, <1>3 DEF Cancel, TypeOK
  <2>. QED  BY <1>3, <2>1, <2>2, HandleAlone DEF IInv
<1>4. Knows(w)'
  <2>1. CASE req'[w] = Idle
    BY <2>1, IdleKnows
  <2>2. CASE req'[w] # Idle
    <3>1. Knows(w)
      BY DEF SInv
    <3>. QED  BY <1>1, <2>2, <3>1, Moves DEF Knows, Committing
  <2>. QED  BY <2>1, <2>2
<1>5. \A v \in Requests : Knows(v)'
  BY <1>1, <1>3, <1>4, StillKnows DEF SInv
<1>6. OwnImages'
  <2>1. req'[w].pc \in {"unpause", "record", "rollback"} /\ req'[w].snap # NoSnapshot =>
          req[w].pc \in {"unpause", "record", "rollback"} /\ req[w].snap = req'[w].snap
    BY <1>1, Moves DEF SInv, Knows, Committing, Idle
  <2>. QED  BY <1>3, <2>1 DEF SInv, OwnImages
<1>. QED  BY <1>2, <1>5, <1>6 DEF SInv, Shelf

\* A step that is not a creation brings no container to life.
LEMMA ElsewhereQuiet ==
  ASSUME IInv, CInv, NEW w \in Requests, Elsewhere(w)
  PROVE  Quiet
<1>1. CASE UNCHANGED ctr
  BY <1>1, SameTame
<1>2. CASE At(w, "rtCreate")
  BY <1>1, <1>2 DEF Elsewhere, Lock, Read, ReadRejects, InsertRow, InsertFails,
     MarkDestroying, Save, MarkError, ForkWrite, RtCreateFails, RtStart, RtStop,
     RtDestroy, Inspect, RtFails, SnapPause, SnapPauseUnheard, SnapPauseFails, SnapCommitFails,
     SnapUnpause, SnapRecordFails, UseFiles, Cancel, At
<1>3. CASE ~At(w, "rtCreate")
  <2>1. Handle(w) \/ Cancel(w)
    BY DEF Elsewhere, Handle
  <2>2. CASE Handle(w)
    BY <1>3, <2>2, HandleTame DEF RtCreate
  <2>3. CASE Cancel(w)
    BY <1>1, <2>3 DEF Cancel
  <2>. QED  BY <2>1, <2>2, <2>3
<1>. QED  BY <1>2, <1>3

\* The image was there when the container was made, and with it the row.
LEMMA CreationKeeps ==
  ASSUME IInv, CInv, SInv, NEW w \in Requests, NEW c \in Containers,
         CreateContainer(w, c)
  PROVE  SInv'
<1>1. RtCreate(w, c) /\ UNCHANGED snaps /\ UNCHANGED snapVars /\ TypeOK
  BY DEF CreateContainer, snapVars, IInv
<1>2. req[w].snap # NoSnapshot =>
        snaps[req[w].snap].row /\ snaps[req[w].snap].image = "present"
  BY DEF CreateContainer, RtCreate, At, SInv, Knows, Committing
<1>3. ctr'[c].image = req[w].snap /\ \A d \in Containers : d # c => ctr'[d] = ctr[d]
  BY <1>1 DEF RtCreate, TypeOK
<1>4. UsedSnapshotIsListed'
  BY <1>1, <1>2, <1>3 DEF SInv, UsedSnapshotIsListed, Live
<1>. QED  BY <1>1, <1>4, ElsewhereKeeps

\* An image is committed under a reference that nobody knows.
LEMMA CommitKeeps ==
  ASSUME IInv, CInv, SInv, NEW w \in Requests, NEW p \in Snapshots, Commit(w, p)
  PROVE  SInv'
<1>. DEFINE r == req[w]
            base == ctr[r.rid].image
<1>1. /\ TypeOK /\ r \in Request /\ req \in [Requests -> Request]
      /\ snaps \in [Snapshots -> Snapshot] /\ p # NoSnapshot
  BY NullsAssumption DEF IInv, TypeOK, SInv, SnapTypeOK
<1>2. /\ SnapCommit(w, p) /\ r.pc = "commit" /\ snaps[p] = NoneYet
      /\ UNCHANGED del /\ UNCHANGED ctr
      /\ snaps' = [snaps EXCEPT ![p].image = "present", ![p].base = base]
  BY DEF Commit, SnapCommit, At
<1>3. base \in Image
  BY <1>1, <1>2 DEF CInv, Owned, Live, TypeOK, Container
<1>4. /\ snaps' \in [Snapshots -> Snapshot]
      /\ ~snaps'[p].row /\ ~snaps[p].row /\ snaps'[p].image = "present"
      /\ snaps[p].image = "none"
      /\ \A q \in Snapshots : q # p => snaps'[q] = snaps[q]
      /\ \A q \in Snapshots : snaps'[q].row = snaps[q].row /\ snaps'[q].parent = snaps[q].parent
  <2>. DEFINE n == [NoneYet EXCEPT !.image = "present", !.base = base]
  <2>1. snaps' = [snaps EXCEPT ![p] = n]
    BY <1>1, <1>2
  <2>2. n \in Snapshot /\ n.row = FALSE /\ n.image = "present" /\ n.parent = NoSnapshot
    BY <1>3 DEF NoneYet, Snapshot, Image
  <2>3. snaps' \in [Snapshots -> Snapshot] /\ snaps'[p] = n
          /\ \A q \in Snapshots : q # p => snaps'[q] = snaps[q]
    BY <1>1, <2>1, <2>2
  <2>4. ~snaps[p].row /\ snaps[p].image = "none" /\ snaps[p].parent = NoSnapshot
    BY <1>2 DEF NoneYet
  <2>. HIDE DEF n
  <2>5. \A q \in Snapshots : snaps'[q].row = snaps[q].row /\ snaps'[q].parent = snaps[q].parent
    <3>1. snaps'[p].row = snaps[p].row
      BY <1>2, <2>2, <2>3 DEF NoneYet
    <3>. QED  BY <2>2, <2>3, <2>4, <3>1
  <2>. QED  BY <2>2, <2>3, <2>4, <2>5
<1>5. \/ req'[w].pc = "unpause" /\ req'[w].kind = r.kind /\ req'[w].snap = p
      \/ req'[w].pc = "unpause" /\ req'[w].kind = r.kind /\ req'[w].snap = r.snap
  <2>1. CASE req' = [req EXCEPT ![w].snap = p, ![w].pc = "unpause"]
    BY <1>1, <2>1 DEF Request
  <2>2. CASE Goto(w, "unpause")
    BY <1>1, <2>2 DEF Goto, Request
  <2>. QED  BY <1>2, <2>1, <2>2 DEF SnapCommit
<1>6. r.kind = "snapshot" /\ r.snap = NoSnapshot
  BY <1>2 DEF SInv, Knows, Committing
<1>7. ASSUME NEW v \in Requests, v # w
      PROVE  /\ req'[v] = req[v] /\ req[v].snap # p /\ req[v].snap \in Image
             /\ Knows(v)'
  <2>1. req'[v] = req[v]
    BY <1>1, <1>2, <1>7 DEF SnapCommit, Goto
  <2>2. req[v] \in Request /\ Knows(v)
    BY <1>1 DEF SInv
  <2>3. req[v].snap # p
    BY <1>1, <1>4, <2>2 DEF Knows, Committing
  <2>. QED  BY <1>4, <2>1, <2>2, <2>3 DEF Knows, Request, Image
<1>8. Knows(w)'
  BY <1>1, <1>4, <1>5, <1>6 DEF Knows, Committing
<1>9. OwnImages'
  BY <1>5, <1>6, <1>7 DEF SInv, OwnImages
<1>10. SnapTypeOK' /\ ImageFirst'
  BY <1>2, <1>4 DEF SInv, SnapTypeOK, ImageFirst
<1>11. LineageIsClosed'
  BY <1>4 DEF SInv, LineageIsClosed, Resolvable, Listed
<1>12. UsedSnapshotIsListed'
  BY <1>1, <1>2, <1>4 DEF SInv, UsedSnapshotIsListed, Live, TypeOK, Container, Image
<1>. QED  BY <1>7, <1>8, <1>9, <1>10, <1>11, <1>12 DEF SInv

\* The steps that change snapshot p for request w and end it.
LEMMA EndKeeps ==
  ASSUME IInv, CInv, SInv, NEW w \in Requests, NEW p \in Snapshots,
         Return(w), UNCHANGED del, UNCHANGED ctr,
         req[w].pc \in {"record", "rollback"}, req[w].snap = p,
         NEW n \in Snapshot, snaps' = [snaps EXCEPT ![p] = n],
         n.row => Resolvable(n.parent),
         n.image # "none",
         n.image = "removed" \/ n.image = snaps[p].image,
         snaps[p].image = "removed" => n.image = "removed"
  PROVE  SInv'
<1>1. /\ req \in [Requests -> Request] /\ ctr \in [Containers -> Container]
      /\ snaps \in [Snapshots -> Snapshot] /\ p # NoSnapshot /\ ~snaps[p].row
  BY NullsAssumption DEF IInv, TypeOK, SInv, SnapTypeOK, Knows
<1>2. snaps'[p] = n /\ (\A q \in Snapshots : q # p => snaps'[q] = snaps[q])
  BY <1>1
<1>3. req'[w] = Idle /\ \A v \in Requests : v # w => req'[v] = req[v]
  BY <1>1 DEF Return
<1>4. ASSUME NEW v \in Requests
      PROVE  Knows(v)'
  <2>1. CASE v = w
    BY <1>3, <2>1, IdleKnows
  <2>2. CASE v # w
    <3>1. req'[v] = req[v] /\ Knows(v) /\ req[v].snap \in Image
      BY <1>1, <1>3, <2>2 DEF SInv, Request
    <3>2. req[v].pc \in {"unpause", "record", "rollback"} => req[v].snap # p
      BY <1>1, <2>2 DEF SInv, OwnImages
    <3>3. req[v].snap # p /\ req[v].snap # NoSnapshot => snaps'[req[v].snap] = snaps[req[v].snap]
      BY <1>2, <3>1 DEF Image
    <3>4. CASE req[v].snap # p
      BY <3>1, <3>3, <3>4 DEF Knows
    <3>5. CASE req[v].snap = p
      BY <1>1, <1>2, <3>1, <3>2, <3>5 DEF Knows, Committing
    <3>. QED  BY <3>4, <3>5
  <2>. QED  BY <2>1, <2>2
<1>5. OwnImages'
  BY <1>3 DEF SInv, OwnImages, Idle
<1>6. SnapTypeOK' /\ ImageFirst'
  BY <1>1, <1>2 DEF SInv, SnapTypeOK, ImageFirst
<1>7. LineageIsClosed'
  BY <1>1, <1>2 DEF SInv, LineageIsClosed, Resolvable, Listed
<1>8. UsedSnapshotIsListed'
  BY <1>1, <1>2 DEF SInv, UsedSnapshotIsListed, Live, Container, Image
<1>. QED  BY <1>4, <1>5, <1>6, <1>7, <1>8 DEF SInv

LEMMA RecordKeeps ==
  ASSUME IInv, CInv, SInv, NEW w \in Requests, Record(w) \/ Rollback(w)
  PROVE  SInv'
<1>. DEFINE p == req[w].snap
            parent == req[w].row.parent
<1>1. /\ req[w] \in Request /\ snaps \in [Snapshots -> Snapshot] /\ p \in Snapshots
      /\ req[w].pc \in {"record", "rollback"} /\ snaps[p].image # "none" /\ ~snaps[p].row
      /\ Return(w) /\ UNCHANGED del /\ UNCHANGED ctr
  <2>1. req[w].pc \in {"record", "rollback"} /\ Return(w) /\ UNCHANGED del /\ UNCHANGED ctr
    BY DEF Record, Rollback, SnapRecord, SnapRollback, At
  <2>2. req[w] \in Request /\ snaps \in [Snapshots -> Snapshot]
    BY DEF IInv, TypeOK, SInv, SnapTypeOK
  <2>. QED  BY <2>1, <2>2 DEF SInv, Knows, Request, Image
<1>2. CASE Record(w)
  <2>. DEFINE n == [snaps[p] EXCEPT !.row = TRUE, !.parent = parent]
  <2>1. snaps' = [snaps EXCEPT ![p] = n] /\ Resolvable(parent)
    BY <1>1, <1>2 DEF Record
  <2>2. parent \in Image
    BY <1>1 DEF Request, Row
  <2>3. snaps[p] \in Snapshot
    BY <1>1
  <2>4. n \in Snapshot /\ n.parent = parent /\ n.image = snaps[p].image
    BY <2>2, <2>3 DEF Snapshot
  <2>. QED  BY <1>1, <2>1, <2>4, EndKeeps
<1>3. CASE Rollback(w)
  <2>. DEFINE n == [snaps[p] EXCEPT !.image = "removed"]
  <2>1. n \in Snapshot /\ n.image = "removed" /\ n.row = snaps[p].row
    BY <1>1 DEF Snapshot
  <2>2. CASE snaps' = [snaps EXCEPT ![p] = n]
    BY <1>1, <2>1, <2>2, EndKeeps
  <2>3. CASE UNCHANGED snaps
    <3>1. snaps' = [snaps EXCEPT ![p] = snaps[p]] /\ snaps[p] \in Snapshot
      BY <1>1, <2>3
    <3>. QED  BY <1>1, <3>1, EndKeeps
  <2>. QED  BY <1>1, <1>3, <2>2, <2>3 DEF Rollback
<1>. QED  BY <1>2, <1>3

\* Deletions move no request.
LEMMA DeleteKeeps ==
  ASSUME IInv, CInv, SInv, NEW d \in Deleters, Delete(d)
  PROVE  SInv'
<1>. DEFINE p == del[d].snap
<1>1. /\ snaps \in [Snapshots -> Snapshot] /\ del \in [Deleters -> Deletion]
      /\ NoSnapshot \notin Snapshots /\ TypeOK
      /\ UNCHANGED req /\ UNCHANGED ctr
  BY NullsAssumption DEF SInv, SnapTypeOK, IInv, Delete, DeleteArrives, DeleteCounts,
     DeleteImage, DeleteImageRefused, DeleteRow, DeleteCancelled, vars
<1>2. OwnImages'
  BY <1>1 DEF SInv, OwnImages
<1>3. CASE UNCHANGED snaps /\ ImageFirst' /\ del' \in [Deleters -> Deletion]
  <2>1. \A v \in Requests : Knows(v)'
    BY <1>1, <1>3, StillKnows DEF SInv
  <2>2. SnapTypeOK' /\ LineageIsClosed' /\ UsedSnapshotIsListed'
    BY <1>1, <1>3 DEF SInv, SnapTypeOK, LineageIsClosed, Resolvable, Listed,
       UsedSnapshotIsListed, Live
  <2>. QED  BY <1>2, <1>3, <2>1, <2>2 DEF SInv
<1>4. ASSUME NEW q \in Snapshots, DeleteArrives(d, q)
      PROVE  SInv'
  <2>1. [pc |-> "count", snap |-> q, dead |-> FALSE] \in Deletion
    BY DEF Deletion, Image
  <2>. QED  BY <1>1, <1>3, <1>4, <2>1 DEF DeleteArrives, SInv, ImageFirst
<1>5. CASE DelReturn(d) /\ UNCHANGED snaps
  <2>1. IdleDel \in Deletion /\ IdleDel.pc = "idle"
    BY DEF IdleDel, Deletion, Image
  <2>. QED  BY <1>1, <1>3, <1>5, <2>1 DEF DelReturn, SInv, ImageFirst
<1>6. CASE DeleteCancelled(d)
  BY <1>1, <1>3, <1>6 DEF DeleteCancelled, SInv, ImageFirst, Deletion
<1>7. CASE DeleteCounts(d)
  <2>1. CASE DelGoto(d, "image") /\ UNCHANGED snaps
    BY <1>1, <1>3, <1>7, <2>1 DEF DelGoto, DeleteCounts, SInv, ImageFirst, Deletion
  <2>. QED  BY <1>5, <1>7, <2>1 DEF DeleteCounts
<1>8. CASE DeleteImage(d)
  <2>1. /\ p \in Snapshots /\ snaps' = [snaps EXCEPT ![p].image = "removed"]
        /\ del' = [del EXCEPT ![d].pc = "row"]
        /\ snaps[p].image = "present" => ~InUse(p)
    BY <1>8 DEF DeleteImage, DelGoto, SInv, ImageFirst
  <2>2. /\ snaps' \in [Snapshots -> Snapshot] /\ snaps'[p].image = "removed"
        /\ \A q \in Snapshots : q # p => snaps'[q] = snaps[q]
        /\ \A q \in Snapshots : snaps'[q].row = snaps[q].row /\ snaps'[q].parent = snaps[q].parent
    BY <1>1, <2>1 DEF Snapshot
  <2>3. SnapTypeOK' /\ ImageFirst'
    BY <1>1, <2>1, <2>2 DEF SInv, SnapTypeOK, ImageFirst, Deletion
  <2>4. ASSUME NEW v \in Requests
        PROVE  Knows(v)'
    BY <1>1, <2>1, <2>2 DEF SInv, Knows, TypeOK, Request, Image
  <2>5. LineageIsClosed'
    BY <2>2 DEF SInv, LineageIsClosed, Resolvable, Listed
  <2>6. UsedSnapshotIsListed'
    BY <1>1, <2>1, <2>2 DEF SInv, UsedSnapshotIsListed, Live, InUse, TypeOK, Container, Image
  <2>. QED  BY <1>2, <2>3, <2>4, <2>5, <2>6 DEF SInv
<1>9. CASE DeleteRow(d) /\ ~UNCHANGED snaps
  <2>1. /\ p \in Snapshots /\ snaps' = [snaps EXCEPT ![p].row = FALSE]
        /\ del' = [del EXCEPT ![d] = IdleDel]
        /\ Children(p) = {} /\ snaps[p].image = "removed"
    BY <1>9 DEF DeleteRow, DelReturn, SInv, ImageFirst
  <2>2. /\ snaps' \in [Snapshots -> Snapshot] /\ ~snaps'[p].row
        /\ snaps'[p].image = "removed"
        /\ \A q \in Snapshots : q # p => snaps'[q] = snaps[q]
    BY <1>1, <2>1 DEF Snapshot
  <2>3. SnapTypeOK' /\ ImageFirst'
    BY <1>1, <2>1, <2>2 DEF SInv, SnapTypeOK, ImageFirst, Deletion, IdleDel, Image
  <2>4. ASSUME NEW v \in Requests
        PROVE  Knows(v)'
    BY <1>1, <2>1, <2>2 DEF SInv, Knows, TypeOK, Request, Image
  <2>5. LineageIsClosed'
    BY <2>1, <2>2 DEF SInv, LineageIsClosed, Resolvable, Listed, Children
  <2>6. UsedSnapshotIsListed'
    BY <1>1, <2>1, <2>2 DEF SInv, UsedSnapshotIsListed, Live, TypeOK, Container, Image
  <2>. QED  BY <1>2, <2>3, <2>4, <2>5, <2>6 DEF SInv
<1>. QED  BY <1>4, <1>5, <1>6, <1>7, <1>8, <1>9 DEF Delete, DeleteImageRefused, DeleteRow

\* Fork and Restore arrive with a snapshot that is listed.
LEMMA SnapArrivalKeeps ==
  ASSUME IInv, CInv, SInv, NEW w \in Requests, NEW s \in Sandboxes, NEW p \in Image,
         NEW kind \in Offered, Resolvable(p), UNCHANGED snapVars,
         Arrive(w, kind, s, p) \/ ArriveNew(w, kind, s, p)
  PROVE  SInv'
<1>1. UNCHANGED snaps /\ UNCHANGED del /\ UNCHANGED ctr /\ TypeOK
      /\ NoSnapshot \notin Snapshots
  BY NullsAssumption DEF snapVars, Arrive, ArriveNew, IInv
<1>2. Shelf'
  BY <1>1, SameShelf DEF SInv, SnapTypeOK
<1>7. UsedSnapshotIsListed'
  BY <1>1, SameTame, QuietKeeps
<1>3. /\ req'[w].pc \in {"lock", "insert"} /\ req'[w].snap = p
      /\ req'[w].kind = "snapshot" => p = NoSnapshot
      /\ \A v \in Requests : v # w => req'[v] = req[v]
  <2>1. req \in [Requests -> Request]
    BY <1>1 DEF TypeOK
  <2>2. CASE Arrive(w, kind, s, p)
    <3>. DEFINE n == [Idle EXCEPT !.kind = kind, !.pc = "lock", !.sb = s,
                       !.row = rows[s], !.rid = rows[s].rid, !.snap = p]
    <3>1. req' = [req EXCEPT ![w] = n] /\ (kind # "restore" => p = NoSnapshot)
      BY <2>2 DEF Arrive
    <3>2. n.pc = "lock" /\ n.snap = p /\ n.kind = kind
      BY DEF Idle
    <3>. QED  BY <2>1, <3>1, <3>2
  <2>3. CASE ArriveNew(w, kind, s, p)
    <3>. DEFINE n == [Idle EXCEPT !.kind = kind, !.pc = "insert", !.sb = s, !.snap = p]
    <3>1. req' = [req EXCEPT ![w] = n] /\ kind \in {"create", "fork"}
      BY <2>3 DEF ArriveNew
    <3>2. n.pc = "insert" /\ n.snap = p /\ n.kind = kind
      BY DEF Idle
    <3>. QED  BY <2>1, <3>1, <3>2
  <2>. QED  BY <2>2, <2>3
<1>4. Knows(w)'
  BY <1>1, <1>3 DEF Knows, Committing, Resolvable, Listed
<1>5. \A v \in Requests : Knows(v)'
  BY <1>1, <1>3, <1>4, StillKnows DEF SInv
<1>6. OwnImages'
  BY <1>3 DEF SInv, OwnImages
<1>. QED  BY <1>2, <1>5, <1>6, <1>7 DEF SInv, Shelf

\* Containers that exit, the daemon that dies and the boot that follows.
LEMMA SnapWorldKeeps ==
  ASSUME IInv, CInv, SInv,
         \/ (Boot \/ \E c \in Containers : ContainerExits(c)) /\ UNCHANGED snapVars
         \/ Crash /\ del' = [d \in Deleters |-> IdleDel] /\ UNCHANGED snaps
         \/ UNCHANGED allVars
  PROVE  SInv'
<1>1. UNCHANGED snaps /\ Quiet
  BY WorldTame, SameTame DEF Crash, snapVars, allVars, vars
<1>2. del' \in [Deleters -> Deletion] /\ \A d \in Deleters : del'[d] \in {del[d], IdleDel}
  <2>1. del \in [Deleters -> Deletion] /\ IdleDel \in Deletion
    BY DEF SInv, SnapTypeOK, IdleDel, Deletion, Image
  <2>2. UNCHANGED del \/ del' = [d \in Deleters |-> IdleDel]
    BY DEF snapVars, allVars
  <2>. QED  BY <2>1, <2>2
<1>3. Shelf' /\ UsedSnapshotIsListed'
  BY <1>1, <1>2, SameShelf, QuietKeeps
<1>4. UNCHANGED req \/ req' = [w \in Requests |-> Idle]
  BY DEF Boot, BootList, BootUnpause, BootServe, ContainerExits, Crash, allVars, vars
<1>5. \A v \in Requests : Knows(v)'
  BY <1>1, <1>4, StillKnows, IdleKnows DEF SInv
<1>6. OwnImages'
  BY <1>4 DEF SInv, OwnImages, Idle
<1>. QED  BY <1>3, <1>5, <1>6 DEF SInv, Shelf

LEMMA SnapStepKeeps ==
  ASSUME IInv, CInv, SInv, [SnapNext]_allVars
  PROVE  SInv'
<1>1. ASSUME NEW w \in Requests, Elsewhere(w), UNCHANGED snapVars
      PROVE  SInv'
  <2>1. UNCHANGED snaps
    BY <1>1 DEF snapVars
  <2>. QED  BY <1>1, <2>1, ElsewhereQuiet, QuietKeeps, ElsewhereKeeps
<1>2. ASSUME NEW w \in Requests, NEW s \in Sandboxes, NEW p \in Image, NEW kind \in Offered,
             Arrive(w, kind, s, p) \/ ArriveNew(w, kind, s, p), Resolvable(p),
             UNCHANGED snapVars
      PROVE  SInv'
  BY <1>2, SnapArrivalKeeps
<1>3. CASE \/ (Boot \/ \E c \in Containers : ContainerExits(c)) /\ UNCHANGED snapVars
           \/ Crash /\ del' = [d \in Deleters |-> IdleDel] /\ UNCHANGED snaps
           \/ UNCHANGED allVars
  BY <1>3, SnapWorldKeeps
<1>. QED  BY <1>1, <1>2, <1>3, CreationKeeps, CommitKeeps, RecordKeeps, DeleteKeeps DEF SnapNext

LEMMA SnapInitKeeps ==
  ASSUME SnapInit
  PROVE  SInv
<1>1. SnapTypeOK
  BY DEF SnapInit, SnapTypeOK, NoneYet, Snapshot, IdleDel, Deletion, Image
<1>2. ASSUME NEW w \in Requests
      PROVE  Knows(w)
  BY DEF SnapInit, Init, Knows, Idle, Committing
<1>3. OwnImages /\ ImageFirst
  BY DEF SnapInit, Init, OwnImages, ImageFirst, Idle, IdleDel
<1>4. LineageIsClosed /\ UsedSnapshotIsListed
  BY DEF SnapInit, Init, LineageIsClosed, UsedSnapshotIsListed, NoneYet, Live, Unused
<1>. QED  BY <1>1, <1>2, <1>3, <1>4 DEF SInv

-------------------------------------------------------------------------------
(* Theorems                                                                  *)

\* What requests and deletions know of snapshots holds throughout.
THEOREM Shelving == SnapSpec => []SInv
<1>1. SnapSpec => [](IInv /\ CInv)
  BY ComposedRefinesSandboxService, Ownership, PTL
<1>2. SnapInit => SInv
  BY SnapInitKeeps
<1>3. IInv /\ CInv /\ SInv /\ [SnapNext]_allVars => SInv'
  BY SnapStepKeeps
<1>. QED  BY <1>1, <1>2, <1>3, PTL DEF SnapSpec

\* Every row, image and deletion of the composition is what its type says.
THEOREM SnapTypeCorrect == SnapSpec => []SnapTypeOK
<1>1. SInv => SnapTypeOK
  BY DEF SInv
<1>. QED  BY <1>1, Shelving, PTL

\* The parent of a listed snapshot is listed, whatever deletions interleave.
THEOREM LineageIsClosedHolds == SnapSpec => []LineageIsClosed
<1>1. SInv => LineageIsClosed
  BY DEF SInv
<1>. QED  BY <1>1, Shelving, PTL

\* No deletion takes the row or the image of a snapshot that a container was
\* made from, whichever of the two comes first.
THEOREM UsedSnapshotIsListedHolds == SnapSpec => []UsedSnapshotIsListed
<1>1. SInv => UsedSnapshotIsListed
  BY DEF SInv
<1>. QED  BY <1>1, Shelving, PTL

-------------------------------------------------------------------------------
(* No image is orphaned                                                      *)

\* The request at hand will record image p or remove it.
Pledged(w, p) ==
  req[w].pc \in {"unpause", "record", "rollback"} /\ req[w].snap = p /\ ~req[w].dead

\* While nothing is cancelled, fails or dies, every image without a row is pledged.
Pledges ==
  NoFault /\ NoHangup /\ NoDeath =>
    \A p \in Snapshots : snaps[p].image = "present" /\ ~snaps[p].row =>
      \E w \in Requests : Pledged(w, p)

\* Between the commit and the end of its request, an image changes hands only from
\* the unpause to the row, and from the row to the rollback.
LEMMA PledgeKept ==
  ASSUME TypeOK, NEW w \in Requests, Elsewhere(w), ~Cancel(w),
         NEW p \in Snapshots, Pledged(w, p)
  PROVE  Pledged(w, p)'
<1>1. p # NoSnapshot
  BY NullsAssumption
<1>2. PICK pc \in {"record", "rollback"} : Goto(w, pc)
  BY <1>1 DEF Pledged, Elsewhere, At, Lock, Read, ReadRejects, InsertRow, InsertFails,
     MarkDestroying, Save, MarkError, ForkWrite, RtCreateFails, RtStart, RtStop,
     RtDestroy, Inspect, RtFails, SnapPause, SnapPauseUnheard, SnapPauseFails, SnapCommitFails,
     SnapUnpause, SnapRecordFails, UseFiles
<1>3. req'[w].pc = pc /\ req'[w].snap = req[w].snap /\ req'[w].dead = req[w].dead
  BY <1>2 DEF TypeOK, Goto, Request
<1>. QED  BY <1>3 DEF Pledged

\* A step that touches one request at most keeps the pledges of the others.
LEMMA PledgesStand ==
  ASSUME Pledges, NoFault, NoHangup, NoDeath,
         \A p \in Snapshots : snaps'[p].image = "present" /\ ~snaps'[p].row =>
           \/ \E w \in Requests : Pledged(w, p)'
           \/ /\ snaps[p].image = "present" /\ ~snaps[p].row
              /\ \A w \in Requests : Pledged(w, p) => Pledged(w, p)'
  PROVE  Pledges'
BY DEF Pledges

LEMMA StepPledges ==
  ASSUME IInv, CInv, SInv, ModeInv, Pledges, [SnapNext]_allVars
  PROVE  Pledges'
<1>. SUFFICES ASSUME NoFault', NoHangup', NoDeath'
              PROVE  Pledges'
  BY DEF Pledges
<1>1. /\ TypeOK /\ req \in [Requests -> Request] /\ snaps \in [Snapshots -> Snapshot]
      /\ NoSnapshot \notin Snapshots
  BY NullsAssumption DEF IInv, TypeOK, SInv, SnapTypeOK
<1>2. NoFault /\ NoHangup /\ NoDeath
  BY <1>1, SnapStepRefines, SpentGrows
<1>3. ~SpendFault /\ ~Crash /\ \A w \in Requests : ~Cancel(w) /\ ~req[w].dead
  BY <1>1, <1>2, FaultCounts, OthersCount DEF ModeInv
<1>4. ASSUME NEW w \in Requests, Elsewhere(w), UNCHANGED snapVars
      PROVE  Pledges'
  <2>1. \A v \in Requests : v # w => req'[v] = req[v]
    BY <1>1, <1>3, <1>4, HandleAlone DEF Elsewhere, Handle
  <2>2. \A p \in Snapshots, v \in Requests : Pledged(v, p) => Pledged(v, p)'
    BY <1>1, <1>3, <1>4, <2>1, PledgeKept DEF Pledged
  <2>. QED  BY <1>2, <1>4, <2>2, PledgesStand DEF snapVars
<1>5. ASSUME NEW w \in Requests,
             \/ \E s \in Sandboxes, p \in Image, kind \in Offered :
                  Arrive(w, kind, s, p) \/ ArriveNew(w, kind, s, p)
             \/ \E c \in Containers : RtCreate(w, c),
             UNCHANGED snapVars
      PROVE  Pledges'
  <2>1. /\ \A v \in Requests : v # w => req'[v] = req[v]
        /\ req[w].pc \in {"idle", "rtCreate"}
    BY <1>1, <1>5 DEF Arrive, ArriveNew, RtCreate, At, Goto
  <2>2. \A p \in Snapshots, v \in Requests : Pledged(v, p) => Pledged(v, p)'
    BY <2>1 DEF Pledged
  <2>. QED  BY <1>2, <1>5, <2>2, PledgesStand DEF snapVars
<1>6. ASSUME NEW w \in Requests, NEW q \in Snapshots, Commit(w, q)
      PROVE  Pledges'
  <2>0. ~Fails(w) /\ ~req[w].dead
    BY <1>3 DEF Fails
  <2>1. /\ req' = [req EXCEPT ![w].snap = q, ![w].pc = "unpause"]
        /\ req[w].pc = "commit" /\ ~req[w].dead
        /\ snaps' = [snaps EXCEPT ![q].image = "present", ![q].base = ctr[req[w].rid].image]
    BY <1>6, <2>0 DEF Commit, SnapCommit, At
  <2>2. req'[w].pc = "unpause" /\ req'[w].snap = q /\ ~req'[w].dead
    BY <1>1, <2>1 DEF Request
  <2>3. \A p \in Snapshots : p # q => snaps'[p] = snaps[p]
    BY <1>1, <2>1
  <2>4. \A p \in Snapshots, v \in Requests : Pledged(v, p) => Pledged(v, p)'
    BY <1>1, <2>1 DEF Pledged
  <2>5. Pledged(w, q)'
    BY <2>2 DEF Pledged
  <2>. QED  BY <1>2, <2>3, <2>4, <2>5, PledgesStand
<1>7. ASSUME NEW w \in Requests, Record(w) \/ Rollback(w)
      PROVE  Pledges'
  <2>0. req[w].pc \in {"record", "rollback"} /\ Return(w) /\ req[w].snap \in Snapshots
    BY <1>1, <1>7 DEF Record, Rollback, SnapRecord, SnapRollback, At, SInv, Knows, Request,
       Image
  <2>. PICK q \in Snapshots : q = req[w].snap
    BY <2>0
  <2>1. req[w].pc \in {"record", "rollback"} /\ Return(w) /\ req[w].snap = q
    BY <2>0
  <2>2. \A v \in Requests : v # w => req'[v] = req[v]
    BY <1>1, <2>1 DEF Return
  <2>3. \A p \in Snapshots : p # q => snaps'[p] = snaps[p]
    BY <1>1, <1>7 DEF Record, Rollback
  <2>5. Pledged(w, q) => snaps'[q].row \/ snaps'[q].image = "removed"
    <3>1. CASE Record(w)
      <4>1. snaps'[q] = [snaps[q] EXCEPT !.row = TRUE, !.parent = req[w].row.parent]
        BY <1>1, <2>1, <3>1 DEF Record
      <4>. QED  BY <1>1, <2>1, <4>1 DEF Snapshot
    <3>2. CASE Rollback(w)
      <4>1. ~Fails(w)
        BY <1>3 DEF Fails
      <4>2. snaps'[q] = [snaps[q] EXCEPT !.image = "removed"]
        BY <1>1, <2>1, <3>2, <4>1 DEF Rollback
      <4>. QED  BY <1>1, <2>1, <4>2 DEF Snapshot
    <3>. QED  BY <1>7, <3>1, <3>2 DEF Pledged
  <2>6. snaps'[q].image = "present" /\ ~snaps'[q].row =>
          snaps[q].image = "present" /\ ~snaps[q].row
    <3>1. CASE UNCHANGED snaps
      BY <3>1
    <3>2. CASE \/ snaps'[q] = [snaps[q] EXCEPT !.row = TRUE, !.parent = req[w].row.parent]
               \/ snaps'[q] = [snaps[q] EXCEPT !.image = "removed"]
      BY <1>1, <2>1, <3>2 DEF Snapshot
    <3>. QED  BY <1>1, <1>7, <2>1, <3>1, <3>2 DEF Record, Rollback
  <2>7. \A p \in Snapshots : p # q =>
          \A v \in Requests : Pledged(v, p) => Pledged(v, p)'
    BY <2>1, <2>2 DEF Pledged
  <2>8. \A v \in Requests : v # w /\ Pledged(v, q) => Pledged(v, q)'
    BY <2>2 DEF Pledged
  <2>. QED  BY <1>2, <2>1, <2>3, <2>5, <2>6, <2>7, <2>8, PledgesStand
<1>8. ASSUME NEW d \in Deleters, Delete(d)
      PROVE  Pledges'
  <2>1. UNCHANGED req
    BY <1>8 DEF Delete, DeleteArrives, DeleteCounts, DeleteImage, DeleteImageRefused,
       DeleteRow, DeleteCancelled, vars
  <2>2. \A p \in Snapshots : snaps'[p].image = "present" /\ ~snaps'[p].row =>
          snaps[p].image = "present" /\ ~snaps[p].row
    <3>. DEFINE q == del[d].snap
    <3>1. CASE UNCHANGED snaps
      BY <3>1
    <3>2. CASE snaps' = [snaps EXCEPT ![q].image = "removed"]
      BY <1>1, <3>2 DEF Snapshot
    <3>3. CASE DeleteRow(d) /\ snaps' = [snaps EXCEPT ![q].row = FALSE]
      <4>1. q \in Snapshots /\ snaps[q].image = "removed"
        BY <3>3 DEF DeleteRow, SInv, ImageFirst
      <4>. QED  BY <1>1, <3>3, <4>1 DEF Snapshot
    <3>. QED  BY <1>8, <3>1, <3>2, <3>3 DEF Delete, DeleteArrives, DeleteCounts, DeleteImage,
             DeleteImageRefused, DeleteRow, DeleteCancelled
  <2>. QED  BY <1>2, <2>1, <2>2, PledgesStand DEF Pledged
<1>9. CASE \/ (Boot \/ \E c \in Containers : ContainerExits(c)) /\ UNCHANGED snapVars
           \/ UNCHANGED allVars
  <2>1. UNCHANGED req /\ UNCHANGED snaps
    BY <1>9 DEF Boot, BootList, BootUnpause, BootServe, ContainerExits, snapVars, allVars, vars
  <2>. QED  BY <1>2, <2>1, PledgesStand DEF Pledged
<1>. QED  BY <1>3, <1>4, <1>5, <1>6, <1>7, <1>8, <1>9 DEF SnapNext, CreateContainer

\* "a failed insert would orphan it on the host with nothing pointing at it. Roll the
\* image back" (service.go:77): while nobody hangs up and the daemon lives, and no
\* call of the runtime fails, every image has a row or a request that is about to
\* record it or to remove it.
THEOREM NoOrphanIfCalmHolds == SnapSpec => []NoOrphanIfCalm
<1>1. SnapSpec => [](IInv /\ CInv /\ ModeInv)
  <2>1. PInv => ModeInv
    BY DEF PInv
  <2>. QED  BY <2>1, ComposedRefinesSandboxService, RowsAndContainers, PTL
<1>2. SnapInit => Pledges
  BY DEF SnapInit, Pledges, NoneYet
<1>3. IInv /\ CInv /\ SInv /\ ModeInv /\ Pledges /\ [SnapNext]_allVars => Pledges'
  BY StepPledges
<1>4. Pledges => NoOrphanIfCalm
  BY DEF Pledges, Pledged, NoOrphanIfCalm, NoOrphanImage
<1>. QED  BY <1>1, <1>2, <1>3, <1>4, Shelving, PTL DEF SnapSpec

===============================================================================
