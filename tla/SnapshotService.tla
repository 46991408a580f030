--------------------------- MODULE SnapshotService ---------------------------
(***************************************************************************)
(* The snapshot service (internal/snapshot) composed with the sandbox      *)
(* service: the rows of the snapshots table, the images behind them, and   *)
(* the deletion of a snapshot, which takes no sandbox mutex.  Every action *)
(* of the sandbox service is an action here; those that resolve, commit,   *)
(* record or roll back a snapshot also read or write the state below.      *)
(***************************************************************************)
EXTENDS SandboxService

CONSTANTS
  Deleters,      \* slots for deletions in flight
  ChildrenPin    \* whether the runtime refuses to remove an image that others
                 \* were committed on top of (Docker's graph drivers do)

ASSUME ChildrenPinAssumption == ChildrenPin \in BOOLEAN

VARIABLES
  snaps,   \* row and image of each snapshot identifier
  del      \* progress of each deletion

snapVars == <<snaps, del>>
allVars == <<vars, snapVars>>

Snapshot  == [row : BOOLEAN, image : {"none", "present", "removed"},
              base : Image, parent : Image]
NoneYet   == [row |-> FALSE, image |-> "none", base |-> NoSnapshot,
              parent |-> NoSnapshot]
Deletion  == [pc : {"idle", "count", "image", "row"}, snap : Image,
              dead : BOOLEAN]
IdleDel   == [pc |-> "idle", snap |-> NoSnapshot, dead |-> FALSE]

SnapTypeOK ==
  /\ snaps \in [Snapshots -> Snapshot]
  /\ del \in [Deleters -> Deletion]

SnapInit ==
  /\ Init
  /\ snaps = [p \in Snapshots |-> NoneYet]
  /\ del = [d \in Deleters |-> IdleDel]

Children(p) == {q \in Snapshots : snaps[q].row /\ snaps[q].parent = p}
ImagesOn(p) == {q \in Snapshots : snaps[q].image = "present" /\ snaps[q].base = p}

-------------------------------------------------------------------------------
(* Resolve and Create, as steps of the sandbox service's requests            *)

\* Fork and Restore resolve a snapshot that has a row at that moment.
Listed == {p \in Snapshots : snaps[p].row}
Resolvable(p) == p \in Listed \cup {NoSnapshot}

\* A container needs its image when it is created, not when it was resolved.
CreateContainer(w, c) ==
  /\ RtCreate(w, c)
  /\ req[w].snap # NoSnapshot => snaps[req[w].snap].image = "present"
  /\ UNCHANGED snapVars

\* rt.Snapshot commits an image, on top of the image of the container.
Commit(w, p) ==
  /\ SnapCommit(w, p)
  /\ snaps[p] = NoneYet
  /\ snaps' = [snaps EXCEPT ![p].image = "present",
                            ![p].base = ctr[req[w].rid].image]
  /\ UNCHANGED del

\* Mutant: the columns of the source are swapped.
Record_SwappedColumns(w) ==
  /\ SnapRecord(w)
  /\ snaps' = [snaps EXCEPT ![req[w].snap].row = TRUE,
                            ![req[w].snap].parent = req[w].row.rid]
  /\ UNCHANGED del

\* The row is inserted with the parent that the sandbox row names; the foreign
\* key requires that parent to have a row.
Record(w) ==
  LET parent == req[w].row.parent IN
  /\ SnapRecord(w)
  /\ Resolvable(parent)
  /\ snaps' = [snaps EXCEPT ![req[w].snap].row = TRUE,
                            ![req[w].snap].parent = parent]
  /\ UNCHANGED del

\* DeleteSnapshot of an image no container uses, on the request's context.
Rollback(w) ==
  /\ SnapRollback(w)
  /\ \/ snaps' = [snaps EXCEPT ![req[w].snap].image = "removed"]
     \/ Fails(w) /\ UNCHANGED snaps
  /\ UNCHANGED del

-------------------------------------------------------------------------------
(* Delete                                                                    *)

DelGoto(d, pc) == del' = [del EXCEPT ![d].pc = pc]
DelReturn(d) == del' = [del EXCEPT ![d] = IdleDel]

DeleteArrives(d, p) ==
  /\ mode = "serving" /\ del[d].pc = "idle"
  /\ snaps[p].row
  /\ del' = [del EXCEPT ![d] = [pc |-> "count", snap |-> p, dead |-> FALSE]]
  /\ UNCHANGED <<vars, snaps>>

\* Mutant: the row goes before the image.
DeleteCounts_RowFirst(d) ==
  /\ del[d].pc = "count"
  /\ IF del[d].dead \/ Children(del[d].snap) # {}
     THEN DelReturn(d) /\ UNCHANGED snaps
     ELSE DelGoto(d, "image") /\ snaps' = [snaps EXCEPT ![del[d].snap].row = FALSE]
  /\ UNCHANGED vars

\* ErrHasChildren, or the count fails on a cancelled context.
DeleteCounts(d) ==
  /\ del[d].pc = "count"
  /\ IF del[d].dead \/ Children(del[d].snap) # {}
     THEN DelReturn(d)
     ELSE DelGoto(d, "image")
  /\ UNCHANGED <<vars, snaps>>

\* A container, running or not, keeps its image from being removed.
InUse(p) == \/ \E c \in Containers : Live(c) /\ ctr[c].image = p
            \/ ChildrenPin /\ ImagesOn(p) # {}

\* The image goes before the row.  One that is already gone is tolerated.  (A removal
\* whose reply is lost is this step, and DeleteCancelled and DeleteRow after it.)
DeleteImage(d) ==
  LET p == del[d].snap IN
  /\ del[d].pc = "image" /\ ~del[d].dead
  /\ snaps[p].image = "present" => ~InUse(p)
  /\ snaps' = [snaps EXCEPT ![p].image = "removed"]
  /\ DelGoto(d, "row")
  /\ UNCHANGED vars

\* Mutant: every failure to remove the image is tolerated, a conflict too.
DeleteImageRefused_Tolerant(d) ==
  /\ del[d].pc = "image"
  /\ DelGoto(d, "row")
  /\ UNCHANGED <<vars, snaps>>

\* A conflict, a cancelled context or a failing runtime: the row survives.
DeleteImageRefused(d) ==
  /\ del[d].pc = "image"
  /\ DelReturn(d)
  /\ UNCHANGED <<vars, snaps>>

\* Mutant: parent_id without its foreign key, leaving CountChildren alone.
DeleteRow_NoForeignKey(d) ==
  /\ del[d].pc = "row"
  /\ IF del[d].dead THEN UNCHANGED snaps
     ELSE snaps' = [snaps EXCEPT ![del[d].snap].row = FALSE]
  /\ DelReturn(d)
  /\ UNCHANGED vars

\* The foreign key of a child keeps the row; so does a cancelled context.
DeleteRow(d) ==
  LET p == del[d].snap IN
  /\ del[d].pc = "row"
  /\ IF del[d].dead \/ Children(p) # {}
     THEN UNCHANGED snaps
     ELSE snaps' = [snaps EXCEPT ![p].row = FALSE]
  /\ DelReturn(d)
  /\ UNCHANGED vars

DeleteCancelled(d) ==
  /\ del[d].pc # "idle" /\ ~del[d].dead
  /\ del' = [del EXCEPT ![d].dead = TRUE]
  /\ UNCHANGED <<vars, snaps>>

Delete(d) ==
  \/ \E p \in Snapshots : DeleteArrives(d, p)
  \/ DeleteCounts(d) \/ DeleteImage(d) \/ DeleteImageRefused(d)
  \/ DeleteRow(d) \/ DeleteCancelled(d)

-------------------------------------------------------------------------------

\* Steps of the sandbox service that leave snapshots alone.
Elsewhere(w) ==
  \/ Lock(w) \/ Read(w) \/ ReadRejects(w)
  \/ InsertRow(w) \/ InsertFails(w)
  \/ MarkDestroying(w) \/ Save(w) \/ MarkError(w) \/ ForkWrite(w)
  \/ RtCreateFails(w)
  \/ RtStart(w) \/ RtStop(w) \/ RtDestroy(w) \/ Inspect(w) \/ RtFails(w)
  \/ SnapPause(w) \/ SnapPauseUnheard(w) \/ SnapPauseFails(w)
  \/ SnapCommitFails(w) \/ SnapUnpause(w) \/ SnapRecordFails(w)
  \/ UseFiles(w) \/ Cancel(w)

SnapNext ==
  \/ \E w \in Requests, s \in Sandboxes, p \in Image, kind \in Offered :
       /\ Arrive(w, kind, s, p) \/ ArriveNew(w, kind, s, p)
       /\ Resolvable(p)
       /\ UNCHANGED snapVars
  \/ \E w \in Requests : Elsewhere(w) /\ UNCHANGED snapVars
  \/ \E w \in Requests, c \in Containers : CreateContainer(w, c)
  \/ \E w \in Requests, p \in Snapshots : Commit(w, p)
  \/ \E w \in Requests : Record(w) \/ Rollback(w)
  \/ \E d \in Deleters : Delete(d)
  \/ (Boot \/ \E c \in Containers : ContainerExits(c)) /\ UNCHANGED snapVars
  \/ Crash /\ del' = [d \in Deleters |-> IdleDel] /\ UNCHANGED snaps

SnapSpec == SnapInit /\ [][SnapNext]_allVars

-------------------------------------------------------------------------------
(* Properties                                                                *)

\* A snapshot whose image a container was made from stays listed, whatever
\* fails: Delete loses to the container, or the container to Delete.
UsedSnapshotIsListed ==
  \A c \in Containers : Live(c) /\ ctr[c].image # NoSnapshot =>
    /\ snaps[ctr[c].image].row
    /\ snaps[ctr[c].image].image = "present"

\* The lineage of listed snapshots never dangles, though Delete counts the
\* children in one statement and removes the row in another.
LineageIsClosed ==
  \A p \in Snapshots : snaps[p].row => Resolvable(snaps[p].parent)

\* "a failed insert would orphan it on the host with nothing pointing at it. Roll
\* the image back" (service.go:77): an image has a row, or a request in hand.
NoOrphanImage ==
  \A p \in Snapshots : snaps[p].image = "present" =>
    \/ snaps[p].row
    \/ \E w \in Requests : req[w].pc # "idle" /\ req[w].snap = p

\* While nobody hangs up and the daemon lives, and no call of the runtime fails, every
\* image has a row, or a request that is about to record it or to remove it: deletion
\* removes the image first.
NoOrphanIfCalm == NoFault /\ NoHangup /\ NoDeath => NoOrphanImage
==============================================================================
