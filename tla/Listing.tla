------------------------------- MODULE Listing -------------------------------
(***************************************************************************)
(* The listings of the API and the retention of the audit log.             *)
(*                                                                         *)
(* A client reads a table page by page (internal/api handle...List,        *)
(* internal/store/sqlite List), each page a statement of its own, while    *)
(* rows come and go.  The events of the audit log (internal/audit) are     *)
(* listed newest first and pruned every hour by age and then by number;    *)
(* sandboxes, execs and snapshots are listed oldest first.                 *)
(*                                                                         *)
(* A row is known by its identifier, a UUIDv7: identifiers grow in the     *)
(* order in which they are taken, which is not that of the INSERTs.        *)
(***************************************************************************)
EXTENDS Integers, FiniteSets, SequencesExt

CONSTANTS
  MaxRows,     \* bound: identifiers that are taken
  MaxTime,     \* bound: the clock
  Limits,      \* page sizes clients ask for, the default one among them
  MaxAge,      \* retention of events by age, 0 for none
  MaxEvents    \* retention of events by number, 0 for none

ASSUME ListingAssumption ==
  /\ {MaxRows, MaxTime, MaxAge, MaxEvents} \subseteq Nat
  /\ Limits \subseteq Nat \ {0}

VARIABLES
  table,       \* which table is listed, never changes
  row,         \* how far each row is
  stamp,       \* the timestamp of each event
  clock,
  pruning,     \* Prune: "idle", or "count" between its two statements
  pager,       \* the client: what it has seen, and its cursor
  throughout   \* for the properties: rows listed ever since the client began

vars == <<table, row, stamp, clock, pruning, pager, throughout>>

Ids == 1 .. MaxRows
NoCursor == 0

ListingTypeOK ==
  /\ table \in {"events", "others"}
  /\ row \in [Ids -> {"none", "taken", "stamped", "listed", "unlisted"}]
  /\ stamp \in [Ids -> 0 .. MaxTime]
  /\ clock \in 0 .. MaxTime
  /\ pruning \in {"idle", "count"}
  /\ pager \in [pc : {"idle", "paging", "done"}, cursor : Ids \cup {NoCursor},
                seen : BoundedSeq(Ids, MaxRows)]
  /\ throughout \subseteq Ids

ListingInit ==
  /\ table \in {"events", "others"}
  /\ row = [i \in Ids |-> "none"]
  /\ stamp = [i \in Ids |-> 0]
  /\ clock = 0
  /\ pruning = "idle"
  /\ pager = [pc |-> "idle", cursor |-> NoCursor, seen |-> <<>>]
  /\ throughout = {}

-------------------------------------------------------------------------------
(* Rows come and go                                                          *)

Listed    == {i \in Ids : row[i] = "listed"}
Precedes(i, j) == IF table = "events" THEN i > j ELSE i < j

\* id.New
TakeID(i) ==
  /\ row[i] = "none" /\ \A j \in 1 .. i - 1 : row[j] # "none"
  /\ row' = [row EXCEPT ![i] = "taken"]
  /\ UNCHANGED <<table, stamp, clock, pruning, pager, throughout>>

\* Record stamps an event after it has taken its identifier.
Stamp(i) ==
  /\ table = "events" /\ row[i] = "taken"
  /\ row' = [row EXCEPT ![i] = "stamped"]
  /\ stamp' = [stamp EXCEPT ![i] = clock]
  /\ UNCHANGED <<table, clock, pruning, pager, throughout>>

InsertRow(i) ==
  /\ row[i] = IF table = "events" THEN "stamped" ELSE "taken"
  /\ row' = [row EXCEPT ![i] = "listed"]
  /\ UNCHANGED <<table, stamp, clock, pruning, pager, throughout>>

Unlist(ids) ==
  /\ row' = [i \in Ids |-> IF i \in ids THEN "unlisted" ELSE row[i]]
  /\ throughout' = throughout \ ids

\* A snapshot is deleted, a sandbox destroyed, or in a state the listing leaves out.
Leave(i) ==
  /\ table = "others" /\ i \in Listed
  /\ Unlist({i})
  /\ UNCHANGED <<table, stamp, clock, pruning, pager>>

\* The sandbox is in a state that is listed again.
Return(i) ==
  /\ table = "others" /\ row[i] = "unlisted"
  /\ row' = [row EXCEPT ![i] = "listed"]
  /\ UNCHANGED <<table, stamp, clock, pruning, pager, throughout>>

Tick ==
  /\ clock < MaxTime
  /\ clock' = clock + 1
  /\ UNCHANGED <<table, row, stamp, pruning, pager, throughout>>

-------------------------------------------------------------------------------
(* Retention                                                                 *)

DeleteOlderThan ==
  /\ table = "events" /\ pruning = "idle"
  /\ Unlist(IF MaxAge > 0 THEN {i \in Listed : stamp[i] < clock - MaxAge} ELSE {})
  /\ pruning' = "count"
  /\ UNCHANGED <<table, stamp, clock, pager>>

\* Mutant: the oldest are kept.
Newest_Oldest(n) == {i \in Listed : Cardinality({j \in Listed : j < i}) < n}

Newest(n) == {i \in Listed : Cardinality({j \in Listed : j > i}) < n}

DeleteBeyondCount ==
  /\ pruning = "count"
  /\ Unlist(IF MaxEvents > 0 THEN Listed \ Newest(MaxEvents) ELSE {})
  /\ pruning' = "idle"
  /\ UNCHANGED <<table, stamp, clock, pager>>

\* The second statement is refused, or the daemon dies; the next hour begins anew.
PruneAborts ==
  /\ pruning = "count"
  /\ pruning' = "idle"
  /\ UNCHANGED <<table, row, stamp, clock, pager, throughout>>

-------------------------------------------------------------------------------
(* The client                                                                *)

Begin ==
  /\ pager.pc = "idle"
  /\ pager' = [pager EXCEPT !.pc = "paging"]
  /\ throughout' = Listed
  /\ UNCHANGED <<table, row, stamp, clock, pruning>>

\* Mutant: the cursor is a position to begin at and not one to begin behind.
Behind_Inclusive(cursor) ==
  {i \in Listed : cursor = NoCursor \/ i = cursor \/ Precedes(cursor, i)}

\* The rows the statement selects, before its LIMIT.
Behind(cursor) == {i \in Listed : cursor = NoCursor \/ Precedes(cursor, i)}

Sorted(ids) == \A a, b \in DOMAIN ids : a < b => Precedes(ids[a], ids[b])

\* What it returns: rows in order, and none left out unless the page is full, and
\* then only rows that come after all of it.
Pages(limit) ==
  {page \in BoundedSeq(Behind(pager.cursor), limit) :
     /\ Sorted(page)
     /\ \A i \in Behind(pager.cursor) \ ToSet(page) :
          Len(page) = limit /\ Precedes(Last(page), i)}

\* Mutant: the cursor is the one the page was asked for with.
ListPage_Stuck(limit) ==
  /\ pager.pc = "paging"
  /\ \E page \in Pages(limit) :
       pager' = [pager EXCEPT !.pc = IF Len(page) = limit THEN @ ELSE "done",
                              !.seen = @ \o page]
  /\ UNCHANGED <<table, row, stamp, clock, pruning, throughout>>

\* A full page carries a cursor, whether or not anything follows it.
ListPage(limit) ==
  /\ pager.pc = "paging"
  /\ \E page \in Pages(limit) :
       pager' = IF Len(page) = limit
                THEN [pager EXCEPT !.cursor = Last(page), !.seen = @ \o page]
                ELSE [pager EXCEPT !.pc = "done", !.seen = @ \o page]
  /\ UNCHANGED <<table, row, stamp, clock, pruning, throughout>>

-------------------------------------------------------------------------------

ListingNext ==
  \/ \E i \in Ids : TakeID(i) \/ Stamp(i) \/ InsertRow(i) \/ Leave(i) \/ Return(i)
  \/ Tick
  \/ DeleteOlderThan \/ DeleteBeyondCount \/ PruneAborts
  \/ Begin \/ \E limit \in Limits : ListPage(limit)

ListingSpec == ListingInit /\ [][ListingNext]_vars

-------------------------------------------------------------------------------
(* Properties                                                                *)

\* What a client gathers over the pages of a listing (internal/api/events.go:43,
\* internal/store/sqlite/event.go:66), whatever is inserted, removed or pruned between
\* them and whatever limits it asks for: nothing twice, everything in the order of
\* identifiers, and, once there is no next cursor, every row that was listed from
\* before its first page until after its last.
PagesAreExact ==
  /\ Sorted(pager.seen)
  /\ pager.pc = "done" => throughout \subseteq ToSet(pager.seen)

\* "pruned on both an age and a count basis" (docs/SECURITY.md:170): an event that is
\* gone (internal/audit/service.go:49) is older than the retention allows, or was followed
\* by as many events with later identifiers as are kept, in whatever order those
\* events were inserted, and wherever a prune was cut short.
Recorded(i) == row[i] \in {"listed", "unlisted"}

NeverPrunedEarly ==
  \A i \in Ids : table = "events" /\ row[i] = "unlisted" =>
    \/ MaxAge > 0 /\ stamp[i] < clock - MaxAge
    \/ MaxEvents > 0 /\ Cardinality({j \in Ids : j > i /\ Recorded(j)}) >= MaxEvents
==============================================================================
