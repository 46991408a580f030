---------------------------- MODULE ListingProofs ----------------------------
(***************************************************************************)
(* Proofs about the listings and the retention: the pages a client gathers *)
(* are exact whatever comes and goes between them, and no event is pruned  *)
(* that the retention keeps.                                               *)
(***************************************************************************)
EXTENDS Listing, SequenceTheorems, FiniteSetTheorems, TLAPS

\* Where the client is: what has been listed throughout it has seen, or will find
\* behind its cursor, which is the last row it has seen.
PagerInv ==
  /\ throughout \subseteq Listed
  /\ pager.pc = "idle" => pager.seen = <<>> /\ pager.cursor = NoCursor /\ throughout = {}
  /\ pager.pc = "paging" =>
       /\ IF pager.seen = <<>> THEN pager.cursor = NoCursor
                               ELSE pager.cursor = Last(pager.seen)
       /\ throughout \subseteq ToSet(pager.seen) \cup Behind(pager.cursor)

\* NeverPrunedEarly is inductive by itself.
LInv == ListingTypeOK /\ PagerInv /\ PagesAreExact /\ NeverPrunedEarly

\* The order of a listing is one.
LEMMA Order ==
  ASSUME NEW i \in Int, NEW j \in Int, NEW k \in Int, Precedes(i, j), Precedes(j, k)
  PROVE  Precedes(i, k) /\ i # j
<1>1. CASE table = "events"
  BY <1>1 DEF Precedes
<1>2. CASE table # "events"
  BY <1>2 DEF Precedes
<1>. QED  BY <1>1, <1>2

\* Sequences of identifiers.
LEMMA BoundedSequences ==
  ASSUME NEW s, NEW S, NEW n \in Nat
  PROVE  s \in BoundedSeq(S, n) <=> s \in Seq(S) /\ Len(s) <= n
BY DEF BoundedSeq, SeqOf

\* A sorted sequence of identifiers repeats none.
LEMMA SortedIsShort ==
  ASSUME NEW s \in Seq(Ids), Sorted(s)
  PROVE  Len(s) <= MaxRows
<1>1. MaxRows \in Nat
  BY ListingAssumption
<1>2. s \in [1 .. Len(s) -> Ids] /\ Len(s) \in Nat /\ Ids \subseteq Int
  BY <1>1 DEF Ids
<1>3. \A a, b \in 1 .. Len(s) : s[a] = s[b] => a = b
  <2>. SUFFICES ASSUME NEW a \in 1 .. Len(s), NEW b \in 1 .. Len(s), a < b
                PROVE  s[a] # s[b]
    BY <1>2
  <2>1. Precedes(s[a], s[b])
    BY <1>2 DEF Sorted
  <2>2. s[a] \in Int /\ s[b] \in Int
    BY <1>2
  <2>. QED  BY <2>1, <2>2 DEF Precedes
<1>4. s \in Injection(1 .. Len(s), Ids)
  BY <1>2, <1>3 DEF Injection, IsInjective
<1>5. IsFiniteSet(Ids) /\ Cardinality(Ids) = MaxRows
  BY <1>1, FS_Interval DEF Ids
<1>6. \A n \in Nat : Cardinality(1 .. n) = n
  <2>. TAKE n \in Nat
  <2>1. Cardinality(1 .. n) = IF 1 > n THEN 0 ELSE n - 1 + 1
    BY FS_Interval
  <2>. QED  BY <2>1
<1>7. Cardinality(1 .. Len(s)) <= Cardinality(Ids)
  BY <1>4, <1>5, FS_Injection
<1>. QED  BY <1>2, <1>5, <1>6, <1>7

\* Pages follow each other.
LEMMA Pasting ==
  ASSUME NEW s \in Seq(Ids), NEW page \in Seq(Ids), Sorted(s), Sorted(page),
         \A a \in DOMAIN s, b \in DOMAIN page : Precedes(s[a], page[b])
  PROVE  /\ s \o page \in Seq(Ids) /\ Sorted(s \o page)
         /\ ToSet(s) \cup ToSet(page) \subseteq ToSet(s \o page)
         /\ page # <<>> => s \o page # <<>> /\ Last(s \o page) = Last(page)
<1>. DEFINE m == Len(s)
            n == Len(page)
            both == s \o page
<1>1. /\ both \in Seq(Ids) /\ Len(both) = m + n
      /\ \A i \in 1 .. m + n : both[i] = IF i <= m THEN s[i] ELSE page[i - m]
  BY ConcatProperties
<1>2. /\ m \in Nat /\ n \in Nat
      /\ DOMAIN s = 1 .. m /\ DOMAIN page = 1 .. n /\ DOMAIN both = 1 .. m + n
  BY <1>1
<1>. HIDE DEF m, n, both
<1>3. Sorted(both)
  <2>. SUFFICES ASSUME NEW a \in 1 .. m + n, NEW b \in 1 .. m + n, a < b
                PROVE  Precedes(both[a], both[b])
    BY <1>2 DEF Sorted
  <2>1. CASE b <= m
    <3>1. a \in 1 .. m /\ b \in 1 .. m /\ both[a] = s[a] /\ both[b] = s[b]
      BY <1>1, <1>2, <2>1
    <3>. QED  BY <1>2, <3>1 DEF Sorted
  <2>2. CASE a > m
    <3>1. /\ a - m \in 1 .. n /\ b - m \in 1 .. n /\ a - m < b - m
          /\ ~(a <= m) /\ ~(b <= m)
      BY <1>2, <2>2
    <3>2. both[a] = page[a - m] /\ both[b] = page[b - m]
      BY <1>1, <3>1
    <3>. QED  BY <1>2, <3>1, <3>2 DEF Sorted
  <2>3. CASE a <= m /\ b > m
    <3>1. a \in 1 .. m /\ b - m \in 1 .. n /\ both[a] = s[a] /\ both[b] = page[b - m]
      BY <1>1, <1>2, <2>3
    <3>. QED  BY <1>2, <3>1
  <2>. QED  BY <1>2, <2>1, <2>2, <2>3
<1>4. ToSet(s) \cup ToSet(page) \subseteq ToSet(both)
  <2>1. ASSUME NEW a \in 1 .. m PROVE s[a] \in ToSet(both)
    <3>1. a \in 1 .. m + n /\ both[a] = s[a]
      BY <1>1, <1>2
    <3>. QED  BY <1>2, <3>1 DEF ToSet
  <2>2. ASSUME NEW b \in 1 .. n PROVE page[b] \in ToSet(both)
    <3>1. b + m \in 1 .. m + n /\ ~(b + m <= m) /\ (b + m) - m = b
      BY <1>2
    <3>2. both[b + m] = page[b]
      BY <1>1, <3>1
    <3>. QED  BY <1>2, <3>1, <3>2 DEF ToSet
  <2>. QED  BY <1>2, <2>1, <2>2 DEF ToSet
<1>5. ASSUME page # <<>>
      PROVE  both # <<>> /\ Last(both) = Last(page)
  <2>1. n > 0
    BY <1>5, EmptySeq DEF n
  <2>2. m + n \in 1 .. m + n /\ ~(m + n <= m) /\ (m + n) - m = n
    BY <1>2, <2>1
  <2>3. both[m + n] = page[n]
    BY <1>1, <2>2
  <2>4. Last(both) = both[m + n] /\ Last(page) = page[n]
    BY <1>1 DEF Last, n
  <2>5. both # <<>>
    BY <1>1, <1>2, <2>1
  <2>. QED  BY <2>3, <2>4, <2>5
<1>. QED  BY <1>1, <1>3, <1>4, <1>5 DEF both

-------------------------------------------------------------------------------
(* The client                                                                *)

\* A page keeps everything that is known of the client.
LEMMA PageKeeps ==
  ASSUME LInv, NEW limit \in Limits, ListPage(limit)
  PROVE  /\ pager'.seen \in Seq(Ids) /\ Sorted(pager'.seen)
         /\ pager'.cursor \in Ids \cup {NoCursor}
         /\ PagerInv'
         /\ pager'.pc \in {"paging", "done"}
         /\ pager'.pc = "done" => throughout' \subseteq ToSet(pager'.seen)
<1>. DEFINE s == pager.seen
            c == pager.cursor
<1>1. PICK page \in Pages(limit) :
        pager' = IF Len(page) = limit
                 THEN [pager EXCEPT !.cursor = Last(page), !.seen = @ \o page]
                 ELSE [pager EXCEPT !.pc = "done", !.seen = @ \o page]
  BY DEF ListPage
<1>2. /\ pager.pc = "paging" /\ s \in Seq(Ids) /\ Sorted(s) /\ MaxRows \in Nat
      /\ limit \in Nat /\ limit > 0 /\ UNCHANGED <<table, row, throughout>>
  BY ListingAssumption, BoundedSequences
     DEF ListPage, LInv, ListingTypeOK, PagesAreExact
<1>3. /\ page \in Seq(Behind(c)) /\ Sorted(page)
      /\ \A i \in Behind(c) \ ToSet(page) : Len(page) = limit /\ Precedes(Last(page), i)
  BY <1>2, BoundedSequences DEF Pages
<1>4. Behind(c) \subseteq Ids /\ page \in Seq(Ids) /\ Ids \subseteq Int
  BY <1>2, <1>3, SeqMonotonic DEF Behind, Listed, Ids
<1>5. \A a \in DOMAIN s, b \in DOMAIN page : Precedes(s[a], page[b])
  <2>. SUFFICES ASSUME NEW a \in DOMAIN s, NEW b \in DOMAIN page
                PROVE  Precedes(s[a], page[b])
    OBVIOUS
  <2>1. s # <<>> /\ Len(s) \in Nat /\ DOMAIN s = 1 .. Len(s) /\ c = Last(s)
    BY <1>2 DEF LInv, PagerInv
  <2>2. page[b] \in Behind(c) /\ s[a] \in Int /\ Last(s) \in Ids /\ page[b] \in Int
    <3>1. \A i \in DOMAIN page : page[i] \in Behind(c)
      BY <1>3
    <3>2. s[a] \in Ids /\ s[Len(s)] \in Ids
      BY <1>2, <2>1
    <3>. QED  BY <1>4, <3>1, <3>2 DEF Last
  <2>3. Precedes(c, page[b])
    BY <1>2, <2>1, <2>2 DEF Behind, NoCursor, Ids
  <2>4. CASE a = Len(s)
    BY <2>1, <2>3, <2>4 DEF Last
  <2>5. CASE a < Len(s)
    <3>1. Precedes(s[a], s[Len(s)])
      BY <1>2, <2>1, <2>5 DEF Sorted
    <3>. QED  BY <2>1, <2>2, <2>3, <3>1, <1>4, Order DEF Last
  <2>. QED  BY <2>1, <2>4, <2>5
<1>6. /\ s \o page \in Seq(Ids) /\ Sorted(s \o page)
      /\ ToSet(s) \cup ToSet(page) \subseteq ToSet(s \o page)
      /\ page # <<>> => s \o page # <<>> /\ Last(s \o page) = Last(page)
  BY <1>2, <1>3, <1>4, <1>5, Pasting
<1>7. throughout \subseteq ToSet(s) \cup Behind(c) /\ throughout \subseteq Listed
  BY <1>2 DEF LInv, PagerInv
<1>8. CASE Len(page) = limit
  <2>1. /\ pager'.pc = "paging" /\ pager'.cursor = Last(page) /\ pager'.seen = s \o page
    BY <1>1, <1>2, <1>8 DEF LInv, ListingTypeOK
  <2>2. page # <<>> /\ Last(page) \in Ids
    BY <1>2, <1>4, <1>8 DEF Last
  <2>3. throughout' \subseteq ToSet(s \o page) \cup Behind(Last(page))'
    <3>. SUFFICES ASSUME NEW i \in throughout, i \notin ToSet(s \o page)
                  PROVE  i \in Behind(Last(page))'
      BY <1>2
    <3>1. i \in Behind(c) \ ToSet(page) /\ i \in Listed
      BY <1>6, <1>7
    <3>. QED  BY <1>2, <1>3, <3>1 DEF Behind, Listed, Precedes
  <2>4. PagerInv'
    BY <1>2, <1>6, <1>7, <2>1, <2>2, <2>3 DEF PagerInv, Listed
  <2>. QED  BY <1>6, <2>1, <2>2, <2>4
<1>9. CASE Len(page) # limit
  <2>1. /\ pager'.pc = "done" /\ pager'.cursor = c /\ pager'.seen = s \o page
    BY <1>1, <1>2, <1>9 DEF LInv, ListingTypeOK
  <2>2. throughout' \subseteq ToSet(s \o page)
    BY <1>2, <1>3, <1>6, <1>7, <1>9
  <2>3. PagerInv'
    BY <1>2, <1>7, <2>1 DEF PagerInv, Listed
  <2>. QED  BY <1>2, <1>6, <2>1, <2>2, <2>3 DEF LInv, ListingTypeOK
<1>. QED  BY <1>8, <1>9

\* Rows that come, and rows that go and are counted out, leave the client as it is.
LEMMA ClientStays ==
  ASSUME LInv, UNCHANGED <<table, pager>>,
         throughout' \subseteq throughout, throughout' \subseteq Listed'
  PROVE  PagerInv' /\ PagesAreExact'
<1>1. PagerInv'
  <2>. PICK c : c = pager.cursor
    OBVIOUS
  <2>1. \A i \in Ids : i \in Behind(c) /\ i \in Listed' => i \in Behind(c)'
    BY DEF Behind, Precedes
  <2>2. Listed' \subseteq Ids
    BY DEF Listed
  <2>3. /\ pager'.cursor = c
        /\ pager.pc = "idle" => pager.seen = <<>> /\ c = NoCursor /\ throughout = {}
        /\ pager.pc = "paging" =>
             /\ IF pager.seen = <<>> THEN c = NoCursor ELSE c = Last(pager.seen)
             /\ throughout \subseteq ToSet(pager.seen) \cup Behind(c)
    BY DEF LInv, PagerInv
  <2>4. pager.pc = "paging" => throughout' \subseteq ToSet(pager.seen) \cup Behind(c)'
    BY <2>1, <2>2, <2>3
  <2>5. pager'.pc = "paging" => throughout' \subseteq ToSet(pager'.seen) \cup Behind(pager.cursor)'
    BY <2>4
  <2>. QED  BY <2>3, <2>5 DEF PagerInv
<1>2. PagesAreExact'
  BY DEF LInv, PagesAreExact, Sorted, Precedes
<1>. QED  BY <1>1, <1>2

-------------------------------------------------------------------------------
(* Retention                                                                 *)

Later(i) == {j \in Ids : j > i /\ Recorded(j)}

\* Some of the identifiers are no more than all of them.
LEMMA Counting ==
  ASSUME NEW T \in SUBSET Ids, NEW S \in SUBSET T
  PROVE  /\ Cardinality(S) \in Nat /\ Cardinality(T) \in Nat
         /\ Cardinality(S) <= Cardinality(T)
<1>1. IsFiniteSet(Ids)
  <2>1. MaxRows \in Nat
    BY ListingAssumption
  <2>2. IsFiniteSet(1 .. MaxRows)
    BY <2>1, FS_Interval
  <2>. QED  BY <2>2 DEF Ids
<1>2. IsFiniteSet(T)
  BY <1>1, FS_Subset
<1>. QED  BY <1>2, FS_Subset, FS_CardinalityType

\* What was pruned was so for a reason, and stays so.
LEMMA ReasonsStand ==
  ASSUME LInv, table' = table, NEW i \in Ids,
         table = "events" => row[i] = "unlisted", stamp'[i] = stamp[i],
         clock' \in Nat, clock <= clock',
         \A j \in Ids : Recorded(j) => Recorded(j)'
  PROVE  table = "events" =>
           \/ MaxAge > 0 /\ stamp'[i] < clock' - MaxAge
           \/ MaxEvents > 0 /\ Cardinality(Later(i)') >= MaxEvents
<1>1. MaxAge \in Nat /\ MaxEvents \in Nat /\ clock \in Nat /\ stamp[i] \in Nat
  BY ListingAssumption DEF LInv, ListingTypeOK
<1>2. Later(i) \subseteq Later(i)' /\ Later(i)' \subseteq Ids
  BY DEF Later
<1>3. /\ Cardinality(Later(i)) \in Nat /\ Cardinality(Later(i)') \in Nat
      /\ Cardinality(Later(i)) <= Cardinality(Later(i)')
  BY <1>2, Counting
<1>4. table = "events" =>
        \/ MaxAge > 0 /\ stamp[i] < clock - MaxAge
        \/ MaxEvents > 0 /\ Cardinality(Later(i)) >= MaxEvents
  BY DEF LInv, NeverPrunedEarly, Later
<1>. QED  BY <1>1, <1>3, <1>4

\* Events that are taken out of the listing stay recorded.
LEMMA Unlisting ==
  ASSUME LInv, NEW ids \in SUBSET Listed, Unlist(ids)
  PROVE  /\ \A j \in Ids : Recorded(j) => Recorded(j)'
         /\ \A j \in Ids : row'[j] = "unlisted" => j \in ids \/ row[j] = "unlisted"
         /\ row' \in [Ids -> {"none", "taken", "stamped", "listed", "unlisted"}]
         /\ throughout' \subseteq throughout /\ throughout' \subseteq Listed'
BY DEF LInv, ListingTypeOK, PagerInv, Unlist, Recorded, Listed

\* A step in which no event is pruned.
LEMMA NonePruned ==
  ASSUME LInv, table' = table, clock' \in Nat, clock <= clock',
         \A j \in Ids : Recorded(j) => Recorded(j)',
         \A j \in Ids : table = "events" /\ row'[j] = "unlisted" =>
           row[j] = "unlisted" /\ stamp'[j] = stamp[j]
  PROVE  NeverPrunedEarly'
<1>. SUFFICES ASSUME NEW i \in Ids, table' = "events", row'[i] = "unlisted"
              PROVE  \/ MaxAge > 0 /\ stamp'[i] < clock' - MaxAge
                     \/ MaxEvents > 0 /\ Cardinality(Later(i)') >= MaxEvents
  BY DEF NeverPrunedEarly, Later
<1>. QED  BY ReasonsStand

\* The two statements of Prune.
LEMMA PruneKeeps ==
  ASSUME LInv, DeleteOlderThan \/ DeleteBeyondCount
  PROVE  LInv'
<1>1. /\ MaxAge \in Nat /\ MaxEvents \in Nat /\ clock \in Nat
      /\ \A i \in Ids : stamp[i] \in Nat
  BY ListingAssumption DEF LInv, ListingTypeOK
<1>2. PICK ids \in SUBSET Listed :
        /\ Unlist(ids) /\ UNCHANGED <<table, stamp, clock, pager>>
        /\ \A i \in ids : \/ MaxAge > 0 /\ stamp[i] < clock - MaxAge
                          \/ MaxEvents > 0 /\ i \notin Newest(MaxEvents)
        /\ pruning' \in {"idle", "count"}
  <2>1. CASE DeleteOlderThan
    <3>. DEFINE old == IF MaxAge > 0 THEN {i \in Listed : stamp[i] < clock - MaxAge} ELSE {}
    <3>1. old \in SUBSET Listed /\ \A i \in old : MaxAge > 0 /\ stamp[i] < clock - MaxAge
      OBVIOUS
    <3>2. Unlist(old) /\ UNCHANGED <<table, stamp, clock, pager>> /\ pruning' = "count"
      BY <2>1 DEF DeleteOlderThan
    <3>. QED  BY <3>1, <3>2
  <2>2. CASE DeleteBeyondCount
    <3>. DEFINE beyond == IF MaxEvents > 0 THEN Listed \ Newest(MaxEvents) ELSE {}
    <3>1. beyond \in SUBSET Listed
            /\ \A i \in beyond : MaxEvents > 0 /\ i \notin Newest(MaxEvents)
      OBVIOUS
    <3>2. Unlist(beyond) /\ UNCHANGED <<table, stamp, clock, pager>> /\ pruning' = "idle"
      BY <2>2 DEF DeleteBeyondCount
    <3>. QED  BY <3>1, <3>2
  <2>. QED  BY <2>1, <2>2
<1>3. /\ \A j \in Ids : Recorded(j) => Recorded(j)'
      /\ \A j \in Ids : row'[j] = "unlisted" => j \in ids \/ row[j] = "unlisted"
      /\ row' \in [Ids -> {"none", "taken", "stamped", "listed", "unlisted"}]
      /\ throughout' \subseteq throughout /\ throughout' \subseteq Listed'
  BY <1>2, Unlisting
<1>4. PagerInv' /\ PagesAreExact'
  BY <1>2, <1>3, ClientStays
<1>5. ListingTypeOK'
  BY <1>2, <1>3 DEF LInv, ListingTypeOK
<1>6. ASSUME NEW i \in Ids, table = "events", row'[i] = "unlisted"
      PROVE  \/ MaxAge > 0 /\ stamp'[i] < clock' - MaxAge
             \/ MaxEvents > 0 /\ Cardinality(Later(i)') >= MaxEvents
  <2>1. CASE row[i] = "unlisted"
    BY <1>1, <1>2, <1>3, <1>6, <2>1, ReasonsStand
  <2>2. CASE i \in ids /\ MaxAge > 0 /\ stamp[i] < clock - MaxAge
    BY <1>2, <2>2
  <2>3. CASE i \in ids /\ MaxEvents > 0 /\ i \notin Newest(MaxEvents)
    <3>. DEFINE S == {j \in Listed : j > i}
    <3>1. S \subseteq Later(i)' /\ Later(i)' \subseteq Ids
      BY <1>3 DEF Listed, Recorded, Later
    <3>2. /\ Cardinality(S) \in Nat /\ Cardinality(Later(i)') \in Nat
          /\ Cardinality(S) <= Cardinality(Later(i)')
      BY <3>1, Counting
    <3>3. ~(Cardinality(S) < MaxEvents)
      BY <1>2, <2>3 DEF Newest
    <3>4. Cardinality(Later(i)') >= MaxEvents
      <4>. HIDE DEF S
      <4>. QED  BY <1>1, <3>2, <3>3
    <3>. QED  BY <2>3, <3>4
  <2>. QED  BY <1>2, <1>3, <1>6, <2>1, <2>2, <2>3
<1>7. NeverPrunedEarly'
  BY <1>2, <1>6 DEF NeverPrunedEarly, Later
<1>. QED  BY <1>4, <1>5, <1>7 DEF LInv

-------------------------------------------------------------------------------
(* Every step                                                                *)

\* A row moves on, comes back or leaves.
LEMMA RowKeeps ==
  ASSUME LInv, NEW i \in Ids,
         TakeID(i) \/ Stamp(i) \/ InsertRow(i) \/ Leave(i) \/ Return(i)
  PROVE  LInv'
<1>1. /\ row \in [Ids -> {"none", "taken", "stamped", "listed", "unlisted"}]
      /\ stamp \in [Ids -> 0 .. MaxTime] /\ clock \in 0 .. MaxTime /\ clock \in Nat
      /\ throughout \subseteq Listed
  BY ListingAssumption DEF LInv, ListingTypeOK, PagerInv
<1>2. UNCHANGED <<table, clock, pruning, pager>>
  BY DEF TakeID, Stamp, InsertRow, Leave, Return
<1>3. ASSUME NEW st \in {"taken", "stamped", "listed"}, row' = [row EXCEPT ![i] = st],
             row[i] \notin {"listed", "unlisted"} \/ (table = "others" /\ st = "listed"),
             stamp' \in [Ids -> 0 .. MaxTime],
             \A j \in Ids : j # i => stamp'[j] = stamp[j],
             throughout' = throughout
      PROVE  LInv'
  <2>1. /\ row' \in [Ids -> {"none", "taken", "stamped", "listed", "unlisted"}]
        /\ Listed \subseteq Listed'
        /\ \A j \in Ids : Recorded(j) => Recorded(j)'
        /\ \A j \in Ids : table = "events" /\ row'[j] = "unlisted" =>
             row[j] = "unlisted" /\ stamp'[j] = stamp[j]
    BY <1>1, <1>3 DEF Listed, Recorded
  <2>2. PagerInv' /\ PagesAreExact'
    BY <1>1, <1>2, <1>3, <2>1, ClientStays
  <2>3. NeverPrunedEarly'
    BY <1>1, <1>2, <2>1, NonePruned
  <2>4. ListingTypeOK'
    BY <1>2, <1>3, <2>1 DEF LInv, ListingTypeOK
  <2>. QED  BY <2>2, <2>3, <2>4 DEF LInv
<1>4. CASE TakeID(i)
  BY <1>1, <1>3, <1>4 DEF TakeID
<1>5. CASE Stamp(i)
  BY <1>1, <1>3, <1>5 DEF Stamp
<1>6. CASE InsertRow(i)
  BY <1>1, <1>3, <1>6 DEF InsertRow
<1>7. CASE Return(i)
  BY <1>1, <1>3, <1>7 DEF Return
<1>8. CASE Leave(i)
  <2>1. Unlist({i}) /\ {i} \in SUBSET Listed /\ table = "others" /\ stamp' = stamp
    BY <1>8 DEF Leave
  <2>2. /\ \A j \in Ids : Recorded(j) => Recorded(j)'
        /\ row' \in [Ids -> {"none", "taken", "stamped", "listed", "unlisted"}]
        /\ throughout' \subseteq throughout /\ throughout' \subseteq Listed'
    BY <2>1, Unlisting
  <2>3. PagerInv' /\ PagesAreExact'
    BY <1>2, <2>2, ClientStays
  <2>4. NeverPrunedEarly'
    BY <1>2, <2>1 DEF NeverPrunedEarly
  <2>5. ListingTypeOK'
    BY <1>2, <2>1, <2>2 DEF LInv, ListingTypeOK
  <2>. QED  BY <2>3, <2>4, <2>5 DEF LInv
<1>. QED  BY <1>4, <1>5, <1>6, <1>7, <1>8

\* Time, a prune that is cut short, and the client.
LEMMA OthersKeep ==
  ASSUME LInv,
         \/ Tick \/ PruneAborts \/ Begin \/ UNCHANGED vars
         \/ \E limit \in Limits : ListPage(limit)
  PROVE  LInv'
<1>1. UNCHANGED <<table, row, stamp>> /\ clock \in Nat /\ clock' \in 0 .. MaxTime
        /\ clock' \in Nat /\ clock <= clock'
  <2>1. MaxTime \in Nat /\ clock \in 0 .. MaxTime
    BY ListingAssumption DEF LInv, ListingTypeOK
  <2>2. CASE Tick
    BY <2>1, <2>2 DEF Tick
  <2>3. CASE PruneAborts \/ Begin \/ UNCHANGED vars \/ \E limit \in Limits : ListPage(limit)
    <3>1. UNCHANGED <<table, row, stamp, clock>>
      BY <2>3 DEF PruneAborts, Begin, ListPage, vars
    <3>. QED  BY <2>1, <3>1
  <2>. QED  BY <2>2, <2>3
<1>2. NeverPrunedEarly'
  BY <1>1, NonePruned DEF Recorded
<1>3. CASE Tick \/ PruneAborts \/ UNCHANGED vars
  <2>1. UNCHANGED <<pager, throughout>> /\ pruning' \in {"idle", "count"}
    BY <1>3 DEF Tick, PruneAborts, vars, LInv, ListingTypeOK
  <2>2. throughout' \subseteq Listed'
    BY <1>1, <2>1 DEF LInv, PagerInv, Listed
  <2>3. PagerInv' /\ PagesAreExact'
    BY <1>1, <2>1, <2>2, ClientStays
  <2>4. ListingTypeOK'
    BY <1>1, <2>1 DEF LInv, ListingTypeOK
  <2>. QED  BY <1>2, <2>3, <2>4 DEF LInv
<1>4. CASE Begin
  <2>1. /\ pager.pc = "idle" /\ pager' = [pager EXCEPT !.pc = "paging"]
        /\ throughout' = Listed /\ UNCHANGED <<table, row, stamp, clock, pruning>>
    BY <1>4 DEF Begin
  <2>2. /\ pager'.pc = "paging" /\ pager'.seen = <<>> /\ pager'.cursor = NoCursor
        /\ pager' \in [pc : {"idle", "paging", "done"}, cursor : Ids \cup {NoCursor},
                       seen : BoundedSeq(Ids, MaxRows)]
    BY <2>1 DEF LInv, ListingTypeOK, PagerInv
  <2>3. throughout' \subseteq Behind(NoCursor)' /\ throughout' \subseteq Listed'
    BY <2>1 DEF Behind, Listed
  <2>4. PagerInv'
    BY <2>2, <2>3 DEF PagerInv
  <2>5. PagesAreExact'
    BY <2>2 DEF PagesAreExact, Sorted
  <2>6. ListingTypeOK'
    BY <2>1, <2>2 DEF LInv, ListingTypeOK, Listed
  <2>. QED  BY <1>2, <2>4, <2>5, <2>6 DEF LInv
<1>5. ASSUME NEW limit \in Limits, ListPage(limit)
      PROVE  LInv'
  <2>1. /\ pager'.seen \in Seq(Ids) /\ Sorted(pager'.seen)
        /\ pager'.cursor \in Ids \cup {NoCursor}
        /\ PagerInv'
        /\ pager'.pc \in {"paging", "done"}
        /\ pager'.pc = "done" => throughout' \subseteq ToSet(pager'.seen)
    BY <1>5, PageKeeps
  <2>2. pager'.seen \in BoundedSeq(Ids, MaxRows)
    BY <2>1, SortedIsShort, BoundedSequences, ListingAssumption
  <2>3. \E seen, cursor, pc : pager' = [pc |-> pc, cursor |-> cursor, seen |-> seen]
    BY <1>5 DEF ListPage, LInv, ListingTypeOK
  <2>4. UNCHANGED <<table, row, stamp, clock, pruning, throughout>>
    BY <1>5 DEF ListPage
  <2>5. ListingTypeOK'
    BY <2>1, <2>2, <2>3, <2>4 DEF LInv, ListingTypeOK
  <2>6. PagesAreExact'
    BY <2>1, <2>4 DEF PagesAreExact, Sorted, Precedes
  <2>. QED  BY <1>2, <2>1, <2>5, <2>6 DEF LInv
<1>. QED  BY <1>3, <1>4, <1>5

\* Each step keeps what is known.
LEMMA LStep == LInv /\ [ListingNext]_vars => LInv'
BY RowKeeps, PruneKeeps, OthersKeep DEF ListingNext

\* No row is taken at first, and nothing is seen.
LEMMA LInit == ListingInit => LInv
<1>. SUFFICES ASSUME ListingInit PROVE LInv
  OBVIOUS
<1>1. {MaxRows, MaxTime} \subseteq Nat /\ <<>> \in BoundedSeq(Ids, MaxRows)
  <2>1. MaxRows \in Nat /\ MaxTime \in Nat
    BY ListingAssumption
  <2>2. <<>> \in Seq(Ids) /\ Len(<<>>) = 0
    BY EmptySeq
  <2>3. Len(<<>>) <= MaxRows
    BY <2>1, <2>2
  <2>4. <<>> \in BoundedSeq(Ids, MaxRows)
    BY ONLY <2>1, <2>2, <2>3, BoundedSequences
  <2>. QED  BY <2>1, <2>4
<1>2. ListingTypeOK
  BY <1>1 DEF ListingInit, ListingTypeOK
<1>3. PagerInv /\ PagesAreExact /\ NeverPrunedEarly
  BY DEF ListingInit, PagerInv, PagesAreExact, NeverPrunedEarly, Sorted
<1>. QED  BY <1>2, <1>3 DEF LInv

-------------------------------------------------------------------------------
(* The theorems                                                              *)

\* What is known of rows, of the client and of the retention is so throughout.
THEOREM ListingInvariant == ListingSpec => []LInv
BY LInit, LStep, PTL DEF ListingSpec

\* Rows, timestamps and what a client gathers keep their types; a client never
\* gathers more rows than there are.
THEOREM ListingTyped == ListingSpec => []ListingTypeOK
<1>1. LInv => ListingTypeOK
  BY DEF LInv
<1>. QED  BY <1>1, ListingInvariant, PTL

\* A client that pages through a listing sees nothing twice, everything in the order
\* of identifiers and, once there is no next cursor, every row that was listed from
\* before its first page until after its last, for any page sizes and whatever
\* comes and goes meanwhile.
THEOREM PagesAreExactHolds == ListingSpec => []PagesAreExact
<1>1. LInv => PagesAreExact
  BY DEF LInv
<1>. QED  BY <1>1, ListingInvariant, PTL

\* An event that is gone was older than the retention allows, or was followed by as
\* many later ones as are kept, wherever a prune was cut short.
THEOREM NeverPrunedEarlyHolds == ListingSpec => []NeverPrunedEarly
<1>1. LInv => NeverPrunedEarly
  BY DEF LInv
<1>. QED  BY <1>1, ListingInvariant, PTL

===============================================================================
