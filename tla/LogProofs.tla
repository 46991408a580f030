------------------------------ MODULE LogProofs ------------------------------
(***************************************************************************)
(* The log of an exec and the commands that print it, proved for any       *)
(* payloads, cap, faults and number of commands: what the recursive walks  *)
(* over the file find, and that through torn writes, repairs and resumed   *)
(* streams the log only grows and each record is printed once, in order.   *)
(***************************************************************************)
EXTENDS FollowLogs, SequenceTheorems, WellFoundedInduction, TLAPS

-------------------------------------------------------------------------------
(* Induction                                                                 *)

\* A set that has 0 and with each number the next has them all: otherwise the
\* numbers it lacks would have a least one.
LEMMA Induction ==
  ASSUME NEW T, 0 \in T, \A n \in Nat : n \in T => n + 1 \in T
  PROVE  Nat \subseteq T
<1>. DEFINE R == OpToRel(<, Nat)
            M == Nat \ T
<1>1. SUFFICES ASSUME M # {} PROVE FALSE
  OBVIOUS
<1>2. IsWellFoundedOn(R, Nat)
  BY NatLessThanWellFounded
<1>3. PICK m \in M : \A y \in M : ~ (<<y, m>> \in R)
  <2>. HIDE DEF R
  <2>. QED  BY <1>1, <1>2, WFMin
<1>4. \A y \in M : ~ (y < m)
  <2>1. \A y \in Nat : y < m => <<y, m>> \in R
    BY <1>3 DEF OpToRel
  <2>. QED  BY <1>3, <2>1
<1>. HIDE DEF R
<1>5. m \in Nat /\ m # 0 /\ m \notin T
  BY <1>3
<1>6. m - 1 \in Nat /\ m - 1 < m /\ (m - 1) + 1 = m
  BY <1>5
<1>. QED  BY <1>4, <1>5, <1>6

-------------------------------------------------------------------------------
(* What the walks over a file compute                                        *)

\* The record of the frame at o.
RecordAt(f, o) == [stream |-> f[o + 1],
                   data   |-> SubSeq(f, o + headerSize + 1, After(f, o)),
                   offset |-> After(f, o)]

\* A frame ends behind its start, within the file.
LEMMA WholeAdvances ==
  ASSUME NEW f \in Seq(Nat), NEW o \in Nat, Whole(f, o)
  PROVE  After(f, o) \in Nat /\ o + 2 <= After(f, o) /\ After(f, o) <= Len(f)
<1>1. Len(f) \in Nat /\ f[o + 2] \in Nat
  <2>1. o + 2 \in 1 .. Len(f)
    BY DEF Whole, headerSize
  <2>. QED  BY <2>1
<1>. QED  BY <1>1 DEF Whole, After, headerSize

\* A frame is there, and reads the same, in any file that has its bytes.
LEMMA FrameStays ==
  ASSUME NEW f \in Seq(Nat), NEW g \in Seq(Nat), NEW o \in Nat, Whole(f, o),
         After(f, o) <= Len(g), \A j \in 1 .. After(f, o) : g[j] = f[j]
  PROVE  Whole(g, o) /\ RecordAt(g, o) = RecordAt(f, o)
<1>1. PICK p \in Nat : p = After(f, o)
  BY WholeAdvances
<1>2. Len(f) \in Nat /\ Len(g) \in Nat
  OBVIOUS
<1>3. o + 2 <= p /\ p <= Len(f) /\ p <= Len(g)
  BY <1>1, WholeAdvances
<1>4. \A j \in 1 .. p : g[j] = f[j]
  BY <1>1
<1>5. g[o + 1] = f[o + 1] /\ g[o + 2] = f[o + 2]
  BY <1>3, <1>4
<1>6. Whole(g, o) /\ After(g, o) = p
  <2>1. f[o + 2] \in Nat /\ o + 2 <= Len(f) /\ p = o + 2 + f[o + 2]
    <3>1. o + 2 \in 1 .. Len(f)
      BY <1>2, <1>3
    <3>. QED  BY <1>1, <3>1 DEF After, headerSize
  <2>2. f[o + 2] <= MaxFramePayload
    BY DEF Whole
  <2>. QED  BY <1>2, <1>3, <1>5, <2>1, <2>2 DEF Whole, After, headerSize
<1>7. SubSeq(g, o + 3, p) = SubSeq(f, o + 3, p)
  <2>1. \A j \in o + 3 .. p : f[j] \in Nat /\ g[j] \in Nat
    <3>1. \A j \in o + 3 .. p : j \in 1 .. Len(g)
      BY <1>2, <1>3
    <3>2. \A j \in o + 3 .. p : j \in 1 .. Len(f)
      BY <1>2, <1>3
    <3>. QED  BY <3>1, <3>2
  <2>2. /\ SubSeq(g, o + 3, p) \in Seq(Nat) /\ SubSeq(f, o + 3, p) \in Seq(Nat)
        /\ Len(SubSeq(g, o + 3, p)) = Len(SubSeq(f, o + 3, p))
        /\ Len(SubSeq(g, o + 3, p)) = IF o + 3 <= p THEN p - (o + 3) + 1 ELSE 0
        /\ \A k \in 1 .. p - (o + 3) + 1 : /\ SubSeq(g, o + 3, p)[k] = g[o + 3 + k - 1]
                                           /\ SubSeq(f, o + 3, p)[k] = f[o + 3 + k - 1]
    BY <2>1, SubSeqProperties
  <2>3. ASSUME NEW k \in 1 .. Len(SubSeq(g, o + 3, p))
        PROVE  SubSeq(g, o + 3, p)[k] = SubSeq(f, o + 3, p)[k]
    <3>1. k \in 1 .. p - (o + 3) + 1 /\ o + 3 + k - 1 \in 1 .. p
      BY <1>3, <2>2
    <3>. QED  BY <1>4, <2>2, <3>1
  <2>. QED  BY <2>2, <2>3, SeqEqual
<1>8. o + headerSize + 1 = o + 3
  BY DEF headerSize
<1>. QED  BY <1>1, <1>5, <1>6, <1>7, <1>8 DEF RecordAt

\* g is defined by recursion over the frames of a file.
Recurs(f, c, d, g) ==
  \A o \in Nat : g[o] = IF Whole(f, o) THEN c[<<o, g[After(f, o)]>>] ELSE d[o]

\* There is such a g: from the end of the file on there is one, and from there each
\* offset is served by those behind its frame.
LEMMA Recursion ==
  ASSUME NEW f \in Seq(Nat), NEW V, NEW c \in [Nat \X V -> V], NEW d \in [Nat -> V]
  PROVE  \E g \in [Nat -> V] : Recurs(f, c, d, g)
<1>. DEFINE From(k) == {o \in Nat : o + k >= Len(f)}
            Serves(g, k) ==
              /\ g \in [From(k) -> V]
              /\ \A o \in From(k) :
                   g[o] = IF Whole(f, o) THEN c[<<o, g[After(f, o)]>>] ELSE d[o]
            T == {k \in Nat : \E g : Serves(g, k)}
<1>1. Len(f) \in Nat
  OBVIOUS
<1>2. ASSUME NEW k \in Nat, NEW o \in From(k + 1), Whole(f, o)
      PROVE  After(f, o) \in From(k) /\ After(f, o) \in From(k + 1)
  BY <1>1, <1>2, WholeAdvances
<1>3. 0 \in T
  <2>. DEFINE g == [o \in From(0) |-> d[o]]
  <2>1. \A o \in From(0) : ~Whole(f, o)
    BY <1>1, WholeAdvances
  <2>2. Serves(g, 0)
    BY <2>1
  <2>. HIDE DEF g, Serves
  <2>. QED  BY <2>2
<1>4. ASSUME NEW k \in Nat, k \in T
      PROVE  k + 1 \in T
  <2>1. PICK g : Serves(g, k)
    BY <1>4
  <2>. DEFINE h == [o \in From(k + 1) |-> IF Whole(f, o) THEN c[<<o, g[After(f, o)]>>] ELSE d[o]]
  <2>2. h \in [From(k + 1) -> V]
    <3>1. ASSUME NEW o \in From(k + 1), Whole(f, o)
          PROVE  c[<<o, g[After(f, o)]>>] \in V
      <4>1. After(f, o) \in From(k)
        BY <1>2, <3>1
      <4>2. g[After(f, o)] \in V
        BY <2>1, <4>1
      <4>. QED  BY <4>2
    <3>. QED  BY <3>1
  <2>3. ASSUME NEW o \in From(k)
        PROVE  h[o] = g[o]
    <3>1. o \in From(k + 1)
      BY <1>1
    <3>. QED  BY <2>1, <3>1
  <2>4. ASSUME NEW o \in From(k + 1)
        PROVE  h[o] = IF Whole(f, o) THEN c[<<o, h[After(f, o)]>>] ELSE d[o]
    <3>1. Whole(f, o) => h[After(f, o)] = g[After(f, o)]
      BY <1>2, <2>3
    <3>2. h[o] = IF Whole(f, o) THEN c[<<o, g[After(f, o)]>>] ELSE d[o]
      OBVIOUS
    <3>. HIDE DEF h, From
    <3>. QED  BY <3>1, <3>2
  <2>5. Serves(h, k + 1)
    <3>. HIDE DEF h, From
    <3>. QED  BY <2>2, <2>4
  <2>6. k + 1 \in Nat
    OBVIOUS
  <2>. HIDE DEF h, Serves
  <2>. QED  BY <2>5, <2>6
<1>5. Len(f) \in T
  <2>. HIDE DEF T
  <2>1. Nat \subseteq T
    BY <1>3, <1>4, Induction
  <2>. QED  BY <1>1, <2>1
<1>6. From(Len(f)) = Nat
  BY <1>1
<1>7. PICK g : Serves(g, Len(f))
  BY <1>5
<1>. HIDE DEF From
<1>. QED  BY <1>6, <1>7 DEF Recurs

\* What ReadRecords returns from each offset on.
LEMMA ReadsOn ==
  ASSUME NEW f \in Seq(Nat), NEW o \in Nat
  PROVE  ReadRecords(f, o) = IF Whole(f, o)
                             THEN <<RecordAt(f, o)>> \o ReadRecords(f, After(f, o))
                             ELSE <<>>
<1>. DEFINE V == Seq({RecordAt(f, a) : a \in Nat})
            c == [x \in Nat \X V |-> <<RecordAt(f, x[1])>> \o x[2]]
            d == [a \in Nat |-> <<>>]
            Body(read) == [a \in Nat |-> IF Whole(f, a)
                                         THEN <<RecordAt(f, a)>> \o read[After(f, a)]
                                         ELSE <<>>]
            read == CHOOSE read : read = Body(read)
<1>1. c \in [Nat \X V -> V] /\ d \in [Nat -> V]
  <2>1. ASSUME NEW a \in Nat, NEW rest \in V
        PROVE  <<RecordAt(f, a)>> \o rest \in V
    <3>. HIDE DEF c, d, Body, read
    <3>1. <<RecordAt(f, a)>> \in V
      <4>1. PICK S : S = {RecordAt(f, b) : b \in Nat}
        OBVIOUS
      <4>2. RecordAt(f, a) \in S
        BY <4>1
      <4>. QED  BY <4>1, <4>2
    <3>. HIDE DEF V
    <3>. QED  BY <3>1, ConcatProperties DEF V
  <2>2. <<>> \in V
    OBVIOUS
  <2>. HIDE DEF V
  <2>. QED  BY <2>1, <2>2
<1>2. PICK g \in [Nat -> V] : Recurs(f, c, d, g)
  <2>. HIDE DEF V, c, d, Body, read
  <2>. QED  BY <1>1, Recursion
<1>3. \A a \in Nat : g[a] = IF Whole(f, a) THEN <<RecordAt(f, a)>> \o g[After(f, a)] ELSE <<>>
  <2>. SUFFICES ASSUME NEW a \in Nat
                PROVE  g[a] = IF Whole(f, a) THEN <<RecordAt(f, a)>> \o g[After(f, a)] ELSE <<>>
    OBVIOUS
  <2>1. Whole(f, a) => After(f, a) \in Nat
    BY WholeAdvances
  <2>2. Whole(f, a) => g[After(f, a)] \in V
    <3>. HIDE DEF V
    <3>. QED  BY <2>1
  <2>. HIDE DEF V
  <2>. QED  BY <1>2, <2>2 DEF Recurs
<1>4. g = Body(g)
  <2>. HIDE DEF V
  <2>. QED  BY <1>3
<1>5. read = Body(read)
  <2>. HIDE DEF Body
  <2>. QED  BY <1>4
<1>6. \A a \in Nat : ReadRecords(f, a) = read[a]
  BY DEF ReadRecords, RecordAt
<1>7. \A a \in Nat : read[a] = IF Whole(f, a)
                               THEN <<RecordAt(f, a)>> \o read[After(f, a)]
                               ELSE <<>>
  <2>. HIDE DEF read
  <2>. QED  BY <1>5
<1>. HIDE DEF read
<1>. QED  BY <1>6, <1>7, WholeAdvances

\* What the walk of repairTornTail finds from each offset on.
LEMMA WalksOn ==
  ASSUME NEW f \in Seq(Nat)
  PROVE  \E walk :
           /\ LastBoundary(f) = walk[0]
           /\ \A o \in Nat : walk[o] = IF Whole(f, o) THEN walk[After(f, o)] ELSE o
<1>. DEFINE c == [x \in Nat \X Nat |-> x[2]]
            d == [a \in Nat |-> a]
            Body(walk) == [a \in Nat |-> IF Whole(f, a) THEN walk[After(f, a)] ELSE a]
            walk == CHOOSE walk : walk = Body(walk)
<1>1. c \in [Nat \X Nat -> Nat] /\ d \in [Nat -> Nat]
  OBVIOUS
<1>2. PICK g \in [Nat -> Nat] : Recurs(f, c, d, g)
  <2>. HIDE DEF c, d, Body, walk
  <2>. QED  BY <1>1, Recursion
<1>3. \A a \in Nat : g[a] = IF Whole(f, a) THEN g[After(f, a)] ELSE a
  <2>. SUFFICES ASSUME NEW a \in Nat
                PROVE  g[a] = IF Whole(f, a) THEN g[After(f, a)] ELSE a
    OBVIOUS
  <2>1. Whole(f, a) => g[After(f, a)] \in Nat
    BY WholeAdvances
  <2>. QED  BY <1>2, <2>1 DEF Recurs
<1>4. g = Body(g)
  BY <1>3
<1>5. walk = Body(walk)
  <2>. HIDE DEF Body
  <2>. QED  BY <1>4
<1>6. LastBoundary(f) = walk[0]
  BY DEF LastBoundary
<1>7. \A o \in Nat : walk[o] = IF Whole(f, o) THEN walk[After(f, o)] ELSE o
  <2>. HIDE DEF walk
  <2>. QED  BY <1>5
<1>. HIDE DEF walk
<1>. QED  BY <1>6, <1>7

-------------------------------------------------------------------------------
(* A repair of any file at all                                               *)

\* The repair stops within the file, where no frame is whole.
LEMMA BoundaryFound ==
  ASSUME NEW f \in Seq(Nat)
  PROVE  /\ LastBoundary(f) \in Nat /\ LastBoundary(f) <= Len(f)
         /\ ~Whole(f, LastBoundary(f))
<1>1. PICK walk : /\ LastBoundary(f) = walk[0]
                  /\ \A o \in Nat : walk[o] = IF Whole(f, o) THEN walk[After(f, o)] ELSE o
  BY WalksOn
<1>. DEFINE Stops(o) == walk[o] \in Nat /\ walk[o] <= Len(f) /\ ~Whole(f, walk[o])
            T == {k \in Nat : \A o \in 0 .. Len(f) : o + k >= Len(f) => Stops(o)}
<1>2. Len(f) \in Nat
  OBVIOUS
<1>3. ASSUME NEW o \in 0 .. Len(f), ~Whole(f, o)
      PROVE  Stops(o)
  <2>1. walk[o] = o
    BY <1>1, <1>3
  <2>. QED  BY <1>2, <1>3, <2>1
<1>4. 0 \in T
  <2>1. \A o \in 0 .. Len(f) : o + 0 >= Len(f) => ~Whole(f, o)
    BY <1>2, WholeAdvances
  <2>. HIDE DEF Stops
  <2>. QED  BY <1>3, <2>1
<1>5. ASSUME NEW k \in Nat, k \in T
      PROVE  k + 1 \in T
  <2>. SUFFICES ASSUME NEW o \in 0 .. Len(f), o + (k + 1) >= Len(f), Whole(f, o)
                PROVE  Stops(o)
    <3>. HIDE DEF Stops
    <3>. QED  BY <1>3
  <2>1. PICK p \in Nat : p = After(f, o) /\ o + 2 <= p /\ p <= Len(f)
    BY WholeAdvances
  <2>2. p \in 0 .. Len(f) /\ p + k >= Len(f)
    BY <1>2, <2>1
  <2>3. walk[o] = walk[p]
    BY <1>1, <2>1
  <2>. QED  BY <1>5, <2>2, <2>3
<1>6. Len(f) \in T
  <2>1. Nat \subseteq T
    <3>. HIDE DEF T
    <3>. QED  BY <1>4, <1>5, Induction
  <2>. QED  BY <1>2, <2>1
<1>7. 0 \in 0 .. Len(f) /\ 0 + Len(f) >= Len(f)
  BY <1>2
<1>8. Stops(0)
  <2>. HIDE DEF Stops
  <2>. QED  BY <1>6, <1>7
<1>. QED  BY <1>1, <1>8

\* In any file that ends at the boundary and is the same up to it, the two walks find
\* what they found before.
LEMMA WalkAgain ==
  ASSUME NEW f \in Seq(Nat), NEW g \in Seq(Nat), Len(g) = LastBoundary(f),
         \A j \in 1 .. Len(g) : g[j] = f[j]
  PROVE  LastBoundary(g) = Len(g) /\ ReadRecords(g, 0) = ReadRecords(f, 0)
<1>1. PICK walk : /\ LastBoundary(f) = walk[0]
                  /\ \A o \in Nat : walk[o] = IF Whole(f, o) THEN walk[After(f, o)] ELSE o
  BY WalksOn
<1>2. PICK again : /\ LastBoundary(g) = again[0]
                   /\ \A o \in Nat : again[o] = IF Whole(g, o) THEN again[After(g, o)] ELSE o
  BY WalksOn
<1>3. PICK n \in Nat : n = Len(g) /\ n = LastBoundary(f) /\ n <= Len(f) /\ ~Whole(f, n)
  BY BoundaryFound
<1>. DEFINE Alike(o) ==
              walk[o] = n => o <= n /\ again[o] = n /\ ReadRecords(g, o) = ReadRecords(f, o)
            T == {k \in Nat : \A o \in 0 .. Len(f) : o + k >= Len(f) => Alike(o)}
<1>4. Len(f) \in Nat
  OBVIOUS
<1>5. ASSUME NEW o \in 0 .. Len(f), ~Whole(f, o)
      PROVE  Alike(o)
  <2>. SUFFICES ASSUME walk[o] = n
                PROVE  o <= n /\ again[o] = n /\ ReadRecords(g, o) = ReadRecords(f, o)
    OBVIOUS
  <2>1. o = n
    BY <1>1, <1>5
  <2>2. ~Whole(g, n)
    BY <1>3, WholeAdvances
  <2>3. again[n] = n /\ ReadRecords(g, n) = <<>> /\ ReadRecords(f, n) = <<>>
    BY <1>2, <1>3, <2>2, ReadsOn
  <2>. QED  BY <1>3, <2>1, <2>3
<1>6. 0 \in T
  <2>1. \A o \in 0 .. Len(f) : o + 0 >= Len(f) => ~Whole(f, o)
    BY <1>4, WholeAdvances
  <2>. HIDE DEF Alike
  <2>. QED  BY <1>5, <2>1
<1>7. ASSUME NEW k \in Nat, k \in T
      PROVE  k + 1 \in T
  <2>. SUFFICES ASSUME NEW o \in 0 .. Len(f), o + (k + 1) >= Len(f), Whole(f, o)
                PROVE  Alike(o)
    <3>. HIDE DEF Alike
    <3>. QED  BY <1>5
  <2>. SUFFICES ASSUME walk[o] = n
                PROVE  o <= n /\ again[o] = n /\ ReadRecords(g, o) = ReadRecords(f, o)
    OBVIOUS
  <2>1. PICK p \in Nat : p = After(f, o) /\ o + 2 <= p /\ p <= Len(f)
    BY WholeAdvances
  <2>2. p \in 0 .. Len(f) /\ p + k >= Len(f)
    BY <1>4, <2>1
  <2>3. walk[p] = n
    BY <1>1, <2>1
  <2>4. p <= n /\ again[p] = n /\ ReadRecords(g, p) = ReadRecords(f, p)
    BY <1>7, <2>2, <2>3
  <2>5. After(f, o) <= Len(g) /\ \A j \in 1 .. After(f, o) : g[j] = f[j]
    <3>1. p <= Len(g) /\ \A j \in 1 .. p : j \in 1 .. Len(g)
      BY <1>3, <2>1, <2>4
    <3>2. \A j \in 1 .. p : g[j] = f[j]
      BY <3>1
    <3>. QED  BY <2>1, <3>1, <3>2
  <2>6. Whole(g, o) /\ RecordAt(g, o) = RecordAt(f, o)
    BY <2>5, FrameStays
  <2>7. After(g, o) = p
    BY <2>1, <2>6 DEF RecordAt
  <2>8. again[o] = n
    BY <1>2, <2>4, <2>6, <2>7
  <2>9. ReadRecords(g, o) = ReadRecords(f, o)
    <3>1. ReadRecords(g, o) = <<RecordAt(g, o)>> \o ReadRecords(g, p)
      <4>1. ReadRecords(g, o) = <<RecordAt(g, o)>> \o ReadRecords(g, After(g, o))
        BY <2>6, ReadsOn
      <4>. QED  BY <2>7, <4>1
    <3>2. ReadRecords(f, o) = <<RecordAt(f, o)>> \o ReadRecords(f, p)
      <4>1. ReadRecords(f, o) = <<RecordAt(f, o)>> \o ReadRecords(f, After(f, o))
        BY ReadsOn
      <4>. QED  BY <2>1, <4>1
    <3>. QED  BY <2>4, <2>6, <3>1, <3>2
  <2>10. o <= n
    BY <1>3, <2>1, <2>4
  <2>. QED  BY <2>8, <2>9, <2>10
<1>8. Len(f) \in T
  <2>1. Nat \subseteq T
    <3>. HIDE DEF T
    <3>. QED  BY <1>6, <1>7, Induction
  <2>. QED  BY <1>4, <2>1
<1>9. 0 \in 0 .. Len(f) /\ 0 + Len(f) >= Len(f) /\ walk[0] = n
  BY <1>1, <1>3, <1>4
<1>10. Alike(0)
  <2>. HIDE DEF Alike
  <2>. QED  BY <1>8, <1>9
<1>. QED  BY <1>2, <1>3, <1>9, <1>10

\* repairTornTail on any file whatever, not only one this program wrote: what is left is
\* a beginning of it, has every record that ReadRecords found and nothing torn behind
\* them, and a second repair changes nothing.
THEOREM RepairOfAnyFile ==
  ASSUME NEW f \in Seq(Nat)
  PROVE  /\ Repaired(f) \in Seq(Nat) /\ Len(Repaired(f)) <= Len(f)
         /\ \A i \in 1 .. Len(Repaired(f)) : Repaired(f)[i] = f[i]
         /\ ReadRecords(Repaired(f), 0) = ReadRecords(f, 0)
         /\ Repaired(Repaired(f)) = Repaired(f)
<1>1. PICK n \in Nat : n = LastBoundary(f) /\ n <= Len(f)
  BY BoundaryFound
<1>2. PICK g : g = Repaired(f)
  OBVIOUS
<1>3. g \in Seq(Nat) /\ Len(g) = n /\ \A i \in 1 .. n : g[i] = f[i]
  <2>1. g = SubSeq(f, 1, n)
    BY <1>1, <1>2 DEF Repaired
  <2>. QED  BY <1>1, <2>1
<1>4. LastBoundary(g) = Len(g) /\ ReadRecords(g, 0) = ReadRecords(f, 0)
  BY <1>1, <1>3, WalkAgain
<1>5. Repaired(g) = g
  <2>1. Repaired(g) = SubSeq(g, 1, n)
    BY <1>3, <1>4 DEF Repaired
  <2>2. PICK h : h = SubSeq(g, 1, n)
    OBVIOUS
  <2>3. h \in Seq(Nat) /\ Len(h) = n /\ \A i \in 1 .. n : h[i] = g[i]
    BY <1>3, <2>2
  <2>4. h = g
    BY <1>3, <2>3, SeqEqual
  <2>. QED  BY <2>1, <2>2, <2>4
<1>. QED  BY <1>1, <1>2, <1>3, <1>4, <1>5

-------------------------------------------------------------------------------
(* The trail of records through a file                                       *)

Records == [stream : Streams, data : Payloads, offset : Nat]

\* Where the i-th record of s starts, and where the last one ends.
Start(s, i) == IF i = 1 THEN 0 ELSE s[i - 1].offset

End(s) == Start(s, Len(s) + 1)

\* s has the records that follow each other from the start of f, and nothing whole
\* is behind them.
Trail(f, s) ==
  /\ s \in Seq(Records)
  /\ \A i \in 1 .. Len(s) : Whole(f, Start(s, i)) /\ s[i] = RecordAt(f, Start(s, i))
  /\ \A i, j \in 1 .. Len(s) + 1 : i < j => Start(s, i) < Start(s, j)
  /\ End(s) <= Len(f) /\ ~Whole(f, End(s))

\* Offsets on the trail are numbers, and grow.
LEMMA Offsets ==
  ASSUME NEW s \in Seq(Records)
  PROVE  /\ \A i \in 1 .. Len(s) + 1 : Start(s, i) \in Nat
         /\ End(s) \in Nat
         /\ \A i \in 1 .. Len(s) : s[i].offset = Start(s, i + 1) /\ s[i] \in Records
<1>1. \A i \in 1 .. Len(s) : s[i] \in Records /\ s[i].offset \in Nat
  <2>. TAKE i \in 1 .. Len(s)
  <2>1. s[i] \in Records
    BY ElementOfSeq
  <2>. QED  BY <2>1 DEF Records
<1>2. Len(s) \in Nat
  OBVIOUS
<1>. QED  BY <1>1, <1>2 DEF Start, End

\* The walks of repairTornTail and of ReadRecords follow the trail.
LEMMA TrailIsRead ==
  ASSUME NEW f \in Seq(Nat), NEW s, Trail(f, s)
  PROVE  /\ LastBoundary(f) = End(s)
         /\ \A i \in 1 .. Len(s) + 1 : ReadRecords(f, Start(s, i)) = SubSeq(s, i, Len(s))
<1>. DEFINE n == Len(s)
<1>1. PICK walk : /\ LastBoundary(f) = walk[0]
                  /\ \A o \in Nat : walk[o] = IF Whole(f, o) THEN walk[After(f, o)] ELSE o
  BY WalksOn
<1>. DEFINE Follows(i) == /\ walk[Start(s, i)] = End(s)
                          /\ ReadRecords(f, Start(s, i)) = SubSeq(s, i, n)
            T == {k \in Nat : k <= n => Follows(n + 1 - k)}
<1>2. s \in Seq(Records) /\ n \in Nat
  BY DEF Trail
<1>3. 0 \in T
  <2>1. End(s) \in Nat /\ ~Whole(f, End(s)) /\ n + 1 - 0 = n + 1
    BY <1>2, Offsets DEF Trail
  <2>2. walk[End(s)] = End(s) /\ ReadRecords(f, End(s)) = <<>>
    BY <1>1, <2>1, ReadsOn
  <2>3. SubSeq(s, n + 1, n) = <<>>
    BY <1>2, SubSeqEmpty
  <2>. QED  BY <2>1, <2>2, <2>3 DEF End
<1>4. ASSUME NEW k \in Nat, k \in T
      PROVE  k + 1 \in T
  <2>. SUFFICES ASSUME k + 1 <= n
                PROVE  Follows(n + 1 - (k + 1))
    OBVIOUS
  <2>. DEFINE i == n - k
  <2>1. i \in 1 .. n /\ n + 1 - (k + 1) = i /\ n + 1 - k = i + 1
    BY <1>2
  <2>2. Follows(i + 1)
    BY <1>4, <2>1
  <2>3. Whole(f, Start(s, i)) /\ s[i] = RecordAt(f, Start(s, i)) /\ Start(s, i) \in Nat
    BY <1>2, <2>1, Offsets DEF Trail
  <2>4. After(f, Start(s, i)) = Start(s, i + 1)
    <3>1. s[i].offset = Start(s, i + 1)
      BY <1>2, <2>1, Offsets
    <3>2. RecordAt(f, Start(s, i)).offset = After(f, Start(s, i))
      BY DEF RecordAt
    <3>. QED  BY <2>3, <3>1, <3>2
  <2>. HIDE DEF i
  <2>5. walk[Start(s, i)] = End(s)
    BY <1>1, <2>2, <2>3, <2>4
  <2>6. ReadRecords(f, Start(s, i)) = <<s[i]>> \o SubSeq(s, i + 1, n)
    BY <2>2, <2>3, <2>4, ReadsOn
  <2>7. SubSeq(s, i, n) = <<s[i]>> \o SubSeq(s, i + 1, n)
    BY <1>2, <2>1, SubSeqRecursiveFirst
  <2>. QED  BY <2>1, <2>5, <2>6, <2>7
<1>5. \A k \in Nat : k <= n => Follows(n + 1 - k)
  <2>1. Nat \subseteq T
    <3>. HIDE DEF T
    <3>. QED  BY <1>3, <1>4, Induction
  <2>. QED  BY <2>1
<1>6. \A i \in 1 .. n + 1 : Follows(i)
  <2>. TAKE i \in 1 .. n + 1
  <2>1. n + 1 - i \in Nat /\ n + 1 - i <= n /\ n + 1 - (n + 1 - i) = i
    BY <1>2
  <2>. HIDE DEF Follows
  <2>. QED  BY <1>5, <2>1
<1>7. 1 \in 1 .. n + 1 /\ Start(s, 1) = 0
  BY <1>2 DEF Start
<1>. QED  BY <1>1, <1>6, <1>7

-------------------------------------------------------------------------------
(* How the trail changes with the file                                       *)

\* A file that is the same as far as the trail goes has the same records.
LEMMA RecordsStay ==
  ASSUME NEW f \in Seq(Nat), NEW g \in Seq(Nat), NEW s, Trail(f, s),
         End(s) <= Len(g), \A i \in 1 .. End(s) : g[i] = f[i]
  PROVE  \A i \in 1 .. Len(s) : Whole(g, Start(s, i)) /\ s[i] = RecordAt(g, Start(s, i))
<1>1. s \in Seq(Records) /\ Len(s) \in Nat /\ Len(f) \in Nat /\ Len(g) \in Nat
  BY DEF Trail
<1>2. ASSUME NEW i \in 1 .. Len(s)
      PROVE  Whole(g, Start(s, i)) /\ s[i] = RecordAt(g, Start(s, i))
  <2>. DEFINE o == Start(s, i)
              p == Start(s, i + 1)
  <2>1. o \in Nat /\ p \in Nat /\ s[i].offset = p /\ End(s) \in Nat
    BY <1>1, Offsets
  <2>2. Whole(f, o) /\ s[i] = RecordAt(f, o)
    BY DEF Trail
  <2>3. p <= End(s)
    <3>1. i + 1 \in 1 .. Len(s) + 1 /\ Len(s) + 1 \in 1 .. Len(s) + 1
      BY <1>1
    <3>2. i + 1 = Len(s) + 1 \/ i + 1 < Len(s) + 1
      BY <1>1
    <3>3. CASE i + 1 = Len(s) + 1
      BY <2>1, <3>3 DEF End
    <3>4. CASE i + 1 < Len(s) + 1
      <4>1. Start(s, i + 1) < Start(s, Len(s) + 1)
        BY <3>1, <3>4 DEF Trail
      <4>. QED  BY <2>1, <4>1 DEF End
    <3>. QED  BY <3>2, <3>3, <3>4
  <2>4. After(f, o) = p
    <3>1. RecordAt(f, o).offset = After(f, o)
      BY DEF RecordAt
    <3>. QED  BY <2>1, <2>2, <3>1
  <2>. HIDE DEF o, p
  <2>5. p <= Len(g) /\ \A j \in 1 .. p : g[j] = f[j]
    <3>1. \A j \in 1 .. p : j \in 1 .. End(s)
      BY <2>1, <2>3
    <3>. QED  BY <1>1, <2>1, <2>3, <3>1
  <2>6. Whole(g, o) /\ RecordAt(g, o) = RecordAt(f, o)
    BY <2>1, <2>2, <2>4, <2>5, FrameStays
  <2>. QED  BY <2>2, <2>6 DEF o
<1>. QED  BY <1>2

\* If nothing whole is behind them, it has the same trail.
LEMMA TrailStays ==
  ASSUME NEW f \in Seq(Nat), NEW g \in Seq(Nat), NEW s, Trail(f, s),
         End(s) <= Len(g), \A i \in 1 .. End(s) : g[i] = f[i], ~Whole(g, End(s))
  PROVE  Trail(g, s)
BY RecordsStay DEF Trail

\* repairTornTail leaves the trail and nothing else.
LEMMA TrailRepaired ==
  ASSUME NEW f \in Seq(Nat), NEW s, Trail(f, s)
  PROVE  /\ Repaired(f) \in Seq(Nat) /\ Len(Repaired(f)) = End(s)
         /\ Trail(Repaired(f), s)
<1>1. s \in Seq(Records) /\ End(s) \in Nat /\ End(s) <= Len(f) /\ Len(f) \in Nat
  BY Offsets DEF Trail
<1>2. Repaired(f) = SubSeq(f, 1, End(s))
  BY TrailIsRead DEF Repaired
<1>3. PICK g : g = Repaired(f)
  OBVIOUS
<1>4. /\ g \in Seq(Nat) /\ Len(g) = End(s)
      /\ \A i \in 1 .. End(s) : g[i] = f[i]
  BY <1>1, <1>2, <1>3
<1>5. ~Whole(g, End(s))
  BY <1>1, <1>4, WholeAdvances
<1>6. Trail(g, s)
  <2>1. End(s) <= Len(g)
    BY <1>1, <1>4
  <2>. QED  BY <1>4, <1>5, <2>1, TrailStays
<1>. QED  BY <1>3, <1>4, <1>6

\* The first n bytes of a frame behind a file.
Extended(f, stream, data, n) == f \o SubSeq(Frame(stream, data), 1, n)

\* g is f, followed by n bytes of a frame.
Continues(g, f, stream, data, n) ==
  /\ g \in Seq(Nat) /\ Len(g) = Len(f) + n /\ Len(f) \in Nat
  /\ data \in Seq(Nat) /\ Len(data) \in Nat /\ Len(data) <= MaxFramePayload
  /\ Frame(stream, data) \in Seq(Nat) /\ Len(Frame(stream, data)) = 2 + Len(data)
  /\ \A i \in 1 .. Len(f) : g[i] = f[i]
  /\ n >= 1 => g[Len(f) + 1] = stream
  /\ n >= 2 => g[Len(f) + 2] = Len(data)
  /\ \A i \in 1 .. n - 2 : g[Len(f) + 2 + i] = data[i]

\* So it is with the bytes that a write hands to the file.
LEMMA ExtendedBytes ==
  ASSUME NEW f \in Seq(Nat), NEW stream \in Streams, NEW data \in Payloads,
         NEW n \in 0 .. 2 + Len(data), NEW g, g = Extended(f, stream, data, n)
  PROVE  Continues(g, f, stream, data, n)
<1>. DEFINE F == Frame(stream, data)
            H == <<stream, Len(data)>>
            P == SubSeq(F, 1, n)
<1>1. data \in Seq(Nat) /\ Len(data) \in Nat /\ Len(data) <= MaxFramePayload /\ stream \in Nat
  BY SizesAssumption
<1>2. H \in Seq(Nat) /\ Len(H) = 2 /\ H[1] = stream /\ H[2] = Len(data)
  BY <1>1
<1>3. /\ F \in Seq(Nat) /\ Len(F) = 2 + Len(data)
      /\ \A i \in 1 .. 2 + Len(data) : F[i] = IF i <= 2 THEN H[i] ELSE data[i - 2]
  <2>. HIDE DEF H
  <2>. QED  BY <1>1, <1>2, ConcatProperties DEF Frame, H
<1>. HIDE DEF F, H
<1>4. n \in Nat /\ n <= 2 + Len(data)
  BY <1>1
<1>5. /\ P \in Seq(Nat) /\ Len(P) = n
      /\ \A i \in 1 .. n : P[i] = F[i]
  <2>1. \A i \in 1 .. n : i \in 1 .. Len(F)
    BY <1>1, <1>3, <1>4
  <2>2. \A i \in 1 .. n : F[i] \in Nat
    BY <1>3, <2>1, ElementOfSeq
  <2>3. /\ P \in Seq(Nat) /\ Len(P) = IF 1 <= n THEN n - 1 + 1 ELSE 0
        /\ \A i \in 1 .. n - 1 + 1 : P[i] = F[1 + i - 1]
    BY <1>4, <2>2, SubSeqProperties
  <2>. QED  BY <1>4, <2>3
<1>. HIDE DEF P
<1>6. g = f \o P
  BY DEF Extended, P, F
<1>7. /\ g \in Seq(Nat) /\ Len(g) = Len(f) + n /\ Len(f) \in Nat
      /\ \A i \in 1 .. Len(f) + n : g[i] = IF i <= Len(f) THEN f[i] ELSE P[i - Len(f)]
  BY <1>5, <1>6, ConcatProperties
<1>8. \A i \in 1 .. n : g[Len(f) + i] = F[i]
  <2>. TAKE i \in 1 .. n
  <2>1. PICK j : j = Len(f) + i
    OBVIOUS
  <2>2. j \in 1 .. Len(f) + n /\ ~(j <= Len(f)) /\ j - Len(f) = i
    BY <1>4, <1>7, <2>1
  <2>3. g[j] = P[i]
    BY <1>7, <2>2
  <2>. QED  BY <1>5, <2>1, <2>3
<1>9. ASSUME NEW i \in 1 .. n - 2
      PROVE  g[Len(f) + 2 + i] = data[i]
  <2>1. PICK j : j = 2 + i
    OBVIOUS
  <2>2. /\ j \in 1 .. n /\ j \in 1 .. 2 + Len(data) /\ ~(j <= 2) /\ j - 2 = i
        /\ Len(f) + 2 + i = Len(f) + j
    BY <1>1, <1>4, <1>7, <2>1
  <2>3. F[j] = data[i]
    BY <1>3, <2>2
  <2>4. g[Len(f) + j] = F[j]
    BY <1>8, <2>2
  <2>. QED  BY <2>2, <2>3, <2>4
<1>10. \A i \in 1 .. Len(f) : g[i] = f[i]
  BY <1>4, <1>7
<1>11. (n >= 1 => g[Len(f) + 1] = stream) /\ (n >= 2 => g[Len(f) + 2] = Len(data))
  BY <1>1, <1>2, <1>3, <1>4, <1>8
<1>. QED  BY <1>1, <1>3, <1>7, <1>9, <1>10, <1>11 DEF F, Continues

\* A frame that is cut short adds nothing to the trail.
LEMMA TrailTorn ==
  ASSUME NEW f \in Seq(Nat), NEW s, Trail(f, s), End(s) = Len(f),
         NEW stream \in Streams, NEW data \in Payloads,
         NEW n \in 0 .. 2 + Len(data), n < 2 + Len(data),
         NEW g, g = Extended(f, stream, data, n)
  PROVE  g \in Seq(Nat) /\ Len(g) = Len(f) + n /\ Trail(g, s)
<1>1. /\ g \in Seq(Nat) /\ Len(g) = Len(f) + n /\ Len(f) \in Nat /\ Len(data) \in Nat
      /\ \A i \in 1 .. Len(f) : g[i] = f[i]
      /\ n >= 2 => g[Len(f) + 2] = Len(data)
  <2>1. Continues(g, f, stream, data, n)
    BY ExtendedBytes
  <2>. QED  BY <2>1 DEF Continues
<1>2. ~Whole(g, Len(f))
  BY <1>1 DEF Whole, headerSize
<1>3. End(s) <= Len(g)
  BY <1>1
<1>. QED  BY <1>1, <1>2, <1>3, TrailStays

\* A frame is appended to a file that ends with its trail s; g is the file then, and t
\* the trail with the record of the frame.
Appended(f, s, stream, data, g, t) ==
  /\ f \in Seq(Nat) /\ Trail(f, s) /\ End(s) = Len(f)
  /\ stream \in Streams /\ data \in Payloads
  /\ g = Extended(f, stream, data, 2 + Len(data))
  /\ t = Append(s, [stream |-> stream, data |-> data, offset |-> Len(g)])

\* A whole frame adds its record to the trail.
LEMMA TrailGrows ==
  ASSUME NEW f, NEW s, NEW stream, NEW data, NEW g, NEW t,
         Appended(f, s, stream, data, g, t)
  PROVE  /\ g \in Seq(Nat) /\ Len(g) = Len(f) + 2 + Len(data) /\ g = f \o Frame(stream, data)
         /\ Trail(g, t) /\ End(t) = Len(g)
<1>. DEFINE r == [stream |-> stream, data |-> data, offset |-> Len(g)]
            n == 2 + Len(data)
<1>1. /\ f \in Seq(Nat) /\ Trail(f, s) /\ End(s) = Len(f)
      /\ stream \in Streams /\ data \in Payloads
      /\ g = Extended(f, stream, data, 2 + Len(data)) /\ t = Append(s, r)
  BY DEF Appended
<1>2. data \in Seq(Nat) /\ Len(data) \in Nat
  BY <1>1, SizesAssumption
<1>3. /\ g \in Seq(Nat) /\ Len(g) = Len(f) + n /\ Len(f) \in Nat
      /\ Len(data) <= MaxFramePayload /\ MaxFramePayload \in Nat
      /\ Frame(stream, data) \in Seq(Nat) /\ Len(Frame(stream, data)) = n
      /\ \A i \in 1 .. Len(f) : g[i] = f[i]
      /\ g[Len(f) + 1] = stream /\ g[Len(f) + 2] = Len(data)
      /\ \A i \in 1 .. Len(data) : g[Len(f) + 2 + i] = data[i]
  <2>1. n \in 0 .. 2 + Len(data) /\ n >= 1 /\ n >= 2 /\ n - 2 = Len(data)
    BY <1>2
  <2>. HIDE DEF n
  <2>2. g = Extended(f, stream, data, n)
    BY <1>1 DEF n
  <2>3. Continues(g, f, stream, data, n)
    BY <1>1, <2>1, <2>2, ExtendedBytes
  <2>4. MaxFramePayload \in Nat
    BY SizesAssumption
  <2>. QED  BY <2>1, <2>3, <2>4 DEF n, Continues
<1>4. g = f \o Frame(stream, data)
  <2>1. SubSeq(Frame(stream, data), 1, n) = Frame(stream, data)
    BY <1>3, SubSeqFull
  <2>. QED  BY <1>1, <2>1 DEF Extended
<1>5. s \in Seq(Records) /\ Len(s) \in Nat /\ r \in Records
  BY <1>1, <1>3 DEF Trail, Records
<1>6. /\ t \in Seq(Records) /\ Len(t) = Len(s) + 1
      /\ \A i \in 1 .. Len(s) : t[i] = s[i]
      /\ t[Len(s) + 1] = r
  <2>. HIDE DEF r
  <2>. QED  BY <1>1, <1>5, AppendProperties DEF r
<1>7. /\ \A i \in 1 .. Len(s) + 1 : Start(t, i) = Start(s, i)
      /\ Start(t, Len(s) + 2) = Len(g) /\ End(t) = Len(g)
  <2>1. ASSUME NEW i \in 1 .. Len(s) + 1
        PROVE  Start(t, i) = Start(s, i)
    <3>1. i = 1 \/ i - 1 \in 1 .. Len(s)
      BY <1>5
    <3>. QED  BY <1>6, <3>1 DEF Start
  <2>2. /\ Len(s) + 2 # 1 /\ Len(s) + 2 - 1 = Len(s) + 1 /\ Len(t) + 1 = Len(s) + 2
    BY <1>5, <1>6
  <2>. QED  BY <1>6, <2>1, <2>2 DEF Start, End
<1>8. ASSUME NEW i, NEW j, i \in 1 .. Len(t) + 1, j \in 1 .. Len(t) + 1, i < j
      PROVE  Start(t, i) < Start(t, j)
  <2>1. CASE j <= Len(s) + 1
    <3>1. i \in 1 .. Len(s) + 1 /\ j \in 1 .. Len(s) + 1
      BY <1>5, <1>6, <1>8, <2>1
    <3>. QED  BY <1>1, <1>7, <1>8, <3>1 DEF Trail
  <2>2. CASE j > Len(s) + 1
    <3>1. i \in 1 .. Len(s) + 1 /\ j = Len(s) + 2
      BY <1>5, <1>6, <1>8, <2>2
    <3>2. Start(s, i) <= End(s) /\ Start(s, i) \in Nat /\ End(s) \in Nat
      <4>1. i = Len(s) + 1 \/ i < Len(s) + 1
        BY <1>5, <3>1
      <4>2. Len(s) + 1 \in 1 .. Len(s) + 1
        BY <1>5
      <4>3. Start(s, i) \in Nat /\ End(s) \in Nat
        BY <1>5, <3>1, Offsets
      <4>. QED  BY <1>1, <3>1, <4>1, <4>2, <4>3 DEF Trail, End
    <3>3. Start(t, i) = Start(s, i) /\ Start(t, j) = Len(g)
      BY <1>7, <3>1
    <3>4. End(s) < Len(g)
      BY <1>1, <1>2, <1>3
    <3>. QED  BY <1>3, <3>2, <3>3, <3>4
  <2>. QED  BY <1>5, <1>6, <1>8, <2>1, <2>2
<1>9. PICK o, p, m : o = Len(f) /\ p = Len(g) /\ m = Len(data)
  OBVIOUS
<1>10. /\ o \in Nat /\ p \in Nat /\ m \in Nat /\ p = o + 2 + m /\ m <= MaxFramePayload
      /\ g[o + 1] = stream /\ g[o + 2] = m
      /\ \A i \in 1 .. m : g[o + 2 + i] = data[i]
  BY <1>2, <1>3, <1>9
<1>11. Whole(g, o) /\ After(g, o) = p
  BY <1>9, <1>10 DEF Whole, After, headerSize
<1>12. SubSeq(g, o + 3, p) = data
  <2>1. \A j \in o + 3 .. p : g[j] \in Nat
    <3>1. \A j \in o + 3 .. p : j \in 1 .. Len(g)
      BY <1>9, <1>10
    <3>2. \A j \in 1 .. Len(g) : g[j] \in Nat
      BY <1>3, ElementOfSeq
    <3>. QED  BY <3>1, <3>2
  <2>2. /\ SubSeq(g, o + 3, p) \in Seq(Nat)
        /\ Len(SubSeq(g, o + 3, p)) = IF o + 3 <= p THEN p - (o + 3) + 1 ELSE 0
        /\ \A k \in 1 .. p - (o + 3) + 1 : SubSeq(g, o + 3, p)[k] = g[o + 3 + k - 1]
    <3>1. o + 3 \in Int /\ p \in Int
      BY <1>10
    <3>. QED  BY <2>1, <3>1, SubSeqProperties
  <2>3. Len(SubSeq(g, o + 3, p)) = m
    BY <1>10, <2>2
  <2>4. ASSUME NEW k \in 1 .. m
        PROVE  SubSeq(g, o + 3, p)[k] = data[k]
    <3>1. k \in 1 .. p - (o + 3) + 1 /\ o + 3 + k - 1 = o + 2 + k
      BY <1>10
    <3>2. SubSeq(g, o + 3, p)[k] = g[o + 2 + k]
      BY <2>2, <3>1
    <3>. QED  BY <1>10, <3>2
  <2>. QED  BY <1>2, <1>9, <2>2, <2>3, <2>4, SeqEqual
<1>13. RecordAt(g, o) = r
  <2>1. o + headerSize + 1 = o + 3
    BY <1>10 DEF headerSize
  <2>. QED  BY <1>9, <1>10, <1>11, <1>12, <2>1 DEF RecordAt
<1>14. ASSUME NEW i \in 1 .. Len(t)
       PROVE  Whole(g, Start(t, i)) /\ t[i] = RecordAt(g, Start(t, i))
  <2>1. CASE i \in 1 .. Len(s)
    <3>1. \A j \in 1 .. Len(f) : g[j] = f[j]
      BY <1>3
    <3>2. Len(f) <= Len(g)
      BY <1>9, <1>10
    <3>3. End(s) <= Len(g) /\ \A j \in 1 .. End(s) : g[j] = f[j]
      BY <1>1, <3>1, <3>2
    <3>4. f \in Seq(Nat) /\ g \in Seq(Nat) /\ Trail(f, s)
      BY <1>1, <1>3
    <3>5. \A k \in 1 .. Len(s) : Whole(g, Start(s, k)) /\ s[k] = RecordAt(g, Start(s, k))
      BY <3>3, <3>4, RecordsStay
    <3>6. Whole(g, Start(s, i)) /\ s[i] = RecordAt(g, Start(s, i))
      BY <2>1, <3>5
    <3>7. Start(t, i) = Start(s, i) /\ t[i] = s[i]
      BY <1>5, <1>6, <1>7, <2>1
    <3>. QED  BY <3>6, <3>7
  <2>2. CASE i = Len(s) + 1
    <3>1. Start(t, i) = o /\ t[i] = r
      <4>1. i \in 1 .. Len(s) + 1
        BY <1>5, <2>2
      <4>. QED  BY <1>1, <1>6, <1>7, <1>9, <2>2, <4>1 DEF End
    <3>. QED  BY <1>11, <1>13, <3>1
  <2>. QED  BY <1>5, <1>6, <2>1, <2>2
<1>15. ~Whole(g, End(t)) /\ End(t) <= Len(g)
  <2>1. End(t) = p /\ Len(g) = p
    BY <1>7, <1>9
  <2>2. ~Whole(g, p)
    BY <1>3, <1>9, <1>10, WholeAdvances
  <2>. QED  BY <1>10, <2>1, <2>2
<1>16. Trail(g, t)
  <2>. HIDE DEF r
  <2>. QED  BY <1>6, <1>8, <1>14, <1>15 DEF Trail
<1>. QED  BY <1>3, <1>4, <1>7, <1>9, <1>10, <1>16

-------------------------------------------------------------------------------
(* The inductive invariant                                                   *)

NothingTorn == spent.faults = 0 /\ spent.crashes = 0

\* A file that is being written to, or was never cut short, ends with its last record,
\* and the writer knows its length.
Written(s) ==
  /\ Trail(file, s)
  /\ w.open => w.offset = Len(file)
  /\ (w.open /\ ~w.failed) \/ NothingTorn => End(s) = Len(file)

\* What was printed is the beginning of the trail, up to the offset.
Printed(s) ==
  /\ Len(got) <= Len(s) /\ offset = Start(s, Len(got) + 1)
  /\ \A i \in 1 .. Len(got) : got[i] = [stream |-> s[i].stream, data |-> s[i].data]

\* What a command without --follow waits for; and what one that is done has printed.
Awaited(s) ==
  /\ cli.pc = "ask" => ~cli.follow
  /\ cli.pc = "stream" /\ ~cli.follow =>
       /\ cli.reach <= Len(s) /\ Start(s, cli.reach + 1) <= cli.stopAt
       /\ offset < cli.stopAt
       /\ NothingTorn => cli.stopAt <= Len(file)
  /\ cli.pc = "done" => IF cli.follow THEN ~row.running /\ Len(got) = Len(s)
                                      ELSE Len(got) >= cli.reach

FInv == FollowTypeOK /\ \E s : Written(s) /\ Printed(s) /\ Awaited(s)

-------------------------------------------------------------------------------
(* The writer                                                                *)

\* A trail that goes on by a record at most.
Grown(s, t) == t = s \/ \E r \in Records : t = Append(s, r)

WriterType == [open : BOOLEAN, offset : Nat, truncated : BOOLEAN, failed : BOOLEAN]
SpentType  == [faults : 0 .. MaxFaults, crashes : 0 .. MaxCrashes]

\* Types of the file and its writer.
LEMMA LogTypes ==
  ASSUME FollowTypeOK
  PROVE  /\ file \in Seq(Nat) /\ Len(file) \in Nat /\ Len(file) <= maxBytes
         /\ w \in WriterType /\ spent \in SpentType
         /\ MaxFaults \in Nat /\ MaxCrashes \in Nat /\ maxBytes \in Nat
<1>1. LogTypeOK
  BY DEF FollowTypeOK
<1>2. file \in Seq(Nat) /\ Len(file) <= maxBytes /\ w \in WriterType /\ spent \in SpentType
  BY <1>1 DEF LogTypeOK, WriterType, SpentType
<1>3. Len(file) \in Nat
  BY <1>2
<1>. QED  BY <1>2, <1>3, SizesAssumption

\* g has the trail s, or that and one record more, which ends it if a whole frame was
\* written.
FrameAdds(g, s, whole) ==
  \E t : Grown(s, t) /\ Trail(g, t) /\ (whole => End(t) = Len(g))

\* A frame is written to the end, or the write is cut off.
LEMMA FrameKeeps ==
  ASSUME FollowTypeOK, NEW s, Written(s), Usable,
         NEW stream \in Streams, NEW data \in Payloads, Fits(data),
         NEW n \in Nat, n <= headerSize + Len(data),
         NEW g, g = Extended(file, stream, data, n)
  PROVE  /\ g \in Seq(Nat) /\ Len(g) = Len(file) + n /\ Len(g) <= maxBytes
         /\ FrameAdds(g, s, n = headerSize + Len(data))
<1>1. /\ Trail(file, s) /\ w.offset = Len(file) /\ End(s) = Len(file)
      /\ file \in Seq(Nat) /\ Len(file) \in Nat /\ maxBytes \in Nat
  BY LogTypes DEF Written, Usable
<1>2. Len(data) \in Nat /\ headerSize = 2 /\ Len(file) + 2 + Len(data) <= maxBytes
  <2>1. Len(data) \in Nat
    BY SizesAssumption
  <2>. QED  BY <1>1, <2>1 DEF Fits, headerSize
<1>3. n \in 0 .. 2 + Len(data)
  BY <1>2
<1>4. CASE n < 2 + Len(data)
  <2>1. g \in Seq(Nat) /\ Len(g) = Len(file) + n /\ Trail(g, s)
    BY <1>1, <1>3, <1>4, TrailTorn
  <2>2. Len(g) <= maxBytes /\ n # headerSize + Len(data)
    BY <1>1, <1>2, <1>3, <1>4, <2>1
  <2>3. FrameAdds(g, s, n = headerSize + Len(data))
    BY <2>1, <2>2 DEF FrameAdds, Grown
  <2>. QED  BY <2>1, <2>2, <2>3
<1>5. CASE n = 2 + Len(data)
  <2>1. PICK t : t = Append(s, [stream |-> stream, data |-> data, offset |-> Len(g)])
    OBVIOUS
  <2>2. g = Extended(file, stream, data, 2 + Len(data))
    BY <1>5
  <2>3. /\ g \in Seq(Nat) /\ Len(g) = Len(file) + 2 + Len(data)
        /\ Trail(g, t) /\ End(t) = Len(g)
    <3>1. Appended(file, s, stream, data, g, t)
      BY <1>1, <2>1, <2>2 DEF Appended
    <3>. QED  BY <3>1, TrailGrows
  <2>4. [stream |-> stream, data |-> data, offset |-> Len(g)] \in Records
    <3>1. Len(g) \in Nat
      BY <2>3
    <3>. QED  BY <3>1 DEF Records
  <2>5. Grown(s, t)
    BY <2>1, <2>4 DEF Grown
  <2>6. FrameAdds(g, s, n = headerSize + Len(data))
    BY <2>3, <2>5 DEF FrameAdds
  <2>7. Len(g) = Len(file) + n /\ Len(g) <= maxBytes
    BY <1>1, <1>2, <1>5, <2>3
  <2>. QED  BY <2>3, <2>6, <2>7
<1>. QED  BY <1>2, <1>3, <1>4, <1>5

\* Types and trail behind a step of the writer.
Rewritten(s) == LogTypeOK' /\ \E t : Grown(s, t) /\ Written(t)'

\* Whatever the writer does, and wherever the daemon dies.
LEMMA WriterKeeps ==
  ASSUME FollowTypeOK, NEW s, Written(s), Supervise \/ Finish \/ DaemonDies
  PROVE  Rewritten(s)
<1>1. /\ file \in Seq(Nat) /\ Len(file) \in Nat /\ Len(file) <= maxBytes
      /\ w \in WriterType /\ spent \in SpentType
      /\ MaxFaults \in Nat /\ MaxCrashes \in Nat /\ maxBytes \in Nat
  BY LogTypes
<1>2. /\ Trail(file, s) /\ Grown(s, s) /\ End(s) \in Nat /\ End(s) <= Len(file)
      /\ w.open => w.offset = Len(file)
      /\ (w.open /\ ~w.failed) \/ NothingTorn => End(s) = Len(file)
  BY Offsets DEF Written, Trail, Grown
<1>3. NoWriter \in WriterType /\ ~NoWriter.open
  BY DEF NoWriter, WriterType
<1>4. CASE Open
  <2>1. PICK g : g = Repaired(file) /\ g = file'
    BY <1>4 DEF Open
  <2>2. g \in Seq(Nat) /\ Len(g) = End(s) /\ Trail(g, s)
    BY <1>1, <1>2, <2>1, TrailRepaired
  <2>3. w' \in WriterType /\ w'.offset = Len(g) /\ spent' = spent
    BY <1>2, <1>4, <2>1, <2>2 DEF Open, NewWriter, NoWriter, WriterType
  <2>4. LogTypeOK'
    BY <1>1, <1>2, <2>1, <2>2, <2>3 DEF LogTypeOK, WriterType, SpentType
  <2>5. Written(s)'
    BY <2>1, <2>2, <2>3 DEF Written
  <2>. QED  BY <1>2, <2>4, <2>5 DEF Rewritten
<1>5. CASE Close \/ Finish
  <2>1. file' = file /\ spent' = spent /\ w' = NoWriter
    BY <1>5 DEF Close, Finish
  <2>2. LogTypeOK'
    BY <1>1, <1>3, <2>1 DEF LogTypeOK, WriterType, SpentType
  <2>3. Written(s)'
    BY <1>2, <1>3, <2>1 DEF Written, NothingTorn
  <2>. QED  BY <1>2, <2>2, <2>3 DEF Rewritten
<1>6. ASSUME NEW data \in Payloads, AppendTruncates(data)
      PROVE  Rewritten(s)
  <2>1. file' = file /\ spent' = spent /\ w' = [w EXCEPT !.truncated = TRUE]
    BY <1>6 DEF AppendTruncates
  <2>2. w' \in WriterType /\ w'.open = w.open /\ w'.offset = w.offset /\ w'.failed = w.failed
    BY <1>1, <2>1 DEF WriterType
  <2>3. LogTypeOK'
    BY <1>1, <2>1, <2>2 DEF LogTypeOK, WriterType, SpentType
  <2>4. Written(s)'
    BY <1>2, <2>1, <2>2 DEF Written, NothingTorn
  <2>. QED  BY <1>2, <2>3, <2>4 DEF Rewritten
<1>7. ASSUME NEW stream \in Streams, NEW data \in Payloads, AppendFrame(stream, data)
      PROVE  Rewritten(s)
  <2>1. PICK n : n = headerSize + Len(data)
    OBVIOUS
  <2>2. n \in Nat /\ n <= headerSize + Len(data) /\ Len(data) \in Nat /\ n = 2 + Len(data)
    <3>1. Len(data) \in Nat
      BY SizesAssumption
    <3>. QED  BY <2>1, <3>1 DEF headerSize
  <2>3. SubSeq(Frame(stream, data), 1, n) = Frame(stream, data)
    <3>1. data \in Seq(Nat) /\ stream \in Nat
      BY SizesAssumption
    <3>2. <<stream, Len(data)>> \in Seq(Nat) /\ Len(<<stream, Len(data)>>) = 2
      BY <3>1
    <3>3. Frame(stream, data) \in Seq(Nat) /\ Len(Frame(stream, data)) = n
      BY <2>2, <3>1, <3>2, ConcatProperties DEF Frame
    <3>. QED  BY <3>3, SubSeqFull
  <2>4. PICK g : g = file' /\ g = Extended(file, stream, data, n)
    BY <1>7, <2>3 DEF AppendFrame, Extended
  <2>5. /\ spent' = spent /\ w' = [w EXCEPT !.offset = @ + headerSize + Len(data)]
        /\ Usable /\ Fits(data)
    BY <1>7 DEF AppendFrame
  <2>6. /\ g \in Seq(Nat) /\ Len(g) = Len(file) + n /\ Len(g) <= maxBytes
        /\ FrameAdds(g, s, n = headerSize + Len(data))
    BY <2>2, <2>4, <2>5, FrameKeeps
  <2>7. PICK t : Grown(s, t) /\ Trail(g, t) /\ End(t) = Len(g)
    BY <2>1, <2>6 DEF FrameAdds
  <2>8. w' \in WriterType /\ w'.offset = Len(g)
    <3>1. w.offset = Len(file)
      BY <1>2, <2>5 DEF Usable
    <3>2. w.offset + headerSize + Len(data) = Len(g)
      BY <1>1, <2>2, <2>6, <3>1 DEF headerSize
    <3>3. Len(g) \in Nat
      BY <2>6
    <3>4. w' = [w EXCEPT !.offset = Len(g)]
      BY <2>5, <3>2
    <3>. QED  BY <1>1, <3>3, <3>4 DEF WriterType
  <2>9. LogTypeOK'
    BY <1>1, <2>4, <2>5, <2>6, <2>8 DEF LogTypeOK, WriterType, SpentType
  <2>10. Written(t)'
    BY <2>4, <2>7, <2>8 DEF Written
  <2>. QED  BY <2>7, <2>9, <2>10 DEF Rewritten
<1>8. ASSUME NEW stream \in Streams, NEW data \in Payloads,
             NEW n \in 0 .. headerSize + MaxFramePayload, AppendFails(stream, data, n)
      PROVE  Rewritten(s)
  <2>1. n \in Nat /\ n <= headerSize + Len(data)
    <3>1. Len(data) \in Nat /\ n \in Nat /\ n < headerSize + Len(data)
      BY <1>8, SizesAssumption DEF AppendFails, headerSize
    <3>. QED  BY <3>1 DEF headerSize
  <2>2. PICK g : g = file' /\ g = Extended(file, stream, data, n)
    BY <1>8 DEF AppendFails, Extended
  <2>3. /\ Usable /\ Fits(data)
        /\ w' = [w EXCEPT !.offset = Len(g), !.failed = TRUE]
        /\ spent' = [spent EXCEPT !.faults = @ + 1] /\ spent.faults < MaxFaults
    BY <1>8, <2>2 DEF AppendFails
  <2>4. /\ g \in Seq(Nat) /\ Len(g) = Len(file) + n /\ Len(g) <= maxBytes
        /\ FrameAdds(g, s, n = headerSize + Len(data))
    BY <2>1, <2>2, <2>3, FrameKeeps
  <2>5. PICK t : Grown(s, t) /\ Trail(g, t)
    BY <2>4 DEF FrameAdds
  <2>6. w' \in WriterType /\ w'.offset = Len(g) /\ w'.failed
    <3>1. Len(g) \in Nat
      BY <2>4
    <3>. QED  BY <1>1, <2>3, <3>1 DEF WriterType
  <2>7. spent' \in SpentType /\ spent'.faults # 0
    <3>1. spent.faults \in Nat /\ spent.faults + 1 \in 0 .. MaxFaults /\ spent.faults + 1 # 0
      BY <1>1, <2>3 DEF SpentType
    <3>. QED  BY <1>1, <2>3, <3>1 DEF SpentType
  <2>8. LogTypeOK'
    BY <1>1, <2>2, <2>4, <2>6, <2>7 DEF LogTypeOK, WriterType, SpentType
  <2>9. Written(t)'
    BY <2>2, <2>5, <2>6, <2>7 DEF Written, NothingTorn
  <2>. QED  BY <2>5, <2>8, <2>9 DEF Rewritten
<1>9. ASSUME NEW stream \in Streams, NEW data \in Payloads,
             NEW n \in 0 .. headerSize + MaxFramePayload, Dies(stream, data, n)
      PROVE  Rewritten(s)
  <2>1. n \in Nat /\ n <= headerSize + Len(data) /\ w' = NoWriter
        /\ spent' = [spent EXCEPT !.crashes = @ + 1] /\ spent.crashes < MaxCrashes
    BY <1>9 DEF Dies, headerSize
  <2>2. spent' \in SpentType /\ spent'.crashes # 0
    <3>1. /\ spent.crashes \in Nat /\ spent.crashes + 1 \in 0 .. MaxCrashes
          /\ spent.crashes + 1 # 0
      BY <1>1, <2>1 DEF SpentType
    <3>. QED  BY <1>1, <2>1, <3>1 DEF SpentType
  <2>3. PICK g : g = file'
    OBVIOUS
  <2>4. g \in Seq(Nat) /\ Len(g) <= maxBytes /\ \E t : Grown(s, t) /\ Trail(g, t)
    <3>1. CASE Usable /\ Fits(data)
      <4>1. g = Extended(file, stream, data, n)
        BY <1>9, <2>3, <3>1 DEF Dies, Extended
      <4>2. /\ g \in Seq(Nat) /\ Len(g) <= maxBytes
            /\ FrameAdds(g, s, n = headerSize + Len(data))
        BY <2>1, <3>1, <4>1, FrameKeeps
      <4>. QED  BY <4>2 DEF FrameAdds
    <3>2. CASE ~(Usable /\ Fits(data))
      <4>1. g = file
        BY <1>9, <2>3, <3>2 DEF Dies
      <4>. QED  BY <1>1, <1>2, <4>1
    <3>. QED  BY <3>1, <3>2
  <2>5. PICK t : Grown(s, t) /\ Trail(g, t)
    BY <2>4
  <2>6. LogTypeOK'
    BY <1>1, <1>3, <2>1, <2>2, <2>3, <2>4 DEF LogTypeOK, WriterType, SpentType
  <2>7. Written(t)'
    BY <1>3, <2>1, <2>2, <2>3, <2>5 DEF Written, NothingTorn
  <2>. QED  BY <2>5, <2>6, <2>7 DEF Rewritten
<1>. QED  BY <1>4, <1>5, <1>6, <1>7, <1>8, <1>9 DEF Supervise, Write, DaemonDies

\* What was torn stays so.
LEMMA TornStays ==
  ASSUME FollowTypeOK, Supervise \/ Finish \/ DaemonDies, NothingTorn'
  PROVE  NothingTorn
<1>1. spent.faults \in Nat /\ spent.crashes \in Nat
  BY LogTypes DEF SpentType
<1>2. spent \in SpentType
  BY LogTypes
<1>3. CASE spent' = spent
  BY <1>3 DEF NothingTorn
<1>4. CASE spent' = [spent EXCEPT !.faults = @ + 1]
  BY <1>1, <1>2, <1>4 DEF NothingTorn, SpentType
<1>5. CASE spent' = [spent EXCEPT !.crashes = @ + 1]
  BY <1>1, <1>2, <1>5 DEF NothingTorn, SpentType
<1>. QED  BY <1>3, <1>4, <1>5 DEF Supervise, Finish, DaemonDies, Write, Open, Close, AppendFrame,
            AppendFails, AppendTruncates, Dies

-------------------------------------------------------------------------------
(* The commands                                                              *)

\* A trail that goes on keeps its records and where they start.
LEMMA GrownKeeps ==
  ASSUME NEW s \in Seq(Records), NEW t, Grown(s, t)
  PROVE  /\ t \in Seq(Records) /\ Len(s) \in Nat /\ Len(t) \in Nat /\ Len(s) <= Len(t)
         /\ \A i \in 1 .. Len(s) + 1 : Start(t, i) = Start(s, i)
         /\ \A i \in 1 .. Len(s) : t[i] = s[i]
<1>1. CASE t = s
  BY <1>1
<1>2. ASSUME NEW r \in Records, t = Append(s, r)
      PROVE  /\ t \in Seq(Records) /\ Len(s) \in Nat /\ Len(t) = Len(s) + 1
             /\ \A i \in 1 .. Len(s) + 1 : Start(t, i) = Start(s, i)
             /\ \A i \in 1 .. Len(s) : t[i] = s[i]
  <2>1. /\ t \in Seq(Records) /\ Len(s) \in Nat /\ Len(t) = Len(s) + 1
        /\ \A i \in 1 .. Len(s) : t[i] = s[i]
    BY <1>2, AppendProperties
  <2>2. ASSUME NEW i \in 1 .. Len(s) + 1
        PROVE  Start(t, i) = Start(s, i)
    <3>1. i = 1 \/ i - 1 \in 1 .. Len(s)
      BY <2>1
    <3>. QED  BY <2>1, <3>1 DEF Start
  <2>. QED  BY <2>1, <2>2
<1>. QED  BY <1>1, <1>2 DEF Grown

\* Starts are ordered as the records are.
LEMMA StartsOrdered ==
  ASSUME NEW f, NEW s, Trail(f, s), NEW i \in 1 .. Len(s) + 1, NEW j \in 1 .. Len(s) + 1
  PROVE  /\ Start(s, i) \in Nat /\ Start(s, j) \in Nat
         /\ i <= j <=> Start(s, i) <= Start(s, j)
<1>1. s \in Seq(Records) /\ Len(s) \in Nat
  BY DEF Trail
<1>2. Start(s, i) \in Nat /\ Start(s, j) \in Nat
  BY <1>1, Offsets
<1>3. i < j \/ i = j \/ j < i
  BY <1>1
<1>4. (i < j => Start(s, i) < Start(s, j)) /\ (j < i => Start(s, j) < Start(s, i))
  BY DEF Trail
<1>. QED  BY <1>1, <1>2, <1>3, <1>4

\* What ReadRecords finds from the start, and behind what was printed.
LEMMA ReadsNext ==
  ASSUME FollowTypeOK, NEW s, Written(s), Printed(s)
  PROVE  /\ s \in Seq(Records) /\ Len(s) \in Nat /\ Len(got) \in Nat
         /\ ReadRecords(file, 0) = s
         /\ ReadRecords(file, offset) = <<>> <=> Len(got) = Len(s)
         /\ ReadRecords(file, offset) # <<>> =>
              /\ Len(got) + 1 \in 1 .. Len(s)
              /\ ReadRecords(file, offset)[1] = s[Len(got) + 1]
              /\ Content(ReadRecords(file, offset))[1]
                   = [stream |-> s[Len(got) + 1].stream, data |-> s[Len(got) + 1].data]
<1>1. file \in Seq(Nat) /\ Trail(file, s)
  BY LogTypes DEF Written
<1>2. s \in Seq(Records) /\ Len(s) \in Nat
  BY <1>1 DEF Trail
<1>3. Len(got) \in Nat /\ Len(got) <= Len(s) /\ offset = Start(s, Len(got) + 1)
  <2>1. got \in Seq(LogRecord)
    BY DEF FollowTypeOK
  <2>2. Len(got) \in Nat
    BY <2>1
  <2>. QED  BY <2>2 DEF Printed
<1>4. \A i \in 1 .. Len(s) + 1 : ReadRecords(file, Start(s, i)) = SubSeq(s, i, Len(s))
  BY <1>1, TrailIsRead
<1>5. ReadRecords(file, 0) = s
  <2>1. 1 \in 1 .. Len(s) + 1 /\ Start(s, 1) = 0
    BY <1>2 DEF Start
  <2>2. SubSeq(s, 1, Len(s)) = s
    BY <1>2, SubSeqFull
  <2>. QED  BY <1>4, <2>1, <2>2
<1>6. PICK k : k = Len(got) + 1
  OBVIOUS
<1>7. PICK records : records = ReadRecords(file, offset)
  OBVIOUS
<1>8. k \in 1 .. Len(s) + 1
  BY <1>2, <1>3, <1>6
<1>9. records = SubSeq(s, k, Len(s))
  BY <1>3, <1>4, <1>6, <1>7, <1>8
<1>10. CASE k = Len(s) + 1
  <2>1. records = <<>>
    BY <1>2, <1>9, <1>10, SubSeqEmpty
  <2>. QED  BY <1>2, <1>3, <1>5, <1>6, <1>7, <1>10, <2>1
<1>11. CASE k \in 1 .. Len(s)
  <2>1. Len(records) = Len(s) - k + 1 /\ records[1] = s[k] /\ records # <<>>
    BY <1>2, <1>9, <1>11
  <2>2. 1 \in DOMAIN records
    BY <1>2, <1>9, <1>11, <2>1
  <2>3. Content(records)[1] = [stream |-> s[k].stream, data |-> s[k].data]
    BY <2>1, <2>2 DEF Content
  <2>. QED  BY <1>2, <1>3, <1>5, <1>6, <1>7, <1>11, <2>1, <2>3
<1>. QED  BY <1>2, <1>8, <1>10, <1>11

\* The trail behind a step, and what the step prints of it.
Carries(s) == Written(s) /\ Printed(s) /\ Awaited(s)

Prints(s) ==
  \/ got' = got
  \/ /\ Len(got) + 1 \in 1 .. Len(s)
     /\ got' = Append(got, [stream |-> s[Len(got) + 1].stream, data |-> s[Len(got) + 1].data])

Goes(s, t) ==
  /\ FollowTypeOK' /\ Carries(t)'
  /\ \/ Grown(s, t) /\ got' = got
     \/ t = s /\ Prints(s)

CliType == [pc : {"idle", "ask", "stream", "done", "failed", "gave up", "cut"},
            follow : BOOLEAN, stopAt : Nat, reach : Nat,
            attempt : 0 .. logsReconnectAttempts, runs : 0 .. MaxCommands]

\* The exec is written to, ends, or loses its daemon while a command is under way.
LEMMA ExecGoes ==
  ASSUME FollowTypeOK, NEW s, Carries(s), Supervise \/ Finish \/ DaemonDies
  PROVE  \E t : Goes(s, t)
<1>1. LogTypeOK' /\ \E t : Grown(s, t) /\ Written(t)'
  BY WriterKeeps DEF Carries, Rewritten
<1>2. PICK t : Grown(s, t) /\ Written(t)'
  BY <1>1
<1>3. /\ Trail(file, s) /\ s \in Seq(Records)
      /\ Written(s) /\ Printed(s) /\ Awaited(s)
  BY DEF Carries, Written, Trail
<1>4. /\ Len(s) \in Nat /\ Len(t) \in Nat /\ Len(s) <= Len(t)
      /\ \A i \in 1 .. Len(s) + 1 : Start(t, i) = Start(s, i)
      /\ \A i \in 1 .. Len(s) : t[i] = s[i]
  BY <1>2, <1>3, GrownKeeps
<1>5. Len(got) \in Nat /\ Len(got) <= Len(s)
  BY <1>3, ReadsNext DEF Printed
<1>6. /\ row.running /\ got' = got /\ offset' = offset
      /\ cli' = cli \/ (cli' = [cli EXCEPT !.pc = "failed"])
  BY DEF Supervise, Finish, DaemonDies
<1>7. cli' \in CliType /\ (cli'.pc # "failed" => cli' = cli)
  <2>1. cli \in CliType
    BY DEF FollowTypeOK, CliType
  <2>. QED  BY <1>6, <2>1 DEF CliType
<1>8. /\ row' \in [running : BOOLEAN, bytes : Nat]
      /\ ~row'.running => row'.bytes = Len(file')
  <2>1. row \in [running : BOOLEAN, bytes : Nat]
    BY DEF FollowTypeOK
  <2>2. CASE row' = row
    BY <1>6, <2>1, <2>2
  <2>3. CASE Finish
    <3>1. Len(file) \in Nat /\ (w.open => w.offset = Len(file))
      BY <1>3, LogTypes DEF Written
    <3>2. file' = file /\ row' = [running |-> FALSE, bytes |-> Len(file)]
      BY <2>3, <3>1 DEF Finish
    <3>. QED  BY <3>1, <3>2
  <2>. QED  BY <2>2, <2>3 DEF Supervise, DaemonDies
<1>9. FollowTypeOK'
  BY <1>1, <1>6, <1>7, <1>8 DEF FollowTypeOK, CliType
<1>10. Printed(t)'
  <2>1. Len(got) + 1 \in 1 .. Len(s) + 1
    BY <1>4, <1>5
  <2>2. offset = Start(t, Len(got) + 1)
    BY <1>3, <1>4, <2>1 DEF Printed
  <2>3. \A i \in 1 .. Len(got) : got[i] = [stream |-> t[i].stream, data |-> t[i].data]
    <3>1. \A i \in 1 .. Len(got) : i \in 1 .. Len(s)
      BY <1>4, <1>5
    <3>. QED  BY <1>3, <1>4, <3>1 DEF Printed
  <2>. QED  BY <1>4, <1>5, <1>6, <2>2, <2>3 DEF Printed
<1>11. NothingTorn' => NothingTorn /\ Len(file) <= Len(file')
  <2>1. NothingTorn' => NothingTorn
    BY TornStays
  <2>2. NothingTorn' => End(s) = Len(file) /\ End(t) = Len(file')
    BY <1>2, <1>3, <2>1 DEF Written
  <2>3. End(s) <= End(t)
    <3>1. Trail(file', t)
      BY <1>2 DEF Written
    <3>2. Len(s) + 1 \in 1 .. Len(t) + 1 /\ Len(t) + 1 \in 1 .. Len(t) + 1 /\ Len(s) + 1 <= Len(t) + 1
      BY <1>4
    <3>3. Start(t, Len(s) + 1) <= Start(t, Len(t) + 1)
      BY <3>1, <3>2, StartsOrdered
    <3>4. Start(t, Len(s) + 1) = Start(s, Len(s) + 1)
      BY <1>4
    <3>. QED  BY <3>3, <3>4 DEF End
  <2>. QED  BY <2>1, <2>2, <2>3
<1>12. Awaited(t)'
  <2>1. CASE cli'.pc = "failed"
    BY <2>1 DEF Awaited
  <2>2. CASE cli' = cli /\ cli.pc = "ask"
    BY <1>3, <2>2 DEF Awaited
  <2>3. CASE cli' = cli /\ cli.pc = "stream"
    <3>1. CASE cli.follow
      BY <2>3, <3>1 DEF Awaited
    <3>2. CASE ~cli.follow
      <4>1. /\ cli.reach <= Len(s) /\ Start(s, cli.reach + 1) <= cli.stopAt
            /\ offset < cli.stopAt
            /\ NothingTorn => cli.stopAt <= Len(file)
        BY <1>3, <2>3, <3>2 DEF Awaited
      <4>2. cli.reach \in Nat /\ cli.stopAt \in Nat
        BY DEF FollowTypeOK
      <4>3. cli.reach <= Len(t) /\ Start(t, cli.reach + 1) = Start(s, cli.reach + 1)
        <5>1. cli.reach + 1 \in 1 .. Len(s) + 1
          BY <1>4, <4>1, <4>2
        <5>. QED  BY <1>4, <4>1, <4>2, <5>1
      <4>4. Len(file) \in Nat /\ Len(file') \in Nat
        <5>1. file \in Seq(Nat) /\ file' \in Seq(Nat)
          BY <1>1, LogTypes DEF LogTypeOK
        <5>. QED  BY <5>1
      <4>5. NothingTorn' => cli.stopAt <= Len(file')
        BY <1>11, <4>1, <4>2, <4>4
      <4>. QED  BY <1>6, <2>3, <3>2, <4>1, <4>3, <4>5 DEF Awaited
    <3>. QED  BY <3>1, <3>2
  <2>4. CASE cli' = cli /\ cli.pc = "done"
    BY <1>3, <1>6, <2>4 DEF Awaited
  <2>5. CASE cli' = cli /\ cli.pc \notin {"ask", "stream", "done"}
    BY <2>5 DEF Awaited
  <2>. QED  BY <1>7, <2>1, <2>2, <2>3, <2>4, <2>5
<1>. QED  BY <1>2, <1>6, <1>9, <1>10, <1>12 DEF Goes, Carries

\* What of the invariant only the log and its row are about stays in every step of
\* the command.
LEMMA LogStays ==
  ASSUME FollowTypeOK, NEW s, Carries(s), UNCHANGED <<file, w, spent, row>>,
         cli' \in CliType, offset' \in Nat, got' \in Seq(LogRecord), Prints(s),
         Printed(s)', Awaited(s)'
  PROVE  Goes(s, s)
<1>1. FollowTypeOK'
  BY DEF FollowTypeOK, LogTypeOK, CliType
<1>2. Written(s)'
  BY DEF Carries, Written, NothingTorn
<1>. QED  BY <1>1, <1>2 DEF Goes, Carries

\* A command starts, asks, or ends without printing.
LEMMA CommandGoes ==
  ASSUME FollowTypeOK, NEW s, Carries(s),
         \/ \E follow \in BOOLEAN : Run(follow)
         \/ Ask \/ ReceiveExit \/ StreamEnds \/ StreamFails
  PROVE  Goes(s, s)
<1>1. UNCHANGED <<file, w, spent, row, offset, got>>
  BY DEF Run, Ask, ReceiveExit, StreamEnds, StreamFails
<1>2. /\ Written(s) /\ Printed(s) /\ Awaited(s) /\ Trail(file, s)
      /\ cli \in CliType /\ offset \in Nat /\ got \in Seq(LogRecord)
  BY DEF Carries, FollowTypeOK, CliType, Written
<1>3. /\ s \in Seq(Records) /\ Len(s) \in Nat /\ Len(got) \in Nat
      /\ ReadRecords(file, 0) = s
      /\ ReadRecords(file, offset) = <<>> <=> Len(got) = Len(s)
      /\ Len(got) <= Len(s) /\ offset = Start(s, Len(got) + 1)
  BY <1>2, ReadsNext DEF Printed
<1>4. Printed(s)'
  BY <1>1, <1>2 DEF Printed
<1>5. cli' \in CliType /\ Awaited(s)'
  <2>1. ASSUME NEW follow \in BOOLEAN, Run(follow)
        PROVE  cli' \in CliType /\ Awaited(s)'
    <3>1. cli.runs \in Nat /\ cli.runs + 1 \in 0 .. MaxCommands
      <4>1. cli.runs \in 0 .. MaxCommands /\ MaxCommands \in Nat
        BY <1>2, CommandsAssumption DEF CliType
      <4>2. cli.runs < MaxCommands
        BY <2>1 DEF Run
      <4>. QED  BY <4>1, <4>2
    <3>2. cli' \in CliType
      BY <2>1, <3>1, CommandsAssumption DEF Run, CliType, NoStop
    <3>. QED  BY <2>1, <3>2 DEF Run, Awaited
  <2>2. CASE Ask
    <3>1. OutputBytes = Len(file) /\ Len(file) \in Nat /\ End(s) <= Len(file)
      <4>1. Len(file) \in Nat
        BY LogTypes
      <4>. QED  BY <1>2, <4>1 DEF OutputBytes, FollowTypeOK, Trail
    <3>2. cli.pc = "ask" /\ ~cli.follow
      BY <1>2, <2>2 DEF Ask, Awaited
    <3>3. cli' = [cli EXCEPT !.pc = IF Len(file) <= offset THEN "done" ELSE "stream",
                             !.stopAt = Len(file), !.reach = Len(s)]
      BY <1>3, <2>2, <3>1 DEF Ask
    <3>4. cli' \in CliType
      BY <1>2, <1>3, <3>1, <3>3 DEF CliType
    <3>5. /\ cli'.pc = IF Len(file) <= offset THEN "done" ELSE "stream"
          /\ cli'.follow = cli.follow /\ cli'.stopAt = Len(file) /\ cli'.reach = Len(s)
      BY <1>2, <3>3 DEF CliType
    <3>6. Len(file) <= offset => Len(got) = Len(s)
      <4>1. Len(got) + 1 \in 1 .. Len(s) + 1 /\ Len(s) + 1 \in 1 .. Len(s) + 1
        BY <1>3
      <4>2. /\ Start(s, Len(got) + 1) \in Nat /\ Start(s, Len(s) + 1) \in Nat
            /\ Len(s) + 1 <= Len(got) + 1 <=> Start(s, Len(s) + 1) <= Start(s, Len(got) + 1)
        BY <1>2, <4>1, StartsOrdered
      <4>. QED  BY <1>3, <3>1, <4>2 DEF End
    <3>7. Start(s, Len(s) + 1) <= Len(file)
      BY <3>1 DEF End
    <3>. QED  BY <1>1, <1>2, <1>3, <3>1, <3>2, <3>4, <3>5, <3>6, <3>7 DEF Awaited
  <2>3. CASE ReceiveExit
    <3>1. /\ cli' = [cli EXCEPT !.pc = "done"] /\ cli.pc = "stream" /\ ~row.running
          /\ Len(got) = Len(s)
      BY <1>3, <2>3 DEF ReceiveExit, Stream
    <3>2. cli' \in CliType /\ cli'.pc = "done" /\ cli'.follow = cli.follow /\ cli'.reach = cli.reach
      BY <1>2, <3>1 DEF CliType
    <3>3. ~cli.follow => cli.reach <= Len(s)
      BY <1>2, <3>1 DEF Awaited
    <3>4. cli.reach \in Nat
      BY <1>2 DEF CliType
    <3>. QED  BY <1>1, <1>3, <3>1, <3>2, <3>3, <3>4 DEF Awaited
  <2>4. CASE StreamEnds \/ StreamFails
    <3>1. \/ cli' = [cli EXCEPT !.pc = "cut"] \/ cli' = [cli EXCEPT !.pc = "gave up"]
          \/ cli' = [cli EXCEPT !.pc = "failed"]
          \/ /\ cli' = [cli EXCEPT !.attempt = @ + 1]
             /\ cli.pc = "stream" /\ cli.follow /\ ~(cli.attempt >= logsReconnectAttempts)
      BY <2>4 DEF StreamEnds, StreamFails, Stream
    <3>2. CASE /\ cli' = [cli EXCEPT !.attempt = @ + 1]
               /\ cli.pc = "stream" /\ cli.follow /\ ~(cli.attempt >= logsReconnectAttempts)
      <4>1. cli.attempt + 1 \in 0 .. logsReconnectAttempts
        <5>1. cli.attempt \in 0 .. logsReconnectAttempts /\ logsReconnectAttempts \in Nat
          BY <1>2, CommandsAssumption DEF CliType
        <5>. QED  BY <3>2, <5>1
      <4>2. cli' \in CliType /\ cli'.pc = "stream" /\ cli'.follow
        BY <1>2, <3>2, <4>1 DEF CliType
      <4>. QED  BY <4>2 DEF Awaited
    <3>3. CASE \/ cli' = [cli EXCEPT !.pc = "cut"] \/ cli' = [cli EXCEPT !.pc = "gave up"]
               \/ cli' = [cli EXCEPT !.pc = "failed"]
      <4>1. cli' \in CliType /\ cli'.pc \in {"cut", "gave up", "failed"}
        BY <1>2, <3>3 DEF CliType
      <4>. QED  BY <4>1 DEF Awaited
    <3>. QED  BY <3>1, <3>2, <3>3
  <2>. QED  BY <2>1, <2>2, <2>3, <2>4
<1>6. Prints(s)
  BY <1>1 DEF Prints
<1>. QED  BY <1>1, <1>2, <1>4, <1>5, <1>6, LogStays

\* A command prints the next record.
LEMMA ReceiveGoes ==
  ASSUME FollowTypeOK, NEW s, Carries(s), Receive
  PROVE  Goes(s, s)
<1>1. UNCHANGED <<file, w, spent, row>> /\ cli.pc = "stream"
  BY DEF Receive
<1>2. /\ Written(s) /\ Printed(s) /\ Awaited(s) /\ Trail(file, s)
      /\ cli \in CliType /\ got \in Seq(LogRecord)
  BY DEF Carries, FollowTypeOK, CliType, Written
<1>3. PICK k : k = Len(got) + 1
  OBVIOUS
<1>4. /\ s \in Seq(Records) /\ Len(s) \in Nat /\ Len(got) \in Nat /\ k \in 1 .. Len(s)
      /\ ReadRecords(file, offset)[1] = s[k]
      /\ Content(ReadRecords(file, offset))[1] = [stream |-> s[k].stream, data |-> s[k].data]
  <2>1. ReadRecords(file, offset) # <<>>
    BY DEF Receive
  <2>. QED  BY <1>2, <1>3, <2>1, ReadsNext
<1>5. PICK r : r = [stream |-> s[k].stream, data |-> s[k].data]
  OBVIOUS
<1>6. s[k] \in Records /\ r \in LogRecord
  <2>1. s[k] \in Records
    BY <1>4
  <2>. QED  BY <1>5, <2>1 DEF Records, LogRecord
<1>7. /\ got' = Append(got, r) /\ offset' = s[k].offset
      /\ cli' = [cli EXCEPT !.pc = IF ~cli.follow /\ offset' >= cli.stopAt
                                   THEN "done" ELSE "stream"]
  BY <1>4, <1>5 DEF Receive, Stream
<1>8. /\ got' \in Seq(LogRecord) /\ Len(got') = k /\ got'[k] = r
      /\ \A i \in 1 .. Len(got) : got'[i] = got[i]
  BY <1>2, <1>3, <1>4, <1>6, <1>7, AppendProperties
<1>9. offset' = Start(s, k + 1) /\ offset' \in Nat
  <2>1. k + 1 \in 1 .. Len(s) + 1 /\ s[k].offset = Start(s, k + 1) /\ Start(s, k + 1) \in Nat
    BY <1>4, Offsets
  <2>. QED  BY <1>7, <2>1
<1>10. Printed(s)'
  <2>1. \A i \in 1 .. k : got'[i] = [stream |-> s[i].stream, data |-> s[i].data]
    <3>1. \A i \in 1 .. k : i = k \/ i \in 1 .. Len(got)
      BY <1>3, <1>4
    <3>. QED  BY <1>2, <1>5, <1>8, <3>1 DEF Printed
  <2>2. k <= Len(s)
    BY <1>4
  <2>. QED  BY <1>8, <1>9, <2>1, <2>2 DEF Printed
<1>11. /\ cli' \in CliType /\ cli'.follow = cli.follow
       /\ cli'.stopAt = cli.stopAt /\ cli'.reach = cli.reach
       /\ cli'.pc = IF ~cli.follow /\ offset' >= cli.stopAt THEN "done" ELSE "stream"
  BY <1>2, <1>7 DEF CliType
<1>12. Awaited(s)'
  <2>1. CASE cli.follow
    BY <1>11, <2>1 DEF Awaited
  <2>2. CASE ~cli.follow
    <3>1. /\ cli.reach <= Len(s) /\ Start(s, cli.reach + 1) <= cli.stopAt
          /\ NothingTorn => cli.stopAt <= Len(file)
      BY <1>1, <1>2, <2>2 DEF Awaited
    <3>2. cli.reach \in Nat /\ cli.stopAt \in Nat
      BY <1>2 DEF CliType
    <3>3. offset' >= cli.stopAt => k >= cli.reach
      <4>1. cli.reach + 1 \in 1 .. Len(s) + 1 /\ k + 1 \in 1 .. Len(s) + 1
        BY <1>4, <3>1, <3>2
      <4>2. /\ Start(s, cli.reach + 1) \in Nat /\ Start(s, k + 1) \in Nat
            /\ cli.reach + 1 <= k + 1 <=> Start(s, cli.reach + 1) <= Start(s, k + 1)
        BY <1>2, <4>1, StartsOrdered
      <4>. QED  BY <1>4, <1>9, <3>1, <3>2, <4>2
    <3>4. ~(offset' >= cli.stopAt) => offset' < cli.stopAt
      BY <1>9, <3>2
    <3>5. NothingTorn' => cli.stopAt <= Len(file)'
      BY <1>1, <3>1 DEF NothingTorn
    <3>6. CASE offset' >= cli.stopAt
      BY <1>8, <1>11, <2>2, <3>3, <3>6 DEF Awaited
    <3>7. CASE ~(offset' >= cli.stopAt)
      BY <1>11, <2>2, <3>1, <3>4, <3>5, <3>7 DEF Awaited
    <3>. QED  BY <3>6, <3>7
  <2>. QED  BY <2>1, <2>2
<1>13. Prints(s)
  BY <1>3, <1>4, <1>5, <1>7 DEF Prints
<1>. QED  BY <1>1, <1>8, <1>9, <1>10, <1>11, <1>12, <1>13, LogStays

-------------------------------------------------------------------------------
(* The theorems                                                              *)

\* Every step goes on with the trail.
LEMMA StepGoes ==
  ASSUME FollowTypeOK, NEW s, Carries(s), Next
  PROVE  \E t : Goes(s, t)
<1>1. CASE Supervise \/ Finish \/ DaemonDies
  BY <1>1, ExecGoes
<1>2. CASE (\E follow \in BOOLEAN : Run(follow)) \/ Ask \/ ReceiveExit \/ StreamEnds \/ StreamFails
  BY <1>2, CommandGoes
<1>3. CASE Receive
  BY <1>3, ReceiveGoes
<1>. QED  BY <1>1, <1>2, <1>3 DEF Next

\* An empty file has no records.
LEMMA EmptyTrail ==
  Trail(<<>>, <<>>)
<1>1. <<>> \in Seq(Records) /\ <<>> \in Seq(Nat) /\ Len(<<>>) = 0
  BY EmptySeq
<1>2. End(<<>>) = 0
  BY <1>1 DEF End, Start
<1>3. ~Whole(<<>>, 0)
  BY <1>1 DEF Whole, headerSize
<1>4. \A i, j \in 1 .. 0 + 1 : ~(i < j)
  OBVIOUS
<1>. QED  BY <1>1, <1>2, <1>3, <1>4 DEF Trail

\* The empty log has the empty trail, of which nothing is printed.
LEMMA FInvInit == Init => FInv
<1>. SUFFICES ASSUME Init PROVE FInv
  OBVIOUS
<1>1. FollowTypeOK
  BY SizesAssumption, CommandsAssumption
     DEF Init, LogInit, FollowTypeOK, LogTypeOK, NoWriter, NoStop
<1>2. Written(<<>>)
  <2>1. End(<<>>) = 0 /\ Len(<<>>) = 0
    BY DEF End, Start
  <2>. QED  BY <2>1, EmptyTrail DEF Init, LogInit, Written, NoWriter
<1>3. Printed(<<>>)
  BY DEF Init, Printed, Start
<1>4. Awaited(<<>>)
  BY DEF Init, Awaited
<1>. QED  BY <1>1, <1>2, <1>3, <1>4 DEF FInv

\* FInv is inductive.
LEMMA FInvNext == FInv /\ [Next]_vars => FInv'
<1>. SUFFICES ASSUME FInv, [Next]_vars PROVE FInv'
  OBVIOUS
<1>1. FollowTypeOK /\ \E s : Carries(s)
  BY DEF FInv, Carries
<1>2. PICK s : Carries(s)
  BY <1>1
<1>3. CASE Next
  <2>1. PICK t : Goes(s, t)
    BY <1>1, <1>2, <1>3, StepGoes
  <2>2. FollowTypeOK' /\ Written(t)' /\ Printed(t)' /\ Awaited(t)'
    BY <2>1 DEF Goes, Carries
  <2>. QED  BY <2>2 DEF FInv
<1>4. CASE UNCHANGED vars
  <2>1. FollowTypeOK'
    BY <1>1, <1>4 DEF vars, FollowTypeOK, LogTypeOK
  <2>2. Written(s)' /\ Printed(s)' /\ Awaited(s)'
    BY <1>2, <1>4 DEF vars, Carries, Written, Printed, Awaited, NothingTorn
  <2>. QED  BY <2>1, <2>2 DEF FInv
<1>. QED  BY <1>3, <1>4

\* For any payloads, cap and bounds: the file has whole frames and at most one torn
\* tail, its writer knows where it ends, and what was printed is the beginning of its
\* records.
THEOREM LogHoldsTogether == Spec => []FInv
<1>. QED  BY FInvInit, FInvNext, PTL DEF Spec

\* The types of the log, the row and the command, the size of the log under its cap,
\* and the size in the row of an exec that is over.
THEOREM FollowTyped == Spec => []FollowTypeOK
<1>1. FInv => FollowTypeOK
  BY DEF FInv
<1>. QED  BY <1>1, LogHoldsTogether, PTL

\* The records of a trail, without their offsets.
LEMMA ContentOf ==
  ASSUME NEW s \in Seq(Records)
  PROVE  /\ Content(s) \in Seq(LogRecord) /\ Len(Content(s)) = Len(s)
         /\ \A i \in 1 .. Len(s) :
              Content(s)[i] = [stream |-> s[i].stream, data |-> s[i].data]
<1>1. Len(s) \in Nat /\ DOMAIN s = 1 .. Len(s)
  OBVIOUS
<1>2. \A i \in 1 .. Len(s) : [stream |-> s[i].stream, data |-> s[i].data] \in LogRecord
  <2>. TAKE i \in 1 .. Len(s)
  <2>1. s[i] \in Records
    BY ElementOfSeq
  <2>. QED  BY <2>1 DEF Records, LogRecord
<1>3. Content(s) = [i \in 1 .. Len(s) |-> [stream |-> s[i].stream, data |-> s[i].data]]
  BY <1>1 DEF Content
<1>. QED  BY <1>1, <1>2, <1>3

\* A command that ends as it should has printed what it promises, whatever was torn,
\* repaired, cut off and resumed before.
THEOREM PrintsAllHolds == Spec => []PrintsAll
<1>1. FInv => PrintsAll
  <2>. SUFFICES ASSUME FInv, cli.pc = "done"
                PROVE  IF cli.follow THEN ~row.running /\ got = Content(ReadRecords(file, 0))
                                     ELSE Len(got) >= cli.reach
    BY DEF PrintsAll
  <2>1. PICK s : Written(s) /\ Printed(s) /\ Awaited(s)
    BY DEF FInv
  <2>2. FollowTypeOK
    BY DEF FInv
  <2>3. CASE ~cli.follow
    BY <2>1, <2>3 DEF Awaited
  <2>4. CASE cli.follow
    <3>1. ~row.running /\ Len(got) = Len(s)
      BY <2>1, <2>4 DEF Awaited
    <3>2. s \in Seq(Records) /\ ReadRecords(file, 0) = s
      BY <2>1, <2>2, ReadsNext
    <3>3. got \in Seq(LogRecord)
      BY <2>2 DEF FollowTypeOK
    <3>4. /\ Content(s) \in Seq(LogRecord) /\ Len(Content(s)) = Len(s)
          /\ \A i \in 1 .. Len(s) :
               Content(s)[i] = [stream |-> s[i].stream, data |-> s[i].data]
      BY <3>2, ContentOf
    <3>5. \A i \in 1 .. Len(got) : got[i] = Content(s)[i]
      BY <2>1, <3>1, <3>4 DEF Printed
    <3>6. got = Content(s)
      BY <3>1, <3>3, <3>4, <3>5, SeqEqual
    <3>. QED  BY <2>4, <3>1, <3>2, <3>6
  <2>. QED  BY <2>3, <2>4
<1>. QED  BY <1>1, LogHoldsTogether, PTL

\* Without a torn frame in the log, a command without --follow never waits for output
\* that is yet to come.
THEOREM WaitsOnlyIfTornHolds == Spec => []WaitsOnlyIfTorn
<1>1. FInv => WaitsOnlyIfTorn
  <2>. SUFFICES ASSUME FInv, cli.pc = "stream", ~cli.follow, ReadRecords(file, offset) = <<>>,
                       ~(spent.faults > 0 \/ spent.crashes > 0)
                PROVE  FALSE
    BY DEF WaitsOnlyIfTorn
  <2>1. PICK s : Written(s) /\ Printed(s) /\ Awaited(s)
    BY DEF FInv
  <2>2. FollowTypeOK
    BY DEF FInv
  <2>3. NothingTorn
    <3>1. spent.faults \in Nat /\ spent.crashes \in Nat
      BY <2>2, LogTypes DEF SpentType
    <3>. QED  BY <3>1 DEF NothingTorn
  <2>4. Len(got) = Len(s)
    BY <2>1, <2>2, ReadsNext
  <2>5. offset = Len(file)
    BY <2>1, <2>3, <2>4 DEF Written, Printed, End
  <2>6. offset < cli.stopAt /\ cli.stopAt <= Len(file)
    BY <2>1, <2>3 DEF Awaited
  <2>7. offset \in Nat /\ cli.stopAt \in Nat
    BY <2>2 DEF FollowTypeOK
  <2>. QED  BY <2>5, <2>6, <2>7
<1>. QED  BY <1>1, LogHoldsTogether, PTL

\* A repair at any moment, of whatever the last writes left, loses no record and leaves
\* no torn tail behind.
RepairIsSafe ==
  /\ ReadRecords(Repaired(file), 0) = ReadRecords(file, 0)
  /\ LastBoundary(Repaired(file)) = Len(Repaired(file))

\* repairTornTail, run at any point of any behaviour, keeps what ReadRecords finds.
THEOREM RepairIsSafeHolds == Spec => []RepairIsSafe
<1>1. FInv => RepairIsSafe
  <2>. SUFFICES ASSUME FInv PROVE RepairIsSafe
    OBVIOUS
  <2>1. PICK s : FollowTypeOK /\ Written(s) /\ Printed(s)
    BY DEF FInv
  <2>2. file \in Seq(Nat) /\ Trail(file, s)
    BY <2>1, LogTypes DEF Written
  <2>3. PICK g : g = Repaired(file)
    OBVIOUS
  <2>4. g \in Seq(Nat) /\ Len(g) = End(s) /\ Trail(g, s)
    BY <2>2, <2>3, TrailRepaired
  <2>5. 1 \in 1 .. Len(s) + 1 /\ Start(s, 1) = 0
    BY <2>2 DEF Trail, Start
  <2>6. ReadRecords(g, 0) = SubSeq(s, 1, Len(s)) /\ LastBoundary(g) = End(s)
    BY <2>4, <2>5, TrailIsRead
  <2>7. ReadRecords(file, 0) = SubSeq(s, 1, Len(s))
    BY <2>2, <2>5, TrailIsRead
  <2>. QED  BY <2>3, <2>4, <2>6, <2>7 DEF RepairIsSafe
<1>. QED  BY <1>1, LogHoldsTogether, PTL

\* The log and the commands that print it implement AppendLog: whatever is torn, lost or
\* repaired on disk, records are only added, and each is printed once and in order.
THEOREM FollowsLogHolds == Spec => FollowsLog
<1>1. Init => Log!Init
  <2>. SUFFICES ASSUME Init PROVE Log!Init
    OBVIOUS
  <2>1. FollowTypeOK /\ Written(<<>>) /\ Printed(<<>>)
    <3>1. FollowTypeOK
      BY FInvInit DEF FInv
    <3>2. Written(<<>>)
      <4>1. End(<<>>) = 0 /\ Len(<<>>) = 0
        BY DEF End, Start
      <4>. QED  BY <4>1, EmptyTrail DEF Init, LogInit, Written, NoWriter
    <3>3. Printed(<<>>)
      BY DEF Init, Printed, Start
    <3>. QED  BY <3>1, <3>2, <3>3
  <2>2. ReadRecords(file, 0) = <<>>
    BY <2>1, ReadsNext
  <2>3. Content(<<>>) = <<>>
    BY DEF Content
  <2>. QED  BY <2>2, <2>3 DEF Log!Init, Init
<1>2. FInv /\ FInv' /\ [Next]_vars => [Log!Next]_<<Content(ReadRecords(file, 0)), got>>
  <2>. SUFFICES ASSUME FInv, FInv', [Next]_vars
                PROVE  [Log!Next]_<<Content(ReadRecords(file, 0)), got>>
    OBVIOUS
  <2>1. CASE UNCHANGED vars
    BY <2>1 DEF vars
  <2>2. CASE Next
    <3>1. PICK s : FollowTypeOK /\ Carries(s)
      BY DEF FInv, Carries
    <3>2. PICK t : Goes(s, t)
      BY <2>2, <3>1, StepGoes
    <3>. DEFINE e == Content(ReadRecords(file, 0))
    <3>3. s \in Seq(Records) /\ e = Content(s)
      BY <3>1, ReadsNext DEF Carries
    <3>4. e' = Content(t)
      <4>1. FollowTypeOK' /\ Written(t)' /\ Printed(t)'
        BY <3>2 DEF Goes, Carries
      <4>2. Trail(file', t) /\ file' \in Seq(Nat)
        BY <4>1 DEF Written, FollowTypeOK, LogTypeOK
      <4>3. 1 \in 1 .. Len(t) + 1 /\ Start(t, 1) = 0 /\ t \in Seq(Records)
        BY <4>2 DEF Trail, Start
      <4>4. ReadRecords(file', 0) = SubSeq(t, 1, Len(t))
        BY <4>2, <4>3, TrailIsRead
      <4>5. SubSeq(t, 1, Len(t)) = t
        BY <4>3, SubSeqFull
      <4>. QED  BY <4>4, <4>5
    <3>5. /\ Content(s) \in Seq(LogRecord) /\ Len(Content(s)) = Len(s) /\ Len(s) \in Nat
          /\ \A i \in 1 .. Len(s) :
               Content(s)[i] = [stream |-> s[i].stream, data |-> s[i].data]
      BY <3>3, ContentOf
    <3>. HIDE DEF e
    <3>6. CASE t = s /\ got' = got
      BY <3>3, <3>4, <3>6 DEF e
    <3>7. ASSUME NEW r \in Records, t = Append(s, r), got' = got
          PROVE  Log!Next
      <4>1. PICK c : c = [stream |-> r.stream, data |-> r.data]
        OBVIOUS
      <4>2. c \in LogRecord
        BY <4>1 DEF Records, LogRecord
      <4>3. /\ t \in Seq(Records) /\ Len(t) = Len(s) + 1 /\ t[Len(s) + 1] = r
            /\ \A i \in 1 .. Len(s) : t[i] = s[i]
        BY <3>3, <3>7, AppendProperties
      <4>4. /\ Content(t) \in Seq(LogRecord) /\ Len(Content(t)) = Len(t)
            /\ \A i \in 1 .. Len(t) :
                 Content(t)[i] = [stream |-> t[i].stream, data |-> t[i].data]
        BY <4>3, ContentOf
      <4>5. PICK b : b = Append(Content(s), c)
        OBVIOUS
      <4>6. /\ b \in Seq(LogRecord) /\ Len(b) = Len(s) + 1 /\ b[Len(s) + 1] = c
            /\ \A i \in 1 .. Len(s) : b[i] = Content(s)[i]
        BY <3>5, <4>2, <4>5, AppendProperties
      <4>7. \A i \in 1 .. Len(t) : Content(t)[i] = b[i]
        <5>1. \A i \in 1 .. Len(t) : i \in 1 .. Len(s) \/ i = Len(s) + 1
          BY <3>5, <4>3
        <5>. QED  BY <3>5, <4>1, <4>3, <4>4, <4>6, <5>1
      <4>8. Content(t) = b
        BY <4>3, <4>4, <4>6, <4>7, SeqEqual
      <4>. QED  BY <3>3, <3>4, <3>7, <4>2, <4>5, <4>8 DEF Log!Next, Log!Add, e
    <3>8. ASSUME t = s, Len(got) + 1 \in 1 .. Len(s),
                 got' = Append(got, [stream |-> s[Len(got) + 1].stream,
                                     data   |-> s[Len(got) + 1].data])
          PROVE  Log!Next
      <4>1. PICK k, c : k = Len(got) + 1 /\ c = Content(s)[k]
        OBVIOUS
      <4>2. got \in Seq(LogRecord) /\ Len(got) \in Nat /\ k \in 1 .. Len(s)
        <5>1. got \in Seq(LogRecord)
          BY <3>1 DEF FollowTypeOK
        <5>. QED  BY <3>8, <4>1, <5>1
      <4>3. c \in LogRecord /\ got' = Append(got, c)
        BY <3>5, <3>8, <4>1, <4>2
      <4>4. /\ got' \in Seq(LogRecord) /\ Len(got') = k /\ got'[k] = c
            /\ \A i \in 1 .. Len(got) : got'[i] = got[i]
        BY <4>1, <4>2, <4>3, AppendProperties
      <4>5. PICK b : b = SubSeq(Content(s), 1, k)
        OBVIOUS
      <4>6. b \in Seq(LogRecord) /\ Len(b) = k /\ \A i \in 1 .. k : b[i] = Content(s)[i]
        BY <3>5, <4>2, <4>5
      <4>7. \A i \in 1 .. k : got'[i] = b[i]
        <5>1. \A i \in 1 .. k : i = k \/ (i \in 1 .. Len(got) /\ i \in 1 .. Len(s))
          BY <4>1, <4>2
        <5>2. \A i \in 1 .. Len(got) : got[i] = [stream |-> s[i].stream, data |-> s[i].data]
          BY <3>1 DEF Carries, Printed
        <5>. QED  BY <3>5, <4>1, <4>4, <4>6, <5>1, <5>2
      <4>8. got' = b
        BY <4>4, <4>6, <4>7, SeqEqual
      <4>9. k \in Len(got) .. Len(Content(s))
        BY <3>5, <4>1, <4>2
      <4>. QED  BY <3>3, <3>4, <3>8, <4>5, <4>8, <4>9 DEF Log!Next, Log!Deliver, e
    <3>. QED  BY <3>2, <3>6, <3>7, <3>8 DEF Goes, Grown, Prints, e
  <2>. QED  BY <2>1, <2>2
<1>. QED  BY <1>1, <1>2, LogHoldsTogether, PTL DEF Spec, FollowsLog, Log!Spec

===============================================================================
