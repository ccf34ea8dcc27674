----------------------------- MODULE LogProofs -----------------------------
(***************************************************************************)
(* Buffers, snapshots and the log in SQLite stay in the order of the hits. *)
(*                                                                         *)
(* FlushInvariant says which hits are where; the invariant here says in    *)
(* which order.  What FlushTo appends to the log is newer than the log     *)
(* because the flushed prefix never ends too early, and that takes the     *)
(* evictions counted while a snapshot is in flight and the buffers for     *)
(* which make() panics into account.                                       *)
(***************************************************************************)
EXTENDS FlushProofs, FiniteSetTheorems

-----------------------------------------------------------------------------
(* The inductive invariant.                                                *)

Increasing(q) == \A i, j \in DOMAIN q : i < j => q[i] < q[j]

UpTo(S, n) == \A h \in S : h <= n

Above(S, T) == \A h \in S, g \in T : g < h

\* The events after the n oldest are newer than every hit of S: the
\* counterpart of PrefixIn.
RestAbove(e, n, S) ==
  \A i \in DOMAIN e.events : i > n => \A h \in S : h < e.events[i]

\* FlushTo has written the snapshot of s and not booked it.
Written(s) ==
  \E f \in Flushers : s \in pending[f] /\ pc[f] = "book" /\ cur[f] = s

LogOrdered(s) ==
  /\ Increasing(db.events[s])
  /\ UpTo(Saved(db, s), hits[s])

BufferOrdered(s) ==
  /\ Increasing(mem[s].events)
  /\ UpTo(Range(mem[s].events), hits[s])

\* What a flush would write is newer than the log.  Of a buffer for which
\* make() panics this is not claimed, as a recovered panic moves flushedCount
\* and evicts nothing; but such a buffer came from LoadFrom and is clean.
Fresh(s) ==
  s \in live =>
    /\ mem[s].dirty => Len(mem[s].events) <= MaxEvents + 1
    /\ (mem[s].dirty \/ ~MakePanics(mem[s])) /\ ~Written(s)
         => RestAbove(mem[s], mem[s].flushedCount, Saved(db, s))

\* The rows of a snapshot are newer than the log until they are in it, and
\* what the snapshot does not cover is newer than both.
SnapshotOrdered(f, s) ==
  s \in pending[f] =>
    /\ Increasing(snap[f][s].rows)
    /\ UpTo(Range(snap[f][s].rows), hits[s])
    /\ Above(Unwritten(f, s), Saved(db, s))
    /\ s \in live =>
         /\ mem[s].dirty
         /\ RestAbove(mem[s], Covered(f, s),
                      Saved(db, s) \cup Range(snap[f][s].rows))

Ordered(s) ==
  /\ LogOrdered(s)
  /\ BufferOrdered(s)
  /\ Fresh(s)
  /\ \A f \in Flushers : SnapshotOrdered(f, s)

OrderInvariant == \A s \in Slugs \ raced : Ordered(s)
-----------------------------------------------------------------------------
(* Sequences in order.                                                     *)

LEMMA IncreasingEmpty == Increasing(<<>>) /\ Range(<<>>) = {}
BY DEF Increasing, Range

LEMMA IncreasingAppend ==
  ASSUME NEW q \in Seq(Hit), NEW h \in Hit, NEW n \in Nat,
         Increasing(q), UpTo(Range(q), n), n < h
  PROVE  Increasing(Append(q, h)) /\ UpTo(Range(Append(q, h)), h)
<1>1. \A i \in 1..Len(q) : q[i] \in Range(q) /\ q[i] \in Hit
  BY DEF Range
<1>2. \A i \in 1..Len(q) : q[i] <= n /\ q[i] < h
  BY <1>1 DEF UpTo, Hit
<1>3. Increasing(Append(q, h))
  BY <1>1, <1>2 DEF Increasing
<1>4. UpTo(Range(Append(q, h)), h)
  BY <1>1, <1>2 DEF UpTo, Range, Hit
<1>. QED  BY <1>3, <1>4

LEMMA IncreasingTail ==
  ASSUME NEW q \in Seq(Hit), NEW n \in Nat, q # <<>>,
         Increasing(q), UpTo(Range(q), n)
  PROVE  Increasing(Tail(q)) /\ UpTo(Range(Tail(q)), n)
<1>1. /\ Tail(q) \in Seq(Hit)
      /\ Len(Tail(q)) = Len(q) - 1
      /\ \A i \in 1..(Len(q) - 1) : Tail(q)[i] = q[i + 1]
  OBVIOUS
<1>2. Increasing(Tail(q))
  BY <1>1 DEF Increasing
<1>3. \A i \in DOMAIN Tail(q) : i + 1 \in DOMAIN q /\ Tail(q)[i] = q[i + 1]
  BY <1>1
<1>4. UpTo(Range(Tail(q)), n)
  BY <1>3 DEF UpTo, Range
<1>. QED  BY <1>2, <1>4

LEMMA IncreasingConcat ==
  ASSUME NEW q \in Seq(Hit), NEW r \in Seq(Hit), Increasing(q), Increasing(r),
         Above(Range(r), Range(q))
  PROVE  Increasing(q \o r)
<1>1. /\ \A i \in DOMAIN q : q[i] \in Range(q)
      /\ \A i \in DOMAIN r : r[i] \in Range(r)
  BY DEF Range
<1>2. \A i \in DOMAIN q, j \in DOMAIN r : q[i] < r[j]
  BY <1>1 DEF Above
<1>3. /\ DOMAIN q = 1..Len(q)
      /\ DOMAIN r = 1..Len(r)
      /\ DOMAIN (q \o r) = 1..(Len(q) + Len(r))
      /\ \A i \in 1..(Len(q) + Len(r)) :
           (q \o r)[i] = IF i <= Len(q) THEN q[i] ELSE r[i - Len(q)]
  OBVIOUS
<1> SUFFICES ASSUME NEW i \in 1..(Len(q) + Len(r)),
                    NEW j \in 1..(Len(q) + Len(r)), i < j
             PROVE  (q \o r)[i] < (q \o r)[j]
  BY <1>3 DEF Increasing
<1>4. CASE j <= Len(q)
  BY <1>3, <1>4 DEF Increasing
<1>5. CASE i <= Len(q) /\ ~(j <= Len(q))
  BY <1>2, <1>3, <1>5
<1>6. CASE ~(i <= Len(q))
  BY <1>3, <1>6 DEF Increasing
<1>. QED  BY <1>4, <1>5, <1>6

\* The end of a sequence in order.
LEMMA IncreasingSubSeq ==
  ASSUME NEW q \in Seq(Hit), NEW m \in Nat, m < Len(q), Increasing(q)
  PROVE  LET r == SubSeq(q, m + 1, Len(q))
         IN  /\ r \in Seq(Hit)
             /\ Increasing(r)
             /\ \A h \in Range(r) : \E i \in DOMAIN q : i > m /\ h = q[i]
<1> DEFINE r == SubSeq(q, m + 1, Len(q))
           k == Len(q) - m
<1>1. k \in Nat
  OBVIOUS
<1>2. /\ r \in Seq(Hit)
      /\ Len(r) = k
      /\ \A j \in 1..k : r[j] = q[m + j]
  <2>1. \A j \in (m + 1)..Len(q) : q[j] \in Hit
    OBVIOUS
  <2>2. /\ r \in Seq(Hit)
        /\ Len(r) = Len(q) - (m + 1) + 1
        /\ \A j \in 1..(Len(q) - (m + 1) + 1) : r[j] = q[(m + 1) + j - 1]
    BY <2>1, SubSeqProperties
  <2>. QED  BY <2>2
<1> HIDE DEF r
<1>3. \A j \in 1..k : m + j \in DOMAIN q
  OBVIOUS
<1>4. DOMAIN r = 1..k
  BY <1>2
<1>5. Increasing(r)
  <2> SUFFICES ASSUME NEW i \in 1..k, NEW j \in 1..k, i < j
               PROVE  r[i] < r[j]
    BY <1>4 DEF Increasing
  <2>1. m + i < m + j
    OBVIOUS
  <2>. QED  BY <1>2, <1>3, <2>1 DEF Increasing
<1>6. \A h \in Range(r) : \E i \in DOMAIN q : i > m /\ h = q[i]
  <2> SUFFICES ASSUME NEW j \in 1..k
               PROVE  \E i \in DOMAIN q : i > m /\ r[j] = q[i]
    BY <1>4 DEF Range
  <2>1. m + j > m
    OBVIOUS
  <2>. QED  BY <1>2, <1>3, <2>1
<1>. QED  BY <1>2, <1>5, <1>6 DEF r
-----------------------------------------------------------------------------
(* Ends of the buffer.                                                     *)

LEMMA RestWeaker ==
  ASSUME NEW e \in Entry, NEW d \in Entry, d.events = e.events,
         NEW S, NEW T, NEW m \in Int, NEW n \in Int,
         RestAbove(e, n, S), n <= m, T \subseteq S
  PROVE  RestAbove(d, m, T)
<1>1. e.events \in Seq(Hit)
  BY EntryFields
<1>2. \A i \in DOMAIN e.events : i \in Nat
  BY <1>1
<1>. QED  BY <1>2 DEF RestAbove

\* Nothing is after the end.
LEMMA RestNone ==
  ASSUME NEW e \in Entry, NEW n \in Int, Len(e.events) <= n, NEW S
  PROVE  RestAbove(e, n, S)
BY EntryFields DEF RestAbove

\* recordEvent: the new event is newer than all, and an eviction moves the
\* others up by one.
LEMMA RestRecordedWithRoom ==
  ASSUME NEW e \in Entry, NEW h \in Hit, NEW n \in Int, NEW S,
         ~Full(e), RestAbove(e, n, S), \A g \in S : g < h
  PROVE  RestAbove(Recorded(e, h), n, S)
<1>1. e.events \in Seq(Hit) /\ Recorded(e, h).events = Append(e.events, h)
  BY EntryFields, RecordedWithRoom
<1>. QED  BY <1>1 DEF RestAbove

LEMMA RestRecordedEvicting ==
  ASSUME NEW e \in Entry, NEW h \in Hit, NEW n \in Int, NEW S,
         Full(e), ~MakePanics(e), RestAbove(e, n, S), \A g \in S : g < h
  PROVE  RestAbove(Recorded(e, h), n - 1, S)
<1> DEFINE b == Append(Tail(e.events), h)
<1>1. /\ e.events \in Seq(Hit)
      /\ e.events # <<>>
      /\ Recorded(e, h).events = b
  BY EntryFields, RecordedEvicting
<1>2. /\ DOMAIN b = 1..Len(e.events)
      /\ \A i \in 1..(Len(e.events) - 1) : b[i] = e.events[i + 1]
      /\ b[Len(e.events)] = h
  BY <1>1
<1> HIDE DEF b
<1>3. ASSUME NEW i \in 1..Len(e.events), i > n - 1, NEW g \in S
      PROVE  g < b[i]
  <2>1. CASE i = Len(e.events)
    BY <1>2, <2>1
  <2>2. CASE i # Len(e.events)
    <3>1. i \in 1..(Len(e.events) - 1) /\ i + 1 \in DOMAIN e.events /\ i + 1 > n
      BY <1>1, <1>3, <2>2
    <3>. QED  BY <1>2, <3>1 DEF RestAbove
  <2>. QED  BY <2>1, <2>2
<1>4. \A i \in DOMAIN b : i > n - 1 => \A g \in S : g < b[i]
  BY <1>2, <1>3
<1>. QED  BY <1>1, <1>4, Zenon DEF RestAbove

\* collectDirtySnapshots: the rows are in order and come after the prefix.
LEMMA SnapshotRows ==
  ASSUME NEW e \in Entry, NEW n \in Nat, NEW S,
         Increasing(e.events), UpTo(Range(e.events), n),
         RestAbove(e, e.flushedCount, S)
  PROVE  /\ Increasing(SnapshotOf(e).rows)
         /\ UpTo(Range(SnapshotOf(e).rows), n)
         /\ Above(Range(SnapshotOf(e).rows), S)
         /\ SnapshotOf(e).len = Len(e.events)
<1> DEFINE q == e.events
           m == e.flushedCount
           r == SnapshotOf(e).rows
<1>1. q \in Seq(Hit) /\ m \in Nat /\ Len(q) \in Nat
  BY EntryFields
<1>2. SnapshotOf(e).len = Len(q)
  BY Zenon DEF SnapshotOf
<1>3. CASE m < Len(q)
  <2>1. r = SubSeq(q, m + 1, Len(q))
    BY <1>3, Zenon DEF SnapshotOf
  <2>2. /\ Increasing(r)
        /\ \A h \in Range(r) : \E i \in DOMAIN q : i > m /\ h = q[i]
    <3> DEFINE t == SubSeq(q, m + 1, Len(q))
    <3>1. /\ Increasing(t)
          /\ \A h \in Range(t) : \E i \in DOMAIN q : i > m /\ h = q[i]
      BY <1>1, <1>3, IncreasingSubSeq
    <3>2. r = t
      BY <2>1
    <3> HIDE DEF r, t
    <3>. QED  BY <3>1, <3>2
  <2> HIDE DEF r
  <2>3. UpTo(Range(r), n)
    <3>1. \A i \in DOMAIN q : q[i] \in Range(q)
      BY DEF Range
    <3>2. \A i \in DOMAIN q : q[i] <= n
      BY <3>1, Zenon DEF UpTo
    <3>. QED  BY <2>2, <3>2, Zenon DEF UpTo
  <2>4. Above(Range(r), S)
    BY <2>2, Zenon DEF Above, RestAbove
  <2>. QED  BY <1>2, <2>2, <2>3, <2>4 DEF r
<1>4. CASE ~(m < Len(q))
  <2>1. r = <<>>
    BY <1>4, Zenon DEF SnapshotOf
  <2>. QED  BY <1>2, <2>1, IncreasingEmpty, Zenon DEF UpTo, Above
<1>. QED  BY <1>3, <1>4

LEMMA InsertEventsLog ==
  ASSUME NEW d \in Database, NEW s \in Slugs, NEW rows \in Seq(Hit)
  PROVE  InsertEvents(d, s, rows).events[s] = d.events[s] \o rows
BY Zenon DEF InsertEvents, Database
-----------------------------------------------------------------------------
(* One lemma for each way in which a step touches a slug.                  *)

\* The types that the proofs below use.
LEMMA SlugTypes ==
  ASSUME TypeOK, NEW s \in Slugs
  PROVE  /\ mem[s] \in Entry
         /\ db \in Database
         /\ db.events[s] \in Seq(Hit)
         /\ hits[s] \in Nat
         /\ \A f \in Flushers : snap[f][s].rows \in Seq(Hit)
BY DEF TypeOK, Database, Snapshot

LEMMA HitsAreNumbers ==
  ASSUME NEW q \in Seq(Hit)
  PROVE  \A h \in Range(q) : h \in Nat /\ h \in Hit
<1>1. \A i \in DOMAIN q : q[i] \in Hit
  OBVIOUS
<1>. QED  BY <1>1 DEF Range, Hit

\* SQLite keeps the rows of s or loses them all.
LogKeptOrEmptied(s) == db'.events[s] = db.events[s] \/ db'.events[s] = <<>>

\* The snapshots of s are the same, and no more is said to be unwritten or to
\* be unbooked than before.
SnapshotsKept(s) ==
  /\ \A g \in Flushers : s \in pending'[g] =>
       /\ s \in pending[g]
       /\ snap'[g][s] = snap[g][s]
       /\ Unwritten(g, s)' \subseteq Unwritten(g, s)
  /\ Written(s) => Written(s)'

LEMMA LogKept ==
  ASSUME TypeOK, TypeOK', NEW s \in Slugs, LogOrdered(s), LogKeptOrEmptied(s),
         hits[s] <= hits'[s]
  PROVE  LogOrdered(s)' /\ Saved(db', s) \subseteq Saved(db, s)
<1>1. CASE db'.events[s] = db.events[s]
  <2>1. Saved(db', s) = Saved(db, s)
    BY <1>1 DEF Saved
  <2>2. \A h \in Saved(db, s) : h \in Nat
    BY SlugTypes, HitsAreNumbers DEF Saved
  <2>3. hits[s] \in Nat /\ hits'[s] \in Nat
    BY DEF TypeOK
  <2>4. UpTo(Saved(db', s), hits'[s])
    BY <2>1, <2>2, <2>3 DEF LogOrdered, UpTo
  <2>. QED  BY <1>1, <2>1, <2>4 DEF LogOrdered
<1>2. CASE db'.events[s] = <<>>
  <2>1. Saved(db', s) = {} /\ Increasing(db'.events[s])
    BY <1>2, IncreasingEmpty DEF Saved
  <2>. QED  BY <2>1 DEF LogOrdered, UpTo
<1>. QED  BY <1>1, <1>2 DEF LogKeptOrEmptied

LEMMA BufferKept ==
  ASSUME TypeOK, TypeOK', NEW s \in Slugs, BufferOrdered(s),
         mem'[s].events = mem[s].events, hits[s] <= hits'[s]
  PROVE  BufferOrdered(s)'
<1>1. mem[s].events \in Seq(Hit)
  BY SlugTypes, EntryFields
<1>2. \A h \in Range(mem[s].events) : h \in Nat
  BY <1>1, HitsAreNumbers
<1>3. hits[s] \in Nat /\ hits'[s] \in Nat
  BY DEF TypeOK
<1>4. UpTo(Range(mem[s].events), hits'[s])
  BY <1>2, <1>3 DEF BufferOrdered, UpTo
<1>. QED  BY <1>4 DEF BufferOrdered

\* The parts of SnapshotOrdered that do not look at the buffer.
LEMMA RowsKept ==
  ASSUME TypeOK, TypeOK', NEW s \in Slugs, NEW g \in Flushers,
         SnapshotOrdered(g, s), s \in pending[g], snap'[g][s] = snap[g][s],
         Unwritten(g, s)' \subseteq Unwritten(g, s),
         Saved(db', s) \subseteq Saved(db, s), hits[s] <= hits'[s]
  PROVE  /\ Increasing(snap'[g][s].rows)
         /\ UpTo(Range(snap'[g][s].rows), hits'[s])
         /\ Above(Unwritten(g, s)', Saved(db', s))
<1>1. /\ Increasing(snap[g][s].rows)
      /\ UpTo(Range(snap[g][s].rows), hits[s])
      /\ Above(Unwritten(g, s), Saved(db, s))
  BY DEF SnapshotOrdered
<1>2. \A h \in Range(snap[g][s].rows) : h \in Nat
  BY SlugTypes, HitsAreNumbers
<1>3. hits[s] \in Nat /\ hits'[s] \in Nat
  BY DEF TypeOK
<1>4. UpTo(Range(snap[g][s].rows), hits'[s])
  BY <1>1, <1>2, <1>3 DEF UpTo
<1>5. Above(Unwritten(g, s)', Saved(db', s))
  BY <1>1, Zenon DEF Above
<1>. QED  BY <1>1, <1>4, <1>5, Zenon

\* The entry is the same.
LEMMA OrderedKept ==
  ASSUME TypeOK, TypeOK', NEW s \in Slugs, Ordered(s),
         mem'[s] = mem[s], s \in live' => s \in live, hits[s] <= hits'[s],
         LogKeptOrEmptied(s), SnapshotsKept(s)
  PROVE  Ordered(s)'
<1> DEFINE e == mem[s]
<1>1. LogOrdered(s)' /\ Saved(db', s) \subseteq Saved(db, s)
  BY LogKept DEF Ordered
<1>2. BufferOrdered(s)'
  BY BufferKept DEF Ordered
<1>3. e \in Entry /\ e.flushedCount \in Int /\ e.flushedCount <= e.flushedCount
  BY SlugTypes, EntryFields
<1>4. Fresh(s)'
  <2> SUFFICES ASSUME s \in live'
               PROVE  /\ e.dirty => Len(e.events) <= MaxEvents + 1
                      /\ (e.dirty \/ ~MakePanics(e)) /\ ~Written(s)'
                           => RestAbove(e, e.flushedCount, Saved(db', s))
    BY Zenon DEF Fresh
  <2>1. /\ e.dirty => Len(e.events) <= MaxEvents + 1
        /\ (e.dirty \/ ~MakePanics(e)) /\ ~Written(s)
             => RestAbove(e, e.flushedCount, Saved(db, s))
    BY DEF Ordered, Fresh
  <2>2. Written(s) => Written(s)'
    BY DEF SnapshotsKept
  <2>3. RestAbove(e, e.flushedCount, Saved(db, s))
          => RestAbove(e, e.flushedCount, Saved(db', s))
    BY <1>1, Zenon DEF RestAbove
  <2>. QED  BY <2>1, <2>2, <2>3, Zenon
<1>5. ASSUME NEW g \in Flushers, s \in pending'[g]
      PROVE  SnapshotOrdered(g, s)'
  <2> DEFINE R == Range(snap[g][s].rows)
  <2>1. /\ s \in pending[g]
        /\ snap'[g][s] = snap[g][s]
        /\ Unwritten(g, s)' \subseteq Unwritten(g, s)
        /\ SnapshotOrdered(g, s)
    BY <1>5 DEF SnapshotsKept, Ordered
  <2>2. /\ Increasing(snap'[g][s].rows)
        /\ UpTo(Range(snap'[g][s].rows), hits'[s])
        /\ Above(Unwritten(g, s)', Saved(db', s))
    BY <1>1, <2>1, RowsKept
  <2>3. Covered(g, s)' = Covered(g, s)
    BY <2>1, Zenon DEF Covered
  <2>4. ASSUME s \in live'
        PROVE  e.dirty /\ RestAbove(e, Covered(g, s), Saved(db', s) \cup R)
    <3>1. e.dirty /\ RestAbove(e, Covered(g, s), Saved(db, s) \cup R)
      BY <2>1, <2>4 DEF SnapshotOrdered
    <3>. QED  BY <1>1, <3>1, Zenon DEF RestAbove
  <2>. QED  BY <2>1, <2>2, <2>3, <2>4, Zenon DEF SnapshotOrdered
<1>6. \A g \in Flushers : SnapshotOrdered(g, s)'
  BY <1>5 DEF SnapshotOrdered
<1>. QED  BY <1>1, <1>2, <1>4, <1>6, Zenon DEF Ordered

\* An entry with an empty buffer: created, cleared or taken out of the map.
LEMMA OrderedEmptied ==
  ASSUME TypeOK, TypeOK', NEW s \in Slugs, Ordered(s), mem'[s].events = <<>>,
         s \notin live' \/ \A g \in Flushers : s \notin pending'[g],
         hits[s] <= hits'[s], LogKeptOrEmptied(s), SnapshotsKept(s)
  PROVE  Ordered(s)'
<1>1. LogOrdered(s)' /\ Saved(db', s) \subseteq Saved(db, s)
  BY LogKept DEF Ordered
<1>2. BufferOrdered(s)'
  BY IncreasingEmpty DEF BufferOrdered, UpTo
<1>3. mem'[s] \in Entry
  BY DEF TypeOK
<1>4. Len(mem'[s].events) = 0 /\ DOMAIN mem'[s].events = {}
  OBVIOUS
<1>5. Fresh(s)'
  <2>1. Len(mem'[s].events) <= MaxEvents + 1
    BY <1>4, MaxEventsAssumption
  <2>2. RestAbove(mem'[s], mem'[s].flushedCount, Saved(db', s))
    BY <1>4, Zenon DEF RestAbove
  <2>. QED  BY <2>1, <2>2, Zenon DEF Fresh
<1>6. ASSUME NEW g \in Flushers  PROVE SnapshotOrdered(g, s)'
  <2> SUFFICES ASSUME s \in pending'[g]  PROVE SnapshotOrdered(g, s)'
    BY DEF SnapshotOrdered
  <2>1. /\ s \in pending[g]
        /\ snap'[g][s] = snap[g][s]
        /\ Unwritten(g, s)' \subseteq Unwritten(g, s)
        /\ SnapshotOrdered(g, s)
    BY DEF SnapshotsKept, Ordered
  <2>2. /\ Increasing(snap'[g][s].rows)
        /\ UpTo(Range(snap'[g][s].rows), hits'[s])
        /\ Above(Unwritten(g, s)', Saved(db', s))
    BY <1>1, <2>1, RowsKept
  <2>. QED  BY <2>2, Zenon DEF SnapshotOrdered
<1>. QED  BY <1>1, <1>2, <1>5, <1>6, Zenon DEF Ordered

LEMMA FlushVarsKept ==
  ASSUME UNCHANGED flushVars, NEW s
  PROVE  SnapshotsKept(s)
BY Zenon DEF flushVars, SnapshotsKept, Unwritten, Written

\* recordEvent: an eviction moves the flushed prefix and what a snapshot
\* covers by the same event.
LEMMA OrderedRecord ==
  ASSUME TypeOK, TypeOK', NEW s \in Slugs, Ordered(s), Record(s)
  PROVE  Ordered(s)'
<1> DEFINE e == mem[s]
           h == hits[s] + 1
           r == Recorded(mem[s], hits[s] + 1)
<1>1. /\ e \in Entry
      /\ h \in Hit
      /\ hits[s] \in Nat
      /\ hits[s] < h
  BY DEF TypeOK, Hit
<1>2. /\ mem'[s] = r
      /\ hits'[s] = h
      /\ s \in live
      /\ UNCHANGED <<live, db, flushVars>>
      /\ ~MakePanics(e)
  BY DEF Record, TypeOK
<1>3. /\ e.flushedCount \in Nat
      /\ e.evictedDuringFlush \in Nat
      /\ e.events \in Seq(Hit)
      /\ Increasing(e.events)
      /\ UpTo(Range(e.events), hits[s])
  BY <1>1, EntryFields DEF Ordered, BufferOrdered
<1>4. /\ LogOrdered(s)'
      /\ Saved(db', s) = Saved(db, s)
      /\ \A g \in Saved(db, s) : g < h
  <2>1. LogKeptOrEmptied(s) /\ hits[s] <= hits'[s]
    BY <1>1, <1>2 DEF LogKeptOrEmptied
  <2>2. \A g \in Saved(db, s) : g \in Nat
    BY SlugTypes, HitsAreNumbers DEF Saved
  <2>3. \A g \in Saved(db, s) : g < h
    BY <1>1, <2>2 DEF Ordered, LogOrdered, UpTo
  <2>. QED  BY <1>2, <2>1, <2>3, LogKept DEF Ordered
<1>5. ASSUME NEW n \in Int, NEW S, RestAbove(e, n, S), \A g \in S : g < h
      PROVE  RestAbove(r, IF Full(e) THEN n - 1 ELSE n, S)
  <2>1. CASE Full(e)
    <3>1. RestAbove(r, n - 1, S)
      BY <1>1, <1>2, <1>5, <2>1, RestRecordedEvicting
    <3>. QED  BY <2>1, <3>1, Zenon
  <2>2. CASE ~Full(e)
    <3>1. RestAbove(r, n, S)
      BY <1>1, <1>5, <2>2, RestRecordedWithRoom
    <3>. QED  BY <2>2, <3>1, Zenon
  <2>. QED  BY <2>1, <2>2
<1>6. /\ r \in Entry
      /\ r.dirty = TRUE
      /\ r.events = Append(IF Full(e) THEN Tail(e.events) ELSE e.events, h)
      /\ Full(e) => e.events # <<>>
      /\ r.flushedCount = IF Full(e) /\ e.flushedCount > 0
                          THEN e.flushedCount - 1
                          ELSE IF Full(e) THEN 0 ELSE e.flushedCount
      /\ r.evictedDuringFlush = IF Full(e) THEN e.evictedDuringFlush + 1
                                           ELSE e.evictedDuringFlush
  <2>1. CASE Full(e)
    <3>1. /\ r \in Entry
          /\ e.events # <<>>
          /\ r.events = Append(Tail(e.events), h)
          /\ r.dirty = TRUE
          /\ r.flushedCount =
               IF e.flushedCount > 0 THEN e.flushedCount - 1 ELSE 0
          /\ r.evictedDuringFlush = e.evictedDuringFlush + 1
      BY <1>1, <1>2, <2>1, RecordedEvicting
    <3> HIDE DEF e, h, r
    <3>. QED  BY <2>1, <3>1, Zenon
  <2>2. CASE ~Full(e)
    <3>1. /\ r \in Entry
          /\ r.events = Append(e.events, h)
          /\ r.dirty = TRUE
          /\ r.flushedCount = e.flushedCount
          /\ r.evictedDuringFlush = e.evictedDuringFlush
      BY <1>1, <2>2, RecordedWithRoom
    <3> HIDE DEF e, h, r
    <3>. QED  BY <2>2, <3>1, Zenon
  <2>. QED  BY <2>1, <2>2
<1> HIDE DEF e, h, r
<1>7. BufferOrdered(s)'
  <2> DEFINE q == IF Full(e) THEN Tail(e.events) ELSE e.events
  <2>1. q \in Seq(Hit) /\ Increasing(q) /\ UpTo(Range(q), hits[s])
    BY <1>1, <1>3, <1>6, IncreasingTail
  <2>2. r.events = Append(q, h)
    BY <1>6
  <2> HIDE DEF q
  <2>3. Increasing(r.events) /\ UpTo(Range(r.events), h)
    BY <1>1, <2>1, <2>2, IncreasingAppend
  <2>. QED  BY <1>2, <2>3, Zenon DEF BufferOrdered
<1>8. Fresh(s)'
  <2>1. Len(r.events) <= MaxEvents + 1
    <3>1. CASE Full(e)
      <4>1. Len(e.events) - 1 <= MaxEvents /\ Len(e.events) # 0
        BY <1>2, <1>3, <3>1, MaxEventsAssumption DEF MakePanics
      <4>2. Len(r.events) = Len(e.events)
        BY <1>1, <1>3, <1>6, <3>1
      <4>. QED  BY <1>3, <4>1, <4>2, MaxEventsAssumption
    <3>2. CASE ~Full(e)
      <4>1. Len(e.events) < MaxEvents
        BY <1>3, <3>2, MaxEventsAssumption DEF Full
      <4>2. Len(r.events) = Len(e.events) + 1
        BY <1>1, <1>3, <1>6, <3>2
      <4>. QED  BY <1>3, <4>1, <4>2, MaxEventsAssumption
    <3>. QED  BY <3>1, <3>2
  <2>2. Written(s)' <=> Written(s)
    BY <1>2, Zenon DEF Written, flushVars
  <2>3. ASSUME ~Written(s)
        PROVE  RestAbove(r, r.flushedCount, Saved(db, s))
    <3>1. RestAbove(e, e.flushedCount, Saved(db, s))
      BY <1>2, <2>3 DEF Ordered, Fresh, e
    <3>2. RestAbove(r, IF Full(e) THEN e.flushedCount - 1 ELSE e.flushedCount,
                    Saved(db, s))
      BY <1>3, <1>4, <1>5, <3>1
    <3>3. /\ r.flushedCount \in Int
          /\ (IF Full(e) THEN e.flushedCount - 1 ELSE e.flushedCount) \in Int
          /\ (IF Full(e) THEN e.flushedCount - 1 ELSE e.flushedCount)
               <= r.flushedCount
      BY <1>3, <1>6
    <3>. QED  BY <1>6, <3>2, <3>3, RestWeaker
  <2>. QED  BY <1>2, <1>4, <2>1, <2>2, <2>3, Zenon DEF Fresh
<1>9. ASSUME NEW g \in Flushers, s \in pending'[g]
      PROVE  SnapshotOrdered(g, s)'
  <2> DEFINE R == Range(snap[g][s].rows)
  <2>1. /\ s \in pending[g]
        /\ snap' = snap
        /\ SnapshotOrdered(g, s)
        /\ Unwritten(g, s)' = Unwritten(g, s)
    BY <1>2, <1>9, Zenon DEF flushVars, Ordered, Unwritten
  <2>2. /\ Increasing(snap'[g][s].rows)
        /\ UpTo(Range(snap'[g][s].rows), hits'[s])
        /\ Above(Unwritten(g, s)', Saved(db', s))
    <3>1. hits[s] <= hits'[s] /\ snap'[g][s] = snap[g][s]
      BY <1>1, <1>2, <2>1 DEF h
    <3>. QED  BY <1>4, <2>1, <3>1, RowsKept
  <2>3. e.dirty /\ RestAbove(e, Covered(g, s), Saved(db, s) \cup R)
    BY <1>2, <2>1 DEF SnapshotOrdered, e
  <2>4. \A k \in Saved(db, s) \cup R : k < h
    <3>1. \A k \in R : k \in Nat
      BY SlugTypes, HitsAreNumbers
    <3>2. UpTo(R, hits[s])
      BY <2>1 DEF SnapshotOrdered
    <3>3. \A k \in R : k < h
      BY <1>1, <3>1, <3>2 DEF UpTo, Hit
    <3>. QED  BY <1>4, <3>3
  <2>5. Covered(g, s) \in Int /\ snap[g][s].len \in Nat
    BY CoveredType
  <2>6. Covered(g, s)' = IF Full(e) THEN Covered(g, s) - 1 ELSE Covered(g, s)
    <3>1. /\ Covered(g, s)' = snap[g][s].len - r.evictedDuringFlush
          /\ Covered(g, s) = snap[g][s].len - e.evictedDuringFlush
      BY <1>2, <2>1, Zenon DEF Covered, e
    <3>2. ASSUME NEW a \in Nat, NEW b \in Nat  PROVE a - (b + 1) = (a - b) - 1
      OBVIOUS
    <3>3. CASE Full(e)
      <4>1. Covered(g, s)' = snap[g][s].len - (e.evictedDuringFlush + 1)
        BY <1>6, <3>1, <3>3, Zenon
      <4>2. snap[g][s].len - (e.evictedDuringFlush + 1)
              = (snap[g][s].len - e.evictedDuringFlush) - 1
        BY <1>3, <2>5, <3>2
      <4>. QED  BY <3>1, <3>3, <4>1, <4>2, Zenon
    <3>4. CASE ~Full(e)
      BY <1>6, <3>1, <3>4, Zenon
    <3>. QED  BY <3>3, <3>4
  <2>7. RestAbove(r, Covered(g, s)', Saved(db, s) \cup R)
    BY <1>5, <2>3, <2>4, <2>5, <2>6
  <2>. QED  BY <1>2, <1>4, <1>6, <2>1, <2>2, <2>7, Zenon DEF SnapshotOrdered
<1>10. \A g \in Flushers : SnapshotOrdered(g, s)'
  BY <1>9 DEF SnapshotOrdered
<1>. QED  BY <1>4, <1>7, <1>8, <1>10, Zenon DEF Ordered

\* A recovered panic: the buffer is empty, or clean and left as it is.
LEMMA OrderedPanic ==
  ASSUME TypeOK, TypeOK', NEW s \in Slugs, Ordered(s), RecordPanicRecovered(s)
  PROVE  Ordered(s)'
<1> DEFINE e == mem[s]
           r == EvictionCounted(mem[s])
<1>1. e \in Entry /\ hits[s] \in Nat
  BY DEF TypeOK
<1>2. /\ mem'[s] = r
      /\ hits'[s] = hits[s] + 1
      /\ s \in live
      /\ UNCHANGED <<live, db, flushVars>>
      /\ MakePanics(e)
  BY DEF RecordPanicRecovered, TypeOK
<1>3. r \in Entry /\ r.events = e.events /\ r.dirty = e.dirty
  BY <1>1, EvictionCountedFields
<1>4. e.events \in Seq(Hit) /\ Len(e.events) \in Nat
  BY <1>1, EntryFields
<1>5. hits[s] <= hits'[s] /\ LogKeptOrEmptied(s)
  BY <1>1, <1>2 DEF LogKeptOrEmptied
<1>6. /\ LogOrdered(s)'
      /\ BufferOrdered(s)'
      /\ Saved(db', s) = Saved(db, s)
  BY <1>2, <1>3, <1>5, LogKept, BufferKept DEF Ordered
<1>7. e.dirty => Len(e.events) <= MaxEvents + 1
  BY <1>2 DEF Ordered, Fresh
<1>8. e.dirty => DOMAIN e.events = {}
  BY <1>2, <1>4, <1>7, MaxEventsAssumption DEF MakePanics
<1> HIDE DEF e, r
<1>9. MakePanics(r)
  BY <1>2, <1>3, Zenon DEF MakePanics, Full
<1>10. Fresh(s)'
  BY <1>2, <1>3, <1>7, <1>8, <1>9, Zenon DEF Fresh, RestAbove
<1>11. ASSUME NEW g \in Flushers, s \in pending'[g]
       PROVE  SnapshotOrdered(g, s)'
  <2>1. /\ s \in pending[g]
        /\ snap'[g][s] = snap[g][s]
        /\ SnapshotOrdered(g, s)
        /\ Unwritten(g, s)' = Unwritten(g, s)
    BY <1>2, <1>11, Zenon DEF flushVars, Ordered, Unwritten
  <2>2. /\ Increasing(snap'[g][s].rows)
        /\ UpTo(Range(snap'[g][s].rows), hits'[s])
        /\ Above(Unwritten(g, s)', Saved(db', s))
    BY <1>5, <1>6, <2>1, RowsKept
  <2>3. e.dirty
    BY <1>2, <2>1 DEF SnapshotOrdered, e
  <2>. QED  BY <1>2, <1>3, <1>8, <2>2, <2>3, Zenon
            DEF SnapshotOrdered, RestAbove
<1>12. \A g \in Flushers : SnapshotOrdered(g, s)'
  BY <1>11 DEF SnapshotOrdered
<1>. QED  BY <1>6, <1>10, <1>12, Zenon DEF Ordered

\* A flusher whose control state changes without touching a snapshot of s.
LEMMA OneFlusherKept ==
  ASSUME NEW s, NEW f \in Flushers,
         \A g \in Flushers \ {f} : Untouched(g),
         s \in pending'[f] =>
           /\ s \in pending[f]
           /\ snap'[f][s] = snap[f][s]
           /\ Unwritten(f, s)' \subseteq Unwritten(f, s),
         ~(s \in pending[f] /\ pc[f] = "book" /\ cur[f] = s)
  PROVE  SnapshotsKept(s)
<1>1. ASSUME NEW g \in Flushers, s \in pending'[g]
      PROVE  /\ s \in pending[g]
             /\ snap'[g][s] = snap[g][s]
             /\ Unwritten(g, s)' \subseteq Unwritten(g, s)
  <2>1. CASE g = f
    BY <1>1, <2>1
  <2>2. CASE g # f
    <3>1. Untouched(g)
      BY <2>2
    <3>. QED  BY <1>1, <3>1, UnwrittenKept DEF Untouched
  <2>. QED  BY <2>1, <2>2
<1>2. ASSUME Written(s)  PROVE Written(s)'
  <2>1. PICK g \in Flushers : s \in pending[g] /\ pc[g] = "book" /\ cur[g] = s
    BY <1>2 DEF Written
  <2>2. g # f
    BY <2>1
  <2>. QED  BY <2>1, <2>2 DEF Untouched, Written
<1>. QED  BY <1>1, <1>2 DEF SnapshotsKept

LEMMA KeptByFlushSlug ==
  ASSUME TypeOK, NEW s \in Slugs, NEW f \in Flushers, NEW t \in Slugs,
         FlushSlug(f, t)
  PROVE  SnapshotsKept(s)
<1>1. pc[f] = "insertSlug" /\ \A g \in Flushers \ {f} : Untouched(g)
  BY FlushSlugFacts
<1>2. ASSUME s \in pending'[f]
      PROVE  /\ s \in pending[f]
             /\ snap'[f][s] = snap[f][s]
             /\ Unwritten(f, s)' \subseteq Unwritten(f, s)
  <2>1. s \in pending[f] /\ snap'[f][s] = snap[f][s]
    BY <1>2, FlushSlugFacts
  <2>2. Unwritten(f, s) = Range(snap[f][s].rows)
    BY <1>1 DEF Unwritten
  <2>. QED  BY <2>1, <2>2 DEF Unwritten
<1>3. ~(s \in pending[f] /\ pc[f] = "book" /\ cur[f] = s)
  BY <1>1
<1>. QED  BY <1>1, <1>2, <1>3, OneFlusherKept

LEMMA KeptByFlushFails ==
  ASSUME TypeOK, NEW s \in Slugs, NEW f \in Flushers, FlushFails(f)
  PROVE  SnapshotsKept(s)
<1>1. /\ pc[f] \in {"insertSlug", "insertEvents"}
      /\ pending'[f] = {}
      /\ \A g \in Flushers \ {f} : Untouched(g)
  BY FlushFailsFacts DEF FlushFails
<1>. QED  BY <1>1, OneFlusherKept

\* The loop after its FlushTo has no snapshots.
LEMMA KeptByLoop ==
  ASSUME TypeOK, FlushShape, NEW s \in Slugs,
         Cleanup \/ PurgeExpired \/ PurgeExpiredFails \/ LoopReturns
  PROVE  SnapshotsKept(s)
<1>1. /\ UNCHANGED <<pending, snap, cur>>
      /\ pc["loop"] \in {"cleanup", "deleteExpired", "idle"}
      /\ \A g \in Flushers : g # "loop" => pc'[g] = pc[g]
  BY DEF Cleanup, PurgeExpired, PurgeExpiredFails, LoopReturns, TypeOK
<1>2. "loop" \in Flushers /\ pending["loop"] = {}
  BY <1>1 DEF FlushShape, FlusherShape, Flushers
<1>3. \A g \in Flushers \ {"loop"} : Untouched(g)
  BY <1>1, Zenon DEF Untouched
<1>4. pending'["loop"] = {}
  BY <1>1, <1>2
<1>. QED  BY <1>2, <1>3, <1>4, OneFlusherKept

\* collectDirtySnapshots: the rows of a new snapshot are the end of the buffer
\* that is newer than the log.
LEMMA OrderedCollect ==
  ASSUME TypeOK, TypeOK', FlushShape, NEW s \in Slugs, s \notin raced',
         Ordered(s), NEW f \in Flushers, pc[f] = "idle",
         CollectDirtySnapshots(f), hits' = hits
  PROVE  Ordered(s)'
<1> DEFINE e == mem[s]
           c == [mem[s] EXCEPT !.evictedDuringFlush = 0]
<1>1. /\ e \in Entry
      /\ db' = db
      /\ live' = live
      /\ hits[s] \in Nat
      /\ hits[s] <= hits'[s]
      /\ LogKeptOrEmptied(s)
  BY CollectFacts DEF TypeOK, LogKeptOrEmptied
<1>2. pending[f] = {}
  BY DEF FlushShape, FlusherShape
<1>3. CASE ~(s \in live /\ e.dirty)
  <2>1. mem'[s] = mem[s]
    BY <1>3, CollectFacts
  <2>2. s \notin pending'[f] /\ \A g \in Flushers \ {f} : Untouched(g)
    BY <1>3, CollectFacts
  <2>3. SnapshotsKept(s)
    BY <1>2, <2>2, OneFlusherKept
  <2>. QED  BY <1>1, <2>1, <2>3, OrderedKept
<1>4. CASE s \in live /\ e.dirty
  <2>1. mem'[s] = c
    BY <1>4, CollectFacts
  <2>2. /\ c \in Entry
        /\ c.events = e.events
        /\ c.dirty = e.dirty
        /\ c.flushedCount = e.flushedCount
        /\ c.evictedDuringFlush = 0
    BY <1>1, CollectedFields
  <2>3. ~InFlight(s)
    BY <1>4, CollectFacts
  <2>4. ~Written(s) /\ \A g \in Flushers \ {f} : s \notin pending'[g]
    <3>1. \A g \in Flushers \ {f} : pending'[g] = pending[g]
      BY CollectFacts DEF Untouched
    <3>. QED  BY <2>3, <3>1 DEF InFlight, Written
  <2>5. /\ Len(e.events) <= MaxEvents + 1
        /\ RestAbove(e, e.flushedCount, Saved(db, s))
    BY <1>4, <2>4 DEF Ordered, Fresh
  <2>6. Increasing(e.events) /\ UpTo(Range(e.events), hits[s])
    BY DEF Ordered, BufferOrdered
  <2>7. LogOrdered(s)'
    BY <1>1, LogKept DEF Ordered
  <2> HIDE DEF c
  <2>8. BufferOrdered(s)'
    BY <1>1, <2>1, <2>2, BufferKept DEF Ordered
  <2>9. Fresh(s)'
    <3>1. RestAbove(c, c.flushedCount, Saved(db, s))
      BY <2>2, <2>5, Zenon DEF RestAbove
    <3>. QED  BY <1>1, <2>1, <2>2, <2>5, <3>1, Zenon DEF Fresh
  <2>10. ASSUME s \in pending'[f]  PROVE SnapshotOrdered(f, s)'
    <3>1. /\ snap'[f][s] = SnapshotOf(e)
          /\ pc'[f] = "insertSlug"
      BY <2>10, CollectFacts
    <3>2. /\ Increasing(SnapshotOf(e).rows)
          /\ UpTo(Range(SnapshotOf(e).rows), hits[s])
          /\ Above(Range(SnapshotOf(e).rows), Saved(db, s))
          /\ SnapshotOf(e).len = Len(e.events)
      BY <1>1, <2>5, <2>6, SnapshotRows
    <3>3. Unwritten(f, s)' = Range(SnapshotOf(e).rows)
      BY <3>1 DEF Unwritten
    <3>4. Covered(f, s)' = Len(e.events) - 0
      BY <2>1, <2>2, <3>1, <3>2, Zenon DEF Covered
    <3>5. Covered(f, s)' \in Int /\ Len(c.events) <= Covered(f, s)'
      <4>1. Len(e.events) \in Nat
        BY <1>1, EntryFields
      <4>. QED  BY <2>2, <3>4, <4>1
    <3>6. RestAbove(c, Covered(f, s)',
                    Saved(db, s) \cup Range(SnapshotOf(e).rows))
      BY <2>2, <3>5, RestNone
    <3>. QED  BY <1>1, <1>4, <2>1, <2>2, <3>1, <3>2, <3>3, <3>6, Zenon
              DEF SnapshotOrdered
  <2>11. \A g \in Flushers : SnapshotOrdered(g, s)'
    BY <2>4, <2>10 DEF SnapshotOrdered
  <2>. QED  BY <2>7, <2>8, <2>9, <2>11, Zenon DEF Ordered
<1>. QED  BY <1>3, <1>4

\* InsertEvents appends rows that are newer than the log.
LEMMA OrderedFlushEvents ==
  ASSUME TypeOK, TypeOK', FlushShape, OneSnapshot, NEW s \in Slugs,
         s \notin raced, Ordered(s), NEW f \in Flushers, FlushEvents(f)
  PROVE  Ordered(s)'
<1> DEFINE R == Range(snap[f][s].rows)
<1>1. /\ cur[f] \in pending[f]
      /\ cur[f] \in Slugs
      /\ pc[f] = "insertEvents"
      /\ pc'[f] = "book"
      /\ \A t \in Slugs \ {cur[f]} : db'.events[t] = db.events[t]
      /\ \A g \in Flushers \ {f} : Untouched(g)
      /\ UNCHANGED <<live, mem, pending, snap, cur, hits>>
  BY FlushEventsFacts DEF FlushEvents
<1>0. hits[s] \in Nat /\ hits[s] <= hits'[s]
  BY <1>1 DEF TypeOK
<1>2. CASE s # cur[f]
  <2>1. LogKeptOrEmptied(s)
    BY <1>1, <1>2 DEF LogKeptOrEmptied
  <2>2. Unwritten(f, s)' \subseteq Unwritten(f, s)
    BY <1>1, <1>2 DEF Unwritten
  <2>3. SnapshotsKept(s)
    BY <1>1, <1>2, <2>2, OneFlusherKept
  <2>. QED  BY <1>0, <1>1, <2>1, <2>3, OrderedKept
<1>3. CASE s = cur[f]
  <2>1. /\ db \in Database
        /\ db.events[s] \in Seq(Hit)
        /\ snap[f][s].rows \in Seq(Hit)
    BY SlugTypes
  <2>2. db' = InsertEvents(db, s, snap[f][s].rows)
    BY <1>3, Zenon DEF FlushEvents
  <2>3. db'.events[s] = db.events[s] \o snap[f][s].rows
    BY <2>1, <2>2, InsertEventsLog
  <2>4. Saved(db', s) = Saved(db, s) \cup R
    BY <1>3, FlushEventsFacts
  <2>5. /\ Increasing(snap[f][s].rows)
        /\ UpTo(R, hits[s])
        /\ Above(Unwritten(f, s), Saved(db, s))
        /\ s \in live => /\ mem[s].dirty
                         /\ RestAbove(mem[s], Covered(f, s), Saved(db, s) \cup R)
    BY <1>1, <1>3 DEF Ordered, SnapshotOrdered
  <2>6. Unwritten(f, s) = R /\ Unwritten(f, s)' = {}
    BY <1>1, <1>3 DEF Unwritten
  <2>7. LogOrdered(s)'
    <3>1. Increasing(db'.events[s])
      BY <2>1, <2>3, <2>5, <2>6, IncreasingConcat DEF Ordered, LogOrdered, Saved
    <3>2. UpTo(Saved(db', s), hits'[s])
      BY <1>1, <2>4, <2>5, Zenon DEF Ordered, LogOrdered, UpTo
    <3>. QED  BY <3>1, <3>2 DEF LogOrdered
  <2>8. BufferOrdered(s)'
    BY <1>0, <1>1, BufferKept DEF Ordered
  <2>9. Written(s)'
    BY <1>1, <1>3 DEF Written
  <2>10. Fresh(s)'
    BY <1>1, <2>9, Zenon DEF Ordered, Fresh
  <2>11. SnapshotOrdered(f, s)'
    <3>1. Covered(f, s)' = Covered(f, s)
      BY <1>1, Zenon DEF Covered
    <3>2. Saved(db', s) \cup R = Saved(db, s) \cup R
      BY <2>4
    <3>3. Above(Unwritten(f, s)', Saved(db', s))
      BY <2>6 DEF Above
    <3>. QED  BY <1>1, <2>5, <3>1, <3>2, <3>3, Zenon DEF SnapshotOrdered
  <2>12. ASSUME NEW g \in Flushers, g # f  PROVE s \notin pending'[g]
    BY <1>1, <1>3, <2>12 DEF OneSnapshot
  <2>13. \A g \in Flushers : SnapshotOrdered(g, s)'
    BY <2>11, <2>12 DEF SnapshotOrdered
  <2>. QED  BY <2>7, <2>8, <2>10, <2>13, Zenon DEF Ordered
<1>. QED  BY <1>2, <1>3

\* FlushTo's bookkeeping: what the snapshot covers becomes the prefix.
LEMMA OrderedBook ==
  ASSUME TypeOK, TypeOK', FlushShape, OneSnapshot, NEW s \in Slugs,
         s \notin raced, Ordered(s), NEW f \in Flushers, Book(f)
  PROVE  Ordered(s)'
<1>1. /\ pc[f] = "book"
      /\ cur[f] \in pending[f]
      /\ \/ pending'[f] = {} /\ pc'[f] = AfterFlush(f)
         \/ pc'[f] = "insertSlug"
      /\ \A t \in pending'[f] :
           t \in pending[f] /\ t # cur[f] /\ snap'[f][t] = snap[f][t]
      /\ cur[f] \in live => mem'[cur[f]] = Booked(mem[cur[f]], snap[f][cur[f]].len)
      /\ \A t \in Slugs \ {cur[f]} : mem'[t] = mem[t]
      /\ \A g \in Flushers \ {f} : Untouched(g)
      /\ UNCHANGED <<live, db>>
  BY BookFacts
<1>2. /\ hits' = hits
      /\ cur[f] \notin live => mem' = mem
  BY DEF Book
<1>3. /\ hits[s] \in Nat
      /\ hits[s] <= hits'[s]
      /\ LogKeptOrEmptied(s)
      /\ mem[s] \in Entry
  BY <1>1, <1>2 DEF TypeOK, LogKeptOrEmptied
<1>4. CASE s # cur[f]
  <2>1. ASSUME s \in pending'[f]
        PROVE  Unwritten(f, s)' \subseteq Unwritten(f, s)
    BY <1>1, <1>4, <2>1 DEF Unwritten
  <2>2. SnapshotsKept(s)
    BY <1>1, <1>4, <2>1, OneFlusherKept
  <2>. QED  BY <1>1, <1>3, <1>4, <2>2, OrderedKept
<1>5. CASE s = cur[f]
  <2>1. \A g \in Flushers : s \notin pending'[g]
    <3>1. ASSUME NEW g \in Flushers, g # f  PROVE s \notin pending'[g]
      BY <1>1, <1>5, <3>1 DEF OneSnapshot, Untouched
    <3>. QED  BY <1>1, <1>5, <3>1
  <2>2. \A g \in Flushers : SnapshotOrdered(g, s)'
    BY <2>1 DEF SnapshotOrdered
  <2>3. LogOrdered(s)'
    BY <1>3, LogKept DEF Ordered
  <2>4. CASE s \notin live
    <3>1. mem'[s] = mem[s]
      BY <1>2, <1>5, <2>4
    <3>2. BufferOrdered(s)'
      BY <1>3, <3>1, BufferKept DEF Ordered
    <3>3. Fresh(s)'
      BY <1>1, <2>4 DEF Fresh
    <3>. QED  BY <2>2, <2>3, <3>2, <3>3, Zenon DEF Ordered
  <2>5. CASE s \in live
    <3> DEFINE e == mem[s]
               n == snap[f][s].len
               b == Booked(mem[s], snap[f][s].len)
    <3>1. mem'[s] = b /\ n \in Nat
      BY <1>1, <1>5, <2>5, CoveredType
    <3>2. /\ b \in Entry
          /\ b.events = e.events
          /\ b.flushedCount = IF n > e.evictedDuringFlush
                              THEN n - e.evictedDuringFlush ELSE 0
      BY <1>3, <3>1, BookedFields
    <3>3. /\ e.dirty
          /\ RestAbove(e, Covered(f, s), Saved(db, s) \cup Range(snap[f][s].rows))
          /\ Len(e.events) <= MaxEvents + 1
      BY <1>1, <1>5, <2>5 DEF Ordered, SnapshotOrdered, Fresh
    <3>4. /\ Covered(f, s) \in Int
          /\ b.flushedCount \in Int
          /\ Covered(f, s) <= b.flushedCount
      <4>1. e.evictedDuringFlush \in Nat
        BY <1>3, EntryFields
      <4>2. Covered(f, s) = n - e.evictedDuringFlush
        BY DEF Covered
      <4> HIDE DEF e, b, n
      <4>. QED  BY <3>1, <3>2, <4>1, <4>2
    <3> HIDE DEF b
    <3>5. RestAbove(b, b.flushedCount, Saved(db, s))
      BY <1>3, <3>2, <3>3, <3>4, RestWeaker
    <3>6. BufferOrdered(s)'
      BY <1>3, <3>1, <3>2, BufferKept DEF Ordered
    <3>7. Fresh(s)'
      BY <1>1, <3>1, <3>2, <3>3, <3>5, Zenon DEF Fresh
    <3>. QED  BY <2>2, <2>3, <3>6, <3>7, Zenon DEF Ordered
  <2>. QED  BY <2>4, <2>5
<1>. QED  BY <1>4, <1>5

LEMMA OrderStep ==
  ASSUME TypeOK, TypeOK', FlushShape, CreatedFirst, OneSnapshot,
         OrderInvariant, [Next]_vars
  PROVE  OrderInvariant'
<1> USE DEF processVars, memVars, flushVars, historyVars
<1> SUFFICES ASSUME NEW s \in Slugs, s \notin raced'  PROVE Ordered(s)'
  BY DEF OrderInvariant
<1>a. s \notin raced /\ Ordered(s)
  BY HistoryGrows DEF OrderInvariant
<1>b. hits[s] \in Nat /\ hits[s] <= hits[s] /\ db \in Database
  BY DEF TypeOK
<1>c. ASSUME mem'[s] = mem[s], s \in live' => s \in live, db' = db,
             hits' = hits, UNCHANGED flushVars
      PROVE  Ordered(s)'
  <2>1. LogKeptOrEmptied(s) /\ SnapshotsKept(s)
    BY <1>c, FlushVarsKept DEF LogKeptOrEmptied
  <2>. QED  BY <1>a, <1>b, <1>c, <2>1, OrderedKept
<1>1. CASE Start
  <2> DEFINE q == db.events[s]
  <2>1. /\ mem'[s] = LoadedEntry(q) \/ mem'[s] = NoEntry
        /\ s \in live' => mem'[s] = LoadedEntry(q)
        /\ UNCHANGED <<db, hits, flushVars>>
    BY <1>1 DEF Start, LoadEvents
  <2>2. \A g \in Flushers : pending'[g] = {}
    BY <1>1 DEF Start, FlushShape, FlusherShape
  <2>3. SnapshotsKept(s) /\ LogKeptOrEmptied(s) /\ hits[s] <= hits'[s]
    BY <1>b, <2>1, FlushVarsKept DEF LogKeptOrEmptied
  <2>4. CASE s \notin live'
    <3>1. CASE mem'[s] = NoEntry
      <4>1. mem'[s].events = <<>>
        BY <3>1 DEF NoEntry, NewEntry
      <4>. QED  BY <1>a, <2>3, <2>4, <4>1, OrderedEmptied
    <3>2. CASE mem'[s] # NoEntry
      BY <1>1, <2>4, <3>2 DEF Start
    <3>. QED  BY <3>1, <3>2
  <2>5. CASE s \in live'
    <3>1. q \in Seq(Hit)
      BY SlugTypes
    <3>2. /\ mem'[s].events = q
          /\ mem'[s].dirty = FALSE
          /\ mem'[s].flushedCount = Len(q)
          /\ mem'[s] \in Entry
          /\ db' = db
          /\ hits' = hits
      BY <2>1, <2>5, <3>1, EntryTypes DEF LoadedEntry
    <3>3. LogOrdered(s)'
      BY <1>a, <2>3, LogKept DEF Ordered
    <3>4. BufferOrdered(s)'
      BY <1>a, <3>2 DEF Ordered, LogOrdered, BufferOrdered, Saved
    <3>5. RestAbove(mem'[s], mem'[s].flushedCount, Saved(db', s))
      BY <3>1, <3>2, RestNone
    <3>6. Fresh(s)'
      BY <3>2, <3>5, Zenon DEF Fresh
    <3>. QED  BY <2>2, <3>3, <3>4, <3>6 DEF Ordered, SnapshotOrdered
  <2>. QED  BY <2>4, <2>5
<1>2. CASE ProcessEnds
  <2>1. /\ mem'[s].events = <<>>
        /\ s \notin live'
        /\ \A g \in Flushers : s \notin pending'[g]
        /\ hits' = hits
        /\ db' = db
    BY <1>2 DEF ProcessEnds, NoEntry, NewEntry
  <2>2. LogOrdered(s)'
    BY <1>a, <1>b, <2>1, LogKept DEF Ordered, LogKeptOrEmptied
  <2>3. BufferOrdered(s)'
    BY <2>1, IncreasingEmpty DEF BufferOrdered, UpTo
  <2>. QED  BY <2>1, <2>2, <2>3 DEF Ordered, Fresh, SnapshotOrdered
<1>3. ASSUME NEW f \in Flushers, pc[f] = "idle", CollectDirtySnapshots(f)
      PROVE  Ordered(s)'
  <2>1. hits' = hits
    BY <1>3, Zenon DEF CollectDirtySnapshots
  <2>. QED  BY <1>3, <1>a, <2>1, OrderedCollect
<1>4. CASE Cleanup
  <2>1. SnapshotsKept(s)
    BY <1>4, KeptByLoop
  <2>2. /\ LogKeptOrEmptied(s)
        /\ hits[s] <= hits'[s]
        /\ live' = live \ expired
        /\ mem'[s] = IF s \in expired THEN NoEntry ELSE mem[s]
    BY <1>4, <1>b DEF Cleanup, LogKeptOrEmptied
  <2>3. CASE s \in expired
    <3>1. mem'[s].events = <<>> /\ s \notin live'
      BY <2>2, <2>3 DEF NoEntry, NewEntry
    <3>. QED  BY <1>a, <2>1, <2>2, <3>1, OrderedEmptied
  <2>4. CASE s \notin expired
    BY <1>a, <2>1, <2>2, <2>4, OrderedKept
  <2>. QED  BY <2>3, <2>4
<1>5. CASE PurgeExpired \/ PurgeExpiredFails \/ LoopReturns
  <2>1. SnapshotsKept(s)
    BY <1>5, KeptByLoop
  <2>2. /\ mem' = mem
        /\ live' = live
        /\ hits[s] <= hits'[s]
        /\ db' = db \/ db' = DeleteExpired(db, expired)
    BY <1>5, <1>b DEF PurgeExpired, PurgeExpiredFails, LoopReturns
  <2>3. LogKeptOrEmptied(s)
    <3>1. expired \in SUBSET Slugs
      BY DEF TypeOK
    <3>2. DeleteExpired(db, expired).events[s] =
            IF s \in ExpiredRows(db, expired) THEN <<>> ELSE db.events[s]
      BY <1>b, <3>1, DeleteExpiredRows
    <3>. QED  BY <2>2, <3>2, Zenon DEF LogKeptOrEmptied
  <2>. QED  BY <1>a, <2>1, <2>2, <2>3, OrderedKept
<1>6. ASSUME NEW f \in Flushers, FlushEvents(f)  PROVE Ordered(s)'
  BY <1>6, <1>a, OrderedFlushEvents
<1>7. ASSUME NEW f \in Flushers, FlushFails(f)  PROVE Ordered(s)'
  <2>1. mem' = mem /\ live' = live /\ db' = db /\ hits' = hits
    BY <1>7 DEF FlushFails
  <2>2. LogKeptOrEmptied(s) /\ SnapshotsKept(s)
    BY <1>7, <2>1, KeptByFlushFails DEF LogKeptOrEmptied
  <2>. QED  BY <1>a, <1>b, <2>1, <2>2, OrderedKept
<1>8. ASSUME NEW f \in Flushers, Book(f)  PROVE Ordered(s)'
  BY <1>8, <1>a, OrderedBook
<1>9. ASSUME NEW f \in Flushers, NEW t \in Slugs, FlushSlug(f, t)
      PROVE  Ordered(s)'
  <2>1. mem' = mem /\ live' = live /\ db'.events = db.events
    BY <1>9, FlushSlugFacts
  <2>2. hits' = hits
    BY <1>9 DEF FlushSlug
  <2>3. LogKeptOrEmptied(s) /\ SnapshotsKept(s)
    BY <1>9, <2>1, KeptByFlushSlug DEF LogKeptOrEmptied
  <2>. QED  BY <1>a, <1>b, <2>1, <2>2, <2>3, OrderedKept
<1>10. ASSUME NEW t \in Slugs,
              Expire(t) \/ DeleteCheckOwner(t) \/ DeleteFromStoreFails(t)
       PROVE  Ordered(s)'
  BY <1>10, <1>c DEF Expire, DeleteCheckOwner, DeleteFromStoreFails
<1>11. ASSUME NEW t \in Slugs, CreateSlug(t)  PROVE Ordered(s)'
  <2>1. CASE s = t
    <3>1. /\ mem'[s] = NewEntry
          /\ s \notin issued
          /\ UNCHANGED <<db, hits, flushVars>>
      BY <1>11, <2>1 DEF CreateSlug, TypeOK
    <3>2. \A g \in Flushers : s \notin pending'[g]
      BY <3>1 DEF FlushShape, FlusherShape
    <3>3. LogKeptOrEmptied(s) /\ SnapshotsKept(s)
      BY <3>1, FlushVarsKept DEF LogKeptOrEmptied
    <3>4. mem'[s].events = <<>>
      BY <3>1 DEF NewEntry
    <3>. QED  BY <1>a, <1>b, <3>1, <3>2, <3>3, <3>4, OrderedEmptied
  <2>2. CASE s # t
    BY <1>11, <1>c, <2>2 DEF CreateSlug, TypeOK
  <2>. QED  BY <2>1, <2>2
<1>12. ASSUME NEW t \in Slugs, Record(t) \/ RecordPanicRecovered(t)
       PROVE  Ordered(s)'
  <2>1. CASE s = t
    BY <1>12, <1>a, <2>1, OrderedRecord, OrderedPanic
  <2>2. CASE s # t
    <3>1. /\ mem'[s] = mem[s]
          /\ hits'[s] = hits[s]
          /\ UNCHANGED <<live, db, flushVars>>
      BY <1>12, <2>2 DEF Record, RecordPanicRecovered, TypeOK
    <3>2. LogKeptOrEmptied(s) /\ SnapshotsKept(s)
      BY <3>1, FlushVarsKept DEF LogKeptOrEmptied
    <3>. QED  BY <1>a, <1>b, <3>1, <3>2, OrderedKept
  <2>. QED  BY <2>1, <2>2
<1>13. ASSUME NEW t \in Slugs, ClearEvents(t)  PROVE Ordered(s)'
  <2>1. CASE s = t
    <3>1. /\ mem'[s] = Cleared(mem[s])
          /\ ~InFlight(s)
          /\ UNCHANGED <<db, hits, flushVars>>
      BY <1>13, <2>1 DEF ClearEvents, TypeOK
    <3>2. \A g \in Flushers : s \notin pending'[g]
      BY <3>1 DEF InFlight
    <3>3. LogKeptOrEmptied(s) /\ SnapshotsKept(s)
      BY <3>1, FlushVarsKept DEF LogKeptOrEmptied
    <3>4. Cleared(mem[s]).events = <<>>
      BY SlugTypes, Zenon DEF Cleared, Entry
    <3>. QED  BY <1>a, <1>b, <3>1, <3>2, <3>3, <3>4, OrderedEmptied
  <2>2. CASE s # t
    BY <1>13, <1>c, <2>2 DEF ClearEvents, TypeOK
  <2>. QED  BY <2>1, <2>2
<1>14. ASSUME NEW t \in Slugs, DeleteFromRegistry(t)  PROVE Ordered(s)'
  <2>1. CASE s = t
    <3>1. /\ mem'[s] = NoEntry
          /\ s \notin live'
          /\ UNCHANGED <<db, hits, flushVars>>
      BY <1>14, <2>1 DEF DeleteFromRegistry, TypeOK
    <3>2. LogKeptOrEmptied(s) /\ SnapshotsKept(s)
      BY <3>1, FlushVarsKept DEF LogKeptOrEmptied
    <3>3. mem'[s].events = <<>>
      BY <3>1 DEF NoEntry, NewEntry
    <3>. QED  BY <1>a, <1>b, <3>1, <3>2, <3>3, OrderedEmptied
  <2>2. CASE s # t
    BY <1>14, <1>c, <2>2 DEF DeleteFromRegistry, TypeOK
  <2>. QED  BY <2>1, <2>2
<1>15. ASSUME NEW t \in Slugs, DeleteFromStore(t)  PROVE Ordered(s)'
  <2>1. /\ db' = DeleteSlug(db, t)
        /\ UNCHANGED <<live, mem, hits, flushVars>>
    BY <1>15 DEF DeleteFromStore
  <2>2. LogKeptOrEmptied(s)
    BY <1>b, <2>1, DeleteSlugRows DEF LogKeptOrEmptied
  <2>3. SnapshotsKept(s)
    BY <2>1, FlushVarsKept
  <2>. QED  BY <1>a, <1>b, <2>1, <2>2, <2>3, OrderedKept
<1>16. CASE Shutdown \/ UNCHANGED vars
  BY <1>16, <1>c DEF Shutdown, vars
<1>. QED
  BY <1>1, <1>2, <1>3, <1>4, <1>5, <1>6, <1>7, <1>8, <1>9, <1>10, <1>11,
     <1>12, <1>13, <1>14, <1>15, <1>16
     DEF Next, Crash, Exit, Tick, FinalFlush, Flushers
-----------------------------------------------------------------------------
(* The theorems about order.                                               *)

LEMMA InitOrder == Init => OrderInvariant
<1> SUFFICES ASSUME Init, NEW s \in Slugs  PROVE Ordered(s)
  BY DEF OrderInvariant
<1>1. /\ db.events[s] = <<>>
      /\ mem[s].events = <<>>
      /\ live = {}
      /\ \A f \in Flushers : pending[f] = {}
  BY DEF Init, EmptyDatabase, NoEntry, NewEntry
<1>2. LogOrdered(s) /\ BufferOrdered(s)
  BY <1>1, IncreasingEmpty DEF LogOrdered, BufferOrdered, Saved, UpTo
<1>. QED  BY <1>1, <1>2 DEF Ordered, Fresh, SnapshotOrdered

\* Buffers, snapshots and the log of every slug that no race has spoiled are
\* in the order of the hits, and a flush writes only what is newer than the
\* log.
THEOREM OrderKept == Spec => []OrderInvariant
<1>1. Spec => [](TypeOK /\ FlushInvariant)
  BY TypeCorrect, FlushCorrect, PTL
<1>2. TypeOK /\ FlushInvariant /\ TypeOK' /\ OrderInvariant /\ [Next]_vars
        => OrderInvariant'
  BY OrderStep DEF FlushInvariant
<1>. QED  BY <1>1, <1>2, InitOrder, PTL DEF Spec

\* No hit is in SQLite twice, whatever was retried, evicted while a flush was
\* writing, or loaded again after a restart.
THEOREM NoHitSavedTwice == Spec => []NoDuplicateRows
<1>1. TypeOK /\ OrderInvariant => NoDuplicateRows
  <2> SUFFICES ASSUME TypeOK, OrderInvariant, NEW s \in Slugs, s \notin raced
               PROVE  IsInjective(db.events[s])
    BY DEF NoDuplicateRows
  <2>1. Increasing(db.events[s]) /\ db.events[s] \in Seq(Hit)
    BY SlugTypes DEF OrderInvariant, Ordered, LogOrdered
  <2>. QED  BY <2>1 DEF Increasing, IsInjective, Hit
<1>. QED  BY <1>1, OrderKept, TypeCorrect, PTL

\* GetEvents shows the hits in the order in which they arrived, also those
\* that LoadFrom brought back.
THEOREM BuffersInOrder == Spec => []BufferInOrder
<1>1. TypeOK /\ OrderInvariant => BufferInOrder
  BY DEF TypeOK, OrderInvariant, Ordered, BufferOrdered, Increasing,
         BufferInOrder
<1>. QED  BY <1>1, OrderKept, TypeCorrect, PTL
-----------------------------------------------------------------------------
(* A slug that is not in the map has no entry.                             *)

AbsentEmpty ==
  /\ ~up => live = {}
  /\ \A s \in Slugs \ live : mem[s] = NoEntry

LEMMA AbsentStep ==
  ASSUME TypeOK, FlushShape, AbsentEmpty, [Next]_vars
  PROVE  AbsentEmpty'
<1> USE DEF processVars, memVars, flushVars, historyVars
<1>1. CASE Start \/ ProcessEnds
  BY <1>1 DEF Start, ProcessEnds, AbsentEmpty
<1>2. ASSUME UNCHANGED <<up, live>>, \A s \in Slugs \ live : mem'[s] = mem[s]
      PROVE  AbsentEmpty'
  BY <1>2 DEF AbsentEmpty
<1>3. ASSUME NEW f \in Flushers, CollectDirtySnapshots(f)  PROVE AbsentEmpty'
  BY <1>2, <1>3, CollectFacts
<1>4. CASE Cleanup
  BY <1>4 DEF Cleanup, AbsentEmpty
<1>5. CASE PurgeExpired \/ PurgeExpiredFails \/ LoopReturns \/ Shutdown
           \/ UNCHANGED vars
  BY <1>2, <1>5 DEF PurgeExpired, PurgeExpiredFails, LoopReturns, Shutdown, vars
<1>6. ASSUME NEW f \in Flushers, FlushEvents(f) \/ FlushFails(f)
      PROVE  AbsentEmpty'
  BY <1>2, <1>6 DEF FlushEvents, FlushFails
<1>7. ASSUME NEW f \in Flushers, Book(f)  PROVE AbsentEmpty'
  <2>1. \A s \in Slugs \ live : mem'[s] = mem[s]
    BY <1>7 DEF Book, TypeOK
  <2>. QED  BY <1>2, <1>7, <2>1, BookFacts
<1>8. ASSUME NEW f \in Flushers, NEW t \in Slugs, FlushSlug(f, t)
      PROVE  AbsentEmpty'
  BY <1>2, <1>8, FlushSlugFacts
<1>9. ASSUME NEW t \in Slugs,
             \/ Expire(t) \/ Record(t) \/ RecordPanicRecovered(t)
             \/ ClearEvents(t) \/ DeleteCheckOwner(t)
             \/ DeleteFromStore(t) \/ DeleteFromStoreFails(t)
      PROVE  AbsentEmpty'
  BY <1>2, <1>9 DEF Expire, Record, RecordPanicRecovered, ClearEvents,
     DeleteCheckOwner, DeleteFromStore, DeleteFromStoreFails, TypeOK
<1>10. ASSUME NEW t \in Slugs, CreateSlug(t) \/ DeleteFromRegistry(t)
       PROVE  AbsentEmpty'
  BY <1>10 DEF CreateSlug, DeleteFromRegistry, AbsentEmpty, TypeOK
<1>. QED
  BY <1>1, <1>3, <1>4, <1>5, <1>6, <1>7, <1>8, <1>9, <1>10
     DEF Next, Crash, Exit, Tick, FinalFlush, Flushers

LEMMA AbsentNothing ==
  ASSUME AbsentEmpty, NEW s \in Slugs, s \notin live
  PROVE  mem[s].events = <<>> /\ Range(mem[s].events) = {}
<1>1. mem[s] = NoEntry
  BY DEF AbsentEmpty
<1>2. NoEntry.events = <<>>
  BY DEF NoEntry, NewEntry
<1>. QED  BY <1>1, <1>2, IncreasingEmpty
-----------------------------------------------------------------------------
(* Buffers as the sets that DurableLog sees.                               *)

LEMMA BufferCount ==
  ASSUME NEW q \in Seq(Hit), Increasing(q)
  PROVE  Cardinality(Range(q)) = Len(q)
<1>1. Len(q) \in Nat /\ q \in [1..Len(q) -> Range(q)]
  BY DEF Range
<1>2. IsInjective(q)
  BY DEF Increasing, IsInjective, Hit
<1>3. \A h \in Range(q) : \E i \in 1..Len(q) : q[i] = h
  BY DEF Range
<1>4. q \in Bijection(1..Len(q), Range(q))
  BY <1>1, <1>2, <1>3 DEF Bijection, Injection, Surjection
<1>5. ExistsBijection(1..Len(q), Range(q))
  BY <1>4 DEF ExistsBijection
<1>. QED  BY <1>1, <1>5, FS_CountingElements

\* An eviction drops the oldest hit.
LEMMA TailDropsOldest ==
  ASSUME NEW q \in Seq(Hit), Increasing(q), q # <<>>
  PROVE  Range(Tail(q)) = Range(q) \ Promise!Oldest(Range(q))
<1>1. /\ Len(q) \in Nat
      /\ 1 \in DOMAIN q
      /\ DOMAIN q = 1..Len(q)
      /\ DOMAIN Tail(q) = 1..(Len(q) - 1)
      /\ \A i \in 1..(Len(q) - 1) : Tail(q)[i] = q[i + 1]
      /\ \A i \in DOMAIN q : q[i] \in Nat
  BY DEF Hit
<1>2. \A i \in DOMAIN q : q[1] <= q[i] /\ (i # 1 => q[1] < q[i])
  BY <1>1 DEF Increasing
<1>3. Promise!Oldest(Range(q)) = {q[1]}
  <2>1. q[1] \in Promise!Oldest(Range(q))
    BY <1>1, <1>2 DEF Promise!Oldest, Range
  <2>2. ASSUME NEW h \in Promise!Oldest(Range(q))  PROVE h = q[1]
    <3>1. PICK i \in DOMAIN q : h = q[i]
      BY <2>2 DEF Promise!Oldest, Range
    <3>2. h <= q[1]
      BY <1>1, <2>2 DEF Promise!Oldest, Range
    <3>. QED  BY <1>1, <1>2, <3>1, <3>2
  <2>. QED  BY <2>1, <2>2
<1>4. ASSUME NEW h \in Range(Tail(q))  PROVE h \in Range(q) /\ h # q[1]
  <2>1. PICK i \in 1..(Len(q) - 1) : h = q[i + 1]
    BY <1>1, <1>4 DEF Range
  <2>2. i + 1 \in DOMAIN q /\ i + 1 # 1
    BY <1>1
  <2>. QED  BY <1>1, <1>2, <2>1, <2>2 DEF Range
<1>5. ASSUME NEW h \in Range(q), h # q[1]  PROVE h \in Range(Tail(q))
  <2>1. PICK i \in DOMAIN q : h = q[i]
    BY <1>5 DEF Range
  <2>2. i # 1 /\ i - 1 \in 1..(Len(q) - 1) /\ (i - 1) + 1 = i
    BY <1>1, <1>5, <2>1
  <2>3. Tail(q)[i - 1] = h
    BY <1>1, <2>1, <2>2
  <2>. QED  BY <1>1, <2>2, <2>3 DEF Range
<1>. QED  BY <1>3, <1>4, <1>5
-----------------------------------------------------------------------------
(* The kinds of steps that DurableLog knows.                               *)

\* Everything that the steps of DurableLog are shown from.
LogInvariant == TypeOK /\ FlushInvariant /\ OrderInvariant /\ AbsentEmpty

LEMMA Mapped ==
  /\ \A s \in Slugs :
       /\ Held[s] = IF s \in Promised THEN Range(mem[s].events) ELSE {}
       /\ Logged[s] = IF s \in Promised THEN db.events[s] ELSE <<>>
  /\ Held = [s \in Slugs |-> Held[s]]
  /\ Logged = [s \in Slugs |-> Logged[s]]
BY DEF Held, Logged

LEMMA MappedNext ==
  /\ \A s \in Slugs :
       /\ Held'[s] = IF s \in Promised' THEN Range(mem'[s].events) ELSE {}
       /\ Logged'[s] = IF s \in Promised' THEN db'.events[s] ELSE <<>>
  /\ Held' = [s \in Slugs |-> Held'[s]]
  /\ Logged' = [s \in Slugs |-> Logged'[s]]
BY DEF Held, Logged

\* Two functions of slugs that agree everywhere.
LEMMA SameHeld ==
  ASSUME NEW F, \A s \in Slugs : Held'[s] = F[s], F = [s \in Slugs |-> F[s]]
  PROVE  Held' = F
BY MappedNext

LEMMA SameLogged ==
  ASSUME NEW F, \A s \in Slugs : Logged'[s] = F[s], F = [s \in Slugs |-> F[s]]
  PROVE  Logged' = F
BY MappedNext

LEMMA HeldExcept ==
  ASSUME NEW s \in Slugs, NEW x
  PROVE  [Held EXCEPT ![s] = x] = [t \in Slugs |-> IF t = s THEN x ELSE Held[t]]
BY Mapped

LEMMA LoggedExcept ==
  ASSUME NEW s \in Slugs, NEW x
  PROVE  [Logged EXCEPT ![s] = x] =
           [t \in Slugs |-> IF t = s THEN x ELSE Logged[t]]
BY Mapped

\* A deletion that has reached the store and was not overtaken by a flush.
\* Nothing but a successful deletion changes this set.
LEMMA GoneKept ==
  ASSUME FlushInvariant, NEW s \in Slugs, s \in deleted \ raced
  PROVE  /\ s \notin live
         /\ s \notin db.slugs
         /\ db.events[s] = <<>>
         /\ ~InFlight(s)
BY DEF FlushInvariant, DeleteIsFinal, Gone, DeletedNotPending, InFlight

\* Hidden steps: the promised slugs keep their buffers and their rows.
LEMMA Stutter ==
  ASSUME hits' = hits, deleted' \ raced' = deleted \ raced,
         raced' \cup expired' = raced \cup expired,
         \A s \in Promised : /\ mem'[s].events = mem[s].events
                             /\ db'.events[s] = db.events[s]
  PROVE  UNCHANGED Promise!vars
<1>1. Promised' = Promised
  BY DEF Promised
<1>2. ASSUME NEW s \in Slugs  PROVE Held'[s] = Held[s] /\ Logged'[s] = Logged[s]
  <2>1. CASE s \in Promised
    BY <1>1, <2>1, Mapped, MappedNext, Zenon
  <2>2. CASE s \notin Promised
    BY <1>1, <2>2, Mapped, MappedNext, Zenon
  <2>. QED  BY <2>1, <2>2
<1>3. Held' = Held /\ Logged' = Logged
  <2>1. Held' = [s \in Slugs |-> Held'[s]] /\ Held = [s \in Slugs |-> Held[s]]
    BY Mapped, MappedNext
  <2>2. Logged' = [s \in Slugs |-> Logged'[s]] /\ Logged = [s \in Slugs |-> Logged[s]]
    BY Mapped, MappedNext
  <2>. QED  BY <1>2, <2>1, <2>2
<1>. QED  BY <1>3 DEF Promise!vars

\* Slugs about which nothing is promised any more.
LEMMA Released ==
  ASSUME NEW S \in SUBSET Slugs, hits' = hits,
         deleted' \ raced' = deleted \ raced,
         raced' \cup expired' = raced \cup expired \cup S,
         \A s \in Promised \ S : /\ mem'[s].events = mem[s].events
                                 /\ db'.events[s] = db.events[s]
  PROVE  Promise!Release(S)
<1> DEFINE H == [s \in Slugs |-> IF s \in S THEN {} ELSE Held[s]]
           L == [s \in Slugs |-> IF s \in S THEN <<>> ELSE Logged[s]]
<1>1. Promised' = Promised \ S
  BY DEF Promised
<1>2. \A s \in Slugs : Held'[s] = H[s] /\ Logged'[s] = L[s]
  BY <1>1, Mapped, MappedNext
<1>3. Held' = H /\ Logged' = L
  BY <1>2, SameHeld, SameLogged, ZenonT(30)
<1>. QED  BY <1>3 DEF Promise!Release

\* A buffer that is emptied, of whichever slug.
LEMMA Emptied ==
  ASSUME NEW s \in Slugs, hits' = hits, db' = db,
         UNCHANGED <<expired, raced, deleted>>,
         mem'[s].events = <<>>,
         \A t \in Slugs \ {s} : mem'[t] = mem[t]
  PROVE  Promise!Empty(s)
<1>1. Promised' = Promised
  BY DEF Promised
<1>2. Held'[s] = {} /\ \A t \in Slugs \ {s} : Held'[t] = Held[t]
  BY <1>1, Mapped, MappedNext, IncreasingEmpty
<1>3. \A t \in Slugs : Logged'[t] = Logged[t]
  BY <1>1, Mapped, MappedNext
<1>4. Held' = [Held EXCEPT ![s] = {}]
  <2> DEFINE H == [t \in Slugs |-> IF t = s THEN {} ELSE Held[t]]
  <2>1. \A t \in Slugs : Held'[t] = H[t]
    BY <1>2
  <2>2. Held' = H
    BY <2>1, SameHeld
  <2>. QED  BY <2>2, HeldExcept
<1>5. Logged' = Logged
  BY <1>3, Mapped, SameLogged
<1>. QED  BY <1>4, <1>5 DEF Promise!Empty

\* store.DeleteSlug of a slug that no flush is writing.
LEMMA Deletion ==
  ASSUME LogInvariant, NEW s \in Slugs, DeleteFromStore(s), s \notin raced',
         s \notin raced
  PROVE  Promise!Delete(s)
<1>1. /\ db' = DeleteSlug(db, s)
      /\ deleted' = deleted \cup {s}
      /\ raced' = raced
      /\ UNCHANGED <<mem, hits, expired>>
      /\ del[s] = "removed"
  BY DEF DeleteFromStore, memVars
<1>2. db'.events[s] = <<>> /\ \A t \in Slugs \ {s} : db'.events[t] = db.events[t]
  BY <1>1, DeleteSlugRows DEF LogInvariant, TypeOK
<1>3. Promised' = Promised
  BY <1>1 DEF Promised
<1>4. Range(mem[s].events) = {}
  BY <1>1, AbsentNothing DEF LogInvariant, FlushInvariant, CreatedFirst
<1>5. Held[s] = {}
  BY <1>4, Mapped
<1>6. \A t \in Slugs : Held'[t] = Held[t]
  BY <1>1, <1>3, Mapped, MappedNext, Zenon
<1>7. Held' = Held
  BY <1>6, Mapped, SameHeld
<1>8. Logged' = [Logged EXCEPT ![s] = <<>>]
  <2> DEFINE L == [t \in Slugs |-> IF t = s THEN <<>> ELSE Logged[t]]
  <2>1. \A t \in Slugs : Logged'[t] = L[t]
    BY <1>2, <1>3, Mapped, MappedNext
  <2>2. Logged' = L
    BY <2>1, SameLogged
  <2>. QED  BY <2>2, LoggedExcept
<1>9. deleted' \ raced' = (deleted \ raced) \cup {s}
  BY <1>1
<1>. QED  BY <1>1, <1>5, <1>7, <1>8, <1>9 DEF Promise!Delete

\* LoadFrom brings back what SQLite holds: rows have a slug row.
LEMMA Loading ==
  ASSUME LogInvariant, Start
  PROVE  Promise!Restart
<1>1. /\ live = {}
      /\ \A s \in Slugs : mem'[s] = IF s \in LoadSlugs(db, expired)
                                    THEN LoadedEntry(LoadEvents(db, s))
                                    ELSE NoEntry
      /\ UNCHANGED <<db, hits, expired, raced, deleted>>
  BY DEF Start, LogInvariant, AbsentEmpty, historyVars
<1>2. Promised' = Promised
  BY <1>1 DEF Promised
<1>3. Held = [s \in Slugs |-> {}]
  <2>1. \A s \in Slugs : Range(mem[s].events) = {}
    BY <1>1, AbsentNothing DEF LogInvariant
  <2>. QED  BY <2>1 DEF Held
<1>4. ASSUME NEW s \in Slugs
      PROVE  Held'[s] = {Logged[s][i] : i \in DOMAIN Logged[s]}
  <2>1. CASE s \notin Promised
    <3>1. Held'[s] = {} /\ Logged[s] = <<>>
      BY <1>2, <2>1, Mapped, MappedNext
    <3>. QED  BY <3>1
  <2>2. CASE s \in Promised /\ s \in db.slugs
    <3>1. s \in LoadSlugs(db, expired)
      BY <2>2 DEF LoadSlugs, Promised
    <3>2. mem'[s].events = db.events[s]
      <4>1. mem'[s] = LoadedEntry(db.events[s])
        BY <1>1, <3>1, Zenon DEF LoadEvents
      <4>. QED  BY <4>1 DEF LoadedEntry
    <3>3. Held'[s] = Range(db.events[s]) /\ Logged[s] = db.events[s]
      BY <1>2, <2>2, <3>2, Mapped, MappedNext
    <3>. QED  BY <3>3 DEF Range
  <2>3. CASE s \in Promised /\ s \notin db.slugs
    <3>1. s \notin LoadSlugs(db, expired)
      BY <2>3 DEF LoadSlugs
    <3>2. mem'[s] = NoEntry
      BY <1>1, <3>1
    <3>3. mem'[s].events = <<>>
      BY <3>2 DEF NoEntry, NewEntry
    <3>4. db.events[s] = <<>>
      BY <2>3 DEF Promised, LogInvariant, FlushInvariant, NoOrphanRows
    <3>5. Held'[s] = {} /\ Logged[s] = <<>>
      BY <1>2, <2>3, <3>3, <3>4, Mapped, MappedNext, IncreasingEmpty
    <3>. QED  BY <3>5
  <2>. QED  BY <2>1, <2>2, <2>3
<1>5. Held' = [s \in Slugs |-> {Logged[s][i] : i \in DOMAIN Logged[s]}]
  <2> DEFINE H == [s \in Slugs |-> {Logged[s][i] : i \in DOMAIN Logged[s]}]
  <2>1. \A s \in Slugs : Held'[s] = H[s]
    BY <1>4
  <2>. QED  BY <2>1, SameHeld
<1>6. Logged' = Logged
  <2>1. \A s \in Slugs : Logged'[s] = Logged[s]
    BY <1>1, <1>2, Mapped, MappedNext, Zenon
  <2>. QED  BY <2>1, Mapped, SameLogged
<1>. QED  BY <1>1, <1>3, <1>5, <1>6 DEF Promise!Restart

LEMMA Ending ==
  ASSUME ProcessEnds
  PROVE  Promise!ProcessEnds
<1>1. /\ \A s \in Slugs : mem'[s] = NoEntry
      /\ UNCHANGED <<db, hits, expired, raced, deleted>>
  BY DEF ProcessEnds, historyVars
<1>2. Promised' = Promised
  BY <1>1 DEF Promised
<1>3. NoEntry.events = <<>>
  BY DEF NoEntry, NewEntry
<1>4. \A s \in Slugs : Held'[s] = {}
  BY <1>1, <1>3, MappedNext, IncreasingEmpty, Zenon
<1>5. Held' = [s \in Slugs |-> {}]
  BY <1>4, MappedNext
<1>6. Logged' = Logged
  <2>1. \A s \in Slugs : Logged'[s] = Logged[s]
    BY <1>1, <1>2, Mapped, MappedNext, Zenon
  <2>. QED  BY <2>1, Mapped, SameLogged
<1>. QED  BY <1>1, <1>5, <1>6 DEF Promise!ProcessEnds

\* A buffer is full for recordEvent when it is full for DurableLog.
LEMMA SameFull ==
  ASSUME LogInvariant, NEW s \in Promised
  PROVE  /\ mem[s].events \in Seq(Hit)
         /\ Increasing(mem[s].events)
         /\ Held[s] = Range(mem[s].events)
         /\ Promise!Full(s) <=> Full(mem[s])
<1>1. s \in Slugs /\ s \notin raced
  BY DEF Promised
<1>2. mem[s].events \in Seq(Hit) /\ Increasing(mem[s].events)
  BY <1>1, SlugTypes, EntryFields
     DEF LogInvariant, OrderInvariant, Ordered, BufferOrdered
<1>3. Held[s] = Range(mem[s].events)
  BY <1>1, Mapped
<1>4. Cardinality(Held[s]) = Len(mem[s].events)
  BY <1>2, <1>3, BufferCount
<1>5. Promise!Full(s) <=> Full(mem[s])
  <2>1. Promise!Full(s) <=> Cardinality(Held[s]) >= MaxEvents
    <3>1. Promise!Cardinality(Held[s]) = Cardinality(Held[s])
      BY DEF Promise!Cardinality, Cardinality
    <3>. QED  BY <3>1 DEF Promise!Full
  <2>2. Full(mem[s]) <=> Len(mem[s].events) >= MaxEvents
    BY DEF Full
  <2>. QED  BY <1>4, <2>1, <2>2
<1>. QED  BY <1>2, <1>3, <1>5, Zenon

\* recordEvent, also when make() panics: then the buffer is full and refuses.
LEMMA Arrival ==
  ASSUME LogInvariant, NEW s \in Slugs, Record(s) \/ RecordPanicRecovered(s)
  PROVE  Promise!Arrive(s)
<1>1. /\ hits' = [hits EXCEPT ![s] = @ + 1]
      /\ \A t \in Slugs \ {s} : mem'[t] = mem[t]
      /\ UNCHANGED <<db, expired, raced, deleted>>
      /\ mem[s] \in Entry
      /\ hits[s] + 1 \in Hit
  BY DEF Record, RecordPanicRecovered, historyVars, LogInvariant, TypeOK, Hit
<1>2. Promised' = Promised
  BY <1>1 DEF Promised
<1>3. Logged' = Logged
  <2>1. \A t \in Slugs : Logged'[t] = Logged[t]
    BY <1>1, <1>2, Mapped, MappedNext, Zenon
  <2>. QED  BY <2>1, Mapped, SameLogged
<1>4. \A t \in Slugs \ {s} : Held'[t] = Held[t]
  BY <1>1, <1>2, Mapped, MappedNext, ZenonT(30)
<1>5. UNCHANGED <<deleted \ raced, raced \cup expired>>
  BY <1>1
<1>6. CASE s \notin Promised
  <2>1. Held'[s] = Held[s]
    BY <1>2, <1>6, Mapped, MappedNext, Zenon
  <2>2. Held' = Held
    <3>1. \A t \in Slugs : Held'[t] = Held[t]
      BY <1>4, <2>1
    <3>. QED  BY <3>1, Mapped, SameHeld
  <2>3. s \in raced \cup expired
    BY <1>6 DEF Promised
  <2>. QED  BY <1>1, <1>3, <1>5, <2>2, <2>3 DEF Promise!Arrive
<1>7. CASE s \in Promised /\ RecordPanicRecovered(s)
  <2>1. MakePanics(mem[s]) /\ mem'[s] = EvictionCounted(mem[s])
    BY <1>7 DEF RecordPanicRecovered, LogInvariant, TypeOK
  <2>2. Promise!Full(s)
    BY <1>7, <2>1, SameFull DEF MakePanics
  <2>3. mem'[s].events = mem[s].events
    BY <1>1, <2>1, EvictionCountedFields
  <2>4. Held'[s] = Held[s]
    BY <1>2, <1>7, <2>3, Mapped, MappedNext, Zenon
  <2>5. Held' = Held
    <3>1. \A t \in Slugs : Held'[t] = Held[t]
      BY <1>4, <2>4
    <3>. QED  BY <3>1, Mapped, SameHeld
  <2>. QED  BY <1>1, <1>3, <1>5, <2>2, <2>5 DEF Promise!Arrive
<1>8. CASE s \in Promised /\ Record(s)
  <2> DEFINE q == mem[s].events
             h == hits[s] + 1
             kept == IF Promise!Full(s) THEN Held[s] \ Promise!Oldest(Held[s])
                                        ELSE Held[s]
  <2>1. /\ mem'[s] = Recorded(mem[s], h)
        /\ ~MakePanics(mem[s])
    BY <1>8 DEF Record, LogInvariant, TypeOK
  <2>2. q \in Seq(Hit) /\ Increasing(q) /\ Held[s] = Range(q)
    BY <1>8, SameFull
  <2>3. ASSUME NEW p \in Seq(Hit)
        PROVE  Range(Append(p, h)) = Range(p) \cup {h}
    BY <1>1 DEF Range
  <2>4. Range(mem'[s].events) = kept \cup {h}
    <3>1. CASE Full(mem[s])
      <4>1. mem'[s].events = Append(Tail(q), h) /\ q # <<>>
        BY <1>1, <2>1, <3>1, RecordedEvicting, ZenonT(30)
      <4>2. Range(Tail(q)) = kept
        BY <1>8, <2>2, <3>1, <4>1, SameFull, TailDropsOldest
      <4>3. Tail(q) \in Seq(Hit)
        BY <2>2, <4>1
      <4> HIDE DEF q, h, kept
      <4>. QED  BY <2>3, <4>1, <4>2, <4>3
    <3>2. CASE ~Full(mem[s])
      <4>1. mem'[s].events = Append(q, h)
        BY <1>1, <2>1, <3>2, RecordedWithRoom, ZenonT(30)
      <4>2. kept = Range(q)
        BY <1>8, <2>2, <3>2, SameFull
      <4> HIDE DEF q, h, kept
      <4>. QED  BY <2>2, <2>3, <4>1, <4>2
    <3>. QED  BY <3>1, <3>2
  <2>5. Held'[s] = kept \cup {h}
    BY <1>2, <1>8, <2>4, MappedNext, Zenon
  <2>6. Held' = [Held EXCEPT ![s] = kept \cup {h}]
    <3> HIDE DEF kept, h
    <3> DEFINE H == [t \in Slugs |-> IF t = s THEN kept \cup {h} ELSE Held[t]]
    <3>1. \A t \in Slugs : Held'[t] = H[t]
      BY <1>4, <2>5
    <3>2. Held' = H
      BY <3>1, SameHeld
    <3>. QED  BY <3>2, HeldExcept
  <2>7. s \notin raced \cup expired
    BY <1>8 DEF Promised
  <2>. QED  BY <1>1, <1>3, <1>5, <2>6, <2>7, Zenon DEF Promise!Arrive
<1>. QED  BY <1>6, <1>7, <1>8

\* InsertEvents of a promised slug, with rows to write.
LEMMA Saving ==
  ASSUME LogInvariant, OrderInvariant', NEW f \in Flushers, FlushEvents(f),
         cur[f] \in Promised, snap[f][cur[f]].rows # <<>>
  PROVE  Promise!Save(cur[f])
<1> DEFINE s == cur[f]
           rows == snap[f][cur[f]].rows
<1>a. TypeOK /\ FlushInvariant /\ OrderInvariant /\ AbsentEmpty /\ FlushShape
  BY DEF LogInvariant, FlushInvariant
<1>1. /\ s \in pending[f]
      /\ s \in Slugs
      /\ pc[f] = "insertEvents"
      /\ Saved(db', s) = Saved(db, s) \cup Range(rows)
      /\ \A t \in Slugs \ {s} : db'.events[t] = db.events[t]
      /\ UNCHANGED <<mem, expired, raced, deleted>>
  BY <1>a, FlushEventsFacts
<1>2. hits' = hits /\ db' = InsertEvents(db, s, rows)
  BY Zenon DEF FlushEvents
<1>3. /\ s \notin raced
      /\ s \notin expired
      /\ Promised' = Promised
  BY <1>1 DEF Promised
<1>4. /\ db.events[s] \in Seq(Hit)
      /\ rows \in Seq(Hit)
      /\ hits[s] \in Nat
      /\ db \in Database
  BY <1>a, <1>1, SlugTypes
<1>5. db'.events[s] = db.events[s] \o rows
  BY <1>1, <1>2, <1>4, InsertEventsLog
<1>6. Logged[s] = db.events[s] /\ Logged'[s] = db'.events[s]
  BY <1>1, <1>3, Mapped, MappedNext
<1>7. Increasing(Logged'[s]) /\ UpTo(Range(Logged'[s]), hits[s])
  BY <1>1, <1>2, <1>3, <1>6 DEF OrderInvariant, Ordered, LogOrdered, Saved
<1>8. Held[s] = Range(mem[s].events)
  BY <1>1, Mapped
<1>9. Held' = Held
  BY <1>1, <1>3 DEF Held
<1>10. s \notin deleted \ raced
  BY <1>a, <1>1 DEF FlushInvariant, DeletedNotPending
<1>11. ASSUME NEW h \in Range(mem[s].events), h \notin Saved(db', s)
       PROVE  \A g \in Range(rows) : g < h
  <2>1. s \in live
    BY <1>a, <1>1, <1>11, AbsentNothing
  <2>2. PrefixIn(mem[s], Covered(f, s), Saved(db, s) \cup Range(rows))
    <3>1. Unwritten(f, s) = Range(rows)
      BY <1>1 DEF Unwritten
    <3>2. SnapshotExact(f, s)
      BY <1>a, <1>3, <2>1 DEF FlushInvariant, BookkeepingExact, Accountable, Exact
    <3>. QED  BY <1>1, <3>1, <3>2 DEF SnapshotExact
  <2>3. RestAbove(mem[s], Covered(f, s), Saved(db, s) \cup Range(rows))
    BY <1>a, <1>1, <1>3, <2>1 DEF OrderInvariant, Ordered, SnapshotOrdered
  <2>4. PICK i \in DOMAIN mem[s].events : h = mem[s].events[i]
    BY <1>11 DEF Range
  <2>5. i \in Nat /\ i >= 1 /\ Covered(f, s) \in Int
    <3>1. mem[s].events \in Seq(Hit)
      BY <1>a, <1>1, SlugTypes, EntryFields
    <3>2. i \in Nat /\ i >= 1
      BY <2>4, <3>1
    <3>. QED  BY <1>a, <1>1, <3>2, CoveredType
  <2>6. i > Covered(f, s)
    BY <1>1, <1>11, <2>2, <2>4, <2>5 DEF PrefixIn
  <2>. QED  BY <2>3, <2>4, <2>6, Zenon DEF RestAbove
<1> HIDE DEF s, rows
<1>12. /\ Len(Logged[s]) < Len(Logged'[s])
       /\ \A i \in DOMAIN Logged[s] : Logged'[s][i] = Logged[s][i]
       /\ Logged'[s][Len(Logged'[s])] \in Range(rows)
       /\ Logged'[s] \in Seq(Hit)
  <2>1. Len(rows) \in Nat /\ Len(rows) > 0 /\ rows[Len(rows)] \in Range(rows)
    BY <1>4 DEF Range, rows
  <2>2. (db.events[s] \o rows)[Len(db.events[s]) + Len(rows)] = rows[Len(rows)]
    BY <1>4, <2>1
  <2>. QED  BY <1>4, <1>5, <1>6, <2>1, <2>2
<1>13. ASSUME NEW i \in DOMAIN Logged'[s]  PROVE Logged'[s][i] \in 1..hits[s]
  <2>1. Logged'[s][i] \in Range(Logged'[s]) /\ Logged'[s][i] \in Hit
    BY <1>12, <1>13 DEF Range
  <2>. QED  BY <1>4, <1>7, <2>1 DEF UpTo, Hit
<1>14. ASSUME NEW h \in Held[s], h <= Logged'[s][Len(Logged'[s])]
       PROVE  \E i \in DOMAIN Logged'[s] : Logged'[s][i] = h
  <2>1. h \in Nat /\ Logged'[s][Len(Logged'[s])] \in Nat
    <3>1. mem[s].events \in Seq(Hit)
      BY <1>a, <1>1, SlugTypes, EntryFields
    <3>2. h \in Nat
      BY <1>8, <1>14, <3>1, HitsAreNumbers
    <3>3. Logged'[s][Len(Logged'[s])] \in Nat
      BY <1>4, <1>12, HitsAreNumbers
    <3>. QED  BY <3>2, <3>3
  <2>2. h \in Saved(db', s)
    BY <1>8, <1>11, <1>12, <1>14, <2>1
  <2>. QED  BY <1>6, <2>2 DEF Saved, Range
<1>15. Logged' = [Logged EXCEPT ![s] = Logged'[s]]
  <2> DEFINE L == [t \in Slugs |-> IF t = s THEN Logged'[s] ELSE Logged[t]]
  <2>1. \A t \in Slugs : Logged'[t] = L[t]
    BY <1>1, <1>3, Mapped, MappedNext
  <2>2. Logged' = L
    BY <2>1, SameLogged
  <2>. QED  BY <1>1, <2>2, LoggedExcept
<1>16. UNCHANGED <<deleted \ raced, raced \cup expired>>
  BY <1>1
<1>17. Promise!Save(s)
  BY <1>2, <1>3, <1>7, <1>9, <1>10, <1>12, <1>13, <1>14, <1>15, <1>16
     DEF Promise!Save, Increasing
<1>. QED  BY <1>17 DEF s
-----------------------------------------------------------------------------
(* Persistence implements DurableLog.                                      *)

LEMMA InitialLog == Init => Promise!Init
<1> SUFFICES ASSUME Init  PROVE Promise!Init
  OBVIOUS
<1>1. \A s \in Slugs : mem[s].events = <<>> /\ db.events[s] = <<>>
  BY DEF Init, EmptyDatabase, NoEntry, NewEntry
<1>2. Held = [s \in Slugs |-> {}]
  BY <1>1, IncreasingEmpty DEF Held
<1>3. Logged = [s \in Slugs |-> <<>>]
  BY <1>1 DEF Logged
<1>. QED  BY <1>2, <1>3 DEF Promise!Init, Init

LEMMA StepOfLog ==
  ASSUME LogInvariant, OrderInvariant', [Next]_vars
  PROVE  [Promise!Next]_Promise!vars
<1> USE DEF processVars, memVars, flushVars, historyVars
<1>a. TypeOK /\ FlushInvariant /\ FlushShape /\ CreatedFirst /\ AbsentEmpty
  BY DEF LogInvariant, FlushInvariant
<1>b. Promised \subseteq Slugs
  BY DEF Promised
<1>1. CASE Start
  BY <1>1, Loading DEF Promise!Next
<1>2. CASE ProcessEnds
  BY <1>2, Ending DEF Promise!Next
<1>3. ASSUME NEW f \in Flushers, CollectDirtySnapshots(f)
      PROVE  [Promise!Next]_Promise!vars
  <2> DEFINE S == {s \in live : mem[s].dirty /\ InFlight(s)}
  <2>1. /\ raced' = raced \cup {s \in {t \in live : mem[t].dirty} : InFlight(s)}
        /\ UNCHANGED <<db, expired, hits, deleted>>
    BY <1>3, Zenon DEF CollectDirtySnapshots
  <2>2. raced' = raced \cup S /\ S \in SUBSET Slugs
    BY <1>a, <2>1 DEF TypeOK
  <2>3. ASSUME NEW s \in Slugs  PROVE mem'[s].events = mem[s].events
    <3>1. mem[s] \in Entry
      BY <1>a DEF TypeOK
    <3>2. mem'[s] = mem[s] \/ mem'[s] = [mem[s] EXCEPT !.evictedDuringFlush = 0]
      BY <1>a, <1>3, CollectFacts
    <3>. QED  BY <3>1, <3>2, CollectedFields
  <2>4. deleted' \ raced' = deleted \ raced
    <3>1. \A s \in S : s \notin deleted \ raced
      BY <1>a, <2>2, GoneKept
    <3>. QED  BY <2>1, <2>2, <3>1
  <2> HIDE DEF S
  <2>5. Promise!Release(S)
    BY <1>b, <2>1, <2>2, <2>3, <2>4, Released
  <2>. QED  BY <2>2, <2>5 DEF Promise!Next
<1>4. CASE Cleanup
  <2>1. /\ UNCHANGED <<db, expired, hits, raced, deleted>>
        /\ \A s \in Slugs : s \notin expired => mem'[s] = mem[s]
    BY <1>4 DEF Cleanup
  <2>2. \A s \in Promised : mem'[s] = mem[s] /\ db'.events[s] = db.events[s]
    BY <2>1 DEF Promised
  <2>. QED  BY <2>1, <2>2, Stutter
<1>5. CASE PurgeExpired
  <2>1. /\ db' = DeleteExpired(db, expired)
        /\ raced' = raced \cup {s \in ExpiredRows(db, expired) : InFlight(s)}
        /\ UNCHANGED <<mem, expired, hits, deleted>>
    BY <1>5, Zenon DEF PurgeExpired
  <2>2. /\ raced' \cup expired' = raced \cup expired
        /\ \A s \in raced' : s \in raced \/ s \in db.slugs
        /\ raced \subseteq raced'
    BY <2>1 DEF ExpiredRows
  <2>3. deleted' \ raced' = deleted \ raced
    <3>1. \A s \in db.slugs : s \notin deleted \ raced
      BY <1>a, GoneKept DEF TypeOK, Database
    <3>. QED  BY <2>1, <2>2, <3>1
  <2>4. \A s \in Promised : db'.events[s] = db.events[s]
    <3> SUFFICES ASSUME NEW s \in Promised  PROVE db'.events[s] = db.events[s]
      OBVIOUS
    <3>1. s \in Slugs /\ s \notin ExpiredRows(db, expired)
      BY DEF Promised, ExpiredRows
    <3>2. db \in Database /\ expired \in SUBSET Slugs
      BY <1>a DEF TypeOK
    <3>. QED  BY <2>1, <3>1, <3>2, DeleteExpiredRows
  <2>. QED  BY <2>1, <2>2, <2>3, <2>4, Stutter
<1>6. ASSUME NEW f \in Flushers, FlushEvents(f)
      PROVE  [Promise!Next]_Promise!vars
  <2>1. /\ cur[f] \in Slugs
        /\ \A t \in Slugs \ {cur[f]} : db'.events[t] = db.events[t]
        /\ UNCHANGED <<mem, expired, raced, deleted>>
    BY <1>a, <1>6, FlushEventsFacts
  <2>2. hits' = hits
    BY <1>6 DEF FlushEvents
  <2>3. CASE cur[f] \in Promised /\ snap[f][cur[f]].rows # <<>>
    BY <1>6, <2>1, <2>3, Saving DEF Promise!Next
  <2>4. CASE cur[f] \notin Promised
    <3>1. \A s \in Promised : db'.events[s] = db.events[s]
      BY <1>b, <2>1, <2>4
    <3>. QED  BY <2>1, <2>2, <3>1, Stutter
  <2>5. CASE snap[f][cur[f]].rows = <<>>
    <3>1. db' = InsertEvents(db, cur[f], <<>>)
      BY <1>6, <2>5, Zenon DEF FlushEvents
    <3>2. db'.events[cur[f]] = db.events[cur[f]] \o <<>>
      <4>1. <<>> \in Seq(Hit) /\ db \in Database
        BY <1>a DEF TypeOK
      <4>2. InsertEvents(db, cur[f], <<>>).events[cur[f]]
              = db.events[cur[f]] \o <<>>
        BY <2>1, <4>1, InsertEventsLog
      <4>. QED  BY <3>1, <4>2, Zenon
    <3>3. db'.events[cur[f]] = db.events[cur[f]]
      BY <1>a, <2>1, <3>2, SlugTypes
    <3>4. \A s \in Promised : db'.events[s] = db.events[s]
      BY <1>b, <2>1, <3>3
    <3>. QED  BY <2>1, <2>2, <3>4, Stutter
  <2>. QED  BY <2>3, <2>4, <2>5
<1>7. ASSUME NEW f \in Flushers, Book(f)  PROVE UNCHANGED Promise!vars
  <2>1. /\ UNCHANGED <<live, db, expired, raced, deleted>>
        /\ cur[f] \in Slugs
        /\ cur[f] \in live =>
             mem'[cur[f]] = Booked(mem[cur[f]], snap[f][cur[f]].len)
        /\ \A t \in Slugs \ {cur[f]} : mem'[t] = mem[t]
    BY <1>a, <1>7, BookFacts
  <2>2. hits' = hits /\ (cur[f] \notin live => mem' = mem)
    BY <1>7 DEF Book
  <2>3. mem'[cur[f]].events = mem[cur[f]].events
    <3>1. mem[cur[f]] \in Entry /\ snap[f][cur[f]].len \in Nat
      BY <1>a, <2>1, CoveredType
    <3>. QED  BY <2>1, <2>2, <3>1, BookedFields, ZenonT(30)
  <2>4. \A s \in Promised : mem'[s].events = mem[s].events
    BY <1>b, <2>1, <2>3
  <2>. QED  BY <2>1, <2>2, <2>4, Stutter
<1>8. ASSUME NEW f \in Flushers, NEW t \in Slugs, FlushSlug(f, t)
      PROVE  UNCHANGED Promise!vars
  <2>1. db'.events = db.events /\ UNCHANGED <<mem, expired, raced, deleted>>
    BY <1>a, <1>8, FlushSlugFacts
  <2>2. hits' = hits
    BY <1>8 DEF FlushSlug
  <2>. QED  BY <2>1, <2>2, Stutter
<1>9. ASSUME UNCHANGED <<mem, db, expired, hits, raced, deleted>>
      PROVE  UNCHANGED Promise!vars
  BY <1>9, Stutter
<1>10. CASE PurgeExpiredFails \/ LoopReturns \/ Shutdown \/ UNCHANGED vars
  BY <1>9, <1>10 DEF PurgeExpiredFails, LoopReturns, Shutdown, vars
<1>11. ASSUME NEW f \in Flushers, FlushFails(f)  PROVE UNCHANGED Promise!vars
  BY <1>9, <1>11 DEF FlushFails
<1>12. ASSUME NEW t \in Slugs, DeleteCheckOwner(t) \/ DeleteFromStoreFails(t)
       PROVE  UNCHANGED Promise!vars
  BY <1>9, <1>12 DEF DeleteCheckOwner, DeleteFromStoreFails
<1>13. ASSUME NEW t \in Slugs, Expire(t)  PROVE Promise!Next
  <2>1. /\ expired' = expired \cup {t}
        /\ UNCHANGED <<mem, db, hits, raced, deleted>>
    BY <1>13 DEF Expire
  <2>2. Promise!Release({t})
    BY <2>1, Released
  <2>. QED  BY <2>2 DEF Promise!Next
<1>14. ASSUME NEW t \in Slugs, CreateSlug(t)  PROVE UNCHANGED Promise!vars
  <2>1. /\ t \notin issued
        /\ mem'[t] = NewEntry
        /\ \A s \in Slugs \ {t} : mem'[s] = mem[s]
        /\ UNCHANGED <<db, expired, hits, raced, deleted>>
    BY <1>a, <1>14 DEF CreateSlug, TypeOK
  <2>2. mem'[t].events = <<>> /\ mem[t].events = <<>>
    BY <1>a, <2>1, AbsentNothing DEF CreatedFirst, NewEntry
  <2>3. \A s \in Promised : mem'[s].events = mem[s].events
    BY <1>b, <2>1, <2>2
  <2>. QED  BY <2>1, <2>3, Stutter
<1>15. ASSUME NEW t \in Slugs, Record(t) \/ RecordPanicRecovered(t)
       PROVE  Promise!Next
  BY <1>15, Arrival DEF Promise!Next
<1>16. ASSUME NEW t \in Slugs, ClearEvents(t)  PROVE Promise!Next
  <2>1. /\ mem' = [mem EXCEPT ![t] = Cleared(@)]
        /\ t \in live
        /\ raced' = IF InFlight(t) THEN raced \cup {t} ELSE raced
        /\ UNCHANGED <<db, expired, hits, deleted>>
    BY <1>16 DEF ClearEvents
  <2>2. mem'[t] = Cleared(mem[t]) /\ \A s \in Slugs \ {t} : mem'[s] = mem[s]
    BY <1>a, <2>1 DEF TypeOK
  <2>3. CASE InFlight(t)
    <3>1. deleted' \ raced' = deleted \ raced
      <4>1. t \notin deleted \ raced
        BY <1>a, <2>1, GoneKept
      <4>. QED  BY <2>1, <2>3, <4>1
    <3>2. raced' \cup expired' = raced \cup expired \cup {t}
      BY <2>1, <2>3
    <3>3. Promise!Release({t})
      BY <1>b, <2>1, <2>2, <3>1, <3>2, Released
    <3>. QED  BY <3>3 DEF Promise!Next
  <2>4. CASE ~InFlight(t)
    <3>1. Cleared(mem[t]).events = <<>>
      BY <1>a, SlugTypes, Zenon DEF Cleared, Entry
    <3>2. mem'[t].events = <<>>
      BY <2>2, <3>1
    <3>3. Promise!Empty(t)
      BY <2>1, <2>2, <2>4, <3>2, Emptied
    <3>. QED  BY <3>3 DEF Promise!Next
  <2>. QED  BY <2>3, <2>4
<1>17. ASSUME NEW t \in Slugs, DeleteFromRegistry(t)  PROVE Promise!Next
  <2>1. /\ mem'[t] = NoEntry
        /\ \A s \in Slugs \ {t} : mem'[s] = mem[s]
        /\ UNCHANGED <<db, expired, hits, raced, deleted>>
    BY <1>a, <1>17 DEF DeleteFromRegistry, TypeOK
  <2>2. mem'[t].events = <<>>
    BY <2>1 DEF NoEntry, NewEntry
  <2>3. Promise!Empty(t)
    BY <2>1, <2>2, Emptied
  <2>. QED  BY <2>3 DEF Promise!Next
<1>18. ASSUME NEW t \in Slugs, DeleteFromStore(t)
       PROVE  [Promise!Next]_Promise!vars
  <2>1. /\ db' = DeleteSlug(db, t)
        /\ deleted' = deleted \cup {t}
        /\ raced' = IF InFlight(t) THEN raced \cup {t} ELSE raced
        /\ UNCHANGED <<mem, expired, hits>>
    BY <1>18 DEF DeleteFromStore
  <2>2. \A s \in Slugs \ {t} : db'.events[s] = db.events[s]
    BY <1>a, <2>1, DeleteSlugRows DEF TypeOK
  <2>3. CASE t \in raced
    <3>1. deleted' \ raced' = deleted \ raced /\ raced' = raced
      BY <2>1, <2>3
    <3>2. \A s \in Promised : s \in Slugs \ {t}
      BY <2>3 DEF Promised
    <3>. QED  BY <2>1, <2>2, <3>1, <3>2, Stutter
  <2>4. CASE t \notin raced /\ InFlight(t)
    <3>1. deleted' \ raced' = deleted \ raced
      <4>1. t \notin deleted
        BY <1>a, <2>4, GoneKept
      <4>. QED  BY <2>1, <2>4, <4>1
    <3>2. raced' \cup expired' = raced \cup expired \cup {t}
      BY <2>1, <2>4
    <3>3. Promise!Release({t})
      BY <1>b, <2>1, <2>2, <3>1, <3>2, Released
    <3>. QED  BY <3>3 DEF Promise!Next
  <2>5. CASE t \notin raced /\ ~InFlight(t)
    <3>1. t \notin raced'
      BY <2>1, <2>5
    <3>. QED  BY <1>18, <2>5, <3>1, Deletion DEF Promise!Next
  <2>. QED  BY <2>3, <2>4, <2>5
<1>. QED
  BY <1>1, <1>2, <1>3, <1>4, <1>5, <1>6, <1>7, <1>8, <1>10, <1>11, <1>12,
     <1>13, <1>14, <1>15, <1>16, <1>17, <1>18
     DEF Next, Crash, Exit, Tick, FinalFlush, Flushers

LEMMA AbsentKept == Spec => []AbsentEmpty
<1>1. Init => AbsentEmpty
  BY DEF Init, AbsentEmpty
<1>2. TypeOK /\ FlushInvariant /\ AbsentEmpty /\ [Next]_vars => AbsentEmpty'
  BY AbsentStep DEF FlushInvariant
<1>. QED  BY <1>1, <1>2, TypeCorrect, FlushCorrect, PTL DEF Spec

\* Write-behind persistence is a durable log: snapshots written outside the
\* lock, counters, evictions, panics, failed and repeated flushes, crashes and
\* restarts amount to the steps of DurableLog and to nothing else.
THEOREM PersistenceRefines == Spec => ImplementsDurableLog
<1>1. LogInvariant /\ OrderInvariant' /\ [Next]_vars => [Promise!Next]_Promise!vars
  BY StepOfLog
<1>2. TypeOK /\ FlushInvariant /\ OrderInvariant /\ AbsentEmpty => LogInvariant
  BY DEF LogInvariant
<1>. QED
  BY <1>1, <1>2, InitialLog, TypeCorrect, FlushCorrect, OrderKept, AbsentKept,
     PTL DEF Spec, ImplementsDurableLog, Promise!Spec
=============================================================================
