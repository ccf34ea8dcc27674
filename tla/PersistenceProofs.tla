------------------------- MODULE PersistenceProofs -------------------------
(***************************************************************************)
(* What holds of Persistence for every set of slugs, every buffer limit    *)
(* and any number of hits, crashes and restarts.  First the facts about    *)
(* the operators of Store and Registry: the proofs about the concurrent    *)
(* system use PrefixIn and these lemmas and do not look into buffers.      *)
(***************************************************************************)
EXTENDS Persistence, SequenceTheorems, TLAPS

-----------------------------------------------------------------------------
(* Store and Registry: types.                                              *)

\* The fields of a slugEntry.
LEMMA EntryFields ==
  ASSUME NEW e \in Entry
  PROVE  /\ e.events \in Seq(Hit)
         /\ e.dirty \in BOOLEAN
         /\ e.flushedCount \in Nat
         /\ e.evictedDuringFlush \in Nat
         /\ Len(e.events) \in Nat
BY DEF Entry

\* CreateSlug, LoadFrom and the absence of an entry give entries.
LEMMA EntryTypes ==
  /\ NewEntry \in Entry
  /\ NoEntry \in Entry
  /\ \A rows \in Seq(Hit) : LoadedEntry(rows) \in Entry
<1>1. NewEntry \in Entry
  BY DEF NewEntry, Entry
<1>2. NoEntry \in Entry
  BY <1>1, Zenon DEF NoEntry, Entry
<1>3. ASSUME NEW rows \in Seq(Hit)  PROVE LoadedEntry(rows) \in Entry
  BY DEF LoadedEntry, Entry
<1>. QED  BY <1>1, <1>2, <1>3

\* recordEvent's counters: how an eviction changes an entry.
LEMMA EvictionCountedFields ==
  ASSUME NEW e \in Entry
  PROVE  /\ EvictionCounted(e) \in Entry
         /\ EvictionCounted(e).events = e.events
         /\ EvictionCounted(e).dirty = e.dirty
         /\ EvictionCounted(e).flushedCount =
              IF e.flushedCount > 0 THEN e.flushedCount - 1 ELSE 0
         /\ EvictionCounted(e).evictedDuringFlush = e.evictedDuringFlush + 1
<1>1. e.flushedCount \in Nat /\ e.evictedDuringFlush \in Nat
  BY EntryFields
<1>2. (IF e.flushedCount > 0 THEN e.flushedCount - 1 ELSE 0) \in Nat
  BY <1>1
<1>3. e.evictedDuringFlush + 1 \in Nat
  BY <1>1
<1>4. EvictionCounted(e) \in Entry
  BY <1>2, <1>3, Zenon DEF EvictionCounted, Entry
<1>. QED  BY <1>4, Zenon DEF EvictionCounted, Entry

\* recordEvent without eviction appends.
LEMMA RecordedWithRoom ==
  ASSUME NEW e \in Entry, NEW h \in Hit, ~Full(e)
  PROVE  /\ Recorded(e, h) \in Entry
         /\ Recorded(e, h).events = Append(e.events, h)
         /\ Recorded(e, h).dirty = TRUE
         /\ Recorded(e, h).flushedCount = e.flushedCount
         /\ Recorded(e, h).evictedDuringFlush = e.evictedDuringFlush
<1>1. Append(e.events, h) \in Seq(Hit)
  BY EntryFields
<1>2. Recorded(e, h) = [e EXCEPT !.events = Append(@, h), !.dirty = TRUE]
  BY Zenon DEF Recorded
<1>3. Recorded(e, h) \in Entry
  BY <1>1, <1>2, Zenon DEF Entry
<1>. QED  BY <1>2, <1>3, Zenon DEF Entry

\* recordEvent with eviction shifts the buffer by one; a full buffer for which
\* make() does not panic is not empty.
LEMMA RecordedEvicting ==
  ASSUME NEW e \in Entry, NEW h \in Hit, Full(e), ~MakePanics(e)
  PROVE  /\ Recorded(e, h) \in Entry
         /\ e.events # <<>>
         /\ Recorded(e, h).events = Append(Tail(e.events), h)
         /\ Recorded(e, h).dirty = TRUE
         /\ Recorded(e, h).flushedCount =
              IF e.flushedCount > 0 THEN e.flushedCount - 1 ELSE 0
         /\ Recorded(e, h).evictedDuringFlush = e.evictedDuringFlush + 1
<1> DEFINE c    == EvictionCounted(e)
           room == [c EXCEPT !.events = Tail(@)]
<1>1. e.events \in Seq(Hit) /\ e.events # <<>>
  BY EntryFields, MaxEventsAssumption DEF MakePanics, Full
<1>2. /\ c \in Entry
      /\ c.events = e.events
      /\ c.flushedCount = IF e.flushedCount > 0 THEN e.flushedCount - 1 ELSE 0
      /\ c.evictedDuringFlush = e.evictedDuringFlush + 1
  BY EvictionCountedFields
<1> HIDE DEF c
<1>3. Tail(c.events) \in Seq(Hit) /\ Append(Tail(c.events), h) \in Seq(Hit)
  BY <1>1, <1>2
<1>4. /\ room \in Entry
      /\ room.events = Tail(c.events)
      /\ room.flushedCount = c.flushedCount
      /\ room.evictedDuringFlush = c.evictedDuringFlush
  BY <1>2, <1>3, Zenon DEF Entry
<1>5. Recorded(e, h) = [room EXCEPT !.events = Append(@, h), !.dirty = TRUE]
  BY Zenon DEF Recorded, c
<1> HIDE DEF room
<1>6. /\ Recorded(e, h) \in Entry
      /\ Recorded(e, h).events = Append(room.events, h)
      /\ Recorded(e, h).dirty = TRUE
      /\ Recorded(e, h).flushedCount = room.flushedCount
      /\ Recorded(e, h).evictedDuringFlush = room.evictedDuringFlush
  BY <1>3, <1>4, <1>5, Zenon DEF Entry
<1>. QED  BY <1>1, <1>2, <1>4, <1>6, Zenon

\* ClearEvents keeps an entry an entry.
LEMMA ClearedType ==
  ASSUME NEW e \in Entry
  PROVE  Cleared(e) \in Entry
<1>1. <<>> \in Seq(Hit) /\ 0 \in Nat
  OBVIOUS
<1>. QED  BY <1>1, Zenon DEF Cleared, Entry

\* collectDirtySnapshots builds snapshots.
LEMMA SnapshotType ==
  ASSUME NEW e \in Entry
  PROVE  SnapshotOf(e) \in Snapshot
BY EntryFields DEF SnapshotOf, Snapshot

\* collectDirtySnapshots resets the eviction counter and nothing else.
LEMMA CollectedFields ==
  ASSUME NEW e \in Entry
  PROVE  LET c == [e EXCEPT !.evictedDuringFlush = 0]
         IN  /\ c \in Entry
             /\ c.events = e.events
             /\ c.dirty = e.dirty
             /\ c.flushedCount = e.flushedCount
             /\ c.evictedDuringFlush = 0
<1>1. 0 \in Nat
  OBVIOUS
<1>. QED  BY <1>1, Zenon DEF Entry

\* FlushTo's bookkeeping: what it leaves in the entry.
LEMMA BookedFields ==
  ASSUME NEW e \in Entry, NEW n \in Nat
  PROVE  /\ Booked(e, n) \in Entry
         /\ Booked(e, n).events = e.events
         /\ Booked(e, n).evictedDuringFlush = e.evictedDuringFlush
         /\ Booked(e, n).flushedCount =
              IF n > e.evictedDuringFlush THEN n - e.evictedDuringFlush ELSE 0
         /\ Booked(e, n).dirty =
              (Booked(e, n).flushedCount < Len(e.events))
<1> DEFINE flushed == IF n > e.evictedDuringFlush
                      THEN n - e.evictedDuringFlush ELSE 0
<1>1. flushed \in Nat
  BY EntryFields
<1>2. Booked(e, n) = [e EXCEPT !.flushedCount = flushed,
                               !.dirty = flushed < Len(e.events)]
  BY DEF Booked
<1> HIDE DEF flushed
<1>3. (flushed < Len(e.events)) \in BOOLEAN
  OBVIOUS
<1>4. /\ Booked(e, n) \in Entry
      /\ Booked(e, n).events = e.events
      /\ Booked(e, n).evictedDuringFlush = e.evictedDuringFlush
      /\ Booked(e, n).flushedCount = flushed
      /\ Booked(e, n).dirty = (flushed < Len(e.events))
  BY <1>1, <1>2, <1>3, Zenon DEF Entry
<1>. QED  BY <1>4, Zenon DEF flushed

\* The store's transactions keep a database a database.
LEMMA StoreTypes ==
  ASSUME NEW base \in Database
  PROVE  /\ \A s \in Slugs : InsertSlug(base, s) \in Database
         /\ \A s \in Slugs : DeleteSlug(base, s) \in Database
         /\ \A s \in Slugs, rows \in Seq(Hit) :
              InsertEvents(base, s, rows) \in Database
         /\ \A X \in SUBSET Slugs : DeleteExpired(base, X) \in Database
<1>1. ASSUME NEW s \in Slugs  PROVE InsertSlug(base, s) \in Database
  BY Zenon DEF InsertSlug, Database
<1>2. ASSUME NEW s \in Slugs  PROVE DeleteSlug(base, s) \in Database
  <2>1. <<>> \in Seq(Hit)
    OBVIOUS
  <2>. QED  BY <2>1, Zenon DEF DeleteSlug, Database
<1>3. ASSUME NEW s \in Slugs, NEW rows \in Seq(Hit)
      PROVE InsertEvents(base, s, rows) \in Database
  <2>1. base.events[s] \o rows \in Seq(Hit)
    BY DEF Database
  <2>. QED  BY <2>1, Zenon DEF InsertEvents, Database
<1>4. ASSUME NEW X \in SUBSET Slugs  PROVE DeleteExpired(base, X) \in Database
  BY DEF DeleteExpired, ExpiredRows, Database
<1>. QED  BY <1>1, <1>2, <1>3, <1>4
-----------------------------------------------------------------------------
(* Prefixes of the buffer.                                                 *)

\* A shorter prefix, a larger set; nothing is claimed of an empty prefix.
LEMMA PrefixWeaker ==
  ASSUME NEW e \in Entry, NEW S, NEW T, NEW m \in Int, NEW n \in Int,
         PrefixIn(e, n, S), m <= n, S \subseteq T
  PROVE  PrefixIn(e, m, T)
BY EntryFields DEF PrefixIn

LEMMA PrefixEmpty ==
  ASSUME NEW e \in Entry, NEW S, NEW n \in Int, n <= 0
  PROVE  PrefixIn(e, n, S)
BY EntryFields DEF PrefixIn

\* PrefixIn looks at the events of the entry only.
LEMMA PrefixSameEvents ==
  ASSUME NEW e, NEW d, NEW S, NEW n, d.events = e.events, PrefixIn(e, n, S)
  PROVE  PrefixIn(d, n, S)
BY Zenon DEF PrefixIn

\* The whole buffer as a prefix.
LEMMA PrefixAll ==
  ASSUME NEW e \in Entry, NEW S
  PROVE  PrefixIn(e, Len(e.events), S) <=> Range(e.events) \subseteq S
BY EntryFields DEF PrefixIn, Range

\* recordEvent without eviction leaves every prefix alone ...
LEMMA PrefixRecordedWithRoom ==
  ASSUME NEW e \in Entry, NEW h \in Hit, NEW S, NEW n \in Int,
         ~Full(e), PrefixIn(e, n, S)
  PROVE  PrefixIn(Recorded(e, h), n, S)
<1>1. e.events \in Seq(Hit) /\ Recorded(e, h).events = Append(e.events, h)
  BY EntryFields, RecordedWithRoom
<1>. QED  BY <1>1 DEF PrefixIn

\* ... and with eviction it shortens it by the oldest event.
LEMMA PrefixRecordedEvicting ==
  ASSUME NEW e \in Entry, NEW h \in Hit, NEW S, NEW n \in Int,
         Full(e), ~MakePanics(e), PrefixIn(e, n, S)
  PROVE  PrefixIn(Recorded(e, h), n - 1, S)
<1> DEFINE b == Append(Tail(e.events), h)
<1>1. /\ e.events \in Seq(Hit)
      /\ e.events # <<>>
      /\ Recorded(e, h).events = b
  BY EntryFields, RecordedEvicting
<1>2. Len(b) = Len(e.events)
  BY <1>1
<1>3. \A i \in 1..(Len(e.events) - 1) : b[i] = e.events[i + 1]
  BY <1>1
<1>4. n - 1 <= Len(b)
  BY <1>1, <1>2 DEF PrefixIn
<1>5. \A i \in 1..(n - 1) : b[i] \in S
  <2> SUFFICES ASSUME NEW i \in 1..(n - 1)  PROVE b[i] \in S
    OBVIOUS
  <2>1. i \in 1..(Len(e.events) - 1) /\ i + 1 \in 1..n
    BY <1>1 DEF PrefixIn
  <2>. QED  BY <1>3, <2>1 DEF PrefixIn
<1> HIDE DEF b
<1>. QED  BY <1>1, <1>4, <1>5, Zenon DEF PrefixIn

\* A snapshot: when the flushed prefix is in S, the whole buffer is in S or
\* among the rows that FlushTo is going to write.
LEMMA SnapshotComplete ==
  ASSUME NEW e \in Entry, NEW S, PrefixIn(e, e.flushedCount, S)
  PROVE  PrefixIn(e, SnapshotOf(e).len, S \cup Range(SnapshotOf(e).rows))
<1> DEFINE rows == SnapshotOf(e).rows
<1>1. /\ e.events \in Seq(Hit)
      /\ e.flushedCount \in Nat
      /\ e.flushedCount <= Len(e.events)
  BY EntryFields DEF PrefixIn
<1>2. SnapshotOf(e).len = Len(e.events)
  BY DEF SnapshotOf
<1>3. ASSUME NEW i \in 1..Len(e.events), i > e.flushedCount
      PROVE  e.events[i] \in Range(rows)
  <2> DEFINE m == e.flushedCount + 1
             n == Len(e.events)
             k == i - e.flushedCount
  <2>1. e.flushedCount < n
    BY <1>1, <1>3
  <2>2. rows = SubSeq(e.events, m, n)
    BY <2>1, Zenon DEF SnapshotOf
  <2> HIDE DEF rows
  <2>3. \A j \in m..n : e.events[j] \in Hit
    BY <1>1
  <2>4. /\ rows \in Seq(Hit)
        /\ Len(rows) = n - m + 1
        /\ \A j \in 1..(n - m + 1) : rows[j] = e.events[m + j - 1]
    BY <1>1, <2>1, <2>2, <2>3, SubSeqProperties, SMTT(30)
  <2>5. k \in 1..(n - m + 1) /\ m + k - 1 = i
    BY <1>1, <1>3
  <2>6. k \in DOMAIN rows /\ rows[k] = e.events[i]
    BY <2>4, <2>5
  <2>. QED  BY <2>6, Zenon DEF Range
<1>4. \A i \in 1..Len(e.events) : e.events[i] \in S \cup Range(rows)
  <2> SUFFICES ASSUME NEW i \in 1..Len(e.events)
               PROVE  e.events[i] \in S \cup Range(rows)
    OBVIOUS
  <2>1. CASE i > e.flushedCount
    BY <1>3, <2>1
  <2>2. CASE ~(i > e.flushedCount)
    <3>1. i \in 1..e.flushedCount
      BY <1>1, <2>2
    <3>. QED  BY <3>1 DEF PrefixIn
  <2>. QED  BY <2>1, <2>2
<1> HIDE DEF rows
<1>5. Len(e.events) <= Len(e.events)
  BY <1>1
<1>. QED  BY <1>2, <1>4, <1>5, Zenon DEF PrefixIn, rows

\* FlushTo's bookkeeping is exact: when what the snapshot still covers is in
\* S, so is the new flushed prefix, and so is everything if the entry is clean.
LEMMA BookedExact ==
  ASSUME NEW e \in Entry, NEW n \in Nat, NEW S,
         PrefixIn(e, n - e.evictedDuringFlush, S)
  PROVE  /\ PrefixIn(Booked(e, n), Booked(e, n).flushedCount, S)
         /\ ~Booked(e, n).dirty => Range(Booked(e, n).events) \subseteq S
<1> DEFINE b == Booked(e, n)
<1>1. /\ b \in Entry
      /\ b.events = e.events
      /\ b.flushedCount = IF n > e.evictedDuringFlush
                          THEN n - e.evictedDuringFlush ELSE 0
      /\ b.dirty = (b.flushedCount < Len(e.events))
  BY BookedFields, Zenon
<1> HIDE DEF b
<1>2. PrefixIn(b, b.flushedCount, S)
  <2>1. CASE n > e.evictedDuringFlush
    <3>1. PrefixIn(e, b.flushedCount, S)
      BY <1>1, <2>1
    <3>. QED  BY <1>1, <3>1, PrefixSameEvents
  <2>2. CASE ~(n > e.evictedDuringFlush)
    BY <1>1, <2>2, PrefixEmpty
  <2>. QED  BY <2>1, <2>2
<1>3. ASSUME ~b.dirty  PROVE Range(b.events) \subseteq S
  <2>0. ~(b.flushedCount < Len(b.events))
    BY <1>1, <1>3, Zenon
  <2>1. b.flushedCount = Len(b.events)
    BY <1>1, <1>2, <2>0, EntryFields DEF PrefixIn
  <2>. QED  BY <1>1, <1>2, <2>1, PrefixAll
<1>. QED  BY <1>2, <1>3, Zenon DEF b

\* LoadFrom: the loaded buffer is what the store holds.
LEMMA LoadedSaved ==
  ASSUME NEW rows \in Seq(Hit)
  PROVE  /\ PrefixIn(LoadedEntry(rows), LoadedEntry(rows).flushedCount,
                     Range(rows))
         /\ Range(LoadedEntry(rows).events) = Range(rows)
BY DEF LoadedEntry, PrefixIn, Range
-----------------------------------------------------------------------------
(* What the store's transactions do to the rows.                           *)

LEMMA InsertSlugRows ==
  ASSUME NEW base \in Database, NEW s \in Slugs
  PROVE  /\ InsertSlug(base, s).slugs = base.slugs \cup {s}
         /\ InsertSlug(base, s).events = base.events
BY Zenon DEF InsertSlug, Database

LEMMA InsertEventsRows ==
  ASSUME NEW base \in Database, NEW s \in Slugs, NEW rows \in Seq(Hit)
  PROVE  /\ InsertEvents(base, s, rows).slugs = base.slugs
         /\ Saved(InsertEvents(base, s, rows), s) = Saved(base, s) \cup Range(rows)
         /\ \A t \in Slugs \ {s} :
              InsertEvents(base, s, rows).events[t] = base.events[t]
<1>1. /\ InsertEvents(base, s, rows).slugs = base.slugs
      /\ InsertEvents(base, s, rows).events[s] = base.events[s] \o rows
      /\ \A t \in Slugs \ {s} :
           InsertEvents(base, s, rows).events[t] = base.events[t]
  BY Zenon DEF InsertEvents, Database
<1>2. base.events[s] \in Seq(Hit)
  BY DEF Database
<1>3. Range(base.events[s] \o rows) = Range(base.events[s]) \cup Range(rows)
  BY <1>2, RangeConcatenation
<1>. QED  BY <1>1, <1>3, Zenon DEF Saved

LEMMA DeleteSlugRows ==
  ASSUME NEW base \in Database, NEW s \in Slugs
  PROVE  /\ DeleteSlug(base, s).slugs = base.slugs \ {s}
         /\ DeleteSlug(base, s).events[s] = <<>>
         /\ \A t \in Slugs \ {s} : DeleteSlug(base, s).events[t] = base.events[t]
BY Zenon DEF DeleteSlug, Database

LEMMA DeleteExpiredRows ==
  ASSUME NEW base \in Database, NEW X \in SUBSET Slugs, NEW s \in Slugs
  PROVE  /\ s \in DeleteExpired(base, X).slugs <=>
              s \in base.slugs /\ s \notin ExpiredRows(base, X)
         /\ DeleteExpired(base, X).events[s] =
              IF s \in ExpiredRows(base, X) THEN <<>> ELSE base.events[s]
BY DEF DeleteExpired, Database
-----------------------------------------------------------------------------
(* Type correctness.                                                       *)

LEMMA InitTypeOK == Init => TypeOK
<1> SUFFICES ASSUME Init  PROVE TypeOK
  OBVIOUS
<1>1. NoEntry \in Entry
  BY EntryTypes
<1>2. EmptyDatabase \in Database
  BY DEF EmptyDatabase, Database
<1>3. NoSnapshot \in Snapshot
  BY DEF NoSnapshot, Snapshot
<1>. QED  BY <1>1, <1>2, <1>3 DEF Init, TypeOK, FlushPC

\* Leaving or continuing FlushTo keeps the flusher's state well typed.
LEMMA ContinueType ==
  ASSUME TypeOK, NEW f \in Flushers, NEW p \in SUBSET Slugs,
         NEW taken \in [Slugs -> Snapshot],
         NEW next \in {"insertSlug", "insertEvents"},
         NEW c \in Slugs \cup {None},
         Continue(f, p, taken, next, c)
  PROVE  /\ pc' \in [Flushers -> FlushPC]
         /\ pending' \in [Flushers -> SUBSET Slugs]
         /\ snap' \in [Flushers -> [Slugs -> Snapshot]]
         /\ cur' \in [Flushers -> Slugs \cup {None}]
<1> DEFINE goesOn == p # {} /\ ~CallFails(f)
           left   == IF goesOn THEN p ELSE {}
           t      == [s \in Slugs |-> IF s \in left THEN taken[s] ELSE NoSnapshot]
<1>1. NoSnapshot \in Snapshot
  BY DEF NoSnapshot, Snapshot
<1>2. t \in [Slugs -> Snapshot]
  BY <1>1
<1>3. left \in SUBSET Slugs
  OBVIOUS
<1>4. (IF goesOn THEN next ELSE AfterFlush(f)) \in FlushPC
  BY DEF FlushPC, AfterFlush
<1>5. (IF goesOn THEN c ELSE None) \in Slugs \cup {None}
  OBVIOUS
<1>6. /\ pending' = [pending EXCEPT ![f] = left]
      /\ snap' = [snap EXCEPT ![f] = t]
      /\ pc' = [pc EXCEPT ![f] = IF goesOn THEN next ELSE AfterFlush(f)]
      /\ cur' = [cur EXCEPT ![f] = IF goesOn THEN c ELSE None]
  BY Zenon DEF Continue
<1> HIDE DEF goesOn, left, t
<1>. QED  BY <1>2, <1>3, <1>4, <1>5, <1>6 DEF TypeOK

\* collectDirtySnapshots.
LEMMA CollectType ==
  ASSUME TypeOK, NEW f \in Flushers, CollectDirtySnapshots(f)
  PROVE  TypeOK'
<1> DEFINE dirty == {s \in live : mem[s].dirty}
           taken == [s \in Slugs |-> SnapshotOf(mem[s])]
<1>1. dirty \in SUBSET Slugs
  BY DEF TypeOK
<1>2. taken \in [Slugs -> Snapshot]
  <2>1. \A s \in Slugs : mem[s] \in Entry
    BY DEF TypeOK
  <2>. QED  BY <2>1, SnapshotType
<1>3. Continue(f, dirty, taken, "insertSlug", None)
  BY Zenon DEF CollectDirtySnapshots
<1>4. mem' \in [Slugs -> Entry]
  <2>1. \A s \in Slugs : mem[s] \in Entry
    BY DEF TypeOK
  <2>2. \A s \in Slugs : [mem[s] EXCEPT !.evictedDuringFlush = 0] \in Entry
    BY <2>1, CollectedFields, Zenon
  <2>. QED  BY <2>1, <2>2, Zenon DEF CollectDirtySnapshots
<1>5. raced' \in SUBSET Slugs
  BY <1>1 DEF CollectDirtySnapshots, TypeOK
<1>6. UNCHANGED <<processVars, live, db, del, issued, expired, hits, deleted>>
  BY Zenon DEF CollectDirtySnapshots
<1> HIDE DEF dirty, taken
<1>7. /\ pc' \in [Flushers -> FlushPC]
      /\ pending' \in [Flushers -> SUBSET Slugs]
      /\ snap' \in [Flushers -> [Slugs -> Snapshot]]
      /\ cur' \in [Flushers -> Slugs \cup {None}]
  BY <1>1, <1>2, <1>3, ContinueType
<1>. QED  BY <1>4, <1>5, <1>6, <1>7 DEF TypeOK, processVars

\* Every step keeps the types, action by action.
LEMMA NextTypeOK == TypeOK /\ [Next]_vars => TypeOK'
<1> SUFFICES ASSUME TypeOK, [Next]_vars  PROVE TypeOK'
  OBVIOUS
<1> USE DEF processVars, memVars, flushVars, historyVars
<1>a. /\ \A s \in Slugs : mem[s] \in Entry
      /\ \A s \in Slugs : hits[s] \in Nat
      /\ db \in Database
      /\ \A f \in Flushers : snap[f] \in [Slugs -> Snapshot]
  BY DEF TypeOK
<1>b. /\ NewEntry \in Entry
      /\ NoEntry \in Entry
      /\ NoSnapshot \in Snapshot
  BY EntryTypes DEF NoSnapshot, Snapshot
<1>1. CASE Start
  <2>1. \A s \in Slugs : LoadedEntry(db.events[s]) \in Entry
    <3>1. \A s \in Slugs : db.events[s] \in Seq(Hit)
      BY <1>a DEF Database
    <3>. QED  BY <3>1, EntryTypes
  <2>2. mem' \in [Slugs -> Entry]
    BY <1>1, <1>b, <2>1, Zenon DEF Start, LoadEvents
  <2>3. live' \subseteq Slugs
    BY <1>1, <1>a DEF Start, LoadSlugs, Database
  <2>. QED  BY <1>1, <2>2, <2>3 DEF Start, TypeOK
<1>2. ASSUME ProcessEnds, stops' \in Nat  PROVE TypeOK'
  BY <1>2, <1>b DEF ProcessEnds, TypeOK, FlushPC
<1>3. CASE Crash
  BY <1>2, <1>3 DEF Crash, TypeOK
<1>4. CASE Shutdown
  BY <1>4 DEF Shutdown, TypeOK
<1>5. CASE Exit
  BY <1>2, <1>5 DEF Exit, TypeOK
<1>6. CASE Tick
  BY <1>6, CollectType DEF Tick, Flushers
<1>7. CASE FinalFlush
  BY <1>7, CollectType DEF FinalFlush, Flushers
<1>8. CASE Cleanup
  <2>1. mem' \in [Slugs -> Entry]
    BY <1>8, <1>a, <1>b, Zenon DEF Cleanup
  <2>. QED  BY <1>8, <2>1 DEF Cleanup, TypeOK, FlushPC, Flushers
<1>9. CASE PurgeExpired
  <2>1. db' \in Database
    BY <1>9, <1>a, StoreTypes DEF PurgeExpired, TypeOK
  <2>2. raced' \subseteq Slugs
    BY <1>9, <1>a DEF PurgeExpired, TypeOK, ExpiredRows, Database
  <2>. QED  BY <1>9, <2>1, <2>2 DEF PurgeExpired, TypeOK, FlushPC, Flushers
<1>10. CASE PurgeExpiredFails
  BY <1>10 DEF PurgeExpiredFails, TypeOK, FlushPC, Flushers
<1>11. CASE LoopReturns
  BY <1>11 DEF LoopReturns, TypeOK, FlushPC, Flushers
<1>12. ASSUME NEW f \in Flushers, FlushEvents(f)  PROVE TypeOK'
  <2>1. db' \in Database
    <3>1. CASE cur[f] \in Slugs
      <4>1. snap[f][cur[f]].rows \in Seq(Hit)
        BY <3>1, <1>a DEF Snapshot
      <4>. QED  BY <1>12, <3>1, <4>1, <1>a, StoreTypes DEF FlushEvents
    <3>2. CASE cur[f] \notin Slugs
      BY <1>12, <3>2, <1>a, Zenon DEF FlushEvents, InsertEvents, Database
    <3>. QED  BY <3>1, <3>2
  <2>. QED  BY <1>12, <2>1 DEF FlushEvents, TypeOK, FlushPC
<1>13. ASSUME NEW f \in Flushers, FlushFails(f)  PROVE TypeOK'
  <2>1. /\ pc' \in [Flushers -> FlushPC]
        /\ pending' \in [Flushers -> SUBSET Slugs]
        /\ snap' \in [Flushers -> [Slugs -> Snapshot]]
        /\ cur' \in [Flushers -> Slugs \cup {None}]
    BY <1>13, <1>a, ContinueType DEF FlushFails
  <2>. QED  BY <1>13, <2>1 DEF FlushFails, TypeOK
<1>14. ASSUME NEW f \in Flushers, Book(f)  PROVE TypeOK'
  <2>1. mem' \in [Slugs -> Entry]
    <3>1. CASE cur[f] \in live
      <4>1. cur[f] \in Slugs
        BY <3>1 DEF TypeOK
      <4>2. snap[f][cur[f]].len \in Nat
        BY <4>1, <1>a DEF Snapshot
      <4>3. Booked(mem[cur[f]], snap[f][cur[f]].len) \in Entry
        BY <4>1, <4>2, <1>a, BookedFields
      <4>. QED  BY <1>14, <3>1, <4>1, <4>3, <1>a DEF Book, TypeOK
    <3>2. CASE cur[f] \notin live
      BY <1>14, <3>2 DEF Book, TypeOK
    <3>. QED  BY <3>1, <3>2
  <2>2. pending[f] \ {cur[f]} \in SUBSET Slugs
    BY DEF TypeOK
  <2>3. Continue(f, pending[f] \ {cur[f]}, snap[f], "insertSlug", None)
    BY <1>14, Zenon DEF Book
  <2>4. /\ pc' \in [Flushers -> FlushPC]
        /\ pending' \in [Flushers -> SUBSET Slugs]
        /\ snap' \in [Flushers -> [Slugs -> Snapshot]]
        /\ cur' \in [Flushers -> Slugs \cup {None}]
    BY <2>2, <2>3, <1>a, ContinueType
  <2>. QED  BY <1>14, <2>1, <2>4 DEF Book, TypeOK
<1>15. ASSUME NEW f \in Flushers, NEW s \in Slugs, FlushSlug(f, s)
       PROVE  TypeOK'
  <2>1. db' \in Database
    BY <1>15, <1>a, StoreTypes DEF FlushSlug
  <2>2. /\ pc' \in [Flushers -> FlushPC]
        /\ pending' \in [Flushers -> SUBSET Slugs]
        /\ snap' \in [Flushers -> [Slugs -> Snapshot]]
        /\ cur' \in [Flushers -> Slugs \cup {None}]
    <3>1. CASE Continue(f, pending[f], snap[f], "insertEvents", s)
      <4>1. pending[f] \in SUBSET Slugs
        BY DEF TypeOK
      <4>. QED  BY <3>1, <4>1, <1>a, ContinueType
    <3>2. CASE /\ pc' = [pc EXCEPT ![f] = "book"]
               /\ cur' = [cur EXCEPT ![f] = s]
               /\ UNCHANGED <<pending, snap>>
      BY <3>2 DEF TypeOK, FlushPC
    <3>. QED  BY <1>15, <3>1, <3>2, Zenon DEF FlushSlug
  <2>. QED  BY <1>15, <2>1, <2>2 DEF FlushSlug, TypeOK
<1>16. ASSUME NEW s \in Slugs, Expire(s)  PROVE TypeOK'
  BY <1>16 DEF Expire, TypeOK
<1>17. ASSUME NEW s \in Slugs, CreateSlug(s)  PROVE TypeOK'
  BY <1>17, <1>b DEF CreateSlug, TypeOK
<1>18. ASSUME NEW s \in Slugs, Record(s)  PROVE TypeOK'
  <2>1. hits[s] + 1 \in Hit /\ hits[s] + 1 \in Nat
    BY <1>a DEF Hit
  <2>2. Recorded(mem[s], hits[s] + 1) \in Entry
    BY <1>18, <1>a, <2>1, RecordedWithRoom, RecordedEvicting DEF Record
  <2>. QED  BY <1>18, <2>1, <2>2 DEF Record, TypeOK
<1>19. ASSUME NEW s \in Slugs, RecordPanicRecovered(s)  PROVE TypeOK'
  <2>1. hits[s] + 1 \in Nat
    BY <1>a
  <2>2. EvictionCounted(mem[s]) \in Entry
    BY <1>a, EvictionCountedFields
  <2>. QED  BY <1>19, <2>1, <2>2 DEF RecordPanicRecovered, TypeOK
<1>20. ASSUME NEW s \in Slugs, ClearEvents(s)  PROVE TypeOK'
  <2>1. Cleared(mem[s]) \in Entry
    BY <1>a, ClearedType
  <2>. QED  BY <1>20, <2>1 DEF ClearEvents, TypeOK
<1>21. ASSUME NEW s \in Slugs, DeleteCheckOwner(s)  PROVE TypeOK'
  BY <1>21 DEF DeleteCheckOwner, TypeOK
<1>22. ASSUME NEW s \in Slugs, DeleteFromRegistry(s)  PROVE TypeOK'
  BY <1>22, <1>b DEF DeleteFromRegistry, TypeOK
<1>23. ASSUME NEW s \in Slugs, DeleteFromStore(s)  PROVE TypeOK'
  <2>1. db' \in Database
    BY <1>23, <1>a, StoreTypes DEF DeleteFromStore
  <2>. QED  BY <1>23, <2>1 DEF DeleteFromStore, TypeOK
<1>24. ASSUME NEW s \in Slugs, DeleteFromStoreFails(s)  PROVE TypeOK'
  BY <1>24 DEF DeleteFromStoreFails, TypeOK
<1>25. CASE UNCHANGED vars
  BY <1>25 DEF vars, TypeOK
<1>. QED
  BY <1>1, <1>3, <1>4, <1>5, <1>6, <1>7, <1>8, <1>9, <1>10, <1>11, <1>12,
     <1>13, <1>14, <1>15, <1>16, <1>17, <1>18, <1>19, <1>20, <1>21, <1>22,
     <1>23, <1>24, <1>25, Zenon DEF Next

\* Type correctness: whatever interleaves, crashes or fails, the counters of
\* every entry stay natural numbers, buffers and rows stay sequences of hits,
\* and both callers of FlushTo stay at a point of its code.
THEOREM TypeCorrect == Spec => []TypeOK
BY InitTypeOK, NextTypeOK, PTL DEF Spec
-----------------------------------------------------------------------------
(* The life of a snapshot.                                                 *)

\* The step leaves flusher g where it is, with the snapshots it has.
Untouched(g) ==
  /\ pending'[g] = pending[g]
  /\ snap'[g] = snap[g]
  /\ pc'[g] = pc[g]
  /\ cur'[g] = cur[g]

\* What FlushTo's control flow does to the flusher and leaves of the other.
LEMMA ContinueFacts ==
  ASSUME TypeOK, NEW f \in Flushers, NEW p \in SUBSET Slugs,
         NEW taken \in [Slugs -> Snapshot],
         NEW next \in {"insertSlug", "insertEvents"},
         NEW c \in Slugs \cup {None},
         Continue(f, p, taken, next, c)
  PROVE  /\ \/ /\ pending'[f] = {}
               /\ pc'[f] = AfterFlush(f)
            \/ /\ pending'[f] = p
               /\ p # {}
               /\ pc'[f] = next
               /\ cur'[f] = c
         /\ \A s \in pending'[f] : s \in p /\ snap'[f][s] = taken[s]
         /\ \A g \in Flushers \ {f} : Untouched(g)
<1> DEFINE goesOn == p # {} /\ ~CallFails(f)
           left   == IF goesOn THEN p ELSE {}
           t      == [s \in Slugs |-> IF s \in left THEN taken[s] ELSE NoSnapshot]
<1>1. /\ pending' = [pending EXCEPT ![f] = left]
      /\ snap' = [snap EXCEPT ![f] = t]
      /\ pc' = [pc EXCEPT ![f] = IF goesOn THEN next ELSE AfterFlush(f)]
      /\ cur' = [cur EXCEPT ![f] = IF goesOn THEN c ELSE None]
  BY Zenon DEF Continue
<1>2. /\ f \in DOMAIN pending
      /\ f \in DOMAIN snap
      /\ f \in DOMAIN pc
      /\ f \in DOMAIN cur
  BY DEF TypeOK
<1>3. /\ pending'[f] = left
      /\ snap'[f] = t
      /\ pc'[f] = IF goesOn THEN next ELSE AfterFlush(f)
      /\ cur'[f] = IF goesOn THEN c ELSE None
  BY <1>1, <1>2, Zenon
<1>4. \A s \in left : s \in p /\ t[s] = taken[s]
  OBVIOUS
<1>5. \A g \in Flushers \ {f} : Untouched(g)
  BY <1>1 DEF TypeOK, Untouched
<1>6. \A s \in pending'[f] : s \in p /\ snap'[f][s] = taken[s]
  BY <1>3, <1>4, Zenon
<1>7. CASE goesOn
  BY <1>3, <1>5, <1>6, <1>7, Zenon
<1>8. CASE ~goesOn
  BY <1>3, <1>5, <1>6, <1>8, Zenon
<1>. QED  BY <1>7, <1>8

LEMMA FlushVarsUntouched ==
  ASSUME UNCHANGED flushVars, NEW g
  PROVE  Untouched(g)
BY Zenon DEF flushVars, Untouched

\* collectDirtySnapshots, step by step.
LEMMA CollectFacts ==
  ASSUME TypeOK, NEW f \in Flushers, CollectDirtySnapshots(f)
  PROVE  /\ \/ /\ pending'[f] = {}
               /\ pc'[f] = AfterFlush(f)
            \/ pc'[f] = "insertSlug"
         /\ \A s \in pending'[f] :
              /\ s \in live
              /\ mem[s].dirty
              /\ snap'[f][s] = SnapshotOf(mem[s])
         /\ \A s \in live : mem[s].dirty /\ InFlight(s) => s \in raced'
         /\ \A g \in Flushers \ {f} : Untouched(g)
         /\ \A s \in Slugs :
              mem'[s] = IF s \in live /\ mem[s].dirty
                        THEN [mem[s] EXCEPT !.evictedDuringFlush = 0]
                        ELSE mem[s]
         /\ raced \subseteq raced'
         /\ UNCHANGED <<up, live, db, del, issued, expired, deleted>>
<1> DEFINE dirty == {s \in live : mem[s].dirty}
           taken == [s \in Slugs |-> SnapshotOf(mem[s])]
<1>1. dirty \in SUBSET Slugs
  BY DEF TypeOK
<1>2. /\ Continue(f, dirty, taken, "insertSlug", None)
      /\ taken \in [Slugs -> Snapshot]
  <2>1. \A s \in Slugs : mem[s] \in Entry
    BY DEF TypeOK
  <2>2. taken \in [Slugs -> Snapshot]
    BY <2>1, SnapshotType
  <2>. QED  BY <2>2, Zenon DEF CollectDirtySnapshots
<1>3. raced' = raced \cup {s \in dirty : InFlight(s)}
  BY Zenon DEF CollectDirtySnapshots
<1>4. \A s \in Slugs :
        mem'[s] = IF s \in live /\ mem[s].dirty
                  THEN [mem[s] EXCEPT !.evictedDuringFlush = 0]
                  ELSE mem[s]
  BY Zenon DEF CollectDirtySnapshots
<1>5. UNCHANGED <<up, live, db, del, issued, expired, deleted>>
  BY Zenon DEF CollectDirtySnapshots, processVars
<1>6. \A s \in dirty : s \in live /\ mem[s].dirty /\ taken[s] = SnapshotOf(mem[s])
  BY <1>1
<1> HIDE DEF dirty, taken
<1>7. /\ \/ /\ pending'[f] = {}
            /\ pc'[f] = AfterFlush(f)
         \/ pc'[f] = "insertSlug"
      /\ \A s \in pending'[f] : s \in dirty /\ snap'[f][s] = taken[s]
      /\ \A g \in Flushers \ {f} : Untouched(g)
  BY <1>1, <1>2, ContinueFacts
<1>8. \A s \in live : mem[s].dirty /\ InFlight(s) => s \in raced'
  BY <1>3, Zenon DEF dirty
<1>9. raced \subseteq raced'
  BY <1>3, Zenon
<1>. QED  BY <1>4, <1>5, <1>6, <1>7, <1>8, <1>9, Zenon

\* store.InsertSlug of a snapshot.
LEMMA FlushSlugFacts ==
  ASSUME TypeOK, NEW f \in Flushers, NEW s \in Slugs, FlushSlug(f, s)
  PROVE  /\ s \in pending[f]
         /\ pc[f] = "insertSlug"
         /\ db'.slugs = db.slugs \cup {s}
         /\ db'.events = db.events
         /\ \/ /\ pending'[f] = {}
               /\ pc'[f] = AfterFlush(f)
            \/ /\ pending'[f] = pending[f]
               /\ pc'[f] = "insertEvents"
               /\ cur'[f] = s
            \/ /\ pending'[f] = pending[f]
               /\ pc'[f] = "book"
               /\ cur'[f] = s
               /\ snap[f][s].rows = <<>>
         /\ \A t \in pending'[f] : snap'[f][t] = snap[f][t]
         /\ \A g \in Flushers \ {f} : Untouched(g)
         /\ UNCHANGED <<up, live, mem, del, issued, expired, raced, deleted>>
<1>1. /\ s \in pending[f]
      /\ pc[f] = "insertSlug"
      /\ db' = InsertSlug(db, s)
      /\ UNCHANGED <<up, live, mem, del, issued, expired, raced, deleted>>
  BY Zenon DEF FlushSlug, processVars, memVars, historyVars
<1>2. db'.slugs = db.slugs \cup {s} /\ db'.events = db.events
  BY <1>1, InsertSlugRows DEF TypeOK
<1>3. CASE Continue(f, pending[f], snap[f], "insertEvents", s)
  <2>1. pending[f] \in SUBSET Slugs /\ snap[f] \in [Slugs -> Snapshot]
    BY DEF TypeOK
  <2>2. \/ /\ pending'[f] = {}
           /\ pc'[f] = AfterFlush(f)
        \/ /\ pending'[f] = pending[f]
           /\ pc'[f] = "insertEvents"
           /\ cur'[f] = s
    BY <1>3, <2>1, ContinueFacts
  <2>3. \A t \in pending'[f] : t \in pending[f] /\ snap'[f][t] = snap[f][t]
    BY <1>3, <2>1, ContinueFacts
  <2>4. \A g \in Flushers \ {f} : Untouched(g)
    BY <1>3, <2>1, ContinueFacts
  <2>. QED  BY <1>1, <1>2, <2>2, <2>3, <2>4, Zenon
<1>4. CASE /\ snap[f][s].rows = <<>>
           /\ pc' = [pc EXCEPT ![f] = "book"]
           /\ cur' = [cur EXCEPT ![f] = s]
           /\ UNCHANGED <<pending, snap>>
  <2>1. /\ pc'[f] = "book"
        /\ cur'[f] = s
        /\ \A g \in Flushers \ {f} : pc'[g] = pc[g] /\ cur'[g] = cur[g]
    BY <1>4 DEF TypeOK
  <2>2. \A g \in Flushers \ {f} : Untouched(g)
    BY <1>4, <2>1, Zenon DEF Untouched
  <2>. QED  BY <1>1, <1>2, <1>4, <2>1, <2>2, Zenon
<1>. QED  BY <1>3, <1>4, Zenon DEF FlushSlug

\* store.InsertEvents of a snapshot.
LEMMA FlushEventsFacts ==
  ASSUME TypeOK, FlushShape, NEW f \in Flushers, FlushEvents(f)
  PROVE  LET s == cur[f]
         IN  /\ s \in pending[f]
             /\ s \in Slugs
             /\ pc[f] = "insertEvents"
             /\ pc'[f] = "book"
             /\ db'.slugs = db.slugs
             /\ Saved(db', s) = Saved(db, s) \cup Range(snap[f][s].rows)
             /\ \A t \in Slugs \ {s} : db'.events[t] = db.events[t]
             /\ \A g \in Flushers \ {f} : Untouched(g)
             /\ UNCHANGED <<up, live, mem, pending, snap, cur, del, issued,
                            expired, raced, deleted>>
<1>1. /\ pc[f] = "insertEvents"
      /\ db' = InsertEvents(db, cur[f], snap[f][cur[f]].rows)
      /\ pc' = [pc EXCEPT ![f] = "book"]
      /\ UNCHANGED <<up, live, mem, pending, snap, cur, del, issued, expired,
                     raced, deleted>>
  BY Zenon DEF FlushEvents, processVars, memVars, historyVars
<1>2. cur[f] \in pending[f] /\ cur[f] \in Slugs
  BY <1>1 DEF FlushShape, FlusherShape, TypeOK
<1>3. snap[f][cur[f]].rows \in Seq(Hit) /\ db \in Database
  BY <1>2 DEF TypeOK, Snapshot
<1>4. /\ db'.slugs = db.slugs
      /\ Saved(db', cur[f]) = Saved(db, cur[f]) \cup Range(snap[f][cur[f]].rows)
      /\ \A t \in Slugs \ {cur[f]} : db'.events[t] = db.events[t]
  BY <1>1, <1>2, <1>3, InsertEventsRows
<1>5. pc'[f] = "book" /\ \A g \in Flushers \ {f} : pc'[g] = pc[g]
  BY <1>1 DEF TypeOK
<1>6. \A g \in Flushers \ {f} : Untouched(g)
  BY <1>1, <1>5, Zenon DEF Untouched
<1>. QED  BY <1>1, <1>2, <1>4, <1>5, <1>6, Zenon

\* A failed store call: FlushTo returns and drops its snapshots.
LEMMA FlushFailsFacts ==
  ASSUME TypeOK, NEW f \in Flushers, FlushFails(f)
  PROVE  /\ pending'[f] = {}
         /\ pc'[f] = AfterFlush(f)
         /\ \A g \in Flushers \ {f} : Untouched(g)
         /\ UNCHANGED <<up, live, mem, db, del, issued, expired, raced, deleted>>
<1>1. Continue(f, {}, snap[f], "insertSlug", None)
  BY Zenon DEF FlushFails
<1>2. UNCHANGED <<up, live, mem, db, del, issued, expired, raced, deleted>>
  BY Zenon DEF FlushFails, processVars, memVars, historyVars
<1>3. {} \in SUBSET Slugs /\ snap[f] \in [Slugs -> Snapshot]
  BY DEF TypeOK
<1>4. /\ pending'[f] = {}
      /\ pc'[f] = AfterFlush(f)
      /\ \A g \in Flushers \ {f} : Untouched(g)
  BY <1>1, <1>3, ContinueFacts
<1>. QED  BY <1>2, <1>4, Zenon

\* FlushTo's bookkeeping for one snapshot.
LEMMA BookFacts ==
  ASSUME TypeOK, FlushShape, NEW f \in Flushers, Book(f)
  PROVE  LET s == cur[f]
         IN  /\ pc[f] = "book"
             /\ s \in pending[f]
             /\ s \in Slugs
             /\ \/ /\ pending'[f] = {}
                   /\ pc'[f] = AfterFlush(f)
                \/ pc'[f] = "insertSlug"
             /\ \A t \in pending'[f] :
                  /\ t \in pending[f]
                  /\ t # s
                  /\ snap'[f][t] = snap[f][t]
             /\ s \in live => mem'[s] = Booked(mem[s], snap[f][s].len)
             /\ \A t \in Slugs \ {s} : mem'[t] = mem[t]
             /\ \A g \in Flushers \ {f} : Untouched(g)
             /\ UNCHANGED <<up, live, db, del, issued, expired, raced, deleted>>
<1> DEFINE s == cur[f]
<1>1. /\ pc[f] = "book"
      /\ mem' = IF s \in live
                THEN [mem EXCEPT ![s] = Booked(@, snap[f][s].len)]
                ELSE mem
      /\ Continue(f, pending[f] \ {s}, snap[f], "insertSlug", None)
      /\ UNCHANGED <<up, live, db, del, issued, expired, raced, deleted>>
  BY Zenon DEF Book, processVars, historyVars
<1>2. s \in pending[f] /\ s \in Slugs
  BY <1>1 DEF FlushShape, FlusherShape, TypeOK
<1> HIDE DEF s
<1>3. /\ s \in live => mem'[s] = Booked(mem[s], snap[f][s].len)
      /\ \A t \in Slugs \ {s} : mem'[t] = mem[t]
  BY <1>1, <1>2 DEF TypeOK
<1>4. /\ pending[f] \ {s} \in SUBSET Slugs
      /\ snap[f] \in [Slugs -> Snapshot]
      /\ "insertSlug" \in {"insertSlug", "insertEvents"}
      /\ None \in Slugs \cup {None}
  BY DEF TypeOK
<1>5. /\ \/ /\ pending'[f] = {}
            /\ pc'[f] = AfterFlush(f)
         \/ pc'[f] = "insertSlug"
      /\ \A t \in pending'[f] :
           t \in pending[f] \ {s} /\ snap'[f][t] = snap[f][t]
      /\ \A g \in Flushers \ {f} : Untouched(g)
  <2> DEFINE rest == pending[f] \ {s}
  <2>1. Continue(f, rest, snap[f], "insertSlug", None) /\ rest \in SUBSET Slugs
    BY <1>1, <1>4
  <2> HIDE DEF rest
  <2>2. /\ \/ /\ pending'[f] = {}
              /\ pc'[f] = AfterFlush(f)
           \/ pc'[f] = "insertSlug"
        /\ \A t \in pending'[f] : t \in rest /\ snap'[f][t] = snap[f][t]
        /\ \A g \in Flushers \ {f} : Untouched(g)
    BY <1>4, <2>1, ContinueFacts, ZenonT(30)
  <2>. QED  BY <2>2 DEF rest
<1>. QED  BY <1>1, <1>2, <1>3, <1>5, Zenon DEF s
=============================================================================
