------------------------------ MODULE Registry ------------------------------
(***************************************************************************)
(* The per-slug entry of the in-memory registry (internal/registry) and    *)
(* the updates that its methods make to one entry while holding s.mu.      *)
(*                                                                         *)
(* An entry is the slugEntry struct without its subscribers (they are the  *)
(* subject of EventStream): the ring buffer of hits, the dirty flag, the   *)
(* length of the prefix believed to be in SQLite, and the number of        *)
(* evictions since the last snapshot of the entry.                         *)
(***************************************************************************)
EXTENDS Store

CONSTANT
  MaxEvents        \* limits.max_events_per_slug; the configuration is not
                   \* validated, so zero is a legal setting

ASSUME MaxEventsAssumption == MaxEvents \in Nat

Entry == [events: Seq(Hit), dirty: BOOLEAN,
          flushedCount: Nat, evictedDuringFlush: Nat]

\* CreateSlug: a new entry has no events and is dirty.
NewEntry == [events |-> <<>>, dirty |-> TRUE,
             flushedCount |-> 0, evictedDuringFlush |-> 0]

\* The place of a slug that is not in the map.
NoEntry == [NewEntry EXCEPT !.dirty = FALSE]

\* Mutant: the rows arrive newest first.
LoadedNewestFirst(rows) ==
  [events |-> [i \in DOMAIN rows |-> rows[Len(rows) + 1 - i]],
   dirty |-> FALSE, flushedCount |-> Len(rows), evictedDuringFlush |-> 0]

\* LoadFrom: everything that comes from the store counts as flushed.
LoadedEntry(rows) == [events |-> rows, dirty |-> FALSE,
                      flushedCount |-> Len(rows), evictedDuringFlush |-> 0]
-----------------------------------------------------------------------------
\* Mutant: off by one.
FullLate(e) == Len(e.events) > MaxEvents

\* recordEvent evicts when the buffer is at its limit ...
Full(e) == Len(e.events) >= MaxEvents

\* ... into make([]Event, len-1, max), which panics unless 0 <= len-1 <= max.
MakePanics(e) == Full(e) /\ (Len(e.events) = 0 \/ Len(e.events) - 1 > MaxEvents)

\* Mutant: the guard on flushedCount is missing.
EvictionUnguarded(e) ==
  [e EXCEPT !.flushedCount = @ - 1, !.evictedDuringFlush = @ + 1]

\* The counters are adjusted before the slice is made.
EvictionCounted(e) ==
  [e EXCEPT !.flushedCount = IF @ > 0 THEN @ - 1 ELSE 0,
            !.evictedDuringFlush = @ + 1]

\* recordEvent: evict the oldest event if the buffer is full, append the new.
Recorded(e, hit) ==
  LET room == IF Full(e)
              THEN [EvictionCounted(e) EXCEPT !.events = Tail(@)]
              ELSE e
  IN  [room EXCEPT !.events = Append(@, hit), !.dirty = TRUE]

\* ClearEvents
Cleared(e) == [e EXCEPT !.events = <<>>, !.flushedCount = 0, !.dirty = TRUE]
-----------------------------------------------------------------------------
\* A flushSnapshot: the rows to write and the buffer length at that time.
Snapshot == [rows: Seq(Hit), len: Nat]

NoSnapshot == [rows |-> <<>>, len |-> 0]

\* Mutant: the whole buffer, flushed or not.
SnapshotOfAll(e) == [rows |-> e.events, len |-> Len(e.events)]

\* collectDirtySnapshots: copy the events after the flushed prefix.
SnapshotOf(e) ==
  [rows |-> IF e.flushedCount < Len(e.events)
            THEN SubSeq(e.events, e.flushedCount + 1, Len(e.events))
            ELSE <<>>,
   len  |-> Len(e.events)]

\* Mutant: evictions since the snapshot are not subtracted.
BookedIgnoringEvictions(e, snapshotLen) ==
  [e EXCEPT !.flushedCount = snapshotLen, !.dirty = snapshotLen < Len(e.events)]

\* Mutant: the flag is reset whatever arrived since the snapshot.
BookedClean(e, snapshotLen) ==
  [e EXCEPT !.flushedCount = snapshotLen, !.dirty = FALSE]

\* Mutant: everything in the buffer by now counts as flushed.
BookedWholeBuffer(e, snapshotLen) ==
  [e EXCEPT !.flushedCount = Len(e.events), !.dirty = snapshotLen < Len(e.events)]

\* FlushTo after the writes: what remains of the snapshot is flushed.
Booked(e, snapshotLen) ==
  LET flushed == IF snapshotLen > e.evictedDuringFlush
                 THEN snapshotLen - e.evictedDuringFlush
                 ELSE 0
  IN  [e EXCEPT !.flushedCount = flushed, !.dirty = flushed < Len(e.events)]
-----------------------------------------------------------------------------
\* The n oldest events of the buffer are in S: what "the first n events are
\* flushed" means.
PrefixIn(e, n, S) ==
  /\ n <= Len(e.events)
  /\ \A i \in 1..n : e.events[i] \in S
=============================================================================
