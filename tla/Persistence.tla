---------------------------- MODULE Persistence ----------------------------
(***************************************************************************)
(* The registry and the store under everything that runs concurrently in   *)
(* one tripflare process, over crashes, shutdowns and restarts:            *)
(*                                                                         *)
(*   - DNS and HTTP handlers recording hits,                               *)
(*   - API handlers creating, clearing and deleting slugs,                 *)
(*   - the flush loop of main.go (FlushTo, Cleanup, DeleteExpired),        *)
(*   - the final FlushTo of run() after the root context is cancelled,     *)
(*     which does not wait for the flush loop or for the servers.          *)
(*                                                                         *)
(* Each critical section of registry.mu is one step and each store call is *)
(* one step, so everything may happen between a snapshot, the writes of it *)
(* and the bookkeeping that follows.  Any store call may fail (SQLITE_BUSY *)
(* with two writers and no busy timeout, a full disk, a cancelled context).*)
(*                                                                         *)
(* Slug ids are drawn from 2^40 values; an id is assumed never to be drawn *)
(* twice, which also makes the id identify the *slugEntry that a snapshot  *)
(* points to.  Time is reduced to the moment at which a slug's expires_at  *)
(* passes.                                                                 *)
(***************************************************************************)
EXTENDS Registry, Process

CONSTANTS
  None,            \* "no slug"
  MaxHits,         \* bound: requests recorded per slug
  MaxStops         \* bound: crashes plus shutdowns

ASSUME PersistenceAssumption ==
  /\ None \notin Slugs
  /\ MaxHits \in Nat
  /\ MaxStops \in Nat

VARIABLES
  stops,           \* crashes and shutdowns so far
  live,            \* the keys of the registry's map
  mem,             \* their entries (NoEntry elsewhere)
  db,              \* the SQLite database
  pc,              \* where each caller of FlushTo is
  pending,         \* its snapshots not yet written and booked
  snap,            \* those snapshots
  cur,             \* the slug whose snapshot is being written
  del,             \* progress of DELETE /api/slugs/{slug}
  issued,          \* ids drawn so far
  expired,         \* slugs whose expires_at has passed
  hits,            \* requests recorded per slug
  raced,           \* history: slugs touched while a snapshot was in flight
  deleted          \* history: slugs whose store.DeleteSlug succeeded

processVars == <<up, ctxDone, stops>>
memVars     == <<live, mem>>
flushVars   == <<pc, pending, snap, cur>>
historyVars == <<raced, deleted>>
vars == <<processVars, memVars, db, flushVars, del, issued, expired, hits,
          historyVars>>

\* flushLoop's calls use the root context, the final flush Background().
Flushers == {"loop", "final"}

FlushPC == {"idle", "insertSlug", "insertEvents", "book", "cleanup",
            "deleteExpired", "returned"}

TypeOK ==
  /\ up \in BOOLEAN
  /\ ctxDone \in BOOLEAN
  /\ stops \in Nat
  /\ live \subseteq Slugs
  /\ mem \in [Slugs -> Entry]
  /\ db \in Database
  /\ pc \in [Flushers -> FlushPC]
  /\ pending \in [Flushers -> SUBSET Slugs]
  /\ snap \in [Flushers -> [Slugs -> Snapshot]]
  /\ cur \in [Flushers -> Slugs \cup {None}]
  /\ del \in [Slugs -> {"none", "owned", "removed"}]
  /\ issued \subseteq Slugs
  /\ expired \subseteq Slugs
  /\ hits \in [Slugs -> Nat]
  /\ raced \subseteq Slugs
  /\ deleted \subseteq Slugs

\* The volatile state of a process that is not running.
Init ==
  /\ up = FALSE
  /\ ctxDone = FALSE
  /\ stops = 0
  /\ live = {}
  /\ mem = [s \in Slugs |-> NoEntry]
  /\ db = EmptyDatabase
  /\ pc = [f \in Flushers |-> "idle"]
  /\ pending = [f \in Flushers |-> {}]
  /\ snap = [f \in Flushers |-> [s \in Slugs |-> NoSnapshot]]
  /\ cur = [f \in Flushers |-> None]
  /\ del = [s \in Slugs |-> "none"]
  /\ issued = {}
  /\ expired = {}
  /\ hits = [s \in Slugs |-> 0]
  /\ raced = {}
  /\ deleted = {}

\* A snapshot of s has been taken and not yet booked or given up.
InFlight(s) == \E f \in Flushers : s \in pending[f]
-----------------------------------------------------------------------------
(* The life of the process.                                                *)

\* initServices: LoadFrom fills the empty registry from the store.
Start ==
  /\ ~up
  /\ up' = TRUE
  /\ live' = LoadSlugs(db, expired)
  /\ mem' = [s \in Slugs |-> IF s \in LoadSlugs(db, expired)
                             THEN LoadedEntry(LoadEvents(db, s))
                             ELSE NoEntry]
  /\ UNCHANGED <<ctxDone, stops, db, flushVars, del, issued, expired, hits,
                 historyVars>>

\* Whatever the process was doing, only the database survives it.
ProcessEnds ==
  /\ up' = FALSE
  /\ ctxDone' = FALSE
  /\ live' = {}
  /\ mem' = [s \in Slugs |-> NoEntry]
  /\ pc' = [f \in Flushers |-> "idle"]
  /\ pending' = [f \in Flushers |-> {}]
  /\ snap' = [f \in Flushers |-> [s \in Slugs |-> NoSnapshot]]
  /\ cur' = [f \in Flushers |-> None]
  /\ del' = [s \in Slugs |-> "none"]
  /\ UNCHANGED <<db, issued, expired, hits, historyVars>>

Crash ==
  /\ up
  /\ stops < MaxStops
  /\ stops' = stops + 1
  /\ ProcessEnds

\* SIGTERM, or a server failed: the root context is cancelled.
Shutdown ==
  /\ up
  /\ ~ctxDone
  /\ stops < MaxStops
  /\ stops' = stops + 1
  /\ ctxDone' = TRUE
  /\ UNCHANGED <<up, memVars, db, flushVars, del, issued, expired, hits,
                 historyVars>>

\* run() returns once the final flush has; nobody waits for the others.
Exit ==
  /\ up
  /\ pc["final"] = "returned"
  /\ UNCHANGED stops
  /\ ProcessEnds

\* The clock passes expires_at of s.
Expire(s) ==
  /\ s \in issued \ expired
  /\ expired' = expired \cup {s}
  /\ UNCHANGED <<processVars, memVars, db, flushVars, del, issued, hits,
                 historyVars>>
-----------------------------------------------------------------------------
(* Request handlers.                                                       *)

CreateSlug(s) ==
  /\ up
  /\ s \notin issued
  /\ issued' = issued \cup {s}
  /\ live' = live \cup {s}
  /\ mem' = [mem EXCEPT ![s] = NewEntry]
  /\ UNCHANGED <<processVars, db, flushVars, del, expired, hits, historyVars>>

\* RecordDNS / RecordHTTP of a known slug.
Record(s) ==
  /\ up
  /\ s \in live
  /\ hits[s] < MaxHits
  /\ ~MakePanics(mem[s])
  /\ hits' = [hits EXCEPT ![s] = @ + 1]
  /\ mem' = [mem EXCEPT ![s] = Recorded(@, hits[s] + 1)]
  /\ UNCHANGED <<processVars, live, db, flushVars, del, issued, expired,
                 historyVars>>

\* The same with a buffer for which make() panics, in an HTTP handler:
\* net/http recovers, the deferred unlock runs, the counters stay changed.
\* (In a goroutine that nobody recovers the panic ends the process: Crash.)
RecordPanicRecovered(s) ==
  /\ up
  /\ s \in live
  /\ hits[s] < MaxHits
  /\ MakePanics(mem[s])
  /\ hits' = [hits EXCEPT ![s] = @ + 1]
  /\ mem' = [mem EXCEPT ![s] = EvictionCounted(@)]
  /\ UNCHANGED <<processVars, live, db, flushVars, del, issued, expired,
                 historyVars>>

\* ClearEvents touches memory only.
ClearEvents(s) ==
  /\ up
  /\ s \in live
  /\ mem' = [mem EXCEPT ![s] = Cleared(@)]
  /\ raced' = IF InFlight(s) THEN raced \cup {s} ELSE raced
  /\ UNCHANGED <<processVars, live, db, flushVars, del, issued, expired, hits,
                 deleted>>

\* handleDeleteSlug: requireSlugOwner, registry.DeleteSlug, store.DeleteSlug.
DeleteCheckOwner(s) ==
  /\ up
  /\ s \in live
  /\ del[s] = "none"
  /\ del' = [del EXCEPT ![s] = "owned"]
  /\ UNCHANGED <<processVars, memVars, db, flushVars, issued, expired, hits,
                 historyVars>>

\* Mutant: the entry is emptied and stays in the map.
DeleteKeepsEntry(s) ==
  /\ up
  /\ del[s] = "owned"
  /\ del' = [del EXCEPT ![s] = "removed"]
  /\ mem' = [mem EXCEPT ![s] = NewEntry]
  /\ UNCHANGED <<processVars, live, db, flushVars, issued, expired, hits,
                 historyVars>>

DeleteFromRegistry(s) ==
  /\ up
  /\ del[s] = "owned"
  /\ del' = [del EXCEPT ![s] = "removed"]
  /\ live' = live \ {s}
  /\ mem' = [mem EXCEPT ![s] = NoEntry]
  /\ UNCHANGED <<processVars, db, flushVars, issued, expired, hits,
                 historyVars>>

DeleteFromStore(s) ==
  /\ up
  /\ del[s] = "removed"
  /\ del' = [del EXCEPT ![s] = "none"]
  /\ db' = DeleteSlug(db, s)
  /\ deleted' = deleted \cup {s}
  /\ raced' = IF InFlight(s) THEN raced \cup {s} ELSE raced
  /\ UNCHANGED <<processVars, memVars, flushVars, issued, expired, hits>>

\* The error is logged and the answer is 204 all the same.
DeleteFromStoreFails(s) ==
  /\ up
  /\ del[s] = "removed"
  /\ del' = [del EXCEPT ![s] = "none"]
  /\ UNCHANGED <<processVars, memVars, db, flushVars, issued, expired, hits,
                 historyVars>>
-----------------------------------------------------------------------------
(* FlushTo, by either caller.                                              *)

\* Mutant: the final flush is given the root context too.
CallFailsForBoth(f) == ctxDone

\* A store call that begins after the cancellation of its context fails.
CallFails(f) == f = "loop" /\ ctxDone

\* Where FlushTo's caller continues when FlushTo returns.
AfterFlush(f) == IF f = "loop" THEN "cleanup" ELSE "returned"

\* Go on to store call "next", about slug c, with the snapshots of p, or leave
\* FlushTo: it is through, or the call fails at once.
Continue(f, p, taken, next, c) ==
  LET goesOn == p # {} /\ ~CallFails(f)
      left   == IF goesOn THEN p ELSE {}
  IN  /\ pending' = [pending EXCEPT ![f] = left]
      /\ snap' = [snap EXCEPT ![f] = [s \in Slugs |-> IF s \in left
                                                      THEN taken[s]
                                                      ELSE NoSnapshot]]
      /\ pc' = [pc EXCEPT ![f] = IF goesOn THEN next ELSE AfterFlush(f)]
      /\ cur' = [cur EXCEPT ![f] = IF goesOn THEN c ELSE None]

\* Mutant: the dirty flag is reset with the snapshot, before anything is saved.
CollectClearsDirty(f) ==
  LET dirty == {s \in live : mem[s].dirty}
  IN  /\ Continue(f, dirty, [s \in Slugs |-> SnapshotOf(mem[s])],
                  "insertSlug", None)
      /\ mem' = [s \in Slugs |->
                   IF s \in dirty
                   THEN [mem[s] EXCEPT !.evictedDuringFlush = 0, !.dirty = FALSE]
                   ELSE mem[s]]
      /\ raced' = raced \cup {s \in dirty : InFlight(s)}
      /\ UNCHANGED <<processVars, live, db, del, issued, expired, hits,
                     deleted>>

\* collectDirtySnapshots, under the lock.
CollectDirtySnapshots(f) ==
  LET dirty == {s \in live : mem[s].dirty}
  IN  /\ Continue(f, dirty, [s \in Slugs |-> SnapshotOf(mem[s])],
                  "insertSlug", None)
      /\ mem' = [s \in Slugs |-> IF s \in dirty
                                 THEN [mem[s] EXCEPT !.evictedDuringFlush = 0]
                                 ELSE mem[s]]
      /\ raced' = raced \cup {s \in dirty : InFlight(s)}
      /\ UNCHANGED <<processVars, live, db, del, issued, expired, hits,
                     deleted>>

\* A tick of flushLoop; select may prefer it to a cancelled context.
Tick == up /\ pc["loop"] = "idle" /\ CollectDirtySnapshots("loop")

\* run() after <-ctx.Done().
FinalFlush ==
  up /\ ctxDone /\ pc["final"] = "idle" /\ CollectDirtySnapshots("final")

\* Snapshots come in map order, i.e. in any order.
FlushSlug(f, s) ==
  /\ up
  /\ pc[f] = "insertSlug"
  /\ s \in pending[f]
  /\ db' = InsertSlug(db, s)
  /\ \/ /\ snap[f][s].rows # <<>>
        /\ Continue(f, pending[f], snap[f], "insertEvents", s)
     \/ /\ snap[f][s].rows = <<>>
        /\ pc' = [pc EXCEPT ![f] = "book"]
        /\ cur' = [cur EXCEPT ![f] = s]
        /\ UNCHANGED <<pending, snap>>
  /\ UNCHANGED <<processVars, memVars, del, issued, expired, hits,
                 historyVars>>

FlushEvents(f) ==
  /\ up
  /\ pc[f] = "insertEvents"
  /\ db' = InsertEvents(db, cur[f], snap[f][cur[f]].rows)
  /\ pc' = [pc EXCEPT ![f] = "book"]
  /\ UNCHANGED <<processVars, memVars, pending, snap, cur, del, issued,
                 expired, hits, historyVars>>

\* Either insert fails: FlushTo returns, the remaining snapshots are dropped.
FlushFails(f) ==
  /\ up
  /\ pc[f] \in {"insertSlug", "insertEvents"}
  /\ Continue(f, {}, snap[f], "insertSlug", None)
  /\ UNCHANGED <<processVars, memVars, db, del, issued, expired, hits,
                 historyVars>>

\* Mutant: the first success books every snapshot of the flush.
BookAllSnapshots(f) ==
  /\ up
  /\ pc[f] = "book"
  /\ mem' = [s \in Slugs |-> IF s \in live \cap pending[f]
                             THEN Booked(mem[s], snap[f][s].len)
                             ELSE mem[s]]
  /\ Continue(f, pending[f] \ {cur[f]}, snap[f], "insertSlug", None)
  /\ UNCHANGED <<processVars, live, db, del, issued, expired, hits, historyVars>>

\* Bookkeeping, under the lock.  The entry may have left the map meanwhile.
Book(f) ==
  LET s == cur[f]
  IN  /\ up
      /\ pc[f] = "book"
      /\ mem' = IF s \in live
                THEN [mem EXCEPT ![s] = Booked(@, snap[f][s].len)]
                ELSE mem
      /\ Continue(f, pending[f] \ {s}, snap[f], "insertSlug", None)
      /\ UNCHANGED <<processVars, live, db, del, issued, expired, hits,
                     historyVars>>
-----------------------------------------------------------------------------
(* The rest of flushLoop.                                                  *)

\* registry.Cleanup, then store.DeleteExpired is called.
Cleanup ==
  /\ up
  /\ pc["loop"] = "cleanup"
  /\ live' = live \ expired
  /\ mem' = [s \in Slugs |-> IF s \in expired THEN NoEntry ELSE mem[s]]
  /\ pc' = [pc EXCEPT !["loop"] = IF CallFails("loop") THEN "idle"
                                                       ELSE "deleteExpired"]
  /\ UNCHANGED <<processVars, db, pending, snap, cur, del, issued, expired,
                 hits, historyVars>>

PurgeExpired ==
  /\ up
  /\ pc["loop"] = "deleteExpired"
  /\ db' = DeleteExpired(db, expired)
  /\ raced' = raced \cup {s \in ExpiredRows(db, expired) : InFlight(s)}
  /\ pc' = [pc EXCEPT !["loop"] = "idle"]
  /\ UNCHANGED <<processVars, memVars, pending, snap, cur, del, issued,
                 expired, hits, deleted>>

PurgeExpiredFails ==
  /\ up
  /\ pc["loop"] = "deleteExpired"
  /\ pc' = [pc EXCEPT !["loop"] = "idle"]
  /\ UNCHANGED <<processVars, memVars, db, pending, snap, cur, del, issued,
                 expired, hits, historyVars>>

LoopReturns ==
  /\ up
  /\ ctxDone
  /\ pc["loop"] = "idle"
  /\ pc' = [pc EXCEPT !["loop"] = "returned"]
  /\ UNCHANGED <<processVars, memVars, db, pending, snap, cur, del, issued,
                 expired, hits, historyVars>>
-----------------------------------------------------------------------------
Next ==
  \/ Start
  \/ Crash
  \/ Shutdown
  \/ Exit
  \/ Tick
  \/ FinalFlush
  \/ Cleanup
  \/ PurgeExpired
  \/ PurgeExpiredFails
  \/ LoopReturns
  \/ \E f \in Flushers : FlushEvents(f) \/ FlushFails(f) \/ Book(f)
  \/ \E f \in Flushers, s \in Slugs : FlushSlug(f, s)
  \/ \E s \in Slugs :
       \/ Expire(s)
       \/ CreateSlug(s)
       \/ Record(s)
       \/ RecordPanicRecovered(s)
       \/ ClearEvents(s)
       \/ DeleteCheckOwner(s)
       \/ DeleteFromRegistry(s)
       \/ DeleteFromStore(s)
       \/ DeleteFromStoreFails(s)

Spec == Init /\ [][Next]_vars

\* The process is restarted after it ends, the ticker keeps firing, goroutines
\* run, and a store call that is made again and again does not fail each time.
Fairness ==
  /\ WF_vars(Start)
  /\ WF_vars(Tick)
  /\ WF_vars(FinalFlush)
  /\ WF_vars(Cleanup)
  /\ WF_vars(LoopReturns)
  /\ WF_vars(Exit)
  /\ SF_vars(PurgeExpired)
  /\ \A f \in Flushers : WF_vars(Book(f))
  /\ \A f \in Flushers, s \in Slugs : SF_vars(FlushSlug(f, s))
  /\ \A f \in Flushers, s \in Slugs : SF_vars(cur[f] = s /\ FlushEvents(f))

FairSpec == Spec /\ Fairness
-----------------------------------------------------------------------------
(* Safety.                                                                 *)

\* Neither the registry nor SQLite knows s or any hit of it.
Gone(s) == s \notin live /\ s \notin db.slugs /\ db.events[s] = <<>>

\* An entry that is not dirty has nothing left to write: FlushTo skips it, so
\* every hit in its buffer must already be in SQLite.  Said of slugs that no
\* clear, delete or second flush has touched while a snapshot was in flight.
CleanIsSaved ==
  \A s \in live \ (raced \cup expired) :
    ~mem[s].dirty => Range(mem[s].events) \subseteq Saved(db, s)

\* No hit is written to SQLite twice (FlushTo writes only the events after the
\* flushed prefix), over retries after failed writes and over restarts.
NoDuplicateRows == \A s \in Slugs \ raced : IsInjective(db.events[s])

\* The buffer is in the order in which the hits were recorded, also after
\* LoadFrom has rebuilt it from the store.
BufferInOrder ==
  \A s \in live \ raced : \A i, j \in DOMAIN mem[s].events :
    i < j => mem[s].events[i] < mem[s].events[j]

\* Once handleDeleteSlug has removed a slug from the registry and the store it
\* is gone for good: no flush and no restart brings back the slug or its hits.
DeleteIsFinal == \A s \in deleted \ raced : Gone(s)

\* Event rows are only found for removal through their slug's row, so rows
\* without one would stay in SQLite for ever.
NoOrphanRows ==
  \A s \in Slugs \ raced : db.events[s] # <<>> => s \in db.slugs

\* recordEvent never makes a buffer longer than max_events_per_slug: only
\* LoadFrom, in a process that is starting, does.
GrowthStopsAtCap ==
  [][\A s \in Slugs : up /\ Len(mem[s].events) < Len(mem'[s].events)
                     => Len(mem'[s].events) <= MaxEvents]_vars

(* Liveness.                                                               *)

\* Write-behind reaches the disk: a recorded hit is saved by a later flush,
\* whatever fails meanwhile, unless it leaves the buffer first (evicted,
\* cleared, deleted, expired, or the process ended).
HitsEventuallySaved ==
  \A s \in Slugs : \A h \in 1..MaxHits :
    h \in Range(mem[s].events)
      ~> \/ h \in Saved(db, s)
         \/ h \notin Range(mem[s].events)
         \/ s \in raced

\* Expired slugs and their hits disappear from memory and from SQLite and do
\* not return, also when a flush is writing them while they expire.
ExpiredEventuallyPurged ==
  \A s \in Slugs :
    s \in expired
      ~> [](s \in raced \/ Gone(s))
-----------------------------------------------------------------------------
(* Refinement.                                                             *)

\* The slugs for which FlushTo, LoadFrom and the handlers keep the promise: no
\* longer those that have expired or that a race has spoiled.
Promised == Slugs \ (raced \cup expired)

Held == [s \in Slugs |-> IF s \in Promised THEN Range(mem[s].events) ELSE {}]

Logged == [s \in Slugs |-> IF s \in Promised THEN db.events[s] ELSE <<>>]

Promise == INSTANCE DurableLog WITH
  held <- Held, saved <- Logged,
  gone <- deleted \ raced, released <- raced \cup expired

\* Snapshots written outside the lock, bookkeeping by counters, failed and
\* repeated flushes, crashes and restarts together behave like a log in SQLite
\* that grows in order and without holes and from which a restart refills the
\* buffers.
ImplementsDurableLog == Promise!Spec
-----------------------------------------------------------------------------
(* What the documentation and the comments say without reservation, and    *)
(* what the code does not do.                                              *)

\* persistence.go: "FlushTo persists dirty slugs and their new events to the
\* store."  A slug that is not dirty has no events left to persist.
FlushPersistsNewEvents ==
  \A s \in live \ expired :
    ~mem[s].dirty => Range(mem[s].events) \subseteq Saved(db, s)

\* README, ADR-0004: max_events_per_slug events per slug, oldest evicted, so
\* that memory stays bounded.  It does not take overlapping flushes to exceed
\* the bound: LoadFrom also brings back the hits evicted after they were saved.
RingBufferBound ==
  \A s \in live \ raced : Len(mem[s].events) <= MaxEvents

\* README, ARCHITECTURE: DELETE removes the slug from registry and store.
DeletedStaysDeleted == deleted \cap live = {}
-----------------------------------------------------------------------------
(* The inductive invariant behind the safety properties.                   *)

\* The slugs whose bookkeeping is claimed to be exact.
Accountable == live \ (raced \cup expired)

\* How much of the current buffer the snapshot of s by f still covers.
Covered(f, s) == snap[f][s].len - mem[s].evictedDuringFlush

\* The rows of that snapshot which are not in SQLite yet.
Unwritten(f, s) ==
  IF pc[f] = "book" /\ cur[f] = s THEN {} ELSE Range(snap[f][s].rows)

\* The flushed prefix of the buffer is in SQLite, all of it if the entry is
\* clean; what a snapshot covers is in SQLite or about to be written.
EntryExact(s) ==
  /\ PrefixIn(mem[s], mem[s].flushedCount, Saved(db, s))
  /\ ~mem[s].dirty => Range(mem[s].events) \subseteq Saved(db, s)

SnapshotExact(f, s) ==
  s \in pending[f] =>
    PrefixIn(mem[s], Covered(f, s), Saved(db, s) \cup Unwritten(f, s))

Exact(s) == EntryExact(s) /\ \A f \in Flushers : SnapshotExact(f, s)

BookkeepingExact == \A s \in Accountable : Exact(s)

\* Only a FlushTo in progress holds snapshots, of slugs that were created,
\* and the one being written is among them.
FlusherShape(f) ==
  /\ pending[f] \subseteq issued
  /\ pc[f] \notin {"insertSlug", "insertEvents", "book"} => pending[f] = {}
  /\ pc[f] \in {"insertEvents", "book"} => cur[f] \in pending[f]
  /\ ~up => pc[f] = "idle"

FlushShape == \A f \in Flushers : FlusherShape(f)

\* Every slug in memory, in SQLite or being deleted was created, and a slug
\* whose deletion has reached the store is out of the registry.  A handler
\* does not outlive its process.
CreatedFirst ==
  /\ live \subseteq issued
  /\ db.slugs \subseteq issued
  /\ deleted \subseteq issued
  /\ \A s \in Slugs : del[s] # "none" => up /\ s \in issued
  /\ \A s \in Slugs : del[s] = "removed" => s \notin live

\* Two overlapping flushes of one slug mark it as raced.
OneSnapshot ==
  \A s \in Slugs \ raced, f, g \in Flushers :
    s \in pending[f] /\ s \in pending[g] => f = g

\* A deleted slug is not waiting to be written either.
DeletedNotPending ==
  \A s \in deleted \ raced, f \in Flushers : s \notin pending[f]

\* Event rows are only written under a slug row.
RowBeforeEvents ==
  \A f \in Flushers :
    pc[f] = "insertEvents" /\ cur[f] \notin raced => cur[f] \in db.slugs

\* Everything above together: what makes the bookkeeping of FlushTo exact
\* under concurrent records, evictions, failures, deletes and restarts.
FlushInvariant ==
  /\ FlushShape
  /\ CreatedFirst
  /\ OneSnapshot
  /\ BookkeepingExact
  /\ DeletedNotPending
  /\ RowBeforeEvents
  /\ DeleteIsFinal
  /\ NoOrphanRows
=============================================================================
