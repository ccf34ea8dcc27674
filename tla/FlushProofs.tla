---------------------------- MODULE FlushProofs ----------------------------
(***************************************************************************)
(* FlushInvariant is inductive, part by part, and with it the safety       *)
(* properties of Persistence hold for every instance.                      *)
(***************************************************************************)
EXTENDS PersistenceProofs

-----------------------------------------------------------------------------
(* FlushShape and CreatedFirst.                                            *)

LEMMA ShapeKept ==
  ASSUME NEW g \in Flushers, FlusherShape(g), Untouched(g),
         issued \subseteq issued', up' = up
  PROVE  FlusherShape(g)'
BY DEF FlusherShape, Untouched

\* A flusher that has left FlushTo.
LEMMA ShapeReturned ==
  ASSUME NEW g \in Flushers, up, up' = up,
         pending'[g] = {}, pc'[g] = AfterFlush(g)
  PROVE  FlusherShape(g)'
BY DEF FlusherShape, AfterFlush

LEMMA ShapeStep ==
  ASSUME TypeOK, FlushShape, CreatedFirst, [Next]_vars
  PROVE  FlushShape'
<1>a. \A g \in Flushers : FlusherShape(g)
  BY DEF FlushShape
<1>1. ASSUME UNCHANGED flushVars, issued \subseteq issued', up' = up
      PROVE  FlushShape'
  BY <1>1, <1>a, FlushVarsUntouched, ShapeKept DEF FlushShape
<1>2. CASE Start
  BY <1>2, <1>a DEF Start, FlushShape, FlusherShape, flushVars
<1>3. CASE ProcessEnds
  BY <1>3 DEF ProcessEnds, FlushShape, FlusherShape
<1>4. ASSUME NEW f \in Flushers, up, CollectDirtySnapshots(f)
      PROVE  FlushShape'
  <2> SUFFICES ASSUME NEW g \in Flushers  PROVE FlusherShape(g)'
    BY DEF FlushShape
  <2>1. CASE g = f
    <3>1. \A s \in pending'[f] : s \in live
      BY <1>4, CollectFacts
    <3>2. pending'[f] \subseteq issued'
      BY <1>4, <3>1, CollectFacts DEF CreatedFirst
    <3>3. \/ pending'[f] = {} /\ pc'[f] = AfterFlush(f)
          \/ pc'[f] = "insertSlug"
      BY <1>4, CollectFacts
    <3>4. up' = up
      BY <1>4, CollectFacts
    <3>. QED  BY <1>4, <2>1, <3>2, <3>3, <3>4 DEF FlusherShape, AfterFlush
  <2>2. CASE g # f
    BY <1>4, <1>a, <2>2, CollectFacts, ShapeKept
  <2>. QED  BY <2>1, <2>2
<1>5. CASE Cleanup \/ PurgeExpired \/ PurgeExpiredFails \/ LoopReturns
  <2>1. /\ UNCHANGED <<up, issued, pending, snap, cur>>
        /\ up
        /\ pc["loop"] \in {"cleanup", "deleteExpired", "idle"}
        /\ \/ pc' = [pc EXCEPT !["loop"] = "idle"]
           \/ pc' = [pc EXCEPT !["loop"] = "deleteExpired"]
           \/ pc' = [pc EXCEPT !["loop"] = "returned"]
    BY <1>5 DEF Cleanup, PurgeExpired, PurgeExpiredFails, LoopReturns,
                processVars
  <2>2. pc \in [Flushers -> FlushPC] /\ "loop" \in Flushers
    BY DEF TypeOK, Flushers
  <2>3. /\ pc'["loop"] \in {"idle", "deleteExpired", "returned"}
        /\ \A g \in Flushers \ {"loop"} : pc'[g] = pc[g]
    BY <2>1, <2>2
  <2>4. FlusherShape("loop")'
    BY <1>a, <2>1, <2>2, <2>3 DEF FlusherShape
  <2>5. ASSUME NEW g \in Flushers, g # "loop"  PROVE FlusherShape(g)'
    BY <1>a, <2>1, <2>3, <2>5 DEF FlusherShape
  <2>. QED  BY <2>4, <2>5 DEF FlushShape
<1>6. ASSUME NEW f \in Flushers, FlushEvents(f)  PROVE FlushShape'
  <2>1. FlusherShape(f)'
    BY <1>6, <1>a, FlushEventsFacts DEF FlusherShape
  <2>2. ASSUME NEW g \in Flushers, g # f  PROVE FlusherShape(g)'
    BY <1>6, <1>a, <2>2, FlushEventsFacts, ShapeKept
  <2>. QED  BY <2>1, <2>2 DEF FlushShape
<1>7. ASSUME NEW f \in Flushers, FlushFails(f)  PROVE FlushShape'
  <2>0. up /\ up' = up /\ issued \subseteq issued'
    BY <1>7, FlushFailsFacts DEF FlushFails
  <2>1. FlusherShape(f)'
    BY <1>7, <2>0, FlushFailsFacts, ShapeReturned
  <2>2. ASSUME NEW g \in Flushers, g # f  PROVE FlusherShape(g)'
    BY <1>7, <1>a, <2>0, <2>2, FlushFailsFacts, ShapeKept
  <2>. QED  BY <2>1, <2>2 DEF FlushShape
<1>8. ASSUME NEW f \in Flushers, Book(f)  PROVE FlushShape'
  <2>0. up /\ up' = up /\ issued' = issued
    BY <1>8, BookFacts DEF Book
  <2>1. FlusherShape(f)'
    <3>1. pending'[f] \subseteq pending[f]
      BY <1>8, BookFacts
    <3>2. \/ pending'[f] = {} /\ pc'[f] = AfterFlush(f)
          \/ pc'[f] = "insertSlug"
      BY <1>8, BookFacts
    <3>. QED  BY <1>a, <2>0, <3>1, <3>2 DEF FlusherShape, AfterFlush
  <2>2. ASSUME NEW g \in Flushers, g # f  PROVE FlusherShape(g)'
    BY <1>8, <1>a, <2>0, <2>2, BookFacts, ShapeKept
  <2>. QED  BY <2>1, <2>2 DEF FlushShape
<1>9. ASSUME NEW f \in Flushers, NEW s \in Slugs, FlushSlug(f, s)
      PROVE  FlushShape'
  <2>0. up /\ up' = up /\ issued' = issued /\ s \in pending[f]
    BY <1>9, FlushSlugFacts DEF FlushSlug
  <2>1. FlusherShape(f)'
    <3>1. \/ pending'[f] = {} /\ pc'[f] = AfterFlush(f)
          \/ /\ pending'[f] = pending[f]
             /\ pc'[f] \in {"insertEvents", "book"}
             /\ cur'[f] = s
      BY <1>9, FlushSlugFacts
    <3>. QED  BY <1>a, <2>0, <3>1 DEF FlusherShape, AfterFlush
  <2>2. ASSUME NEW g \in Flushers, g # f  PROVE FlusherShape(g)'
    BY <1>9, <1>a, <2>0, <2>2, FlushSlugFacts, ShapeKept
  <2>. QED  BY <2>1, <2>2 DEF FlushShape
<1>10. ASSUME NEW s \in Slugs,
              \/ Expire(s) \/ CreateSlug(s) \/ Record(s)
              \/ RecordPanicRecovered(s) \/ ClearEvents(s)
              \/ DeleteCheckOwner(s) \/ DeleteFromRegistry(s)
              \/ DeleteFromStore(s) \/ DeleteFromStoreFails(s)
       PROVE  FlushShape'
  <2>1. UNCHANGED flushVars /\ issued \subseteq issued' /\ up' = up
    BY <1>10 DEF Expire, CreateSlug, Record, RecordPanicRecovered, ClearEvents,
       DeleteCheckOwner, DeleteFromRegistry, DeleteFromStore,
       DeleteFromStoreFails, processVars
  <2>. QED  BY <1>1, <2>1
<1>11. CASE Shutdown \/ UNCHANGED vars
  BY <1>1, <1>11 DEF Shutdown, vars, processVars
<1>. QED
  BY <1>2, <1>3, <1>4, <1>5, <1>6, <1>7, <1>8, <1>9, <1>10, <1>11
     DEF Next, Crash, Exit, Tick, FinalFlush, Flushers

LEMMA CreatedFirstStep ==
  ASSUME TypeOK, FlushShape, CreatedFirst, [Next]_vars
  PROVE  CreatedFirst'
<1> USE DEF processVars, memVars, flushVars, historyVars
<1>1. ASSUME UNCHANGED <<up, db, del, deleted>>,
             issued \subseteq issued', live' \subseteq live
      PROVE  CreatedFirst'
  BY <1>1 DEF CreatedFirst
<1>2. CASE Start
  <2>1. \A s \in Slugs : del[s] = "none"
    BY <1>2 DEF Start, CreatedFirst
  <2>2. live' \subseteq db.slugs
    BY <1>2 DEF Start, LoadSlugs
  <2>. QED  BY <1>2, <2>1, <2>2 DEF Start, CreatedFirst
<1>3. CASE ProcessEnds
  BY <1>3 DEF ProcessEnds, CreatedFirst
<1>4. ASSUME NEW f \in Flushers, CollectDirtySnapshots(f)  PROVE CreatedFirst'
  <2>1. UNCHANGED <<up, live, db, del, issued, deleted>>
    BY <1>4, CollectFacts
  <2>. QED  BY <1>1, <2>1
<1>5. CASE Cleanup \/ PurgeExpiredFails \/ LoopReturns \/ Shutdown
           \/ UNCHANGED vars
  BY <1>1, <1>5 DEF Cleanup, PurgeExpiredFails, LoopReturns, Shutdown, vars
<1>6. CASE PurgeExpired
  <2>1. db'.slugs \subseteq db.slugs
    BY <1>6 DEF PurgeExpired, DeleteExpired
  <2>. QED  BY <1>6, <2>1 DEF PurgeExpired, CreatedFirst
<1>7. ASSUME NEW f \in Flushers, FlushEvents(f)  PROVE CreatedFirst'
  <2>1. db'.slugs = db.slugs /\ UNCHANGED <<up, live, del, issued, deleted>>
    BY <1>7, FlushEventsFacts
  <2>. QED  BY <2>1 DEF CreatedFirst
<1>8. ASSUME NEW f \in Flushers, FlushFails(f)  PROVE CreatedFirst'
  <2>1. UNCHANGED <<up, live, db, del, issued, deleted>>
    BY <1>8, FlushFailsFacts
  <2>. QED  BY <1>1, <2>1
<1>9. ASSUME NEW f \in Flushers, Book(f)  PROVE CreatedFirst'
  <2>1. UNCHANGED <<up, live, db, del, issued, deleted>>
    BY <1>9, BookFacts
  <2>. QED  BY <1>1, <2>1
<1>10. ASSUME NEW f \in Flushers, NEW s \in Slugs, FlushSlug(f, s)
       PROVE  CreatedFirst'
  <2>1. /\ s \in pending[f]
        /\ db'.slugs = db.slugs \cup {s}
        /\ UNCHANGED <<up, live, del, issued, deleted>>
    BY <1>10, FlushSlugFacts
  <2>2. s \in issued
    BY <2>1 DEF FlushShape, FlusherShape
  <2>. QED  BY <2>1, <2>2 DEF CreatedFirst
<1>11. ASSUME NEW s \in Slugs,
              \/ Expire(s) \/ Record(s) \/ RecordPanicRecovered(s)
              \/ ClearEvents(s)
       PROVE  CreatedFirst'
  BY <1>1, <1>11 DEF Expire, Record, RecordPanicRecovered, ClearEvents
<1>12. ASSUME NEW s \in Slugs, CreateSlug(s)  PROVE CreatedFirst'
  BY <1>12 DEF CreateSlug, CreatedFirst
<1>13. ASSUME NEW s \in Slugs, DeleteCheckOwner(s)  PROVE CreatedFirst'
  BY <1>13 DEF DeleteCheckOwner, CreatedFirst, TypeOK
<1>14. ASSUME NEW s \in Slugs, DeleteFromRegistry(s)  PROVE CreatedFirst'
  BY <1>14 DEF DeleteFromRegistry, CreatedFirst, TypeOK
<1>15. ASSUME NEW s \in Slugs, DeleteFromStore(s)  PROVE CreatedFirst'
  <2>1. db'.slugs \subseteq db.slugs
    BY <1>15, DeleteSlugRows DEF DeleteFromStore, TypeOK
  <2>. QED  BY <1>15, <2>1 DEF DeleteFromStore, CreatedFirst, TypeOK
<1>16. ASSUME NEW s \in Slugs, DeleteFromStoreFails(s)  PROVE CreatedFirst'
  BY <1>16 DEF DeleteFromStoreFails, CreatedFirst, TypeOK
<1>. QED
  BY <1>2, <1>3, <1>4, <1>5, <1>6, <1>7, <1>8, <1>9, <1>10, <1>11, <1>12,
     <1>13, <1>14, <1>15, <1>16 DEF Next, Crash, Exit, Tick, FinalFlush, Flushers
-----------------------------------------------------------------------------
(* How a step may change the set of snapshots and the history variables.   *)

\* Snapshots in flight only appear in collectDirtySnapshots, which marks the
\* slugs that already had one.  A slug once raced stays raced.
LEMMA PendingStep ==
  ASSUME TypeOK, FlushShape, [Next]_vars, NEW s \in Slugs, NEW g \in Flushers,
         s \in pending'[g], s \notin pending[g]
  PROVE  s \in live /\ (InFlight(s) => s \in raced') /\ UNCHANGED <<deleted, db>>
         /\ \A h \in Flushers \ {g} : pending'[h] = pending[h]
<1> USE DEF processVars, memVars, flushVars, historyVars
<1>1. CASE ProcessEnds
  BY <1>1 DEF ProcessEnds
<1>2. ASSUME NEW f \in Flushers, CollectDirtySnapshots(f)
      PROVE  /\ s \in live
             /\ InFlight(s) => s \in raced'
             /\ UNCHANGED <<deleted, db>>
             /\ \A h \in Flushers \ {g} : pending'[h] = pending[h]
  <2>1. g = f
    BY <1>2, CollectFacts DEF Untouched
  <2>2. s \in live /\ mem[s].dirty
    BY <1>2, <2>1, CollectFacts
  <2>5. InFlight(s) => s \in raced'
    BY <1>2, <2>2, CollectFacts
  <2>3. UNCHANGED <<deleted, db>>
    BY <1>2, CollectFacts
  <2>4. \A h \in Flushers \ {g} : pending'[h] = pending[h]
    BY <1>2, <2>1, CollectFacts DEF Untouched
  <2>. QED  BY <2>2, <2>3, <2>4, <2>5
<1>3. ASSUME NEW f \in Flushers, FlushEvents(f)  PROVE FALSE
  BY <1>3 DEF FlushEvents
<1>4. ASSUME NEW f \in Flushers, FlushFails(f)  PROVE FALSE
  BY <1>4, FlushFailsFacts DEF Untouched
<1>5. ASSUME NEW f \in Flushers, Book(f)  PROVE FALSE
  BY <1>5, BookFacts DEF Untouched
<1>6. ASSUME NEW f \in Flushers, NEW t \in Slugs, FlushSlug(f, t)  PROVE FALSE
  BY <1>6, FlushSlugFacts DEF Untouched
<1>7. CASE UNCHANGED pending
  BY <1>7
<1>8. ASSUME NEW t \in Slugs,
             \/ Expire(t) \/ CreateSlug(t) \/ Record(t)
             \/ RecordPanicRecovered(t) \/ ClearEvents(t)
             \/ DeleteCheckOwner(t) \/ DeleteFromRegistry(t)
             \/ DeleteFromStore(t) \/ DeleteFromStoreFails(t)
      PROVE  UNCHANGED pending
  BY <1>8 DEF Expire, CreateSlug, Record, RecordPanicRecovered, ClearEvents,
     DeleteCheckOwner, DeleteFromRegistry, DeleteFromStore, DeleteFromStoreFails
<1>9. CASE Start \/ Shutdown \/ Cleanup \/ PurgeExpired \/ PurgeExpiredFails
           \/ LoopReturns \/ UNCHANGED vars
  BY <1>7, <1>9 DEF Start, Shutdown, Cleanup, PurgeExpired, PurgeExpiredFails,
     LoopReturns, vars
<1>10. (\E t \in Slugs :
             \/ Expire(t) \/ CreateSlug(t) \/ Record(t)
             \/ RecordPanicRecovered(t) \/ ClearEvents(t)
             \/ DeleteCheckOwner(t) \/ DeleteFromRegistry(t)
             \/ DeleteFromStore(t) \/ DeleteFromStoreFails(t)) => FALSE
  BY <1>8
<1>. QED
  BY <1>1, <1>2, <1>3, <1>4, <1>5, <1>6, <1>9, <1>10
     DEF Next, Crash, Exit, Tick, FinalFlush, Flushers

\* The history variables only grow.
LEMMA HistoryGrows ==
  ASSUME TypeOK, FlushShape, [Next]_vars
  PROVE  raced \subseteq raced' /\ deleted \subseteq deleted'
<1> USE DEF processVars, memVars, flushVars, historyVars
<1>1. ASSUME NEW f \in Flushers, CollectDirtySnapshots(f)
      PROVE  raced \subseteq raced' /\ deleted \subseteq deleted'
  BY <1>1, CollectFacts
<1>2. ASSUME NEW f \in Flushers, NEW s \in Slugs, FlushSlug(f, s)
      PROVE  raced \subseteq raced' /\ deleted \subseteq deleted'
  BY <1>2 DEF FlushSlug
<1>3. ASSUME NEW f \in Flushers, FlushEvents(f) \/ FlushFails(f) \/ Book(f)
      PROVE  raced \subseteq raced' /\ deleted \subseteq deleted'
  BY <1>3 DEF FlushEvents, FlushFails, Book
<1>4. ASSUME NEW s \in Slugs,
             \/ Expire(s) \/ CreateSlug(s) \/ Record(s)
             \/ RecordPanicRecovered(s) \/ ClearEvents(s)
             \/ DeleteCheckOwner(s) \/ DeleteFromRegistry(s)
             \/ DeleteFromStore(s) \/ DeleteFromStoreFails(s)
      PROVE  raced \subseteq raced' /\ deleted \subseteq deleted'
  BY <1>4 DEF Expire, CreateSlug, Record, RecordPanicRecovered, ClearEvents,
     DeleteCheckOwner, DeleteFromRegistry, DeleteFromStore, DeleteFromStoreFails
<1>5. CASE Start \/ Shutdown \/ Cleanup \/ PurgeExpired \/ PurgeExpiredFails
           \/ LoopReturns \/ ProcessEnds \/ UNCHANGED vars
  BY <1>5 DEF Start, Shutdown, Cleanup, PurgeExpired, PurgeExpiredFails,
     LoopReturns, ProcessEnds, vars
<1>. QED
  BY <1>1, <1>2, <1>3, <1>4, <1>5
     DEF Next, Crash, Exit, Tick, FinalFlush, Flushers

LEMMA OneSnapshotStep ==
  ASSUME TypeOK, FlushShape, OneSnapshot, [Next]_vars
  PROVE  OneSnapshot'
<1> SUFFICES ASSUME NEW s \in Slugs, s \notin raced',
                    NEW f \in Flushers, NEW g \in Flushers,
                    s \in pending'[f], s \in pending'[g], f # g
             PROVE  FALSE
  BY DEF OneSnapshot
<1>1. s \notin raced
  BY HistoryGrows
<1>2. CASE s \in pending[f] /\ s \in pending[g]
  BY <1>1, <1>2 DEF OneSnapshot
<1>3. ASSUME NEW h \in Flushers, NEW k \in Flushers, h # k,
             s \in pending'[h], s \in pending'[k], s \notin pending[h]
      PROVE  FALSE
  <2>1. (InFlight(s) => s \in raced') /\ pending'[k] = pending[k]
    BY <1>3, PendingStep
  <2>. QED  BY <1>3, <2>1 DEF InFlight
<1>. QED  BY <1>2, <1>3
-----------------------------------------------------------------------------
(* Which steps change the database, the registry's keys and the deletions. *)

LEMMA DatabaseStep ==
  ASSUME [Next]_vars
  PROVE  \/ UNCHANGED db
         \/ \E f \in Flushers, s \in Slugs : FlushSlug(f, s)
         \/ \E f \in Flushers : FlushEvents(f)
         \/ \E s \in Slugs : DeleteFromStore(s)
         \/ PurgeExpired
<1> USE DEF processVars, memVars, flushVars, historyVars
<1>1. ASSUME NEW f \in Flushers, CollectDirtySnapshots(f)  PROVE UNCHANGED db
  BY <1>1, Zenon DEF CollectDirtySnapshots
<1>2. ASSUME NEW f \in Flushers, FlushFails(f) \/ Book(f)  PROVE UNCHANGED db
  BY <1>2 DEF FlushFails, Book
<1>3. ASSUME NEW s \in Slugs,
             \/ Expire(s) \/ CreateSlug(s) \/ Record(s)
             \/ RecordPanicRecovered(s) \/ ClearEvents(s)
             \/ DeleteCheckOwner(s) \/ DeleteFromRegistry(s)
             \/ DeleteFromStoreFails(s)
      PROVE  UNCHANGED db
  BY <1>3 DEF Expire, CreateSlug, Record, RecordPanicRecovered, ClearEvents,
     DeleteCheckOwner, DeleteFromRegistry, DeleteFromStoreFails
<1>4. CASE Start \/ Shutdown \/ Cleanup \/ PurgeExpiredFails
           \/ LoopReturns \/ ProcessEnds \/ UNCHANGED vars
  BY <1>4 DEF Start, Shutdown, Cleanup, PurgeExpiredFails, LoopReturns,
     ProcessEnds, vars
<1>. QED
  BY <1>1, <1>2, <1>3, <1>4
     DEF Next, Crash, Exit, Tick, FinalFlush, Flushers

\* A slug enters the registry by LoadFrom or by CreateSlug.
LEMMA LiveStep ==
  ASSUME [Next]_vars, NEW s \in Slugs, s \in live', s \notin live
  PROVE  s \in db.slugs \/ s \notin issued
<1> USE DEF processVars, memVars, flushVars, historyVars
<1>1. ASSUME NEW f \in Flushers, CollectDirtySnapshots(f)  PROVE FALSE
  BY <1>1, Zenon DEF CollectDirtySnapshots
<1>2. ASSUME NEW f \in Flushers, FlushEvents(f) \/ FlushFails(f) \/ Book(f)
      PROVE  FALSE
  BY <1>2 DEF FlushEvents, FlushFails, Book
<1>3. ASSUME NEW f \in Flushers, NEW t \in Slugs, FlushSlug(f, t)  PROVE FALSE
  BY <1>3 DEF FlushSlug
<1>4. ASSUME NEW t \in Slugs,
             \/ Expire(t) \/ Record(t) \/ RecordPanicRecovered(t)
             \/ ClearEvents(t) \/ DeleteCheckOwner(t) \/ DeleteFromRegistry(t)
             \/ DeleteFromStore(t) \/ DeleteFromStoreFails(t)
      PROVE  FALSE
  BY <1>4 DEF Expire, Record, RecordPanicRecovered, ClearEvents,
     DeleteCheckOwner, DeleteFromRegistry, DeleteFromStore, DeleteFromStoreFails
<1>5. ASSUME NEW t \in Slugs, CreateSlug(t)  PROVE s \notin issued
  BY <1>5 DEF CreateSlug
<1>6. CASE Shutdown \/ Cleanup \/ PurgeExpired \/ PurgeExpiredFails
           \/ LoopReturns \/ ProcessEnds \/ UNCHANGED vars
  BY <1>6 DEF Shutdown, Cleanup, PurgeExpired, PurgeExpiredFails, LoopReturns,
     ProcessEnds, vars
<1>7. CASE Start
  BY <1>7 DEF Start, LoadSlugs
<1>. QED
  BY <1>1, <1>2, <1>3, <1>4, <1>5, <1>6, <1>7
     DEF Next, Crash, Exit, Tick, FinalFlush, Flushers

\* "deleted" records the successful calls of store.DeleteSlug.
LEMMA DeletedStep ==
  ASSUME TypeOK, [Next]_vars, NEW s \in Slugs, s \in deleted', s \notin deleted
  PROVE  DeleteFromStore(s)
<1> USE DEF processVars, memVars, flushVars, historyVars
<1>1. ASSUME NEW f \in Flushers, CollectDirtySnapshots(f)  PROVE FALSE
  BY <1>1, Zenon DEF CollectDirtySnapshots
<1>2. ASSUME NEW f \in Flushers, FlushEvents(f) \/ FlushFails(f) \/ Book(f)
      PROVE  FALSE
  BY <1>2 DEF FlushEvents, FlushFails, Book
<1>3. ASSUME NEW f \in Flushers, NEW t \in Slugs, FlushSlug(f, t)  PROVE FALSE
  BY <1>3 DEF FlushSlug
<1>4. ASSUME NEW t \in Slugs,
             \/ Expire(t) \/ CreateSlug(t) \/ Record(t)
             \/ RecordPanicRecovered(t) \/ ClearEvents(t)
             \/ DeleteCheckOwner(t) \/ DeleteFromRegistry(t)
             \/ DeleteFromStoreFails(t)
      PROVE  FALSE
  BY <1>4 DEF Expire, CreateSlug, Record, RecordPanicRecovered, ClearEvents,
     DeleteCheckOwner, DeleteFromRegistry, DeleteFromStoreFails
<1>5. ASSUME NEW t \in Slugs, DeleteFromStore(t)  PROVE DeleteFromStore(s)
  <2>1. s = t
    BY <1>5 DEF DeleteFromStore
  <2>. QED  BY <1>5, <2>1
<1>6. CASE Start \/ Shutdown \/ Cleanup \/ PurgeExpired \/ PurgeExpiredFails
           \/ LoopReturns \/ ProcessEnds \/ UNCHANGED vars
  BY <1>6 DEF Start, Shutdown, Cleanup, PurgeExpired, PurgeExpiredFails,
     LoopReturns, ProcessEnds, vars
<1>. QED
  BY <1>1, <1>2, <1>3, <1>4, <1>5, <1>6
     DEF Next, Crash, Exit, Tick, FinalFlush, Flushers

\* FlushTo comes to InsertEvents through InsertSlug of the same snapshot.
LEMMA InsertEventsStep ==
  ASSUME TypeOK, FlushShape, [Next]_vars, NEW g \in Flushers,
         pc'[g] = "insertEvents"
  PROVE  \/ pc[g] = "insertEvents" /\ cur'[g] = cur[g]
         \/ \E s \in Slugs : FlushSlug(g, s) /\ cur'[g] = s
<1> USE DEF processVars, memVars, flushVars, historyVars
<1> DEFINE Same == pc[g] = "insertEvents" /\ cur'[g] = cur[g]
<1>1. ASSUME NEW f \in Flushers, CollectDirtySnapshots(f)  PROVE Same
  BY <1>1, CollectFacts DEF Untouched, AfterFlush
<1>2. ASSUME NEW f \in Flushers, FlushEvents(f)  PROVE Same
  BY <1>2, FlushEventsFacts DEF Untouched
<1>3. ASSUME NEW f \in Flushers, FlushFails(f)  PROVE Same
  BY <1>3, FlushFailsFacts DEF Untouched, AfterFlush
<1>4. ASSUME NEW f \in Flushers, Book(f)  PROVE Same
  BY <1>4, BookFacts DEF Untouched, AfterFlush
<1>5. ASSUME NEW f \in Flushers, NEW s \in Slugs, FlushSlug(f, s)
      PROVE  Same \/ (FlushSlug(g, s) /\ cur'[g] = s)
  <2>1. CASE g = f
    BY <1>5, <2>1, FlushSlugFacts DEF AfterFlush
  <2>2. CASE g # f
    BY <1>5, <2>2, FlushSlugFacts DEF Untouched
  <2>. QED  BY <2>1, <2>2
<1>6. ASSUME NEW s \in Slugs,
             \/ Expire(s) \/ CreateSlug(s) \/ Record(s)
             \/ RecordPanicRecovered(s) \/ ClearEvents(s)
             \/ DeleteCheckOwner(s) \/ DeleteFromRegistry(s)
             \/ DeleteFromStore(s) \/ DeleteFromStoreFails(s)
      PROVE  Same
  BY <1>6 DEF Expire, CreateSlug, Record, RecordPanicRecovered, ClearEvents,
     DeleteCheckOwner, DeleteFromRegistry, DeleteFromStore, DeleteFromStoreFails
<1>7. CASE Cleanup \/ PurgeExpired \/ PurgeExpiredFails \/ LoopReturns
  BY <1>7 DEF Cleanup, PurgeExpired, PurgeExpiredFails, LoopReturns, TypeOK
<1>8. CASE Start \/ Shutdown \/ UNCHANGED vars
  BY <1>8 DEF Start, Shutdown, vars
<1>9. CASE ProcessEnds
  BY <1>9 DEF ProcessEnds
<1>. QED
  BY <1>1, <1>2, <1>3, <1>4, <1>5, <1>6, <1>7, <1>8, <1>9
     DEF Next, Crash, Exit, Tick, FinalFlush, Flushers
-----------------------------------------------------------------------------
(* Deleted slugs and orphan rows.                                          *)

LEMMA DeletedNotPendingStep ==
  ASSUME TypeOK, FlushShape, DeletedNotPending, DeleteIsFinal, [Next]_vars
  PROVE  DeletedNotPending'
<1> SUFFICES ASSUME NEW s \in deleted', s \notin raced', NEW f \in Flushers,
                    s \in pending'[f]
             PROVE  FALSE
  BY DEF DeletedNotPending
<1>1. s \in Slugs /\ s \notin raced
  BY NextTypeOK, HistoryGrows DEF TypeOK
<1>2. CASE s \in deleted
  <2>1. s \notin pending[f] /\ s \notin live
    BY <1>1, <1>2 DEF DeletedNotPending, DeleteIsFinal, Gone
  <2>. QED  BY <1>1, <2>1, PendingStep
<1>3. CASE s \notin deleted
  <2>1. DeleteFromStore(s)
    BY <1>1, <1>3, DeletedStep
  <2>2. pending' = pending /\ (InFlight(s) => s \in raced')
    BY <2>1 DEF DeleteFromStore, flushVars
  <2>. QED  BY <2>2 DEF InFlight
<1>. QED  BY <1>2, <1>3

LEMMA DeleteIsFinalStep ==
  ASSUME TypeOK, FlushShape, CreatedFirst, DeletedNotPending, DeleteIsFinal,
         [Next]_vars
  PROVE  DeleteIsFinal'
<1> SUFFICES ASSUME NEW s \in deleted', s \notin raced'
             PROVE  Gone(s)'
  BY DEF DeleteIsFinal
<1>1. s \in Slugs /\ s \notin raced /\ db \in Database
  BY NextTypeOK, HistoryGrows DEF TypeOK
<1>2. CASE DeleteFromStore(s)
  <2>1. s \notin live'
    BY <1>1, <1>2 DEF DeleteFromStore, CreatedFirst, memVars
  <2>2. s \notin db'.slugs /\ db'.events[s] = <<>>
    BY <1>1, <1>2, DeleteSlugRows DEF DeleteFromStore
  <2>. QED  BY <2>1, <2>2 DEF Gone
<1>3. CASE s \in deleted
  <2>1. /\ s \notin live
        /\ s \notin db.slugs
        /\ db.events[s] = <<>>
        /\ s \in issued
        /\ \A f \in Flushers : s \notin pending[f]
    BY <1>1, <1>3 DEF DeleteIsFinal, Gone, CreatedFirst, DeletedNotPending
  <2>2. s \notin live'
    BY <1>1, <2>1, LiveStep
  <2>3. s \notin db'.slugs /\ db'.events[s] = <<>>
    <3>1. ASSUME NEW f \in Flushers, NEW t \in Slugs, FlushSlug(f, t)
          PROVE  s \notin db'.slugs /\ db'.events[s] = <<>>
      BY <2>1, <3>1, FlushSlugFacts
    <3>2. ASSUME NEW f \in Flushers, FlushEvents(f)
          PROVE  s \notin db'.slugs /\ db'.events[s] = <<>>
      BY <1>1, <2>1, <3>2, FlushEventsFacts
    <3>3. ASSUME NEW t \in Slugs, DeleteFromStore(t)
          PROVE  s \notin db'.slugs /\ db'.events[s] = <<>>
      BY <1>1, <2>1, <3>3, DeleteSlugRows DEF DeleteFromStore
    <3>4. CASE PurgeExpired
      BY <1>1, <2>1, <3>4, DeleteExpiredRows DEF PurgeExpired, TypeOK
    <3>5. CASE UNCHANGED db
      BY <2>1, <3>5
    <3>. QED  BY <3>1, <3>2, <3>3, <3>4, <3>5, DatabaseStep
  <2>. QED  BY <2>2, <2>3 DEF Gone
<1>. QED  BY <1>1, <1>2, <1>3, DeletedStep

LEMMA NoOrphanRowsStep ==
  ASSUME TypeOK, FlushShape, RowBeforeEvents, NoOrphanRows, [Next]_vars
  PROVE  NoOrphanRows'
<1> SUFFICES ASSUME NEW s \in Slugs, s \notin raced', db'.events[s] # <<>>
             PROVE  s \in db'.slugs
  BY DEF NoOrphanRows
<1>1. /\ s \notin raced
      /\ db \in Database
      /\ db.events[s] # <<>> => s \in db.slugs
  BY HistoryGrows DEF TypeOK, NoOrphanRows
<1>2. ASSUME NEW f \in Flushers, NEW t \in Slugs, FlushSlug(f, t)
      PROVE  s \in db'.slugs
  BY <1>1, <1>2, FlushSlugFacts
<1>3. ASSUME NEW f \in Flushers, FlushEvents(f)  PROVE s \in db'.slugs
  <2>1. CASE s = cur[f]
    BY <1>1, <1>3, <2>1, FlushEventsFacts DEF RowBeforeEvents
  <2>2. CASE s # cur[f]
    BY <1>1, <1>3, <2>2, FlushEventsFacts
  <2>. QED  BY <2>1, <2>2
<1>4. ASSUME NEW t \in Slugs, DeleteFromStore(t)  PROVE s \in db'.slugs
  BY <1>1, <1>4, DeleteSlugRows DEF DeleteFromStore
<1>5. CASE PurgeExpired
  BY <1>1, <1>5, DeleteExpiredRows DEF PurgeExpired, TypeOK
<1>6. CASE UNCHANGED db
  BY <1>1, <1>6
<1>. QED  BY <1>2, <1>3, <1>4, <1>5, <1>6, DatabaseStep

LEMMA RowBeforeEventsStep ==
  ASSUME TypeOK, FlushShape, RowBeforeEvents, [Next]_vars
  PROVE  RowBeforeEvents'
<1> SUFFICES ASSUME NEW g \in Flushers, pc'[g] = "insertEvents",
                    cur'[g] \notin raced'
             PROVE  cur'[g] \in db'.slugs
  BY DEF RowBeforeEvents
<1>1. ASSUME NEW s \in Slugs, FlushSlug(g, s), cur'[g] = s
      PROVE  cur'[g] \in db'.slugs
  BY <1>1, FlushSlugFacts
<1>2. CASE pc[g] = "insertEvents" /\ cur'[g] = cur[g]
  <2> DEFINE c == cur[g]
  <2>1. /\ c \in pending[g]
        /\ c \in Slugs
        /\ c \notin raced
        /\ c \in db.slugs
        /\ c \notin raced'
        /\ db \in Database
    BY <1>2, HistoryGrows DEF FlushShape, FlusherShape, TypeOK, RowBeforeEvents
  <2>2. InFlight(c)
    BY <2>1 DEF InFlight
  <2> HIDE DEF c
  <2>3. ASSUME NEW f \in Flushers, NEW t \in Slugs, FlushSlug(f, t)
        PROVE  c \in db'.slugs
    BY <2>1, <2>3, FlushSlugFacts
  <2>4. ASSUME NEW f \in Flushers, FlushEvents(f)  PROVE c \in db'.slugs
    BY <2>1, <2>4, FlushEventsFacts
  <2>5. ASSUME NEW t \in Slugs, DeleteFromStore(t)  PROVE c \in db'.slugs
    <3>1. c # t
      BY <2>1, <2>2, <2>5 DEF DeleteFromStore
    <3>. QED  BY <2>1, <2>5, <3>1, DeleteSlugRows DEF DeleteFromStore
  <2>6. ASSUME PurgeExpired  PROVE c \in db'.slugs
    <3>1. c \notin ExpiredRows(db, expired)
      BY <2>1, <2>2, <2>6 DEF PurgeExpired
    <3>. QED  BY <2>1, <2>6, <3>1, DeleteExpiredRows DEF PurgeExpired, TypeOK
  <2>7. ASSUME UNCHANGED db  PROVE c \in db'.slugs
    BY <2>1, <2>7
  <2>8. c \in db'.slugs
    BY <2>3, <2>4, <2>5, <2>6, <2>7, DatabaseStep
  <2>. QED  BY <1>2, <2>8 DEF c
<1>. QED  BY <1>1, <1>2, InsertEventsStep
-----------------------------------------------------------------------------
(* The bookkeeping of FlushTo.                                             *)

LEMMA EntryKept ==
  ASSUME NEW s \in Slugs, EntryExact(s), TypeOK, mem'[s] = mem[s],
         Saved(db, s) \subseteq Saved(db', s)
  PROVE  EntryExact(s)'
<1>1. mem[s] \in Entry /\ mem[s].flushedCount \in Int
  BY EntryFields DEF TypeOK
<1>2. PrefixIn(mem[s], mem[s].flushedCount, Saved(db', s))
  BY <1>1, PrefixWeaker DEF EntryExact
<1>. QED  BY <1>2, Zenon DEF EntryExact

LEMMA CoveredType ==
  ASSUME TypeOK, NEW s \in Slugs, NEW f \in Flushers
  PROVE  /\ Covered(f, s) \in Int
         /\ mem[s] \in Entry
         /\ snap[f][s] \in Snapshot
         /\ snap[f][s].len \in Nat
<1>1. mem[s] \in Entry /\ snap[f][s] \in Snapshot
  BY DEF TypeOK
<1>2. snap[f][s].len \in Nat
  BY <1>1 DEF Snapshot
<1>. QED  BY <1>1, <1>2, EntryFields DEF Covered

\* A snapshot stays exact while the entry is the same, SQLite loses nothing
\* and what is no longer to be written has been written.
LEMMA SnapshotKept ==
  ASSUME NEW s \in Slugs, NEW g \in Flushers, SnapshotExact(g, s), TypeOK,
         mem'[s] = mem[s], Saved(db, s) \subseteq Saved(db', s),
         s \in pending'[g] =>
           /\ s \in pending[g]
           /\ snap'[g][s] = snap[g][s]
           /\ Unwritten(g, s) \subseteq Saved(db', s) \cup Unwritten(g, s)'
  PROVE  SnapshotExact(g, s)'
<1> SUFFICES ASSUME s \in pending'[g]
             PROVE  PrefixIn(mem'[s], Covered(g, s)',
                             Saved(db', s) \cup Unwritten(g, s)')
  BY Zenon DEF SnapshotExact
<1>1. PrefixIn(mem[s], Covered(g, s), Saved(db, s) \cup Unwritten(g, s))
  BY DEF SnapshotExact
<1>2. Covered(g, s) \in Int /\ mem[s] \in Entry
  BY CoveredType
<1>3. Covered(g, s)' = Covered(g, s)
  BY Zenon DEF Covered
<1>4. Saved(db, s) \cup Unwritten(g, s) \subseteq
        Saved(db', s) \cup Unwritten(g, s)'
  BY Zenon
<1>5. Covered(g, s) <= Covered(g, s)
  BY <1>2
<1>6. PrefixIn(mem[s], Covered(g, s), Saved(db', s) \cup Unwritten(g, s)')
  BY <1>1, <1>2, <1>4, <1>5, PrefixWeaker
<1>. QED  BY <1>3, <1>6, Zenon

LEMMA UnwrittenKept ==
  ASSUME NEW g, NEW s, Untouched(g)
  PROVE  Unwritten(g, s)' = Unwritten(g, s)
BY Zenon DEF Unwritten, Untouched

\* The flusher and the entry are the same: nothing to do.
LEMMA ExactKept ==
  ASSUME NEW s \in Slugs, Exact(s), TypeOK, mem'[s] = mem[s],
         Saved(db, s) \subseteq Saved(db', s),
         \A g \in Flushers : Untouched(g)
  PROVE  Exact(s)'
<1>1. EntryExact(s)'
  BY EntryKept DEF Exact
<1>2. ASSUME NEW g \in Flushers  PROVE SnapshotExact(g, s)'
  <2>1. s \in pending'[g] =>
           /\ s \in pending[g]
           /\ snap'[g][s] = snap[g][s]
           /\ Unwritten(g, s) \subseteq Saved(db', s) \cup Unwritten(g, s)'
    BY UnwrittenKept DEF Untouched
  <2>. QED  BY <2>1, SnapshotKept DEF Exact
<1>. QED  BY <1>1, <1>2 DEF Exact

\* recordEvent: an eviction shortens the flushed prefix and what the snapshot
\* covers by the same event.
LEMMA ExactRecord ==
  ASSUME TypeOK, NEW s \in Slugs, Exact(s), Record(s)
  PROVE  Exact(s)'
<1> DEFINE e == mem[s]
           r == Recorded(mem[s], hits[s] + 1)
<1>1. e \in Entry /\ hits[s] + 1 \in Hit
  BY DEF TypeOK, Hit
<1>2. /\ mem'[s] = r
      /\ db' = db
      /\ ~MakePanics(e)
      /\ UNCHANGED flushVars
  BY DEF Record, TypeOK
<1>3. /\ e.flushedCount \in Nat
      /\ e.evictedDuringFlush \in Nat
  BY <1>1, EntryFields
<1>4. r.dirty = TRUE
  BY <1>1, <1>2, RecordedWithRoom, RecordedEvicting
<1>5. r \in Entry
  BY <1>1, <1>2, RecordedWithRoom, RecordedEvicting
<1>6. PrefixIn(e, e.flushedCount, Saved(db, s))
  BY DEF Exact, EntryExact
<1>7. ASSUME NEW g \in Flushers, s \in pending[g]
      PROVE  /\ PrefixIn(e, Covered(g, s), Saved(db, s) \cup Unwritten(g, s))
             /\ Covered(g, s) = snap[g][s].len - e.evictedDuringFlush
             /\ Covered(g, s)' = snap[g][s].len - r.evictedDuringFlush
             /\ Unwritten(g, s)' = Unwritten(g, s)
             /\ snap[g][s].len \in Nat
             /\ Covered(g, s) \in Int
  <2>1. PrefixIn(e, Covered(g, s), Saved(db, s) \cup Unwritten(g, s))
    BY <1>7 DEF Exact, SnapshotExact
  <2>2. /\ Covered(g, s) = snap[g][s].len - e.evictedDuringFlush
        /\ Covered(g, s)' = snap[g][s].len - r.evictedDuringFlush
    BY <1>2, Zenon DEF Covered, flushVars
  <2>3. Unwritten(g, s)' = Unwritten(g, s)
    BY <1>2, FlushVarsUntouched, UnwrittenKept
  <2>. QED  BY <2>1, <2>2, <2>3, CoveredType
<1>8. CASE ~Full(e)
  <2>1. /\ r.flushedCount = e.flushedCount
        /\ r.evictedDuringFlush = e.evictedDuringFlush
    BY <1>1, <1>8, RecordedWithRoom
  <2>2. PrefixIn(r, r.flushedCount, Saved(db, s))
    BY <1>1, <1>3, <1>6, <1>8, <2>1, PrefixRecordedWithRoom
  <2>3. ASSUME NEW g \in Flushers, s \in pending[g]
        PROVE  PrefixIn(r, Covered(g, s)', Saved(db, s) \cup Unwritten(g, s)')
    <3>1. Covered(g, s)' = Covered(g, s)
      BY <1>7, <2>1, <2>3
    <3>2. PrefixIn(r, Covered(g, s), Saved(db, s) \cup Unwritten(g, s))
      BY <1>1, <1>7, <1>8, <2>3, PrefixRecordedWithRoom
    <3>. QED  BY <1>7, <2>3, <3>1, <3>2, Zenon
  <2> HIDE DEF r
  <2>. QED  BY <1>2, <1>4, <2>2, <2>3, Zenon
            DEF Exact, EntryExact, SnapshotExact, flushVars
<1>9. CASE Full(e)
  <2>1. /\ r.flushedCount = IF e.flushedCount > 0 THEN e.flushedCount - 1 ELSE 0
        /\ r.evictedDuringFlush = e.evictedDuringFlush + 1
    BY <1>1, <1>2, <1>9, RecordedEvicting
  <2>2. PrefixIn(r, r.flushedCount, Saved(db, s))
    <3>1. CASE e.flushedCount > 0
      <4>1. PrefixIn(r, e.flushedCount - 1, Saved(db, s))
        BY <1>1, <1>2, <1>3, <1>6, <1>9, PrefixRecordedEvicting
      <4>. QED  BY <2>1, <3>1, <4>1
    <3>2. CASE ~(e.flushedCount > 0)
      BY <1>5, <2>1, <3>2, PrefixEmpty
    <3>. QED  BY <3>1, <3>2
  <2>3. ASSUME NEW g \in Flushers, s \in pending[g]
        PROVE  PrefixIn(r, Covered(g, s)', Saved(db, s) \cup Unwritten(g, s)')
    <3> DEFINE n == snap[g][s].len
    <3>0. /\ n \in Nat
          /\ Covered(g, s) = n - e.evictedDuringFlush
          /\ Covered(g, s)' = n - (e.evictedDuringFlush + 1)
      BY <1>7, <2>1, <2>3
    <3>1. Covered(g, s)' = Covered(g, s) - 1
      <4> HIDE DEF n, e
      <4>. QED  BY <1>3, <3>0
    <3>2. PrefixIn(r, Covered(g, s) - 1, Saved(db, s) \cup Unwritten(g, s))
      BY <1>1, <1>2, <1>7, <1>9, <2>3, PrefixRecordedEvicting
    <3>. QED  BY <1>7, <2>3, <3>1, <3>2, Zenon
  <2> HIDE DEF r
  <2>. QED  BY <1>2, <1>4, <2>2, <2>3, Zenon
            DEF Exact, EntryExact, SnapshotExact, flushVars
<1>. QED  BY <1>8, <1>9

\* recordEvent with a recovered panic: only the counters move, both the same
\* way.
LEMMA ExactPanic ==
  ASSUME TypeOK, NEW s \in Slugs, Exact(s), RecordPanicRecovered(s)
  PROVE  Exact(s)'
<1> DEFINE e == mem[s]
           r == EvictionCounted(mem[s])
<1>1. e \in Entry
  BY DEF TypeOK
<1>2. mem'[s] = r /\ db' = db /\ UNCHANGED flushVars
  BY DEF RecordPanicRecovered, TypeOK
<1>3. e.flushedCount \in Nat /\ e.evictedDuringFlush \in Nat
  BY <1>1, EntryFields
<1>4. /\ r \in Entry
      /\ r.events = e.events
      /\ r.dirty = e.dirty
      /\ r.flushedCount = IF e.flushedCount > 0 THEN e.flushedCount - 1 ELSE 0
      /\ r.evictedDuringFlush = e.evictedDuringFlush + 1
  BY <1>1, EvictionCountedFields
<1> HIDE DEF r
<1>5. r.flushedCount \in Int /\ r.flushedCount <= e.flushedCount
  BY <1>3, <1>4
<1>6. PrefixIn(e, e.flushedCount, Saved(db, s))
  BY DEF Exact, EntryExact
<1>7. PrefixIn(r, r.flushedCount, Saved(db, s))
  <2>1. PrefixIn(e, r.flushedCount, Saved(db, s))
    BY <1>1, <1>3, <1>5, <1>6, PrefixWeaker
  <2>. QED  BY <1>4, <2>1, PrefixSameEvents
<1>8. ~r.dirty => Range(r.events) \subseteq Saved(db, s)
  BY <1>4, Zenon DEF Exact, EntryExact
<1>9. ASSUME NEW g \in Flushers, s \in pending[g]
      PROVE  PrefixIn(r, Covered(g, s)', Saved(db, s) \cup Unwritten(g, s)')
  <2> DEFINE n == snap[g][s].len
             S == Saved(db, s) \cup Unwritten(g, s)
  <2>1. PrefixIn(e, n - e.evictedDuringFlush, S)
    BY <1>9 DEF Exact, SnapshotExact, Covered
  <2>2. Covered(g, s)' = n - r.evictedDuringFlush
    BY <1>2, Zenon DEF Covered, flushVars
  <2>3. Unwritten(g, s)' = Unwritten(g, s)
    BY <1>2, FlushVarsUntouched, UnwrittenKept
  <2>4. n \in Nat
    BY CoveredType
  <2> HIDE DEF n, e, S
  <2>5. /\ n - e.evictedDuringFlush \in Int
        /\ n - r.evictedDuringFlush \in Int
        /\ n - r.evictedDuringFlush <= n - e.evictedDuringFlush
    BY <1>3, <1>4, <2>4
  <2>6. PrefixIn(e, n - r.evictedDuringFlush, S)
    BY <1>1, <2>1, <2>5, PrefixWeaker
  <2>7. PrefixIn(r, n - r.evictedDuringFlush, S)
    BY <1>4, <2>6, PrefixSameEvents
  <2>. QED  BY <2>2, <2>3, <2>7, Zenon DEF S
<1>. QED  BY <1>2, <1>7, <1>8, <1>9, Zenon
          DEF Exact, EntryExact, SnapshotExact, flushVars

\* collectDirtySnapshots: a new snapshot covers the whole buffer.
LEMMA ExactCollect ==
  ASSUME TypeOK, NEW s \in Slugs, s \in live, s \notin raced', Exact(s),
         NEW f \in Flushers, CollectDirtySnapshots(f)
  PROVE  Exact(s)'
<1> DEFINE e == mem[s]
           c == [mem[s] EXCEPT !.evictedDuringFlush = 0]
<1>1. e \in Entry /\ db' = db
  BY CollectFacts DEF TypeOK
<1>2. CASE e.dirty
  <2>1. mem'[s] = c
    BY <1>2, CollectFacts
  <2>2. /\ c.events = e.events
        /\ c.dirty = e.dirty
        /\ c.flushedCount = e.flushedCount
        /\ c.evictedDuringFlush = 0
    BY <1>1, CollectedFields
  <2>3. PrefixIn(e, e.flushedCount, Saved(db, s))
    BY DEF Exact, EntryExact
  <2> HIDE DEF c
  <2>4. PrefixIn(c, c.flushedCount, Saved(db, s))
    BY <2>2, <2>3, PrefixSameEvents
  <2>5. EntryExact(s)'
    BY <1>1, <1>2, <2>1, <2>2, <2>4, Zenon DEF EntryExact
  <2>6. ASSUME NEW g \in Flushers, s \in pending'[g], g = f
        PROVE  SnapshotExact(g, s)'
    <3>1. /\ snap'[f][s] = SnapshotOf(e)
          /\ pc'[f] = "insertSlug"
      BY <2>6, CollectFacts
    <3>2. Unwritten(g, s)' = Range(SnapshotOf(e).rows)
      BY <2>6, <3>1 DEF Unwritten
    <3>3. SnapshotOf(e).len \in Nat
      BY <1>1, SnapshotType DEF Snapshot
    <3>4. Covered(g, s)' = SnapshotOf(e).len
      <4>1. Covered(g, s)' = SnapshotOf(e).len - 0
        BY <2>1, <2>2, <2>6, <3>1, Zenon DEF Covered
      <4>. QED  BY <3>3, <4>1
    <3>5. PrefixIn(e, SnapshotOf(e).len,
                   Saved(db, s) \cup Range(SnapshotOf(e).rows))
      BY <1>1, <2>3, SnapshotComplete
    <3>6. PrefixIn(c, SnapshotOf(e).len,
                   Saved(db, s) \cup Range(SnapshotOf(e).rows))
      BY <2>2, <3>5, PrefixSameEvents
    <3>. QED  BY <1>1, <2>1, <3>2, <3>4, <3>6, Zenon DEF SnapshotExact
  <2>7. ASSUME NEW g \in Flushers, s \in pending'[g], g # f
        PROVE  FALSE
    <3>1. s \in pending[g]
      BY <2>7, CollectFacts DEF Untouched
    <3>2. InFlight(s)
      BY <3>1 DEF InFlight
    <3>. QED  BY <1>2, <3>2, CollectFacts
  <2>8. ASSUME NEW g \in Flushers  PROVE SnapshotExact(g, s)'
    BY <2>6, <2>7 DEF SnapshotExact
  <2>. QED  BY <2>5, <2>8 DEF Exact
<1>3. CASE ~e.dirty
  <2>1. mem'[s] = mem[s]
    BY <1>3, CollectFacts
  <2>2. EntryExact(s)'
    BY <1>1, <2>1, EntryKept DEF Exact
  <2>3. ASSUME NEW g \in Flushers, g = f  PROVE SnapshotExact(g, s)'
    <3>1. s \notin pending'[f]
      BY <1>3, CollectFacts
    <3>. QED  BY <2>3, <3>1 DEF SnapshotExact
  <2>4. ASSUME NEW g \in Flushers, g # f  PROVE SnapshotExact(g, s)'
    <3>1. Untouched(g)
      BY <2>4, CollectFacts
    <3>. QED  BY <1>1, <2>1, <3>1, SnapshotKept, UnwrittenKept
              DEF Exact, Untouched
  <2>. QED  BY <2>2, <2>3, <2>4 DEF Exact
<1>. QED  BY <1>2, <1>3

LEMMA ExactFlushSlug ==
  ASSUME TypeOK, NEW s \in Slugs, Exact(s), NEW f \in Flushers,
         NEW t \in Slugs, FlushSlug(f, t)
  PROVE  Exact(s)'
<1>1. /\ mem'[s] = mem[s]
      /\ Saved(db, s) \subseteq Saved(db', s)
  BY FlushSlugFacts DEF Saved
<1>2. EntryExact(s)'
  BY <1>1, EntryKept DEF Exact
<1>3. ASSUME NEW g \in Flushers, g # f  PROVE SnapshotExact(g, s)'
  <2>1. Untouched(g)
    BY <1>3, FlushSlugFacts
  <2>. QED  BY <1>1, <2>1, SnapshotKept, UnwrittenKept DEF Exact, Untouched
<1>4. SnapshotExact(f, s)'
  <2>1. ASSUME s \in pending'[f]
        PROVE  /\ s \in pending[f]
               /\ snap'[f][s] = snap[f][s]
               /\ Unwritten(f, s) \subseteq Saved(db', s) \cup Unwritten(f, s)'
    <3>1. /\ s \in pending[f]
          /\ snap'[f][s] = snap[f][s]
          /\ pc[f] = "insertSlug"
          /\ \/ pc'[f] = "insertEvents"
             \/ /\ pc'[f] = "book"
                /\ cur'[f] = t
                /\ snap[f][t].rows = <<>>
      BY <2>1, FlushSlugFacts
    <3>2. Unwritten(f, s) = Range(snap[f][s].rows)
      BY <3>1 DEF Unwritten
    <3>3. CASE pc'[f] = "book" /\ s = t
      <4>1. snap[f][s].rows = <<>>
        BY <3>1, <3>3
      <4>2. Range(snap[f][s].rows) = {}
        BY <4>1 DEF Range
      <4>. QED  BY <3>1, <3>2, <4>2
    <3>4. CASE ~(pc'[f] = "book" /\ s = t)
      <4>1. Unwritten(f, s)' = Range(snap[f][s].rows)
        BY <3>1, <3>4 DEF Unwritten
      <4>. QED  BY <3>1, <3>2, <4>1
    <3>. QED  BY <3>3, <3>4
  <2>. QED  BY <1>1, <2>1, SnapshotKept DEF Exact
<1>. QED  BY <1>2, <1>3, <1>4 DEF Exact

LEMMA ExactFlushEvents ==
  ASSUME TypeOK, FlushShape, NEW s \in Slugs, Exact(s), NEW f \in Flushers,
         FlushEvents(f)
  PROVE  Exact(s)'
<1>1. /\ mem'[s] = mem[s]
      /\ Saved(db, s) \subseteq Saved(db', s)
      /\ s = cur[f] => Range(snap[f][s].rows) \subseteq Saved(db', s)
  <2>1. mem'[s] = mem[s]
    BY FlushEventsFacts
  <2>2. CASE s = cur[f]
    <3>1. Saved(db', s) = Saved(db, s) \cup Range(snap[f][s].rows)
      BY <2>2, FlushEventsFacts
    <3>. QED  BY <2>1, <3>1
  <2>3. CASE s # cur[f]
    <3>1. db'.events[s] = db.events[s]
      BY <2>3, FlushEventsFacts
    <3>. QED  BY <2>1, <2>3, <3>1 DEF Saved
  <2>. QED  BY <2>2, <2>3
<1>2. EntryExact(s)'
  BY <1>1, EntryKept DEF Exact
<1>3. ASSUME NEW g \in Flushers, g # f  PROVE SnapshotExact(g, s)'
  <2>1. Untouched(g)
    BY <1>3, FlushEventsFacts
  <2>. QED  BY <1>1, <2>1, SnapshotKept, UnwrittenKept DEF Exact, Untouched
<1>4. SnapshotExact(f, s)'
  <2>1. /\ pc[f] = "insertEvents"
        /\ pc'[f] = "book"
        /\ UNCHANGED <<pending, snap, cur>>
    BY FlushEventsFacts
  <2>2. Unwritten(f, s) = Range(snap[f][s].rows)
    BY <2>1 DEF Unwritten
  <2>3. CASE s = cur[f]
    BY <1>1, <2>1, <2>2, <2>3, SnapshotKept DEF Exact
  <2>4. CASE s # cur[f]
    <3>1. Unwritten(f, s)' = Range(snap[f][s].rows)
      BY <2>1, <2>4 DEF Unwritten
    <3>. QED  BY <1>1, <2>1, <2>2, <3>1, SnapshotKept DEF Exact
  <2>. QED  BY <2>3, <2>4
<1>. QED  BY <1>2, <1>3, <1>4 DEF Exact

LEMMA ExactFlushFails ==
  ASSUME TypeOK, NEW s \in Slugs, Exact(s), NEW f \in Flushers, FlushFails(f)
  PROVE  Exact(s)'
<1>1. mem'[s] = mem[s] /\ Saved(db, s) \subseteq Saved(db', s)
  BY FlushFailsFacts
<1>2. EntryExact(s)'
  BY <1>1, EntryKept DEF Exact
<1>3. ASSUME NEW g \in Flushers, g # f  PROVE SnapshotExact(g, s)'
  <2>1. Untouched(g)
    BY <1>3, FlushFailsFacts
  <2>. QED  BY <1>1, <2>1, SnapshotKept, UnwrittenKept DEF Exact, Untouched
<1>4. SnapshotExact(f, s)'
  BY FlushFailsFacts DEF SnapshotExact
<1>. QED  BY <1>2, <1>3, <1>4 DEF Exact

\* FlushTo's bookkeeping.  It may trust the snapshot because no other snapshot
\* of the slug is in flight and every eviction since has been counted.
LEMMA ExactBook ==
  ASSUME TypeOK, FlushShape, OneSnapshot, NEW s \in Slugs, s \in live,
         s \notin raced, Exact(s), NEW f \in Flushers, Book(f)
  PROVE  Exact(s)'
<1>1. CASE s = cur[f]
  <2> DEFINE n == snap[f][s].len
  <2>1. /\ pc[f] = "book"
        /\ s \in pending[f]
        /\ mem'[s] = Booked(mem[s], n)
        /\ db' = db
    BY <1>1, BookFacts
  <2>2. Unwritten(f, s) = {}
    BY <1>1, <2>1 DEF Unwritten
  <2>3. PrefixIn(mem[s], n - mem[s].evictedDuringFlush, Saved(db, s))
    <3>1. PrefixIn(mem[s], Covered(f, s), Saved(db, s) \cup Unwritten(f, s))
      BY <2>1 DEF Exact, SnapshotExact
    <3>2. Saved(db, s) \cup Unwritten(f, s) = Saved(db, s)
      BY <2>2
    <3>. QED  BY <3>1, <3>2, Zenon DEF Covered
  <2>4. mem[s] \in Entry /\ n \in Nat
    BY CoveredType
  <2> HIDE DEF n
  <2>5. EntryExact(s)'
    <3>1. /\ PrefixIn(Booked(mem[s], n), Booked(mem[s], n).flushedCount,
                      Saved(db, s))
          /\ ~Booked(mem[s], n).dirty =>
               Range(Booked(mem[s], n).events) \subseteq Saved(db, s)
      BY <2>3, <2>4, BookedExact
    <3>. QED  BY <2>1, <3>1, Zenon DEF EntryExact
  <2>6. ASSUME NEW g \in Flushers  PROVE SnapshotExact(g, s)'
    <3>1. s \notin pending'[g]
      <4>1. CASE g = f
        BY <1>1, <4>1, BookFacts
      <4>2. CASE g # f
        <5>1. pending'[g] = pending[g]
          BY <4>2, BookFacts DEF Untouched
        <5>. QED  BY <2>1, <4>2, <5>1 DEF OneSnapshot
      <4>. QED  BY <4>1, <4>2
    <3>. QED  BY <3>1 DEF SnapshotExact
  <2>. QED  BY <2>5, <2>6 DEF Exact
<1>2. CASE s # cur[f]
  <2>1. mem'[s] = mem[s] /\ Saved(db, s) \subseteq Saved(db', s)
    BY <1>2, BookFacts
  <2>2. EntryExact(s)'
    BY <2>1, EntryKept DEF Exact
  <2>3. ASSUME NEW g \in Flushers, g # f  PROVE SnapshotExact(g, s)'
    <3>1. Untouched(g)
      BY <2>3, BookFacts
    <3>. QED  BY <2>1, <3>1, SnapshotKept, UnwrittenKept DEF Exact, Untouched
  <2>4. SnapshotExact(f, s)'
    <3>1. ASSUME s \in pending'[f]
          PROVE  /\ s \in pending[f]
                 /\ snap'[f][s] = snap[f][s]
                 /\ Unwritten(f, s)' = Unwritten(f, s)
      <4>1. /\ s \in pending[f]
            /\ snap'[f][s] = snap[f][s]
            /\ pc'[f] = "insertSlug"
        BY <3>1, BookFacts
      <4>. QED  BY <1>2, <4>1 DEF Unwritten
    <3>. QED  BY <2>1, <3>1, SnapshotKept DEF Exact
  <2>. QED  BY <2>2, <2>3, <2>4 DEF Exact
<1>. QED  BY <1>1, <1>2

\* Everything else that can happen to an accountable slug.
LEMMA BookkeepingStep ==
  ASSUME TypeOK, FlushShape, CreatedFirst, OneSnapshot, BookkeepingExact,
         [Next]_vars
  PROVE  BookkeepingExact'
<1> USE DEF processVars, memVars, flushVars, historyVars
<1> SUFFICES ASSUME NEW s \in Accountable'  PROVE Exact(s)'
  BY DEF BookkeepingExact
<1>a. /\ s \in live'
      /\ s \notin raced'
      /\ s \notin expired'
      /\ s \notin raced
      /\ s \in Slugs
      /\ db \in Database
  BY NextTypeOK, HistoryGrows DEF Accountable, TypeOK
<1>b. ASSUME s \in live, s \notin expired  PROVE Exact(s)
  BY <1>a, <1>b DEF BookkeepingExact, Accountable
<1>c. ASSUME s \in live, expired \subseteq expired', mem'[s] = mem[s], db' = db,
             UNCHANGED flushVars
      PROVE  Exact(s)'
  BY <1>a, <1>b, <1>c, ExactKept, FlushVarsUntouched
<1>1. CASE Start
  <2>1. /\ mem'[s] = LoadedEntry(db.events[s])
        /\ db' = db
    BY <1>1, <1>a DEF Start, LoadEvents
  <2>2. db.events[s] \in Seq(Hit)
    BY <1>a DEF Database
  <2>3. EntryExact(s)'
    <3>1. /\ PrefixIn(mem'[s], mem'[s].flushedCount, Saved(db', s))
          /\ Range(mem'[s].events) = Saved(db', s)
      BY <2>1, <2>2, LoadedSaved DEF Saved
    <3>. QED  BY <3>1 DEF EntryExact
  <2>4. \A g \in Flushers : pending'[g] = {}
    BY <1>1 DEF Start, FlushShape, FlusherShape
  <2>. QED  BY <2>3, <2>4 DEF Exact, SnapshotExact
<1>2. CASE ProcessEnds
  BY <1>2, <1>a DEF ProcessEnds
<1>3. ASSUME NEW f \in Flushers, CollectDirtySnapshots(f)  PROVE Exact(s)'
  <2>1. s \in live /\ s \notin expired
    BY <1>3, <1>a, CollectFacts
  <2>. QED  BY <1>3, <1>a, <1>b, <2>1, ExactCollect
<1>4. CASE Cleanup \/ PurgeExpiredFails \/ LoopReturns
  <2>1. /\ s \in live
        /\ s \notin expired
        /\ mem'[s] = mem[s]
        /\ db' = db
        /\ UNCHANGED <<pending, snap, cur>>
        /\ \A g \in Flushers : s \in pending[g] => pc'[g] = pc[g]
    <3>1. /\ s \in live
          /\ s \notin expired
          /\ mem'[s] = mem[s]
          /\ db' = db
          /\ UNCHANGED <<pending, snap, cur>>
      BY <1>4, <1>a DEF Cleanup, PurgeExpiredFails, LoopReturns
    <3>2. /\ pc["loop"] \in {"cleanup", "deleteExpired", "idle"}
          /\ \A g \in Flushers : g # "loop" => pc'[g] = pc[g]
      BY <1>4 DEF Cleanup, PurgeExpiredFails, LoopReturns, TypeOK
    <3>3. pending["loop"] = {}
      BY <3>2 DEF FlushShape, FlusherShape, Flushers
    <3>. QED  BY <3>1, <3>2, <3>3
  <2>2. Exact(s) /\ Saved(db, s) \subseteq Saved(db', s)
    BY <1>b, <2>1
  <2>3. EntryExact(s)'
    BY <1>a, <2>1, <2>2, EntryKept DEF Exact
  <2>4. ASSUME NEW g \in Flushers  PROVE SnapshotExact(g, s)'
    <3>1. s \in pending'[g] => Unwritten(g, s)' = Unwritten(g, s)
      BY <2>1 DEF Unwritten
    <3>. QED  BY <1>a, <2>1, <2>2, <3>1, SnapshotKept DEF Exact
  <2>. QED  BY <2>3, <2>4 DEF Exact
<1>5. CASE PurgeExpired
  <2>1. /\ s \in live
        /\ s \notin expired
        /\ mem'[s] = mem[s]
        /\ db' = DeleteExpired(db, expired)
        /\ UNCHANGED <<pending, snap, cur>>
    BY <1>5, <1>a DEF PurgeExpired
  <2>2. Saved(db, s) \subseteq Saved(db', s)
    <3>1. s \notin ExpiredRows(db, expired)
      BY <2>1 DEF ExpiredRows
    <3>2. db'.events[s] = db.events[s]
      BY <1>a, <2>1, <3>1, DeleteExpiredRows DEF TypeOK
    <3>. QED  BY <3>2 DEF Saved
  <2>3. EntryExact(s)'
    BY <1>a, <1>b, <2>1, <2>2, EntryKept DEF Exact
  <2>4. ASSUME NEW g \in Flushers  PROVE SnapshotExact(g, s)'
    <3>1. /\ pc["loop"] = "deleteExpired"
          /\ \A h \in Flushers : h # "loop" => pc'[h] = pc[h]
      BY <1>5 DEF PurgeExpired, TypeOK
    <3>2. pending["loop"] = {}
      BY <3>1 DEF FlushShape, FlusherShape, Flushers
    <3>3. s \in pending'[g] => Unwritten(g, s)' = Unwritten(g, s)
      BY <2>1, <3>1, <3>2 DEF Unwritten
    <3>. QED  BY <1>a, <1>b, <2>1, <2>2, <3>3, SnapshotKept DEF Exact
  <2>. QED  BY <2>3, <2>4 DEF Exact
<1>6. ASSUME NEW f \in Flushers, FlushEvents(f)  PROVE Exact(s)'
  BY <1>6, <1>a, <1>b, FlushEventsFacts, ExactFlushEvents
<1>7. ASSUME NEW f \in Flushers, FlushFails(f)  PROVE Exact(s)'
  BY <1>7, <1>a, <1>b, FlushFailsFacts, ExactFlushFails
<1>8. ASSUME NEW f \in Flushers, Book(f)  PROVE Exact(s)'
  BY <1>8, <1>a, <1>b, BookFacts, ExactBook
<1>9. ASSUME NEW f \in Flushers, NEW t \in Slugs, FlushSlug(f, t)
      PROVE  Exact(s)'
  BY <1>9, <1>a, <1>b, FlushSlugFacts, ExactFlushSlug
<1>10. ASSUME NEW t \in Slugs, Expire(t)  PROVE Exact(s)'
  BY <1>10, <1>a, <1>c DEF Expire
<1>11. ASSUME NEW t \in Slugs, CreateSlug(t)  PROVE Exact(s)'
  <2>1. CASE s = t
    <3>1. mem'[s] = NewEntry /\ s \notin issued /\ pending' = pending
      BY <1>11, <1>a, <2>1 DEF CreateSlug, TypeOK
    <3>2. \A g \in Flushers : s \notin pending'[g]
      BY <3>1 DEF FlushShape, FlusherShape
    <3>3. NewEntry \in Entry /\ NewEntry.flushedCount = 0 /\ NewEntry.dirty
      BY EntryTypes DEF NewEntry
    <3>4. EntryExact(s)'
      BY <3>1, <3>3, PrefixEmpty DEF EntryExact
    <3>. QED  BY <3>2, <3>4 DEF Exact, SnapshotExact
  <2>2. CASE s # t
    BY <1>11, <1>a, <1>c, <2>2 DEF CreateSlug, TypeOK
  <2>. QED  BY <2>1, <2>2
<1>12. ASSUME NEW t \in Slugs, Record(t)  PROVE Exact(s)'
  <2>1. s \in live /\ s \notin expired
    BY <1>12, <1>a DEF Record
  <2>2. CASE s = t
    BY <1>12, <1>a, <1>b, <2>1, <2>2, ExactRecord
  <2>3. CASE s # t
    BY <1>12, <1>a, <1>c, <2>1, <2>3 DEF Record, TypeOK
  <2>. QED  BY <2>2, <2>3
<1>13. ASSUME NEW t \in Slugs, RecordPanicRecovered(t)  PROVE Exact(s)'
  <2>1. s \in live /\ s \notin expired
    BY <1>13, <1>a DEF RecordPanicRecovered
  <2>2. CASE s = t
    BY <1>13, <1>a, <1>b, <2>1, <2>2, ExactPanic
  <2>3. CASE s # t
    BY <1>13, <1>a, <1>c, <2>1, <2>3 DEF RecordPanicRecovered, TypeOK
  <2>. QED  BY <2>2, <2>3
<1>14. ASSUME NEW t \in Slugs, ClearEvents(t)  PROVE Exact(s)'
  <2>1. CASE s = t
    <3>1. mem'[s] = Cleared(mem[s]) /\ pending' = pending /\ ~InFlight(s)
      BY <1>14, <1>a, <2>1 DEF ClearEvents, TypeOK
    <3>2. \A g \in Flushers : s \notin pending'[g]
      BY <3>1 DEF InFlight
    <3>3. /\ mem[s] \in Entry
          /\ Cleared(mem[s]) \in Entry
      BY <1>a, ClearedType DEF TypeOK
    <3>4. /\ Cleared(mem[s]).flushedCount = 0
          /\ Cleared(mem[s]).dirty = TRUE
      BY <3>3, Zenon DEF Cleared, Entry
    <3>5. PrefixIn(Cleared(mem[s]), Cleared(mem[s]).flushedCount, Saved(db', s))
      BY <3>3, <3>4, PrefixEmpty
    <3>6. EntryExact(s)'
      BY <3>1, <3>4, <3>5, Zenon DEF EntryExact
    <3>. QED  BY <3>2, <3>6 DEF Exact, SnapshotExact
  <2>2. CASE s # t
    BY <1>14, <1>a, <1>c, <2>2 DEF ClearEvents, TypeOK
  <2>. QED  BY <2>1, <2>2
<1>15. ASSUME NEW t \in Slugs,
              DeleteCheckOwner(t) \/ DeleteFromStoreFails(t)
       PROVE  Exact(s)'
  BY <1>15, <1>a, <1>c DEF DeleteCheckOwner, DeleteFromStoreFails
<1>16. ASSUME NEW t \in Slugs, DeleteFromRegistry(t)  PROVE Exact(s)'
  BY <1>16, <1>a, <1>c DEF DeleteFromRegistry, TypeOK
<1>17. ASSUME NEW t \in Slugs, DeleteFromStore(t)  PROVE Exact(s)'
  <2>1. s \in live /\ s \notin expired /\ s # t
    BY <1>17, <1>a DEF DeleteFromStore, CreatedFirst
  <2>2. mem'[s] = mem[s] /\ UNCHANGED flushVars /\ db' = DeleteSlug(db, t)
    BY <1>17 DEF DeleteFromStore
  <2>3. Saved(db, s) \subseteq Saved(db', s)
    <3>1. db'.events[s] = db.events[s]
      BY <1>a, <2>1, <2>2, DeleteSlugRows
    <3>. QED  BY <3>1 DEF Saved
  <2>. QED  BY <1>a, <1>b, <2>1, <2>2, <2>3, ExactKept, FlushVarsUntouched
<1>18. CASE Shutdown \/ UNCHANGED vars
  BY <1>18, <1>a, <1>c DEF Shutdown, vars
<1>. QED
  BY <1>1, <1>2, <1>3, <1>4, <1>5, <1>6, <1>7, <1>8, <1>9, <1>10, <1>11,
     <1>12, <1>13, <1>14, <1>15, <1>16, <1>17, <1>18
     DEF Next, Crash, Exit, Tick, FinalFlush, Flushers
-----------------------------------------------------------------------------
(* The theorems.                                                           *)

LEMMA InitFlushInvariant == Init => FlushInvariant
BY DEF Init, EmptyDatabase, FlushInvariant, FlushShape, FlusherShape,
       CreatedFirst, OneSnapshot, BookkeepingExact, Accountable,
       DeletedNotPending, RowBeforeEvents, DeleteIsFinal, NoOrphanRows

\* FlushInvariant holds in every reachable state: FlushTo's bookkeeping is
\* exact under concurrent records, evictions, failed writes, deletes, crashes
\* and restarts, for every slug that was not cleared, deleted or flushed a
\* second time while a snapshot of it was in flight.
THEOREM FlushCorrect == Spec => []FlushInvariant
<1>1. Init => TypeOK /\ FlushInvariant
  BY InitTypeOK, InitFlushInvariant
<1>2. TypeOK /\ FlushInvariant /\ [Next]_vars => TypeOK' /\ FlushInvariant'
  BY NextTypeOK, ShapeStep, CreatedFirstStep, OneSnapshotStep, BookkeepingStep,
     DeletedNotPendingStep, RowBeforeEventsStep, DeleteIsFinalStep,
     NoOrphanRowsStep
     DEF FlushInvariant
<1>. QED  BY <1>1, <1>2, PTL DEF Spec

\* A slug that FlushTo skips because it is not dirty has every buffered hit in
\* SQLite.
THEOREM NothingUnsavedIsClean == Spec => []CleanIsSaved
<1>1. FlushInvariant => CleanIsSaved
  BY DEF FlushInvariant, BookkeepingExact, Accountable, Exact, EntryExact,
         CleanIsSaved
<1>. QED  BY <1>1, FlushCorrect, PTL

\* A deletion that has reached the store is final.
THEOREM DeletionFinal == Spec => []DeleteIsFinal
<1>1. FlushInvariant => DeleteIsFinal
  BY DEF FlushInvariant
<1>. QED  BY <1>1, FlushCorrect, PTL

\* SQLite never holds event rows that no later DeleteExpired could find.
THEOREM RowsHaveSlugs == Spec => []NoOrphanRows
<1>1. FlushInvariant => NoOrphanRows
  BY DEF FlushInvariant
<1>. QED  BY <1>1, FlushCorrect, PTL

\* Only recordEvent makes a buffer longer, and never past the limit.
LEMMA GrowthStep ==
  ASSUME TypeOK, FlushShape, [Next]_vars, NEW s \in Slugs, up,
         Len(mem[s].events) < Len(mem'[s].events)
  PROVE  Len(mem'[s].events) <= MaxEvents
<1> USE DEF processVars, memVars, flushVars, historyVars
<1>a. /\ mem[s] \in Entry
      /\ Len(mem[s].events) \in Nat
  BY EntryFields DEF TypeOK
<1>b. mem'[s].events # mem[s].events /\ mem'[s].events # <<>>
  BY <1>a
<1>1. ASSUME NEW f \in Flushers, CollectDirtySnapshots(f)  PROVE FALSE
  <2>1. mem'[s].events = mem[s].events
    <3>1. CASE s \in live /\ mem[s].dirty
      BY <1>1, <1>a, <3>1, CollectFacts, CollectedFields
    <3>2. CASE ~(s \in live /\ mem[s].dirty)
      BY <1>1, <3>2, CollectFacts
    <3>. QED  BY <3>1, <3>2
  <2>. QED  BY <1>b, <2>1
<1>2. ASSUME NEW f \in Flushers, FlushEvents(f) \/ FlushFails(f)  PROVE FALSE
  BY <1>2, <1>b DEF FlushEvents, FlushFails
<1>3. ASSUME NEW f \in Flushers, Book(f)  PROVE FALSE
  <2>1. CASE s = cur[f] /\ s \in live
    <3>1. mem'[s] = Booked(mem[s], snap[f][s].len)
      BY <1>3, <2>1, BookFacts
    <3>2. snap[f][s].len \in Nat
      BY CoveredType
    <3> DEFINE n == snap[f][s].len
    <3> HIDE DEF n
    <3>3. Booked(mem[s], n).events = mem[s].events
      BY <1>a, <3>2, BookedFields DEF n
    <3>4. mem'[s].events = mem[s].events
      BY <3>1, <3>3, Zenon DEF n
    <3>. QED  BY <1>b, <3>4
  <2>2. CASE ~(s = cur[f] /\ s \in live)
    <3>1. mem'[s] = mem[s]
      BY <1>3, <2>2 DEF Book, TypeOK
    <3>. QED  BY <1>b, <3>1
  <2>. QED  BY <2>1, <2>2
<1>4. ASSUME NEW f \in Flushers, NEW t \in Slugs, FlushSlug(f, t)  PROVE FALSE
  BY <1>4, <1>b DEF FlushSlug
<1>5. ASSUME NEW t \in Slugs,
             \/ Expire(t) \/ DeleteCheckOwner(t) \/ DeleteFromStore(t)
             \/ DeleteFromStoreFails(t)
      PROVE  FALSE
  BY <1>5, <1>b DEF Expire, DeleteCheckOwner, DeleteFromStore,
     DeleteFromStoreFails
<1>6. NewEntry.events = <<>> /\ NoEntry.events = <<>>
  BY Zenon DEF NewEntry, NoEntry
<1>7. ASSUME NEW t \in Slugs, CreateSlug(t) \/ DeleteFromRegistry(t)
      PROVE  FALSE
  BY <1>7, <1>b, <1>6 DEF CreateSlug, DeleteFromRegistry, TypeOK
<1>8. ASSUME NEW t \in Slugs, ClearEvents(t)  PROVE FALSE
  <2>1. Cleared(mem[s]).events = <<>>
    BY <1>a, Zenon DEF Cleared, Entry
  <2>. QED  BY <1>8, <1>b, <2>1 DEF ClearEvents, TypeOK
<1>9. ASSUME NEW t \in Slugs, RecordPanicRecovered(t)  PROVE FALSE
  <2>1. EvictionCounted(mem[s]).events = mem[s].events
    BY <1>a, EvictionCountedFields
  <2>. QED  BY <1>9, <1>b, <2>1 DEF RecordPanicRecovered, TypeOK
<1>10. ASSUME NEW t \in Slugs, Record(t)
       PROVE  Len(mem'[s].events) <= MaxEvents
  <2>1. s = t
    BY <1>10, <1>b DEF Record, TypeOK
  <2>2. /\ mem'[s] = Recorded(mem[s], hits[s] + 1)
        /\ ~MakePanics(mem[s])
        /\ hits[s] + 1 \in Hit
        /\ mem[s].events \in Seq(Hit)
    BY <1>10, <1>a, <2>1, EntryFields DEF Record, TypeOK, Hit
  <2>3. CASE Full(mem[s])
    <3>1. /\ mem'[s].events = Append(Tail(mem[s].events), hits[s] + 1)
          /\ mem[s].events # <<>>
      BY <1>a, <2>2, <2>3, RecordedEvicting
    <3>2. Len(mem'[s].events) = Len(mem[s].events)
      BY <2>2, <3>1
    <3>. QED  BY <1>a, <3>2
  <2>4. CASE ~Full(mem[s])
    <3>1. mem'[s].events = Append(mem[s].events, hits[s] + 1)
      BY <1>a, <2>2, <2>4, RecordedWithRoom
    <3>2. Len(mem'[s].events) = Len(mem[s].events) + 1
      BY <2>2, <3>1
    <3>3. Len(mem[s].events) < MaxEvents
      BY <1>a, <2>4, MaxEventsAssumption DEF Full
    <3>. QED  BY <1>a, <3>2, <3>3, MaxEventsAssumption
  <2>. QED  BY <2>3, <2>4
<1>11. ASSUME ProcessEnds  PROVE FALSE
  BY <1>11, <1>b, <1>6 DEF ProcessEnds
<1>12. ASSUME Cleanup  PROVE FALSE
  BY <1>12, <1>b, <1>6 DEF Cleanup
<1>13. CASE Start \/ Shutdown \/ PurgeExpired \/ PurgeExpiredFails
            \/ LoopReturns \/ UNCHANGED vars
  BY <1>13, <1>b DEF Start, Shutdown, PurgeExpired, PurgeExpiredFails,
     LoopReturns, vars
<1>. QED
  BY <1>1, <1>2, <1>3, <1>4, <1>5, <1>7, <1>8, <1>9, <1>10, <1>11, <1>12,
     <1>13 DEF Next, Crash, Exit, Tick, FinalFlush, Flushers

\* recordEvent keeps the ring buffer within max_events_per_slug: in a running
\* process no step makes a buffer grow past the limit.
THEOREM GrowthCapped == Spec => GrowthStopsAtCap
<1>1. TypeOK /\ FlushInvariant /\ [Next]_vars =>
        [\A s \in Slugs : up /\ Len(mem[s].events) < Len(mem'[s].events)
                         => Len(mem'[s].events) <= MaxEvents]_vars
  BY GrowthStep DEF FlushInvariant
<1>. QED  BY <1>1, TypeCorrect, FlushCorrect, PTL DEF Spec, GrowthStopsAtCap
=============================================================================
