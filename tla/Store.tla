------------------------------- MODULE Store -------------------------------
(***************************************************************************)
(* The SQLite store of internal/store as a value and the transactions on   *)
(* it as operators.                                                        *)
(*                                                                         *)
(* A database is a record: "slugs" is the set of ids that have a row in    *)
(* the slugs table, "events" gives for each slug id the event rows carrying *)
(* that id, in insertion order (the AUTOINCREMENT key).  There is no        *)
(* foreign key in the schema, so event rows may exist without a slug row.   *)
(*                                                                         *)
(* Abstractions.  An event row is the number of the hit it records (hit n  *)
(* of a slug is its n-th recorded request), which keeps identity and order *)
(* and drops source address, type and payload.  A slug row is its id:      *)
(* owner and creation time never change, and expires_at is represented by  *)
(* the set of slugs whose expiry has passed.  Every operator below is one  *)
(* SQLite transaction or one statement, hence atomic; a failed call is the *)
(* identity and is modelled by the callers.                                *)
(***************************************************************************)
EXTENDS Naturals, Sequences, Functions

CONSTANT
  Slugs            \* the slug ids that generateSlugID may draw

Hit == Nat \ {0}

Database == [slugs: SUBSET Slugs, events: [Slugs -> Seq(Hit)]]

\* A freshly migrated database file.
EmptyDatabase == [slugs |-> {}, events |-> [s \in Slugs |-> <<>>]]

\* The hits of slug s that SQLite holds.
Saved(db, s) == Range(db.events[s])
-----------------------------------------------------------------------------
\* INSERT OR REPLACE INTO slugs: idempotent on the primary key.
InsertSlug(db, s) == [db EXCEPT !.slugs = @ \cup {s}]

\* All rows in one transaction; an event row has no unique key, so inserting
\* a hit twice stores it twice.
InsertEvents(db, s, rows) == [db EXCEPT !.events[s] = @ \o rows]

\* Both DELETEs in one transaction.
DeleteSlug(db, s) == [db EXCEPT !.slugs = @ \ {s}, !.events[s] = <<>>]

\* What DeleteExpired removes: the event rows are found through the slugs
\* table, so rows whose slug row is already gone are not among them.
ExpiredRows(db, expired) == db.slugs \cap expired

\* Mutant: the slug rows go first, so the subquery finds no events to delete.
DeleteExpiredSlugsFirst(db, expired) ==
  [db EXCEPT !.slugs = @ \ ExpiredRows(db, expired)]

DeleteExpired(db, expired) ==
  LET gone == ExpiredRows(db, expired)
  IN  [slugs  |-> db.slugs \ gone,
       events |-> [s \in Slugs |-> IF s \in gone THEN <<>> ELSE db.events[s]]]

\* SELECT ... WHERE expires_at > now
LoadSlugs(db, expired) == db.slugs \ expired

\* The rows of one slug out of SELECT ... FROM events.  There is no ORDER BY:
\* SQLite returns them by rowid or by idx_events_timestamp, which is the order
\* of the hits as long as the clock is not set back.
LoadEvents(db, s) == db.events[s]
=============================================================================
