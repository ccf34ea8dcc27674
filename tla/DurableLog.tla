----------------------------- MODULE DurableLog -----------------------------
(***************************************************************************)
(* What write-behind persistence promises about the hits of a slug: a log  *)
(* in SQLite that grows at its end, in the order of the hits, and never    *)
(* past a hit that the buffer still holds; and a buffer that gives up its  *)
(* oldest hit only for a new one and that a restart fills from the log.    *)
(* Snapshots, flags, counters, failures and retries are no part of it.     *)
(***************************************************************************)
EXTENDS Naturals, Sequences, FiniteSets

CONSTANTS Slugs, MaxEvents

VARIABLES
  hits,            \* requests for each slug so far
  held,            \* the numbers of those in its buffer
  saved,           \* the numbers of those in SQLite, in order
  gone,            \* slugs deleted for good
  released         \* slugs about which nothing is promised any more

vars == <<hits, held, saved, gone, released>>

Init ==
  /\ hits = [s \in Slugs |-> 0]
  /\ held = [s \in Slugs |-> {}]
  /\ saved = [s \in Slugs |-> <<>>]
  /\ gone = {}
  /\ released = {}

Oldest(S) == {h \in S : \A g \in S : h <= g}

Full(s) == Cardinality(held[s]) >= MaxEvents

\* A hit is appended, in place of the oldest if there is no room.  A full
\* buffer may also refuse it.
Arrive(s) ==
  /\ hits' = [hits EXCEPT ![s] = @ + 1]
  /\ \/ /\ s \notin released
        /\ LET kept == IF Full(s) THEN held[s] \ Oldest(held[s]) ELSE held[s]
           IN  held' = [held EXCEPT ![s] = kept \cup {hits[s] + 1}]
     \/ (s \in released \/ Full(s)) /\ UNCHANGED held
  /\ UNCHANGED <<saved, gone, released>>

\* The log grows at its end by hits that are newer than its own, and leaves no
\* hole: what the buffer holds up to the newest of them is in the log afterwards.
Save(s) ==
  LET log == saved'[s]
  IN  /\ s \notin gone \cup released
      /\ saved' = [saved EXCEPT ![s] = log]
      /\ Len(saved[s]) < Len(log)
      /\ \A i \in DOMAIN saved[s] : log[i] = saved[s][i]
      /\ \A i, j \in DOMAIN log : i < j => log[i] < log[j]
      /\ \A i \in DOMAIN log : log[i] \in 1..hits[s]
      /\ \A h \in held[s] :
           h <= log[Len(log)] => \E i \in DOMAIN log : log[i] = h
      /\ UNCHANGED <<hits, held, gone, released>>

\* A user clears the buffer, or the slug leaves the registry.
Empty(s) ==
  /\ held' = [held EXCEPT ![s] = {}]
  /\ UNCHANGED <<hits, saved, gone, released>>

\* A user deletes the slug, which is out of the registry by then.
Delete(s) ==
  /\ held[s] = {}
  /\ saved' = [saved EXCEPT ![s] = <<>>]
  /\ gone' = gone \cup {s}
  /\ UNCHANGED <<hits, held, released>>

\* Slugs expire, or are lost to a race that the promise excludes.
Release(S) ==
  /\ released' = released \cup S
  /\ held' = [s \in Slugs |-> IF s \in S THEN {} ELSE held[s]]
  /\ saved' = [s \in Slugs |-> IF s \in S THEN <<>> ELSE saved[s]]
  /\ UNCHANGED <<hits, gone>>

ProcessEnds ==
  /\ held' = [s \in Slugs |-> {}]
  /\ UNCHANGED <<hits, saved, gone, released>>

Restart ==
  /\ held = [s \in Slugs |-> {}]
  /\ held' = [s \in Slugs |-> {saved[s][i] : i \in DOMAIN saved[s]}]
  /\ UNCHANGED <<hits, saved, gone, released>>

Next ==
  \/ \E S \in SUBSET Slugs : Release(S)
  \/ ProcessEnds
  \/ Restart
  \/ \E s \in Slugs : Empty(s) \/ Delete(s) \/ Arrive(s) \/ Save(s)

Spec == Init /\ [][Next]_vars
=============================================================================
