---------------------------- MODULE TokenBucket ----------------------------
(***************************************************************************)
(* What the rate limiter promises: one bucket per key and tier, full at    *)
(* first, refilled as time passes, for ever.  A request that finds a whole *)
(* token in each of its key's buckets takes one from each; any other       *)
(* request is refused and changes nothing.                                 *)
(*                                                                         *)
(* A token is cut into tier.window units, so that a bucket gains           *)
(* tier.capacity units per unit of time and levels are integers.           *)
(***************************************************************************)
EXTENDS Naturals, Sequences

CONSTANTS
  Keys,            \* "IP:slug"
  Tiers            \* sequence of [capacity, window]

VARIABLES
  level,           \* units in each bucket
  answer           \* the latest request and its outcome

vars == <<level, answer>>

Tier == DOMAIN Tiers
Brimful(i) == Tiers[i].capacity * Tiers[i].window

\* The units of tier i in a bucket that had n of them d ago.
Refilled(i, n, d) ==
  IF n + d * Tiers[i].capacity > Brimful(i)
  THEN Brimful(i)
  ELSE n + d * Tiers[i].capacity

Init ==
  /\ level = [k \in Keys |-> [i \in Tier |-> Brimful(i)]]
  /\ answer = <<>>

Elapse ==
  /\ level' = [k \in Keys |-> [i \in Tier |-> Refilled(i, level[k][i], 1)]]
  /\ UNCHANGED answer

Admit(k) ==
  /\ \A i \in Tier : level[k][i] >= Tiers[i].window
  /\ level' = [level EXCEPT ![k] = [i \in Tier |-> @[i] - Tiers[i].window]]
  /\ answer' = <<k, TRUE>>

Refuse(k) ==
  /\ \E i \in Tier : level[k][i] < Tiers[i].window
  /\ answer' = <<k, FALSE>>
  /\ UNCHANGED level

Next == Elapse \/ \E k \in Keys : Admit(k) \/ Refuse(k)

Spec == Init /\ [][Next]_vars
=============================================================================
