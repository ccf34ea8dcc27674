----------------------------- MODULE RateLimit -----------------------------
(***************************************************************************)
(* The token-bucket limiter of internal/ratelimit: buckets are created on  *)
(* the first request of a key, refilled when the key is next used, and     *)
(* dropped by GC, which flushLoop calls, when the key has not been used    *)
(* for MaxAge.                                                             *)
(*                                                                         *)
(* Allow and GC hold s.mu throughout, so each is one step.  Tokens are     *)
(* float64 in the code and exact here: a token of tier i is cut into       *)
(* Tiers[i].window units (see TokenBucket).  time.Now is monotonic.        *)
(***************************************************************************)
EXTENDS Naturals, Sequences, FiniteSets

CONSTANTS
  Keys,            \* "IP:slug"
  Tiers,           \* sequence of [capacity, window]
  MaxAge,          \* rateLimitGCMaxAge
  MaxTime          \* bound: units of time

\* One hour against windows of one minute.
ASSUME RateLimitAssumption ==
  /\ Tiers \in Seq([capacity: Nat, window: Nat \ {0}])
  /\ MaxAge \in Nat
  /\ \A i \in DOMAIN Tiers : Tiers[i].window <= MaxAge
  /\ MaxTime \in Nat

VARIABLES
  now,             \* the clock
  keys,            \* the keys that have an entry
  entry,           \* their entries (NoEntry elsewhere)
  answer,          \* the latest call of Allow and its result
  admitted         \* history: when each key's admitted requests came

vars == <<now, keys, entry, answer, admitted>>

Tier == DOMAIN Tiers
Capacity(i) == Tiers[i].capacity * Tiers[i].window

Bucket == [tokens: Nat, lastRefill: Nat]
Entry  == [buckets: [Tier -> Bucket], lastAccess: Nat]

\* getOrCreate: every bucket starts full.
NewEntry(time) ==
  [buckets |-> [i \in Tier |-> [tokens |-> Capacity(i), lastRefill |-> time]],
   lastAccess |-> time]

NoEntry == NewEntry(0)

TypeOK ==
  /\ now \in 0..MaxTime
  /\ keys \subseteq Keys
  /\ entry \in [Keys -> Entry]
  /\ answer \in {<<>>} \cup (Keys \X BOOLEAN)
  /\ admitted \in [Keys -> Seq(0..MaxTime)]

Init ==
  /\ now = 0
  /\ keys = {}
  /\ entry = [k \in Keys |-> NoEntry]
  /\ answer = <<>>
  /\ admitted = [k \in Keys |-> <<>>]
-----------------------------------------------------------------------------
\* Mutant: nothing stops a bucket from overflowing.
RefillUncapped(b, i, time) ==
  [tokens     |-> b.tokens + (time - b.lastRefill) * Tiers[i].capacity,
   lastRefill |-> time]

\* refill: what the time since the last refill is worth, up to the capacity.
Refill(b, i, time) ==
  LET tokens == b.tokens + (time - b.lastRefill) * Tiers[i].capacity
  IN  IF time > b.lastRefill
      THEN [tokens     |-> IF tokens > Capacity(i) THEN Capacity(i) ELSE tokens,
            lastRefill |-> time]
      ELSE b

\* The entry that Allow works on: found or new, its buckets refilled.
Touched(k, time) ==
  LET e == IF k \in keys THEN entry[k] ELSE NewEntry(time)
  IN  [buckets    |-> [i \in Tier |-> Refill(e.buckets[i], i, time)],
       lastAccess |-> time]

\* Mutant: part of a token is enough.
HasSomeToken(e, i) == e.buckets[i].tokens > 0

HasToken(e, i) == e.buckets[i].tokens >= Tiers[i].window

Taken(e) ==
  [e EXCEPT !.buckets =
     [i \in Tier |-> [e.buckets[i] EXCEPT !.tokens = @ - Tiers[i].window]]]

\* Mutant: each tier is charged as it is looked at, also when a later one
\* refuses.
AllowChargesAsItGoes(k) ==
  LET e  == Touched(k, now)
      ok == \A i \in Tier : HasToken(e, i)
      charged == {i \in Tier : \A j \in 1..i : HasToken(e, j)}
  IN  /\ keys' = keys \cup {k}
      /\ entry' = [entry EXCEPT ![k] =
           [e EXCEPT !.buckets = [i \in Tier |->
             [@[i] EXCEPT !.tokens = IF i \in charged THEN @ - Tiers[i].window
                                                      ELSE @]]]]
      /\ answer' = <<k, ok>>
      /\ admitted' = IF ok THEN [admitted EXCEPT ![k] = Append(@, now)]
                           ELSE admitted
      /\ UNCHANGED now

\* Allow: all tiers must have a token, then all are charged.
Allow(k) ==
  LET e  == Touched(k, now)
      ok == \A i \in Tier : HasToken(e, i)
  IN  /\ keys' = keys \cup {k}
      /\ entry' = [entry EXCEPT ![k] = IF ok THEN Taken(e) ELSE e]
      /\ answer' = <<k, ok>>
      /\ admitted' = IF ok THEN [admitted EXCEPT ![k] = Append(@, now)]
                           ELSE admitted
      /\ UNCHANGED now

\* Mutant: the cutoff is a tier's window too recent.
StaleTooSoon(k) == entry[k].lastAccess + MaxAge < now + Tiers[1].window

\* lastAccess.Before(now - maxAge)
Stale(k) == entry[k].lastAccess + MaxAge < now

GC ==
  LET stale == {k \in keys : Stale(k)}
  IN  /\ stale # {}
      /\ keys' = keys \ stale
      /\ entry' = [k \in Keys |-> IF k \in stale THEN NoEntry ELSE entry[k]]
      /\ UNCHANGED <<now, answer, admitted>>

Advance ==
  /\ now < MaxTime
  /\ now' = now + 1
  /\ UNCHANGED <<keys, entry, answer, admitted>>

Next == Advance \/ GC \/ \E k \in Keys : Allow(k)

Spec == Init /\ [][Next]_vars
-----------------------------------------------------------------------------
\* Admitting all of the times in s takes no more of tier i than a full bucket
\* and the refill between the first of them and the last.
Fits(s, i) ==
  \A j, m \in DOMAIN s :
    j <= m => (m - j + 1) * Tiers[i].window
                <= Capacity(i) + (s[m] - s[j]) * Tiers[i].capacity

\* No stretch of time, however the requests are spread and whenever GC runs,
\* admits more requests of a key than a full bucket and its refill.
AdmissionBound == \A k \in Keys : \A i \in Tier : Fits(admitted[k], i)

\* A request that Allow would refuse now is one that AdmissionBound rules out:
\* neither refused requests nor GC nor another tier cost a client tokens.
NoUndueRefusal ==
  \A k \in Keys :
    (\A i \in Tier : Fits(Append(admitted[k], now), i))
      => \A i \in Tier : HasToken(Touched(k, now), i)

\* The level of a bucket now, were it refilled eagerly and never collected.
CurrentLevel ==
  [k \in Keys |-> [i \in Tier |-> Touched(k, now).buckets[i].tokens]]

Promise == INSTANCE TokenBucket WITH level <- CurrentLevel

\* The limiter with lazy refill and garbage collection answers every request as
\* buckets do that exist for ever and fill continuously.
ImplementsTokenBucket == Promise!Spec
=============================================================================
