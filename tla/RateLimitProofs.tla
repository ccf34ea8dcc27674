--------------------------- MODULE RateLimitProofs ---------------------------
(***************************************************************************)
(* What holds of the limiter for any keys, any tiers whose windows are at  *)
(* most MaxAge, and any time.                                              *)
(***************************************************************************)
EXTENDS RateLimit, SequenceTheorems, TLAPS

LEMMA TierType ==
  ASSUME NEW i \in Tier
  PROVE  /\ Tiers[i].capacity \in Nat
         /\ Tiers[i].window \in Nat \ {0} /\ Tiers[i].window <= MaxAge
         /\ Capacity(i) \in Nat
<1> DEFINE T == [capacity: Nat, window: Nat \ {0}]
<1>1. Tiers[i] \in T
  <2>1. Tiers \in Seq(T) /\ i \in DOMAIN Tiers
    BY RateLimitAssumption DEF Tier
  <2> HIDE DEF T
  <2>. QED  BY <2>1
<1>2. Tiers[i].capacity \in Nat /\ Tiers[i].window \in Nat \ {0}
  BY <1>1
<1>3. Tiers[i].window <= MaxAge
  BY RateLimitAssumption DEF Tier
<1>4. \A c, w \in Nat : c * w \in Nat
  OBVIOUS
<1>. QED  BY <1>2, <1>3, <1>4 DEF Capacity

\* What a bucket of tier i that had t units d ago holds.
Filled(i, t, d) ==
  IF t + d * Tiers[i].capacity > Capacity(i)
  THEN Capacity(i) ELSE t + d * Tiers[i].capacity

\* Every bucket of an entry was refilled when the entry was last used, and none
\* is over its capacity.
BucketsFit ==
  \A k \in Keys :
    /\ entry[k].lastAccess <= now
    /\ \A i \in Tier :
         /\ entry[k].buckets[i].lastRefill = entry[k].lastAccess
         /\ entry[k].buckets[i].tokens <= Capacity(i)

\* The units that Allow would find in a bucket.
Level(k, i) == Touched(k, now).buckets[i].tokens

LEMMA EntryType ==
  ASSUME TypeOK, NEW k \in Keys
  PROVE  /\ entry[k].lastAccess \in Nat
         /\ entry[k].buckets \in [Tier -> Bucket]
         /\ \A i \in Tier : /\ entry[k].buckets[i].tokens \in Nat
                            /\ entry[k].buckets[i].lastRefill \in Nat
<1>1. entry[k] \in Entry
  BY DEF TypeOK
<1>2. entry[k].lastAccess \in Nat /\ entry[k].buckets \in [Tier -> Bucket]
  BY <1>1 DEF Entry
<1>3. \A i \in Tier : entry[k].buckets[i] \in [tokens: Nat, lastRefill: Nat]
  BY <1>2 DEF Bucket
<1>. QED  BY <1>2, <1>3

LEMMA NewEntryType ==
  ASSUME NEW time \in Nat
  PROVE  NewEntry(time) \in Entry
<1>1. \A i \in Tier : [tokens |-> Capacity(i), lastRefill |-> time] \in Bucket
  BY TierType DEF Bucket
<1>2. [i \in Tier |-> [tokens |-> Capacity(i), lastRefill |-> time]] \in [Tier -> Bucket]
  BY <1>1
<1>. QED  BY <1>2 DEF NewEntry, Entry

\* The entry that Allow works on.
LEMMA TouchedEntry ==
  ASSUME TypeOK, BucketsFit, NEW k \in Keys
  PROVE  /\ Touched(k, now) =
              [buckets |-> Touched(k, now).buckets, lastAccess |-> now]
         /\ Touched(k, now).buckets \in [Tier -> Bucket]
         /\ \A i \in Tier :
              /\ Touched(k, now).buckets[i].lastRefill = now
              /\ Level(k, i) \in Nat /\ Level(k, i) <= Capacity(i)
              /\ k \notin keys => Level(k, i) = Capacity(i)
              /\ k \in keys =>
                   Level(k, i) = Filled(i, entry[k].buckets[i].tokens,
                                        now - entry[k].lastAccess)
<1> DEFINE e == IF k \in keys THEN entry[k] ELSE NewEntry(now)
           b == [i \in Tier |-> Refill(e.buckets[i], i, now)]
<1>1. Touched(k, now) = [buckets |-> b, lastAccess |-> now]
  BY DEF Touched
<1>2. now \in Nat
  BY RateLimitAssumption DEF TypeOK
<1>3. ASSUME NEW i \in Tier
      PROVE  /\ b[i] \in Bucket /\ b[i].lastRefill = now
             /\ b[i].tokens \in Nat /\ b[i].tokens <= Capacity(i)
             /\ k \notin keys => b[i].tokens = Capacity(i)
             /\ k \in keys =>
                  b[i].tokens = Filled(i, entry[k].buckets[i].tokens,
                                       now - entry[k].lastAccess)
  <2>1. b[i] = Refill(e.buckets[i], i, now)
    OBVIOUS
  <2>2. CASE k \notin keys
    <3>1. e.buckets[i] = [tokens |-> Capacity(i), lastRefill |-> now]
      BY <2>2 DEF NewEntry
    <3>2. b[i] = [tokens |-> Capacity(i), lastRefill |-> now]
      BY <1>2, <2>1, <3>1 DEF Refill
    <3>. QED  BY <1>2, <2>2, <3>2, TierType DEF Bucket
  <2>3. CASE k \in keys
    <3> DEFINE o == entry[k].buckets[i]
               t == o.tokens + (now - o.lastRefill) * Tiers[i].capacity
    <3>1. /\ o \in Bucket /\ o.tokens \in Nat /\ o.lastRefill \in Nat
          /\ o.lastRefill <= now /\ o.tokens <= Capacity(i)
          /\ o.lastRefill = entry[k].lastAccess
      BY EntryType DEF BucketsFit
    <3>2. b[i] = Refill(o, i, now)
      BY <2>1, <2>3
    <3>3. CASE now > o.lastRefill
      <4>1. b[i] = [tokens |-> Filled(i, o.tokens, now - o.lastRefill),
                    lastRefill |-> now]
        BY <3>2, <3>3 DEF Refill, Filled
      <4>2. /\ now - o.lastRefill \in Nat /\ Tiers[i].capacity \in Nat
            /\ Capacity(i) \in Nat
        BY <1>2, <3>1, <3>3, TierType
      <4>3. /\ Filled(i, o.tokens, now - o.lastRefill) \in Nat
            /\ Filled(i, o.tokens, now - o.lastRefill) <= Capacity(i)
        <5>1. \A x, y \in Nat : x * y \in Nat
          OBVIOUS
        <5>. QED  BY <3>1, <4>2, <5>1 DEF Filled
      <4>. QED  BY <1>2, <2>3, <3>1, <4>1, <4>3 DEF Bucket
    <3>4. CASE ~(now > o.lastRefill)
      <4>1. b[i] = o
        BY <3>2, <3>4 DEF Refill
      <4>2. o.lastRefill = now
        BY <1>2, <3>1, <3>4
      <4>3. Filled(i, o.tokens, now - entry[k].lastAccess) = o.tokens
        BY <1>2, <3>1, <4>2, TierType DEF Filled
      <4>. QED  BY <2>3, <3>1, <4>1, <4>2, <4>3
    <3>. QED  BY <3>3, <3>4
  <2>. QED  BY <2>2, <2>3
<1>. QED  BY <1>1, <1>3 DEF Level

\* Whether a request of k is admitted now.
Admits(k) == \A i \in Tier : HasToken(Touched(k, now), i)

\* Allow leaves every other key alone and charges all tiers or none.
LEMMA AllowEntry ==
  ASSUME TypeOK, BucketsFit, NEW k \in Keys, Allow(k)
  PROVE  /\ entry' \in [Keys -> Entry]
         /\ \A x \in Keys \ {k} : entry'[x] = entry[x]
         /\ entry'[k].lastAccess = now
         /\ \A i \in Tier :
              /\ entry'[k].buckets[i].lastRefill = now
              /\ entry'[k].buckets[i].tokens
                   = IF Admits(k) THEN Level(k, i) - Tiers[i].window ELSE Level(k, i)
              /\ Admits(k) => Level(k, i) >= Tiers[i].window
<1> DEFINE e == Touched(k, now)
<1>1. entry' = [entry EXCEPT ![k] = IF Admits(k) THEN Taken(e) ELSE e]
  BY DEF Allow, Admits
<1>2. /\ e = [buckets |-> e.buckets, lastAccess |-> now]
      /\ e.buckets \in [Tier -> Bucket]
      /\ \A i \in Tier : e.buckets[i].lastRefill = now /\ Level(k, i) \in Nat
      /\ \A i \in Tier : e.buckets[i].tokens = Level(k, i)
  BY TouchedEntry DEF Level
<1>3. now \in Nat
  BY RateLimitAssumption DEF TypeOK
<1> HIDE DEF e
<1>4. \A i \in Tier : Admits(k) => Level(k, i) >= Tiers[i].window
  BY DEF Admits, HasToken, Level
<1>5. CASE Admits(k)
  <2> DEFINE c == [i \in Tier |-> [e.buckets[i] EXCEPT !.tokens = @ - Tiers[i].window]]
  <2>1. Taken(e) = [buckets |-> c, lastAccess |-> now]
    <3>1. Taken(e) = [e EXCEPT !.buckets = c]
      BY DEF Taken
    <3> HIDE DEF c
    <3>. QED  BY <1>2, <3>1
  <2>2. ASSUME NEW i \in Tier
        PROVE  /\ c[i] = [tokens |-> Level(k, i) - Tiers[i].window, lastRefill |-> now]
               /\ c[i] \in Bucket
    <3>1. /\ e.buckets[i] \in [tokens: Nat, lastRefill: Nat]
          /\ e.buckets[i].tokens = Level(k, i) /\ e.buckets[i].lastRefill = now
      BY <1>2 DEF Bucket
    <3>2. e.buckets[i] = [tokens |-> Level(k, i), lastRefill |-> now]
      BY <3>1
    <3>3. c[i] = [tokens |-> Level(k, i) - Tiers[i].window, lastRefill |-> now]
      BY <3>2
    <3>4. Level(k, i) - Tiers[i].window \in Nat
      BY <1>2, <1>4, <1>5, TierType
    <3>. QED  BY <1>3, <3>3, <3>4 DEF Bucket
  <2>3. c \in [Tier -> Bucket]
    BY <2>2
  <2> HIDE DEF c
  <2>4. Taken(e) \in Entry
    BY <1>3, <2>1, <2>3 DEF Entry
  <2>5. entry' = [entry EXCEPT ![k] = [buckets |-> c, lastAccess |-> now]]
    BY <1>1, <1>5, <2>1
  <2>6. /\ entry' \in [Keys -> Entry] /\ entry'[k] = [buckets |-> c, lastAccess |-> now]
        /\ \A x \in Keys \ {k} : entry'[x] = entry[x]
    BY <2>1, <2>4, <2>5 DEF TypeOK
  <2>7. entry'[k].buckets = c /\ entry'[k].lastAccess = now
    BY <2>6
  <2>8. ASSUME NEW i \in Tier
        PROVE  /\ entry'[k].buckets[i].lastRefill = now
               /\ entry'[k].buckets[i].tokens = Level(k, i) - Tiers[i].window
    <3>1. entry'[k].buckets[i]
            = [tokens |-> Level(k, i) - Tiers[i].window, lastRefill |-> now]
      BY <2>2, <2>7
    <3>. QED  BY <3>1
  <2>. QED  BY <1>4, <1>5, <2>6, <2>7, <2>8
<1>6. CASE ~Admits(k)
  <2>1. entry' = [entry EXCEPT ![k] = e]
    BY <1>1, <1>6
  <2>2. e \in Entry
    BY <1>2, <1>3 DEF Entry
  <2>3. /\ entry' \in [Keys -> Entry] /\ entry'[k] = e
        /\ \A x \in Keys \ {k} : entry'[x] = entry[x]
    BY <2>1, <2>2 DEF TypeOK
  <2>4. e.lastAccess = now
    BY <1>2
  <2>. QED  BY <1>2, <1>6, <2>3, <2>4
<1>. QED  BY <1>5, <1>6

\* GC leaves an entry alone or makes it the new one.
LEMMA CollectedEntry ==
  ASSUME TypeOK, GC
  PROVE  /\ entry' \in [Keys -> Entry]
         /\ \A k \in Keys : entry'[k] \in {entry[k], NoEntry}
         /\ \A k \in keys' : entry'[k] = entry[k]
         /\ \A k \in keys \ keys' : Stale(k)
         /\ keys' \subseteq keys
<1>1. NoEntry \in Entry
  BY NewEntryType DEF NoEntry
<1>2. entry' = [k \in Keys |-> IF k \in {x \in keys : Stale(x)}
                               THEN NoEntry ELSE entry[k]]
  BY DEF GC
<1>3. keys' = keys \ {x \in keys : Stale(x)} /\ keys \subseteq Keys
  BY DEF GC, TypeOK
<1>4. entry \in [Keys -> Entry]
  BY DEF TypeOK
<1>. QED  BY <1>1, <1>2, <1>3, <1>4, Zenon

LEMMA NextType == TypeOK /\ BucketsFit /\ [Next]_vars => TypeOK' /\ BucketsFit'
<1> SUFFICES ASSUME TypeOK, BucketsFit, [Next]_vars  PROVE TypeOK' /\ BucketsFit'
  OBVIOUS
<1>1. now \in Nat /\ MaxTime \in Nat
  BY RateLimitAssumption DEF TypeOK
<1>2. CASE Advance
  <2>1. /\ now' = now + 1 /\ now' \in 0..MaxTime
        /\ UNCHANGED <<keys, entry, answer, admitted>>
    BY <1>1, <1>2 DEF Advance, TypeOK
  <2>2. TypeOK'
    BY <2>1 DEF TypeOK
  <2>3. BucketsFit'
    BY <1>1, <2>1, EntryType DEF BucketsFit
  <2>. QED  BY <2>2, <2>3
<1>3. CASE GC
  <2>1. TypeOK'
    BY <1>3, CollectedEntry DEF GC, TypeOK
  <2>2. BucketsFit'
    <3> SUFFICES ASSUME NEW k \in Keys
                 PROVE  /\ entry'[k].lastAccess <= now
                        /\ \A i \in Tier :
                             /\ entry'[k].buckets[i].lastRefill = entry'[k].lastAccess
                             /\ entry'[k].buckets[i].tokens <= Capacity(i)
      BY <1>3 DEF BucketsFit, GC
    <3>1. CASE entry'[k] = entry[k]
      BY <3>1 DEF BucketsFit
    <3>2. CASE entry'[k] = NoEntry
      <4>1. entry'[k].lastAccess = 0 /\ \A i \in Tier :
              entry'[k].buckets[i] = [tokens |-> Capacity(i), lastRefill |-> 0]
        BY <3>2 DEF NoEntry, NewEntry
      <4>2. ASSUME NEW i \in Tier
            PROVE  /\ entry'[k].buckets[i].lastRefill = 0
                   /\ entry'[k].buckets[i].tokens = Capacity(i)
        <5>1. entry'[k].buckets[i] = [tokens |-> Capacity(i), lastRefill |-> 0]
          BY <4>1
        <5>. QED  BY <5>1
      <4>. QED  BY <1>1, <4>1, <4>2, TierType
    <3>. QED  BY <1>3, <3>1, <3>2, CollectedEntry
  <2>. QED  BY <2>1, <2>2
<1>4. ASSUME NEW k \in Keys, Allow(k)  PROVE TypeOK' /\ BucketsFit'
  <2>1. /\ now' = now /\ keys' = keys \cup {k} /\ answer' = <<k, Admits(k)>>
        /\ admitted' = IF Admits(k) THEN [admitted EXCEPT ![k] = Append(@, now)]
                                    ELSE admitted
    BY <1>4 DEF Allow, Admits
  <2>2. answer' \in Keys \X BOOLEAN
    <3>1. Admits(k) \in BOOLEAN
      BY DEF Admits
    <3>. QED  BY <2>1, <3>1, Zenon
  <2>3. admitted' \in [Keys -> Seq(0..MaxTime)]
    BY <2>1 DEF TypeOK
  <2>4. entry' \in [Keys -> Entry] /\ keys' \subseteq Keys /\ now' \in 0..MaxTime
    BY <1>4, <2>1, AllowEntry DEF TypeOK
  <2>5. TypeOK'
    BY <2>2, <2>3, <2>4 DEF TypeOK
  <2>6. ASSUME NEW i \in Tier  PROVE entry'[k].buckets[i].tokens <= Capacity(i)
    <3>1. Level(k, i) \in Nat /\ Level(k, i) <= Capacity(i)
      BY TouchedEntry
    <3>. QED  BY <1>4, <3>1, AllowEntry, TierType
  <2>7. /\ \A x \in Keys \ {k} : entry'[x] = entry[x]
        /\ entry'[k].lastAccess = now
        /\ \A i \in Tier : entry'[k].buckets[i].lastRefill = now
    BY <1>4, AllowEntry
  <2>8. BucketsFit'
    BY <1>1, <2>1, <2>6, <2>7 DEF BucketsFit
  <2>. QED  BY <2>5, <2>8
<1>5. CASE UNCHANGED vars
  BY <1>5 DEF vars, TypeOK, BucketsFit
<1>. QED  BY <1>2, <1>3, <1>4, <1>5 DEF Next

LEMMA InitType == Init => TypeOK /\ BucketsFit
<1> SUFFICES ASSUME Init  PROVE TypeOK /\ BucketsFit
  OBVIOUS
<1>1. entry \in [Keys -> Entry]
  BY NewEntryType DEF Init, NoEntry
<1>2. now \in 0..MaxTime /\ admitted \in [Keys -> Seq(0..MaxTime)]
  BY RateLimitAssumption DEF Init
<1>3. \A k \in Keys : entry[k].lastAccess = 0 /\ \A i \in Tier :
        entry[k].buckets[i] = [tokens |-> Capacity(i), lastRefill |-> 0]
  BY DEF Init, NoEntry, NewEntry
<1>4. BucketsFit
  <2>1. ASSUME NEW k \in Keys, NEW i \in Tier
        PROVE  /\ entry[k].buckets[i].lastRefill = 0
               /\ entry[k].buckets[i].tokens = Capacity(i)
    <3>1. entry[k].buckets[i] = [tokens |-> Capacity(i), lastRefill |-> 0]
      BY <1>3
    <3>. QED  BY <3>1
  <2>. QED  BY <1>3, <2>1, TierType DEF Init, BucketsFit
<1>. QED  BY <1>1, <1>2, <1>4 DEF Init, TypeOK

LEMMA BucketsCorrect == Spec => [](TypeOK /\ BucketsFit)
BY InitType, NextType, PTL DEF Spec

\* No bucket goes below zero, whatever the order of Allow, GC and time.
THEOREM TypeCorrect == Spec => []TypeOK
BY BucketsCorrect, PTL
-----------------------------------------------------------------------------
(* Levels.                                                                 *)

\* The level of a bucket, from the entry.
Levels ==
  \A k \in Keys : \A i \in Tier :
    /\ Level(k, i) \in Nat /\ Level(k, i) <= Capacity(i)
    /\ k \notin keys => Level(k, i) = Capacity(i)
    /\ k \in keys => Level(k, i) = Filled(i, entry[k].buckets[i].tokens,
                                          now - entry[k].lastAccess)

LEMMA LevelsHold == TypeOK /\ BucketsFit => Levels
BY TouchedEntry DEF Levels

LEMMA LevelsHoldNext ==
  ASSUME TypeOK, BucketsFit, [Next]_vars  PROVE Levels /\ Levels'
<1>1. TypeOK' /\ BucketsFit'
  BY NextType
<1>2. (TypeOK /\ BucketsFit => Levels)'
  BY LevelsHold, PTL
<1>. QED  BY <1>1, <1>2, LevelsHold

\* Filling in two goes is filling in one.
LEMMA FilledAgain ==
  ASSUME NEW i \in Tier, NEW t \in Nat, NEW d \in Nat
  PROVE  Filled(i, Filled(i, t, d), 1) = Filled(i, t, d + 1)
<1>1. Tiers[i].capacity \in Nat /\ Capacity(i) \in Nat
  BY TierType
<1>2. ASSUME NEW c \in Nat
      PROVE  (d + 1) * c = d * c + c /\ 1 * c = c /\ d * c \in Nat
  OBVIOUS
<1> DEFINE c == Tiers[i].capacity
           p == d * c
           m == Capacity(i)
           a == Filled(i, t, d)
<1>3. a = IF t + p > m THEN m ELSE t + p
  BY DEF Filled
<1>4. Filled(i, a, 1) = IF a + c > m THEN m ELSE a + c
  BY <1>1, <1>2 DEF Filled
<1>5. Filled(i, t, d + 1) = IF t + (p + c) > m THEN m ELSE t + (p + c)
  BY <1>1, <1>2 DEF Filled
<1>6. c \in Nat /\ p \in Nat /\ m \in Nat
  BY <1>1, <1>2
<1> HIDE DEF c, p, m, a
<1>7. Filled(i, a, 1) = Filled(i, t, d + 1)
  BY <1>3, <1>4, <1>5, <1>6
<1>. QED  BY <1>7 DEF a

\* Long enough unused is full.
LEMMA FilledUp ==
  ASSUME NEW i \in Tier, NEW t \in Nat, NEW d \in Nat, d >= Tiers[i].window
  PROVE  Filled(i, t, d) = Capacity(i)
<1>1. Tiers[i].capacity \in Nat /\ Tiers[i].window \in Nat
  BY TierType
<1>2. PICK x \in Nat : d = Tiers[i].window + x
  <2>1. d - Tiers[i].window \in Nat /\ d = Tiers[i].window + (d - Tiers[i].window)
    BY <1>1
  <2>. QED  BY <2>1
<1>3. \A c, w \in Nat : (w + x) * c = c * w + x * c /\ x * c \in Nat /\ c * w \in Nat
  OBVIOUS
<1>4. /\ d * Tiers[i].capacity = Capacity(i) + x * Tiers[i].capacity
      /\ x * Tiers[i].capacity \in Nat /\ Capacity(i) \in Nat
  BY <1>1, <1>2, <1>3 DEF Capacity
<1>. QED  BY <1>4 DEF Filled

LEMMA FilledZero ==
  ASSUME NEW i \in Tier, NEW t \in Nat, t <= Capacity(i)
  PROVE  Filled(i, t, 0) = t
<1>1. Tiers[i].capacity \in Nat /\ Capacity(i) \in Nat
  BY TierType
<1>2. 0 * Tiers[i].capacity = 0
  BY <1>1
<1>. QED  BY <1>1, <1>2 DEF Filled

LEMMA LevelAdvance ==
  ASSUME TypeOK, BucketsFit, Advance, NEW k \in Keys, NEW i \in Tier
  PROVE  Level(k, i)' = Filled(i, Level(k, i), 1)
<1>1. /\ now' = now + 1 /\ UNCHANGED <<keys, entry>> /\ now \in Nat
      /\ entry[k].lastAccess \in Nat /\ entry[k].buckets[i].tokens \in Nat
      /\ entry[k].lastAccess <= now
  BY RateLimitAssumption, EntryType DEF Advance, TypeOK, BucketsFit
<1>2. Levels /\ Levels'
  BY LevelsHoldNext DEF Next
<1>3. CASE k \in keys
  <2>1. /\ Level(k, i) = Filled(i, entry[k].buckets[i].tokens, now - entry[k].lastAccess)
        /\ Level(k, i)' = Filled(i, entry[k].buckets[i].tokens,
                                 (now - entry[k].lastAccess) + 1)
    <3>1. now + 1 - entry[k].lastAccess = (now - entry[k].lastAccess) + 1
      BY <1>1
    <3>2. Level(k, i)' = Filled(i, entry[k].buckets[i].tokens,
                                now + 1 - entry[k].lastAccess)
      BY <1>1, <1>2, <1>3 DEF Levels, Filled
    <3>. QED  BY <1>2, <1>3, <3>1, <3>2 DEF Levels
  <2>2. now - entry[k].lastAccess \in Nat
    BY <1>1
  <2>. QED  BY <1>1, <2>1, <2>2, FilledAgain
<1>4. CASE k \notin keys
  <2>1. Level(k, i) = Capacity(i) /\ Level(k, i)' = Capacity(i)
    BY <1>1, <1>2, <1>4 DEF Levels, Capacity
  <2>2. Filled(i, Capacity(i), 1) = Capacity(i)
    <3>1. Tiers[i].capacity \in Nat /\ Capacity(i) \in Nat
      BY TierType
    <3>2. 1 * Tiers[i].capacity = Tiers[i].capacity
      BY <3>1
    <3>. QED  BY <3>1, <3>2 DEF Filled
  <2>. QED  BY <2>1, <2>2
<1>. QED  BY <1>3, <1>4

\* GC drops only buckets that have filled up.
LEMMA LevelGC ==
  ASSUME TypeOK, BucketsFit, GC, NEW k \in Keys, NEW i \in Tier
  PROVE  Level(k, i)' = Level(k, i)
<1>1. /\ now' = now /\ now \in Nat /\ MaxAge \in Nat
      /\ entry[k].lastAccess \in Nat /\ entry[k].buckets[i].tokens \in Nat
      /\ entry[k].lastAccess <= now
  BY RateLimitAssumption, EntryType DEF GC, TypeOK, BucketsFit
<1>2. Levels /\ Levels'
  BY LevelsHoldNext DEF Next
<1>3. CASE k \in keys'
  <2>1. k \in keys /\ entry'[k] = entry[k]
    BY <1>3, CollectedEntry
  <2>. QED  BY <1>1, <1>2, <1>3, <2>1 DEF Levels, Filled, Capacity
<1>4. CASE k \notin keys' /\ k \notin keys
  BY <1>2, <1>4 DEF Levels, Capacity
<1>5. CASE k \notin keys' /\ k \in keys
  <2>1. entry[k].lastAccess + MaxAge < now
    BY <1>5, CollectedEntry DEF Stale
  <2>2. /\ now - entry[k].lastAccess \in Nat
        /\ now - entry[k].lastAccess >= Tiers[i].window
    BY <1>1, <2>1, TierType
  <2>3. Level(k, i) = Capacity(i)
    BY <1>1, <1>2, <1>5, <2>2, FilledUp DEF Levels
  <2>4. Level(k, i)' = Capacity(i)
    BY <1>2, <1>5 DEF Levels, Capacity
  <2>. QED  BY <2>3, <2>4
<1>. QED  BY <1>3, <1>4, <1>5

LEMMA LevelAllow ==
  ASSUME TypeOK, BucketsFit, NEW k \in Keys, Allow(k), NEW i \in Tier
  PROVE  /\ \A x \in Keys \ {k} : Level(x, i)' = Level(x, i)
         /\ Level(k, i)' = IF Admits(k) THEN Level(k, i) - Tiers[i].window
                                        ELSE Level(k, i)
         /\ Admits(k) => Level(k, i) >= Tiers[i].window
<1>1. now' = now /\ keys' = keys \cup {k} /\ now \in Nat
  BY RateLimitAssumption DEF Allow, TypeOK
<1>2. Levels /\ Levels'
  BY LevelsHoldNext DEF Next
<1>3. ASSUME NEW x \in Keys \ {k}  PROVE Level(x, i)' = Level(x, i)
  <2>1. entry'[x] = entry[x] /\ (x \in keys' <=> x \in keys)
    BY <1>1, AllowEntry
  <2>. QED  BY <1>1, <1>2, <2>1 DEF Levels, Filled, Capacity
<1>4. Level(k, i)' = entry'[k].buckets[i].tokens
  <2>1. /\ Level(k, i)' = Filled(i, entry'[k].buckets[i].tokens,
                                 now - entry'[k].lastAccess)
        /\ entry'[k].lastAccess = now
    BY <1>1, <1>2, AllowEntry DEF Levels, Filled, Capacity
  <2>2. now - entry'[k].lastAccess = 0
    BY <1>1, <2>1
  <2>3. entry'[k].buckets[i].tokens \in Nat /\ entry'[k].buckets[i].tokens <= Capacity(i)
    <3>1. Level(k, i) \in Nat /\ Level(k, i) <= Capacity(i)
      BY <1>2 DEF Levels
    <3>. QED  BY <3>1, AllowEntry, TierType
  <2>. QED  BY <2>1, <2>2, <2>3, FilledZero
<1>. QED  BY <1>3, <1>4, AllowEntry
-----------------------------------------------------------------------------
(* The limiter implements TokenBucket.                                     *)

LEMMA InitialBuckets == Init => Promise!Init
<1> SUFFICES ASSUME Init  PROVE Promise!Init
  OBVIOUS
<1>1. TypeOK /\ BucketsFit
  BY InitType
<1>2. \A k \in Keys, i \in Tier : Level(k, i) = Tiers[i].capacity * Tiers[i].window
  BY <1>1, LevelsHold DEF Levels, Init, Capacity
<1>3. CurrentLevel = [k \in Keys |-> [i \in DOMAIN Tiers |->
                        Tiers[i].capacity * Tiers[i].window]]
  BY <1>2 DEF CurrentLevel, Level, Tier
<1>. QED  BY <1>3 DEF Promise!Init, Promise!Brimful, Promise!Tier, Init

LEMMA StepOfBuckets ==
  TypeOK /\ BucketsFit /\ [Next]_vars => [Promise!Next]_Promise!vars
<1> SUFFICES ASSUME TypeOK, BucketsFit, [Next]_vars
             PROVE  [Promise!Next]_Promise!vars
  OBVIOUS
<1>1. /\ CurrentLevel = [k \in Keys |-> [i \in Tier |-> Level(k, i)]]
      /\ CurrentLevel' = [k \in Keys |-> [i \in Tier |-> Level(k, i)']]
  BY DEF CurrentLevel, Level
<1>2. CASE Advance
  <2>1. \A k \in Keys, i \in Tier :
          Level(k, i)' = Promise!Refilled(i, CurrentLevel[k][i], 1)
    BY <1>1, <1>2, LevelAdvance
       DEF Filled, Capacity, Promise!Refilled, Promise!Brimful
  <2>2. CurrentLevel' = [k \in Keys |-> [i \in Promise!Tier |->
                           Promise!Refilled(i, CurrentLevel[k][i], 1)]]
    BY <1>1, <2>1 DEF Tier, Promise!Tier
  <2>3. Promise!Elapse
    BY <1>2, <2>2 DEF Advance, Promise!Elapse
  <2>. QED  BY <2>3 DEF Promise!Next
<1>3. CASE GC
  <2>1. CurrentLevel' = CurrentLevel
    BY <1>1, <1>3, LevelGC
  <2>. QED  BY <1>3, <2>1 DEF GC, Promise!vars
<1>4. ASSUME NEW k \in Keys, Allow(k)  PROVE Promise!Next
  <2>1. answer' = <<k, Admits(k)>>
    BY <1>4 DEF Allow, Admits
  <2>2. \A i \in Tier : HasToken(Touched(k, now), i) <=> Level(k, i) >= Tiers[i].window
    BY DEF HasToken, Level
  <2>3. \A i \in Tier : Level(k, i) \in Nat /\ Tiers[i].window \in Nat
    BY LevelsHold, TierType DEF Levels
  <2>4. CASE Admits(k)
    <3>1. \A i \in Promise!Tier : CurrentLevel[k][i] >= Tiers[i].window
      BY <1>1, <2>2, <2>4 DEF Admits, Tier, Promise!Tier
    <3>2. CurrentLevel' = [CurrentLevel EXCEPT ![k] =
                             [i \in Promise!Tier |-> @[i] - Tiers[i].window]]
      <4>1. \A i \in Tier : Level(k, i)' = CurrentLevel[k][i] - Tiers[i].window
        BY <1>1, <1>4, <2>4, LevelAllow
      <4>2. \A x \in Keys \ {k} : \A i \in Tier : Level(x, i)' = Level(x, i)
        BY <1>4, LevelAllow
      <4>. QED  BY <1>1, <4>1, <4>2 DEF Tier, Promise!Tier
    <3>3. answer' = <<k, TRUE>>
      BY <2>1, <2>4, Zenon
    <3>4. Promise!Admit(k)
      BY <3>1, <3>2, <3>3 DEF Promise!Admit
    <3>. QED  BY <3>4 DEF Promise!Next
  <2>5. CASE ~Admits(k)
    <3>1. \E i \in Promise!Tier : CurrentLevel[k][i] < Tiers[i].window
      BY <1>1, <2>2, <2>3, <2>5 DEF Admits, Tier, Promise!Tier
    <3>2. CurrentLevel' = CurrentLevel
      <4>1. \A x \in Keys : \A i \in Tier : Level(x, i)' = Level(x, i)
        BY <1>4, <2>5, LevelAllow
      <4>. QED  BY <1>1, <4>1
    <3>3. Admits(k) = FALSE
      BY <2>5 DEF Admits
    <3>4. answer' = <<k, FALSE>>
      BY <2>1, <3>3, Zenon
    <3>5. Promise!Refuse(k)
      BY <3>1, <3>2, <3>4 DEF Promise!Refuse
    <3>. QED  BY <3>5 DEF Promise!Next
  <2>. QED  BY <2>4, <2>5
<1>5. CASE UNCHANGED vars
  <2>1. CurrentLevel' = CurrentLevel /\ answer' = answer
    BY <1>5 DEF vars, CurrentLevel, Touched
  <2>. QED  BY <2>1 DEF Promise!vars
<1>. QED  BY <1>2, <1>3, <1>4, <1>5 DEF Next

\* Lazy refill and garbage collection answer every request as buckets do that
\* exist for ever and fill continuously.
THEOREM LimiterRefines == Spec => ImplementsTokenBucket
BY InitialBuckets, StepOfBuckets, BucketsCorrect, PTL
   DEF Spec, ImplementsTokenBucket, Promise!Spec
-----------------------------------------------------------------------------
(* What was admitted against what the buckets were worth.                  *)

\* What tier i was charged since the j-th admitted request of k, and what it
\* could have given since: a full bucket and the refill.
Charged(k, i, j) == (Len(admitted[k]) - j + 1) * Tiers[i].window
Worth(k, i, j) == Capacity(i) + (now - admitted[k][j]) * Tiers[i].capacity

\* The level is never more than what is left of that, and unless the bucket is
\* full it is exactly what is left since some admitted request (the first one
\* since the bucket was full).
Ledger(k, i) ==
  /\ \A j \in DOMAIN admitted[k] :
       admitted[k][j] <= now /\ Charged(k, i, j) + Level(k, i) <= Worth(k, i, j)
  /\ \/ Level(k, i) = Capacity(i)
     \/ \E j \in DOMAIN admitted[k] :
          Charged(k, i, j) + Level(k, i) = Worth(k, i, j)

LedgerInvariant == \A k \in Keys : \A i \in Tier : Ledger(k, i)

LEMMA LedgerType ==
  ASSUME TypeOK, NEW k \in Keys, NEW i \in Tier
  PROVE  /\ now \in Nat /\ admitted[k] \in Seq(Nat) /\ Len(admitted[k]) \in Nat
         /\ DOMAIN admitted[k] = 1..Len(admitted[k])
         /\ \A j \in DOMAIN admitted[k] :
              /\ admitted[k][j] \in Nat /\ Charged(k, i, j) \in Nat
              /\ admitted[k][j] <= now => Worth(k, i, j) \in Nat
<1>1. now \in Nat /\ admitted[k] \in Seq(0..MaxTime)
  BY RateLimitAssumption DEF TypeOK
<1>2. admitted[k] \in Seq(Nat)
  BY <1>1, RateLimitAssumption
<1>3. Len(admitted[k]) \in Nat /\ DOMAIN admitted[k] = 1..Len(admitted[k])
  BY <1>2
<1>4. Tiers[i].capacity \in Nat /\ Tiers[i].window \in Nat /\ Capacity(i) \in Nat
  BY TierType
<1>5. \A x, y \in Nat : x * y \in Nat
  OBVIOUS
<1>6. ASSUME NEW j \in DOMAIN admitted[k]
      PROVE  /\ admitted[k][j] \in Nat /\ Charged(k, i, j) \in Nat
             /\ admitted[k][j] <= now => Worth(k, i, j) \in Nat
  <2>1. admitted[k][j] \in Nat /\ Len(admitted[k]) - j + 1 \in Nat
    <3>1. j \in 1..Len(admitted[k])
      BY <1>3
    <3>2. admitted[k][j] \in Nat
      BY <1>2, <3>1, ElementOfSeq
    <3>3. Len(admitted[k]) - j + 1 \in Nat
      BY <1>3, <3>1
    <3>. QED  BY <3>2, <3>3
  <2>2. Charged(k, i, j) \in Nat
    BY <1>4, <1>5, <2>1 DEF Charged
  <2>3. ASSUME admitted[k][j] <= now  PROVE Worth(k, i, j) \in Nat
    <3>1. now - admitted[k][j] \in Nat
      BY <1>1, <2>1, <2>3
    <3>2. (now - admitted[k][j]) * Tiers[i].capacity \in Nat
      BY <1>4, <1>5, <3>1
    <3>. QED  BY <1>4, <3>2 DEF Worth
  <2>. QED  BY <2>1, <2>2, <2>3
<1>. QED  BY <1>1, <1>2, <1>3, <1>6

LEMMA LedgerAdvance ==
  ASSUME TypeOK, BucketsFit, NEW k \in Keys, NEW i \in Tier, Ledger(k, i), Advance
  PROVE  Ledger(k, i)'
<1> DEFINE s == admitted[k]
           L == Level(k, i)
           M == Level(k, i)'
           c == Tiers[i].capacity
           m == Capacity(i)
<1>1. now' = now + 1 /\ admitted' = admitted /\ now \in Nat
  BY RateLimitAssumption DEF Advance, TypeOK
<1>2. c \in Nat /\ m \in Nat /\ L \in Nat
  BY TierType, LevelsHold DEF Levels
<1>3. M = IF L + c > m THEN m ELSE L + c
  <2>1. M = Filled(i, L, 1)
    BY LevelAdvance
  <2>2. 1 * c = c
    BY <1>2
  <2>. QED  BY <2>1, <2>2 DEF Filled
<1>4. ASSUME NEW j \in DOMAIN s
      PROVE  /\ Charged(k, i, j) \in Nat /\ Worth(k, i, j) \in Nat
             /\ s[j] <= now /\ Charged(k, i, j) + L <= Worth(k, i, j)
             /\ Charged(k, i, j)' = Charged(k, i, j)
             /\ Worth(k, i, j)' = Worth(k, i, j) + c
             /\ s[j] <= now + 1
  <2>1. /\ s[j] \in Nat /\ s[j] <= now
        /\ Charged(k, i, j) \in Nat /\ Worth(k, i, j) \in Nat
        /\ Charged(k, i, j) + L <= Worth(k, i, j)
    BY LedgerType DEF Ledger
  <2>2. Charged(k, i, j)' = Charged(k, i, j)
    BY <1>1 DEF Charged
  <2>3. ((now + 1) - s[j]) * c = (now - s[j]) * c + c /\ (now - s[j]) * c \in Int
    BY <1>1, <1>2, <2>1
  <2>4. Worth(k, i, j)' = m + ((now + 1) - s[j]) * c
    BY <1>1, Zenon DEF Worth, Capacity
  <2>5. Worth(k, i, j)' = Worth(k, i, j) + c
    <3>1. Worth(k, i, j) = m + (now - s[j]) * c
      BY DEF Worth
    <3>. QED  BY <1>2, <2>3, <2>4, <3>1
  <2>. QED  BY <1>1, <2>1, <2>2, <2>5
<1>5. L = m \/ \E j \in DOMAIN s : Charged(k, i, j) + L = Worth(k, i, j)
  BY DEF Ledger
<1> HIDE DEF s, L, M, c, m
<1>6. ASSUME NEW j \in DOMAIN s
      PROVE  s[j] <= now + 1 /\ Charged(k, i, j)' + M <= Worth(k, i, j)'
  BY <1>2, <1>3, <1>4
<1>7. M = m \/ \E j \in DOMAIN s : Charged(k, i, j)' + M = Worth(k, i, j)'
  <2>1. CASE L = m \/ L + c > m
    BY <1>2, <1>3, <2>1
  <2>2. CASE L # m /\ ~(L + c > m)
    <3>1. PICK j \in DOMAIN s : Charged(k, i, j) + L = Worth(k, i, j)
      BY <1>5, <2>2
    <3>2. Charged(k, i, j)' + M = Worth(k, i, j)'
      BY <1>2, <1>3, <1>4, <2>2, <3>1
    <3>. QED  BY <3>2
  <2>. QED  BY <2>1, <2>2
<1>8. s' = s /\ now' = now + 1
  BY <1>1 DEF s
<1>9. Capacity(i)' = m
  BY DEF m, Capacity
<1>. QED  BY <1>6, <1>7, <1>8, <1>9 DEF Ledger, s, M

LEMMA OneMore ==
  ASSUME NEW n \in Nat, NEW j \in Nat, NEW w \in Nat
  PROVE  ((n + 1) - j + 1) * w = (n - j + 1) * w + w
OBVIOUS

LEMMA LedgerAllow ==
  ASSUME TypeOK, BucketsFit, NEW k \in Keys, NEW i \in Tier, Ledger(k, i),
         Allow(k), Admits(k)
  PROVE  Ledger(k, i)'
<1> DEFINE s == admitted[k]
           n == Len(admitted[k])
           L == Level(k, i)
           w == Tiers[i].window
           c == Tiers[i].capacity
           m == Capacity(i)
<1>1. now' = now /\ admitted'[k] = Append(s, now)
  BY DEF Allow, Admits, TypeOK
<1>2. /\ c \in Nat /\ m \in Nat /\ w \in Nat /\ L \in Nat /\ L <= m
      /\ Level(k, i)' = L - w /\ L >= w
  BY TierType, LevelsHold, LevelAllow DEF Levels
<1>3. now \in Nat /\ s \in Seq(Nat) /\ n \in Nat /\ DOMAIN s = 1..n
  BY LedgerType
<1>4. /\ DOMAIN admitted'[k] = 1..(n + 1) /\ Len(admitted'[k]) = n + 1
      /\ admitted'[k][n + 1] = now
      /\ \A j \in 1..n : admitted'[k][j] = s[j]
  BY <1>1, <1>3
<1>5. ASSUME NEW j \in 1..n
      PROVE  /\ s[j] <= now /\ Charged(k, i, j) \in Nat /\ Worth(k, i, j) \in Nat
             /\ Charged(k, i, j) + L <= Worth(k, i, j)
             /\ Charged(k, i, j)' = Charged(k, i, j) + w
             /\ Worth(k, i, j)' = Worth(k, i, j)
  <2>1. /\ s[j] <= now /\ Charged(k, i, j) \in Nat /\ Worth(k, i, j) \in Nat
        /\ Charged(k, i, j) + L <= Worth(k, i, j)
    BY <1>3, LedgerType DEF Ledger
  <2>2. ((n + 1) - j + 1) * w = (n - j + 1) * w + w
    <3>1. j \in Nat
      OBVIOUS
    <3>2. n \in Nat /\ w \in Nat
      BY <1>2, <1>3
    <3> HIDE DEF n, w
    <3>. QED  BY <3>1, <3>2, OneMore
  <2>3. Charged(k, i, j)' = ((n + 1) - j + 1) * w
    BY <1>4, Zenon DEF Charged
  <2>4. Charged(k, i, j)' = Charged(k, i, j) + w
    BY <2>2, <2>3, Zenon DEF Charged
  <2>5. admitted'[k][j] = s[j]
    BY <1>4
  <2>6. Worth(k, i, j)' = Worth(k, i, j)
    BY <1>1, <2>5, Zenon DEF Worth, Capacity
  <2>. QED  BY <2>1, <2>4, <2>6
<1>6. PICK p \in Nat : p = n + 1
  BY <1>3
<1>7. Charged(k, i, p)' = w /\ Worth(k, i, p)' = m
  <2>1. Charged(k, i, p)' = (p - p + 1) * w
    BY <1>4, <1>6, Zenon DEF Charged
  <2>2. Worth(k, i, p)' = m + (now - now) * c
    BY <1>1, <1>4, <1>6, Zenon DEF Worth, Capacity
  <2>3. (p - p + 1) * w = w /\ m + (now - now) * c = m
    BY <1>2, <1>3
  <2>. QED  BY <2>1, <2>2, <2>3
<1>8. L = m \/ \E j \in 1..n : Charged(k, i, j) + L = Worth(k, i, j)
  BY <1>3 DEF Ledger
<1> HIDE DEF s, n, L, w, c, m
<1>9. ASSUME NEW j \in 1..(n + 1)
      PROVE  /\ admitted'[k][j] <= now
             /\ Charged(k, i, j)' + (L - w) <= Worth(k, i, j)'
  <2>1. CASE j \in 1..n
    <3>1. /\ s[j] <= now /\ Charged(k, i, j) \in Nat /\ Worth(k, i, j) \in Nat
          /\ Charged(k, i, j) + L <= Worth(k, i, j)
          /\ Charged(k, i, j)' = Charged(k, i, j) + w
          /\ Worth(k, i, j)' = Worth(k, i, j)
      BY <1>5, <2>1
    <3>2. admitted'[k][j] = s[j]
      BY <1>4, <2>1
    <3>. QED  BY <1>2, <3>1, <3>2
  <2>2. CASE j = p
    <3>1. admitted'[k][j] = now
      BY <1>4, <1>6, <2>2
    <3>. QED  BY <1>2, <1>3, <1>7, <2>2, <3>1
  <2>. QED  BY <1>3, <1>6, <2>1, <2>2
<1>10. \E j \in 1..(n + 1) : Charged(k, i, j)' + (L - w) = Worth(k, i, j)'
  <2>1. CASE L = m
    <3>1. p \in 1..(n + 1) /\ Charged(k, i, p)' + (L - w) = Worth(k, i, p)'
      BY <1>2, <1>3, <1>6, <1>7, <2>1
    <3>. QED  BY <3>1
  <2>2. CASE L # m
    <3>1. PICK j \in 1..n : Charged(k, i, j) + L = Worth(k, i, j)
      BY <1>8, <2>2
    <3>2. /\ Charged(k, i, j) \in Nat /\ Worth(k, i, j) \in Nat
          /\ Charged(k, i, j)' = Charged(k, i, j) + w
          /\ Worth(k, i, j)' = Worth(k, i, j)
      BY <1>5
    <3>3. j \in 1..(n + 1) /\ Charged(k, i, j)' + (L - w) = Worth(k, i, j)'
      BY <1>2, <1>3, <3>1, <3>2
    <3>. QED  BY <3>3
  <2>. QED  BY <2>1, <2>2
<1>. QED  BY <1>1, <1>2, <1>4, <1>9, <1>10 DEF Ledger

LEMMA LedgerStep ==
  TypeOK /\ BucketsFit /\ LedgerInvariant /\ [Next]_vars => LedgerInvariant'
<1> SUFFICES ASSUME TypeOK, BucketsFit, LedgerInvariant, [Next]_vars,
                    NEW k \in Keys, NEW i \in Tier
             PROVE  Ledger(k, i)'
  BY DEF LedgerInvariant, Tier
<1>1. Ledger(k, i)
  BY DEF LedgerInvariant
<1>2. ASSUME now' = now, admitted'[k] = admitted[k], Level(k, i)' = Level(k, i)
      PROVE  Ledger(k, i)'
  <2>1. \A j : Charged(k, i, j)' = Charged(k, i, j) /\ Worth(k, i, j)' = Worth(k, i, j)
    BY <1>2, Zenon DEF Charged, Worth, Capacity
  <2>2. Capacity(i)' = Capacity(i)
    BY DEF Capacity
  <2>. QED  BY <1>1, <1>2, <2>1, <2>2 DEF Ledger
<1>3. CASE Advance
  BY <1>1, <1>3, LedgerAdvance
<1>4. CASE GC
  BY <1>2, <1>4, LevelGC DEF GC
<1>5. ASSUME NEW x \in Keys, Allow(x)  PROVE Ledger(k, i)'
  <2>1. CASE x = k /\ Admits(k)
    BY <1>1, <1>5, <2>1, LedgerAllow
  <2>2. CASE x = k /\ ~Admits(k)
    <3>1. admitted' = admitted /\ now' = now
      BY <1>5, <2>2 DEF Allow, Admits
    <3>. QED  BY <1>2, <1>5, <2>2, <3>1, LevelAllow
  <2>3. CASE x # k
    <3>1. admitted'[k] = admitted[k] /\ now' = now
      BY <1>5, <2>3 DEF Allow, TypeOK
    <3>. QED  BY <1>2, <1>5, <2>3, <3>1, LevelAllow
  <2>. QED  BY <2>1, <2>2, <2>3
<1>6. CASE UNCHANGED vars
  <2>1. now' = now /\ admitted'[k] = admitted[k] /\ Level(k, i)' = Level(k, i)
    BY <1>6 DEF vars, Level, Touched
  <2>. QED  BY <1>2, <2>1
<1>. QED  BY <1>3, <1>4, <1>5, <1>6 DEF Next

LEMMA LedgerCorrect == Spec => []LedgerInvariant
<1>1. Init => LedgerInvariant
  <2> SUFFICES ASSUME Init, NEW k \in Keys, NEW i \in Tier  PROVE Ledger(k, i)
    BY DEF LedgerInvariant
  <2>1. Level(k, i) = Capacity(i)
    BY InitType, LevelsHold DEF Levels, Init
  <2>2. DOMAIN admitted[k] = {}
    BY DEF Init
  <2>. QED  BY <2>1, <2>2 DEF Ledger
<1>. QED  BY <1>1, LedgerStep, BucketsCorrect, PTL DEF Spec

\* One more admitted request, if it fits with each of the earlier ones.
LEMMA FitsAppend ==
  ASSUME NEW s \in Seq(Nat), NEW i \in Tier, NEW t \in Nat, Fits(s, i),
         \A j \in 1..(Len(s) + 1) :
           ((Len(s) + 1) - j + 1) * Tiers[i].window
             <= Capacity(i) + (t - Append(s, t)[j]) * Tiers[i].capacity
  PROVE  Fits(Append(s, t), i)
<1> DEFINE u == Append(s, t)
           n == Len(s)
<1>1. /\ n \in Nat /\ DOMAIN s = 1..n /\ DOMAIN u = 1..(n + 1) /\ u[n + 1] = t
      /\ \A j \in 1..n : u[j] = s[j]
  OBVIOUS
<1>2. ASSUME NEW j \in DOMAIN u, NEW m \in DOMAIN u, j <= m
      PROVE  (m - j + 1) * Tiers[i].window
               <= Capacity(i) + (u[m] - u[j]) * Tiers[i].capacity
  <2>1. CASE m \in 1..n
    <3>1. j \in 1..n
      BY <1>1, <1>2, <2>1
    <3>2. u[j] = s[j] /\ u[m] = s[m] /\ j \in DOMAIN s /\ m \in DOMAIN s
      BY <1>1, <2>1, <3>1
    <3>3. (m - j + 1) * Tiers[i].window
            <= Capacity(i) + (s[m] - s[j]) * Tiers[i].capacity
      BY <1>2, <3>2 DEF Fits
    <3>. QED  BY <3>2, <3>3
  <2>2. CASE m = n + 1
    <3>1. u[m] = t /\ j \in 1..(n + 1)
      BY <1>1, <2>2
    <3>2. ((n + 1) - j + 1) * Tiers[i].window
            <= Capacity(i) + (t - u[j]) * Tiers[i].capacity
      BY <3>1
    <3>. QED  BY <2>2, <3>1, <3>2
  <2>. QED  BY <1>1, <1>2, <2>1, <2>2
<1>. QED  BY <1>2 DEF Fits

LEMMA AdmissionStep ==
  /\ TypeOK /\ BucketsFit /\ LedgerInvariant /\ AdmissionBound /\ [Next]_vars
  => AdmissionBound'
<1> SUFFICES ASSUME TypeOK, BucketsFit, LedgerInvariant, AdmissionBound,
                    [Next]_vars, NEW k \in Keys, NEW i \in Tier
             PROVE  Fits(admitted'[k], i)
  BY DEF AdmissionBound, Tier, Fits, Capacity
<1>1. Fits(admitted[k], i) /\ admitted[k] \in Seq(Nat) /\ now \in Nat
  BY LedgerType DEF AdmissionBound
<1>2. CASE admitted'[k] = admitted[k]
  BY <1>1, <1>2
<1>3. CASE admitted'[k] = Append(admitted[k], now) /\ now' = now
  <2>1. Ledger(k, i)' /\ Level(k, i)' \in Nat /\ TypeOK'
    BY LedgerStep, LevelsHoldNext, NextType DEF LedgerInvariant, Levels, Tier
  <2> DEFINE n == Len(admitted[k])
             u == Append(admitted[k], now)
  <2>2. n \in Nat /\ Len(u) = n + 1 /\ DOMAIN u = 1..(n + 1)
    BY <1>1
  <2>3. ASSUME NEW j \in 1..(n + 1)
        PROVE  ((n + 1) - j + 1) * Tiers[i].window
                 <= Capacity(i) + (now - u[j]) * Tiers[i].capacity
    <3>1. Charged(k, i, j)' = ((n + 1) - j + 1) * Tiers[i].window
      BY <1>3, <2>2, Zenon DEF Charged
    <3>2. Worth(k, i, j)' = Capacity(i) + (now - u[j]) * Tiers[i].capacity
      BY <1>3, Zenon DEF Worth, Capacity
    <3>3. /\ Charged(k, i, j)' + Level(k, i)' <= Worth(k, i, j)'
          /\ u[j] <= now
      BY <1>3, <2>1, <2>2 DEF Ledger
    <3>4. Charged(k, i, j)' \in Nat /\ Worth(k, i, j)' \in Nat
      <4>1. /\ Tiers[i].capacity \in Nat /\ Tiers[i].window \in Nat
            /\ Capacity(i) \in Nat
        BY TierType
      <4>2. (n + 1) - j + 1 \in Nat
        BY <2>2
      <4>3. now - u[j] \in Nat
        <5>1. u[j] \in Nat
          BY <1>1, <2>2
        <5>. QED  BY <1>1, <3>3, <5>1
      <4>4. \A x, y \in Nat : x * y \in Nat
        OBVIOUS
      <4>5. /\ ((n + 1) - j + 1) * Tiers[i].window \in Nat
            /\ (now - u[j]) * Tiers[i].capacity \in Nat
        BY <4>1, <4>2, <4>3, <4>4
      <4>. QED  BY <3>1, <3>2, <4>1, <4>5
    <3>5. Charged(k, i, j)' <= Worth(k, i, j)'
      BY <2>1, <3>3, <3>4
    <3>. QED  BY <3>1, <3>2, <3>5
  <2>. QED  BY <1>1, <1>3, <2>3, FitsAppend
<1>4. CASE Advance \/ GC \/ UNCHANGED vars
  BY <1>2, <1>4 DEF Advance, GC, vars
<1>5. ASSUME NEW x \in Keys, Allow(x)  PROVE Fits(admitted'[k], i)
  <2>1. /\ now' = now
        /\ \/ admitted' = [admitted EXCEPT ![x] = Append(@, now)]
           \/ admitted' = admitted
    BY <1>5 DEF Allow
  <2>2. \/ admitted'[k] = admitted[k]
        \/ admitted'[k] = Append(admitted[k], now) /\ now' = now
    BY <2>1 DEF TypeOK
  <2>. QED  BY <1>2, <1>3, <2>2
<1>. QED  BY <1>4, <1>5 DEF Next

\* No stretch of time, however long and whenever GC runs, admits more requests
\* of a key than a full bucket and the refill of that time.
THEOREM AdmissionBounded == Spec => []AdmissionBound
<1>1. Init => AdmissionBound
  <2>1. ASSUME Init, NEW k \in Keys  PROVE DOMAIN admitted[k] = {}
    BY <2>1 DEF Init
  <2>. QED  BY <2>1 DEF AdmissionBound, Fits
<1>. QED  BY <1>1, AdmissionStep, BucketsCorrect, LedgerCorrect, PTL DEF Spec

LEMMA RefusalDue == TypeOK /\ BucketsFit /\ LedgerInvariant => NoUndueRefusal
<1> SUFFICES ASSUME TypeOK, BucketsFit, LedgerInvariant  PROVE NoUndueRefusal
  OBVIOUS
<1> SUFFICES ASSUME NEW k \in Keys,
                    \A x \in Tier : Fits(Append(admitted[k], now), x),
                    NEW i \in Tier
             PROVE  HasToken(Touched(k, now), i)
  BY Zenon DEF NoUndueRefusal
<1> SUFFICES Level(k, i) >= Tiers[i].window
  BY DEF HasToken, Level
<1> DEFINE s == admitted[k]
           u == Append(admitted[k], now)
           n == Len(admitted[k])
           w == Tiers[i].window
           c == Tiers[i].capacity
<1>1. now \in Nat /\ s \in Seq(Nat) /\ n \in Nat /\ DOMAIN s = 1..n
  BY LedgerType
<1>2. w \in Nat /\ c \in Nat /\ Capacity(i) \in Nat /\ Level(k, i) \in Nat
  BY TierType, LevelsHold DEF Levels
<1>3. DOMAIN u = 1..(n + 1) /\ u[n + 1] = now /\ \A j \in 1..n : u[j] = s[j]
  BY <1>1
<1>4. ASSUME NEW j \in 1..(n + 1)
      PROVE  ((n + 1) - j + 1) * w <= Capacity(i) + (now - u[j]) * c
  <2>1. n + 1 \in DOMAIN u /\ j \in DOMAIN u /\ j <= n + 1
    BY <1>1, <1>3
  <2>2. ((n + 1) - j + 1) * w <= Capacity(i) + (u[n + 1] - u[j]) * c
    BY <2>1 DEF Fits
  <2>. QED  BY <1>3, <2>2
<1>5. CASE Level(k, i) = Capacity(i)
  <2>1. ((n + 1) - (n + 1) + 1) * w <= Capacity(i) + (now - now) * c
    <3>1. n + 1 \in 1..(n + 1)
      BY <1>1
    <3>2. ((n + 1) - (n + 1) + 1) * w <= Capacity(i) + (now - u[n + 1]) * c
      BY <1>4, <3>1, Zenon
    <3>. QED  BY <1>3, <3>2, Zenon
  <2>2. ((n + 1) - (n + 1) + 1) * w = w /\ (now - now) * c = 0
    BY <1>1, <1>2
  <2>. QED  BY <1>2, <1>5, <2>1, <2>2
<1>6. CASE Level(k, i) # Capacity(i)
  <2>1. PICK j \in DOMAIN s : Charged(k, i, j) + Level(k, i) = Worth(k, i, j)
    BY <1>6 DEF LedgerInvariant, Ledger
  <2>2. j \in 1..n /\ j \in Nat /\ j \in 1..(n + 1)
    BY <1>1
  <2>3. ((n + 1) - j + 1) * w <= Capacity(i) + (now - s[j]) * c
    BY <1>3, <1>4, <2>2
  <2>4. ((n + 1) - j + 1) * w = Charged(k, i, j) + w
    BY <1>1, <1>2, <2>2, OneMore, ZenonT(30) DEF Charged
  <2>5. Worth(k, i, j) = Capacity(i) + (now - s[j]) * c
    BY DEF Worth
  <2>6. Charged(k, i, j) + w <= Charged(k, i, j) + Level(k, i)
    BY <2>1, <2>3, <2>4, <2>5
  <2>7. Charged(k, i, j) \in Nat
    BY LedgerType
  <2>. QED  BY <1>2, <2>6, <2>7
<1>. QED  BY <1>5, <1>6

\* Whoever is refused had spent what the bucket was worth: refused requests, GC
\* and the other tiers take nothing.
THEOREM RefusalsDue == Spec => []NoUndueRefusal
BY RefusalDue, BucketsCorrect, LedgerCorrect, PTL
=============================================================================
