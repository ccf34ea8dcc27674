# Tripflare in TLA+

A verification development for tripflare, the single-binary DNS/HTTP honeypot in
`src/`. It models the parts of the program that keep state and run concurrently,
and what the servers answer, checks them with TLC on small instances and proves
with TLAPS, for every value of the constants, all of the invariants, refinements and
action properties that TLC checks. Liveness is left to TLC.

`PROJECT.json` maps every definition to the lines it models and lists the runs,
the mutants that show each property can fail, the findings, the hazards and the
theorems.

## The system

One Go process runs a DNS server, an HTTP and an HTTPS server and an ACME
manager. They share an in-memory registry, which a loop in `main` writes to
SQLite.

| Component | State | Operations | Interacts with |
|---|---|---|---|
| registry (`internal/registry/registry.go`) | map of slug entries: ring buffer, `dirty`, `flushedCount`, `evictedDuringFlush`, subscribers; one `RWMutex` | CreateSlug, DeleteSlug, RecordDNS/RecordHTTP, GetEvents, ClearEvents, Subscribe/unsub, Cleanup | called by DNS and HTTP handlers and by the flush loop; sends on subscriber channels |
| flush and restore (`persistence.go`) | snapshots in flight | FlushTo: snapshot under the lock, writes outside it, bookkeeping under it; LoadFrom | store; called by the flush loop and, at shutdown, by `run()` |
| store (`internal/store`) | tables `slugs`, `events` | InsertSlug, InsertEvents, LoadSlugs, LoadEvents, DeleteExpired, DeleteSlug | SQLite |
| life cycle (`cmd/tripflare/main.go`) | root context, listeners, server goroutines, ticker, exit status | initServices, startServers, flushLoop, final flush | everything |
| HTTP server (`internal/httpserver`) | two listeners | routing, basic auth, tracking hits, slug API, SSE streams | registry, store, rate limiter, geoip |
| rate limiter (`internal/ratelimit`) | token buckets per `IP:slug` | Allow, GC | HTTP tracking handler; GC from the flush loop |
| ACME manager (`internal/acme`) | certificate in memory, `cert.pem`, `key.pem`, `account.key`, `account.json` | New, Run (load, obtain, daily renewal), GetCertificate | CA through lego, challenge store, TLS handshakes |
| challenge store (`challenge.go`) | TXT values per name | Set, Delete, GetTXT | written by the ACME provider, read by the DNS server |
| DNS server (`internal/dns`) | two listeners | answers, records hits | registry, challenge store |
| config (`internal/config`) | read once | Load: environment overrides, validate | life cycle |
| geoip (`internal/geoip`) | two open databases | New: choice of the files; lookups | HTTP handlers |
| pixel (`internal/pixel`) | none | kind of image for a path | tracking handler |
| logging, web UI | none | | not modelled |

What is hard here: hits, evictions, clears and deletes between a flush's snapshot and
its bookkeeping; two FlushTo calls at shutdown; store calls that fail half way; crashes
between any two writes; channels closed by three parties; history and subscription taken
in two critical sections; buckets that are forgotten and recreated; two certificate
files written one after the other; renewal that depends on which certificate is in
memory; listeners that fail while main, the DNS server and the HTTP server wait for one
another; a final flush that runs while the servers still serve; names that DNS and HTTP
read differently. `PROJECT.json` lists each hazard at its line.

What makes each component correct:

- registry and flush: an entry that the next flush would skip has nothing left to
  save; nothing is saved twice; order survives a restart; what is deleted or
  expired stays away; no row is left that nothing will delete;
- streams: no channel panic, no leak, order, no loss without a full channel, an end;
- rate limiter: the promise of a token bucket, in spite of lazy refill and GC;
- ACME: both tokens are answered, a certificate expires only after failures on
  every day it was due, files and memory agree, the account survives;
- life cycle: DNS answers before ACME asks for it, a failure anywhere ends the
  process and no goroutine waits for what cannot come, a graceful stop saves what was
  there, the exit status tells whether it tried;
- DNS: answers for its zone only, in whatever case, and takes nothing but challenges
  away from a slug; the two stages of a hit never go to different slugs;
- HTTP: nothing but tracking without TLS and credentials, and no reply that depends
  on other users' slugs;
- geoip: the newest files, the last by name where times are equal.

## Modules

### Store, Registry, Persistence

`Store` is the database as a value (`slugs`, and for each slug its event rows in
insertion order) with one operator per transaction. `Registry` is one
`slugEntry` without its subscribers and the updates that methods make to it
under the lock: `Recorded`, `Cleared`, `SnapshotOf`, `Booked`, `LoadedEntry`.

`Persistence` is the process. One step is one critical section of `registry.mu`
or one store call:

| Code | Actions |
|---|---|
| `initServices`, `LoadFrom` | `Start` |
| signal or failed server; end of `run`; crash | `Shutdown`; `Exit`; `Crash` |
| `CreateSlug`; `recordEvent`; `ClearEvents` | `CreateSlug`; `Record`, `RecordPanicRecovered`; `ClearEvents` |
| `handleDeleteSlug` | `DeleteCheckOwner`, `DeleteFromRegistry`, `DeleteFromStore` or `DeleteFromStoreFails` |
| `FlushTo` from `flushLoop` (`"loop"`) and from `run` (`"final"`) | `Tick` / `FinalFlush` take the snapshots; `FlushSlug`, `FlushEvents`, `FlushFails`, `Book` |
| rest of `flushLoop` | `Cleanup`, `PurgeExpired` or `PurgeExpiredFails`, `LoopReturns` |
| the clock passing `expires_at` | `Expire` |

Abstractions. A hit is its number within its slug, which keeps identity and order
and drops the payload. Slug ids are never drawn twice (2^40 values). Time is the
moment at which a slug expires. The final flush runs beside the loop because
nothing waits for the loop; a loop call that begins after the cancellation
fails, a call of the final flush does not. A second DELETE of the same slug
repeats idempotent steps, so one at a time is modelled. `make([]Event, len-1,
max)` panics for buffers two or more over the limit and for a limit of zero (one over,
the eviction works and the buffer stays one over); `net/http`
recovers the panic with the counters already changed (`RecordPanicRecovered`), in
other goroutines it is a `Crash`. The SELECT of `LoadEvents` has no ORDER BY; it
is taken to return rows in the order of the timestamp index, i.e. of the hits,
which presumes that the clock is not set back.

Two history variables: `deleted` (slugs whose `store.DeleteSlug` succeeded) and
`raced`: slugs that were cleared, deleted or purged, or snapshotted a second
time, while a snapshot of them was in flight. The code is not exact for those,
which the violation runs show; the safety properties are about all the others.

### DurableLog

What `Persistence` promises, without snapshots, flags, counters or failures: the rows
of a slug are a log that grows at its end, in the order of the hits, and that never
passes a hit which the buffer still holds (no holes); a full buffer gives up its
oldest hit; a restart fills the buffer with exactly the log; what a user deleted is
gone for good. `ImplementsDurableLog` is the refinement. The mapping shows a slug that
has expired or is in `raced` as `released`: empty, and with nothing promised about it
any more. "A full buffer may refuse a hit" is the recovered panic of `make`.

### EventStream

One slug and the SSE requests for it. `Open`, `GetEvents`, `Subscribe`, `Replay`,
`Deliver`, `DeliverClose`, `Leave`, `Unsub` are the steps of `routeSlugResource`
and `streamSSE`; `Record`, `ClearEvents` and `RemoveSlug` (DeleteSlug and Cleanup)
are the registry's. A channel is its buffered hits and whether it is closed.
`since` and `lagged` are history variables. One slug is enough: subscribers
belong to an entry and no step touches two entries' subscribers.

### TokenBucket, RateLimit

`TokenBucket` is what the limiter promises: buckets that exist for ever and fill
with every unit of time. `RateLimit` is the code: buckets created on first use,
refilled on the next use, dropped by GC. Levels are integers because a token is
cut into `window` units; the code's `float64` arithmetic is taken to be exact.
`ImplementsTokenBucket` is the refinement with `level <- CurrentLevel`.

### Acme

The manager goroutine over days. Each `os.WriteFile` is an open that truncates
and a write that completes. The CA and lego are external: two authorizations that
are presented, validated against the challenge store and cleaned up in any order.
A certificate is a serial number and the days it has left, 0 being the
self-signed one; an attempt takes less than a day. With ACME disabled `Run`
returns at once and there is nothing to model.

### Names, Dns, Http

`handleQuery` and the HTTP routing keep no state, so they are functions of a question
or a request. A name is its labels in front of a zone, the zone (the domain, a name
that merely ends in the same characters, another) and where it has capitals, which
is what the comparisons in both servers tell apart.

| Code | Definitions |
|---|---|
| `handleQuery`, `isACMEChallenge`, `isSubdomain`, `extractSlug` of `internal/dns` | `AsksChallenge`, `Ours`, `DnsReply`, `DnsHit`, `DnsSlug` |
| `handleSubdomain`, `answerNS`, `answerSOA` | `Records` |
| `mainHandler`, `redirectHandler`, `handleBareDomain`, `requireAuth` | `Route`, `RouteBareDomain`, `RequireAuth`, `Username` |
| `routeAPI`, `routeSlugsCollection`, `routeSlugResource`, `handleUI` | `RouteAPI`, `RouteUI` |
| `handleTripflare` | `TrackingReply` |
| `requireSlugOwner` and the handlers' replies | `OwnerReply`, `ListSlugs`, `HttpReply` |
| `pixel.IsPixelPath`, `ContentType`, `WritePixel` | operators of the same names |

The configured domain is taken to be in lower case. Paths are one representative of
each kind that the routing tells apart; of a record its type and value are kept, of a
reply its status and what depends on the registry. A hit is recorded before the reply is
written, so a reply also depends on which slugs have a buffer that makes `recordEvent`
panic (`panics` of `RegistryView`): those get none (`Aborted`).

### GeoIP, Config

`Newer` is one turn of the loop in `findDB` and `FindDB`, a recursive function, the
loop; `GeoService` is `New` with the fallback of `initServices`: both databases or none.
A directory is a listing of entries by name, as `os.ReadDir` gives it, with names out of
`FileNames`, modified at `ModTimes`; of a name its place in the alphabet and what `isDatabase` sees in it are
kept. `Config` says which settings `Load` accepts, reduced to what later steps depend
on; `Lifecycle` chooses each setting at the one place where it is read.

### Lifecycle, Tripflare

`Lifecycle` is one process: `main`, the DNS and the HTTP server's goroutines, the four
listeners, the ACME goroutine, the beginning of the flush loop's.

| Code | Actions |
|---|---|
| `main`, `run` up to the servers | `LoadConfig`, `InitServices` and their failures |
| `startServers` | `StartDns`, `NewDnsFails`, `StartAcmeAndHttp`, `NewAcmeFails`, `GiveUp` |
| `go flushLoop`; its `time.NewTicker` | `StartFlushLoop`; `MakeTicker` or `FlushLoopPanics` (interval not positive) |
| `<-ctx.Done()`, `FlushTo`, return | `BeginFinalFlush`, `RunReturns` |
| listeners | `Bind`, `BindFails`, `ListenerBreaks` |
| `ListenAndServe` of DNS and the goroutine around it | `TakeNotice`, `DnsFails`, `DnsStops` |
| `ListenAndServe` of HTTP and the goroutine around it | `HttpStops`, `HttpFails`, `HttpReturns` |
| signals, the error of `acme.Run` | `Signal`, `AcmeFails` |

A listener is `closed` when it has listened and does so no more, `never` when it did
not get that far. `Shutdown` of a server is one step (its five seconds bound it).
The flush loop makes its ticker in a step of its own (`loop` is `started`, then
`ticking`), so a panic there may meet main anywhere behind the `go` statement, or come
too late if the process has exited by then.
`AcmeFails` may happen at any time while ACME runs, which includes the beginning,
where the code does it.

`Process` declares what `Lifecycle` and `Persistence` share: `up`, true from the restored
registry to the end of the process, and `ctxDone`, the cancelled root context.
`Tripflare` extends both modules: each step that touches the registry or the store is
conjoined with the action of `Persistence` that it is, and its `SystemNext`, `SystemSpec`
and so on are those of the whole (`Next` and `Spec` are `Persistence`'s), so
the final flush, the loop's flush, the requests and the servers' steps interleave.
Requests arrive through listeners that have bound, with the slugs that `Dns` and
`Http` read out of names. One life of the process is modelled: SIGKILL, restarts,
deletion and expiry are in `Persistence`. `flushed` records how the final flush went;
`early` is a history variable, the hits in the buffers at the moment of the
cancellation, without slugs in `raced` by then, less those that are evicted or
cleared before the final snapshot.

## Runs

| Run | Bounds | Shows |
|---|---|---|
| `one_slug` | 1 slug, limit 2, 5 hits, 2 process ends | all safety properties of `Persistence`, refinement of `DurableLog` |
| `two_slugs` | 2 slugs, limit 1, 1 hit each, 1 end | flushes of several snapshots that fail in the middle |
| `flush_liveness` | 1 slug, limit 1, 2 hits, 1 end | hits reach SQLite, expired slugs leave it |
| `event_stream` | 2 streams, channel of 2, limit 2, 4 hits | channel safety, order, completeness, end of streams |
| `rate_limit` | 2 keys, tiers 3 per 4 and 2 per 3 units, GC after 4, 6 units of time | refinement of `TokenBucket`, both sides of the admission bound |
| `acme` | lifetime 5, renewal below 3 days, 3 orders, 2 ends | challenges, renewal, files, account |
| `tripflare` | 1 slug, limit 1, 2 hits, 1 failed listener not yet noticed, 2 users, directories of up to 2 files | start, failure and stop of the whole process with its registry; the laws of `Dns`, `Http` and `GeoIP` over all small inputs |
| `flush_forgets_hits`, `ring_buffer_overgrown`, `deleted_slug_returns`, `stream_gap`, `acme_no_retry` | smallest that show it | the findings below |

Why the bounds are enough to be interesting: five hits on a buffer of two give evictions
of flushed, of snapshotted and of unflushed events within one flush and a buffer that is
longer than the limit after a restart; two ends give a crash during the recovery from
another, or a crash after a shutdown began. With two slugs one can be written and booked
while the other fails. A channel of two and four hits allow a lagging stream beside one
that keeps up. The tiers' ratios give fractions of tokens, and GC takes effect within
the six units. Three orders and two ends give a renewal that is torn, a restart, and
another. In `tripflare` one place in the buffer and two hits are enough for an eviction
while the snapshots of the loop and of the final flush are both in flight; any listener
may fail, and another one once the first failure has been read. The laws range over
every name of up to two labels, question, route, pair of credentials and listing of up
to two files with two modification times, which is enough for a tie;
they are constant, so they are evaluated where the process begins. Deadlock is checked
except in `event_stream`, where a removed slug with all streams closed is the end of the
story, in `rate_limit`, where the clock's bound ends it, and in `tripflare`, where the
process ends.

Fairness. `Persistence`: weak fairness for the ticker, for the steps of goroutines
(`Book`, `Cleanup`, `LoopReturns`, `FinalFlush`, `Exit`) and for the restart, which
the systemd unit in `docs/deploy.md` or the operator provides; strong fairness for
store calls, i.e. a call that is made again and again does not fail every time.
Requests, crashes, shutdowns and the clock are not fair. `EventStream`: weak
fairness for each handler's steps, which presumes a client that reads; a client's
departure is not fair. `Tripflare`: weak fairness for main, for the writes of the final
flush (which may fail), for binding a socket (which may fail), for the notices and
for the server goroutines; signals, faults, requests and the flush loop are not fair.

## Findings

- **`flush_forgets_hits`.** `FlushTo` sets `flushedCount` from the snapshot's length.
  A `ClearEvents` between the write and the bookkeeping empties the buffer; hits
  recorded after it are counted as flushed, the entry becomes clean, they are
  never written.
- **`ring_buffer_overgrown`.** Eviction does not delete rows, and `LoadFrom` loads all
  of them: after a restart the buffer exceeds `max_events_per_slug`. One over, as at the
  end of the trace, it stays one over; from two over, every further hit panics in
  `make`.
- **`deleted_slug_returns`.** A flush writes a snapshot of a slug that was deleted
  from registry and store meanwhile; the next start restores it.
- **`stream_gap`.** A hit between `GetEvents` and `Subscribe` is not sent.
- **`acme_no_retry`.** After a failed first attempt the daily check sees the ten-year
  self-signed certificate and never tries again.

One more disagreement with a document has no run of its own, because the answers are
harmless: `ARCHITECTURE.md:89` ends its list of answers (A and AAAA, NS and SOA of the
apex, challenge TXT) with "**NXDOMAIN** for everything else". The code says NXDOMAIN for
names outside the zone and for challenges that are not there; for everything else
inside the zone (MX, other TXT, NS and SOA below the apex) `handleQuery` answers NOERROR
without records, and records the question for its slug. `DnsReply` is the code, and
`ZoneLaw` claims NXDOMAIN outside the zone only.

Behaviour that the models contain and that no document contradicts outright, so no
run claims it to be wrong:

- A listener that cannot bind, or breaks, ends the process with status 0.
  `docs/deploy.md` uses `Restart=on-failure`, which does not restart after that.
- `ARCHITECTURE.md:233` ends with "all servers stop → close store"; `run` waits neither
  for the servers nor for the flush loop. `GracefulExitSaves` shows that the hits of
  the time of the cancellation are saved nevertheless; later ones may be lost.
- Hits recorded while `startServers` waits for DNS are lost when `acme.New` fails.
- A `flush_interval` of zero or less passes validation and panics after the start.
- NS and SOA answers depend on the case of the question; no other answer does.
- `a.slug.domain` counts for `slug` in DNS and for nothing in HTTP. So does a host with
  capitals: those in front of the domain make a label that is no slug, those in the
  domain make the request one for the bare domain.
- TXT questions for names that begin with `_acme-challenge` are not recorded for the slug
  they name.
- The reply to a tracking request is aborted if its hit panics, which happens only to a
  slug that exists; otherwise the reply tells nothing about the slug.
- A certificate with exactly the renewal margin left is found by a restart and not
  installed: `loadOrObtain` goes on to obtain another (`RestartFindsServed` is about the
  files).
- A final flush that fails is logged; the exit status is 0 nevertheless.
- A newest GeoIP file that does not open disables both databases although an older
  one is there.
- The environment can switch ACME on, not off.

## Proofs

| Module | Proves | From |
|---|---|---|
| `PersistenceProofs` | `TypeOK`; lemmas about one entry (types, what a snapshot covers, how a record with eviction shifts a covered prefix, what bookkeeping establishes) and what each action does to each group of variables | `TypeOK` |
| `FlushProofs` | `CleanIsSaved`, `DeleteIsFinal`, `NoOrphanRows`, `GrowthStopsAtCap` | `FlushInvariant` |
| `LogProofs` | `NoDuplicateRows`, `BufferInOrder`, `ImplementsDurableLog` | `FlushInvariant`, `OrderInvariant`, `AbsentEmpty` |
| `EventStreamProofs` | `TypeOK`, `SubscribersOpen`, `NoSubscriberLeak`, `StreamInOrder`, `NothingSkipped` | `ChannelInvariant`, `OrderInvariant` |
| `RateLimitProofs` | `TypeOK`, `ImplementsTokenBucket`, `AdmissionBound`, `NoUndueRefusal` | `BucketsFit`, `LedgerInvariant` |
| `AcmeProofs` | `TypeOK`, `ChallengesExact`, `AccountKeyKept`, `RestartFindsServed`, `ExpiryTakesFailures` | `StoreInvariant`, `RenewalInvariant` |
| `LifecycleProofs` | `SystemSpec => Spec`, hence `ImplementsDurableLog` for the process; `SystemTypeOK`, `AcmeAfterDns`, `FailuresAreHeard`, `CleanExitFlushed`, `GracefulExitSaves` | `StartInvariant`, `HearInvariant`, `EndInvariant`, `RunInvariant`, `EarlyInvariant` |
| `LawProofs` | `ZoneOnly`, `CaseBlind`, `OnlyTrackingIsOpen`, `OthersSlugsInvisible`, `StagesAgree`, `NewestDatabaseWins` | the definitions alone |

Assumptions, all of them named next to the constants: limits are natural numbers, the
bounds of the runs (`MaxHits`, `MaxStops`, `MaxFaults`, `MaxOrders`, `MaxEnds`,
`MaxTime`) any natural numbers; `None` is not a slug; streams are finitely many, their
channels have a capacity (64 in the code) and their buffer has one (500 by default; with
a limit of 0 every hit panics in `make`, which `Persistence` models and proves about); a
bucket's window is at most the age at which GC drops it (a minute against an hour in
`main.go`); a new certificate and the self-signed one live longer than the renewal
margin (90 days and ten years against 30 days); at least one user is configured, as
`config.validate` demands; a slug is neither empty nor written with capitals
(`generateSlugID`); file names and modification times are ordered like natural
numbers, and a directory is finite. Nothing is assumed about the number of slugs, hits,
users, keys, files, restarts or failing listeners.

**Flush.** `Book` sets the flushed prefix to `snapshotLen - evictedDuringFlush` without
looking at the buffer, so `CleanIsSaved` alone is not inductive. That the prefix is right
is `BookkeepingExact`: for a slug outside `raced`, the first `flushedCount` events of the
buffer are in SQLite, and for a snapshot in flight the first `len -
evictedDuringFlush` events of the *current* buffer are in SQLite or among the rows
that this flush is about to write. A record keeps this (an eviction shortens the
prefix and counts itself), `FlushEvents` moves rows from "about to be written" to
"in SQLite", `Book` turns the covered prefix into the flushed prefix. The other
conjuncts keep its premises: `FlushShape` (only a FlushTo in progress holds
snapshots), `OneSnapshot` (two flushes of one slug mark it raced), `CreatedFirst`
(whatever is in memory, in SQLite or being deleted was created, so a fresh id
meets no leftovers), `DeletedNotPending` and `RowBeforeEvents` for the two properties
about deletion.

**Order.** `FlushInvariant` bounds the flushed prefix from above: it is never too long, so
nothing is lost. That no row is written twice needs the bound from below.
`OrderInvariant` has it as order: log, buffer and snapshot rows are increasing, what a
flush has yet to write is newer than the log, and what the snapshot does not cover is
newer than both. `Fresh` makes an exception for buffers on which `make` panics: a
recovered panic lowers `flushedCount` and evicts nothing, so for a buffer that
`LoadFrom` left longer than the limit the claim is false. It is not needed there,
because such a buffer stays clean and is never snapshotted; that is the first
conjunct of `Fresh`, which allows a dirty buffer to be at most one longer than the limit.

**Refinement of `DurableLog`.** With these, each action of `Persistence` is a step of the
log or a stutter: `FlushEvents` is `Save`, since the rows continue the log and leave no
hole before what the buffer holds; `Start` is `Restart`, for which `AbsentEmpty` says that
entries outside `live` are empty; a step that races or expires a slug is `Release`;
`Book`, `Tick` and all failures stutter.

**Streams.** `NoSubscriberLeak` and `SubscribersOpen` carry each other, with the fact that a
handler which has not subscribed has no closed channel. Order and completeness
need one invariant over the four places where a hit can be: history precedes the
point of subscription, the channel follows it, the channel continues what was sent,
and for a stream whose channel was never full, history and everything since
`Subscribe` is what the client has or will be given.

**Rate limiter.** The refinement needs that all buckets of a key were refilled at the
same moment, no later than now, and are not above capacity (`BucketsFit`); then GC drops
only buckets that are full again, which is where the assumption on windows is used. The
two bounds on admissions come from a ledger: counted from any earlier admission, what
was charged and what is left never exceed the burst plus the refill since, and unless
the bucket is full, for some admission they are exactly that.

**ACME.** `DaysAccounted` charges each day that takes from the renewal margin to a
failed attempt, the attempt under way excepted. `FilesFollow` says how far the two files
have got within an attempt: once the key is being written the certificate file is the
new one, and at the installation the key is too.

**Process.** `AcmeAfterDns` is not inductive: that ACME has been started says nothing
about listeners unless the notices do. `StartInvariant` adds that a notice comes from a
listener that has bound (and binding is not undone by closing), that ACME and HTTP need
both notices, and that there are none before `startServers`. `EndInvariant` ties the
final flush to main's place: its program counter leaves `"idle"` only in main's
`"flush"` step, and `flushed` is `"no"` exactly before that. With `RunInvariant` (the
registry is loaded from `initServices` to the end, the context is not cancelled before,
and the final flush waits for the cancellation) every step of the process is a step of
`Persistence`: `SystemImplementsPersistence`, through which the process inherits all of
the above.

`FailuresAreHeard` is the safety core of `StopsOnceAsked`, and the part of it that a proof
can reach: `startServers` never waits for a notice that will not come, and no error is
left in a channel that nobody reads. The three facts depend on one another through the
listeners. `HearInvariant` says where they can be for each place of each server: all off
before it starts; bound, binding or failed while it reads notices and errors; unable to
fail after `Shutdown`, also the one that was still starting when it was called. It ties
`dns = "waiting"` to a missing notice and the return of a server to a cancelled context.
TLC checks with one unread failure at a time, the theorem holds for any number.

`GracefulExitSaves` speaks about the end only. `EarlyInvariant` follows the hits there:
until the final FlushTo takes its snapshots, the hits of `early` are in the buffers, of
slugs that nothing has raced; from then on each is in SQLite or among the rows the
final flush has not written. Taking the snapshots is the step from one to the other,
and it is `FlushInvariant` that makes it safe: a hit that the snapshot leaves out,
because it is in the flushed prefix or its entry is clean, is in SQLite already. What
the loop's flush has in flight is in neither, so the final flush writes it as well.

The laws of `Dns` and `Http` are constant formulas. They are proved by cases on the route,
for any slugs, users, passwords and configured pairs; TLC evaluates them for two
users. `PrivacyLaw` compares the reply to every request with the reply that
the same request gets from a registry without the slugs of others (`OwnOnly`); a request
without credentials has no slugs of its own, so its reply must be that of an empty
registry. Its one exception is the aborted tracking reply. `StageLaw` covers names with
capitals and prefixes: HTTP counts for the slug of DNS or for nothing, and the second
only for such names. Two definitions were rewritten when a proof failed: arms of a `CASE` that
overlap leave the value open in TLA+, whatever TLC takes.

`NewestDatabaseWins` is a loop over a directory of any length, so it needs an induction.
The library's induction theorems take an operator, which the provers cannot instantiate;
`LawProofs` derives one over a *set* of numbers instead (`UpwardInduction`) from the
well-foundedness of the natural numbers. It is used twice: to show that the recursive
function has a solution at all (`LoopRuns`; until then its `CHOOSE` may be anything), and
that after each turn `newest` is the newest database of what has been listed, or nothing
(`FindDBNewest`). Names, being sorted, are distinct and make it the only one, so the reverse also holds: if
enrichment is disabled, one of the two newest does not exist or does not open.

The prover cannot cite a theorem through `INSTANCE`, which is why `Tripflare` extends
`Persistence` and shares variables with it by name.

Only model-checked: the liveness properties `HitsEventuallySaved`,
`ExpiredEventuallyPurged`, `RemovalEndsStreams` and `StopsOnceAsked`, since fairness and
ENABLED are beyond the prover.

## Not modelled

Logging and the web UI (formatting, and a page that runs in a browser). Of modelled
components: YAML parsing and the defaults of paths and limits, GeoIP lookups and the
enrichment of hits (a library read, no state), the bytes of pixels and Open Graph
pages, TTLs, HTTP headers, and the payload of a hit. The rate limiter is checked on
its own; for `Tripflare` a refused request is one that did not arrive. SQLite's own
atomicity, Go's scheduler and mutexes, TLS, lego and the CA are trusted or external.

## Plan

1. *Done:* `Store`, `Registry`, `Persistence` with runs and proofs; `EventStream`;
   `RateLimit` with `TokenBucket`; `Acme`.
2. *Done:* `Names`, `Dns`, `Http`, `GeoIP`, `Config`; `Lifecycle` and its composition with
   `Persistence` in `Tripflare`; `DurableLog` and its refinement; the first theorems
   about the life cycle.
3. *Done:* proofs of order and of the refinement of `DurableLog`; of `EventStream`,
   `RateLimit` with its refinement, `Acme`; of the composed process and its laws.
4. *Done:* `FailuresAreHeard` and its proof; the induction over the loop of `findDB`; the
   refinement of `DurableLog` by the whole process.

What could follow: the hazards that no property covers (`PROJECT.json` says why for
each; most are behaviour that no document promises anything about), a configured domain
with capitals in `Names`, and the rate limiter inside `Tripflare`.
