----------------------------- MODULE LawProofs -----------------------------
(***************************************************************************)
(* The laws of Dns, Http and GeoIP: for any slugs, users and passwords,    *)
(* any content of the registry and of the challenge store, and directories *)
(* of any length.                                                          *)
(***************************************************************************)
EXTENDS Tripflare, WellFoundedInduction, TLAPS

-----------------------------------------------------------------------------
(* Dns and Http.                                                           *)

\* What a name without capitals is made of.
LEMMA LowerFields ==
  ASSUME NEW n \in Name
  PROVE  /\ Lower(n) \in Name
         /\ Lower(n).sub = n.sub /\ Lower(n).zone = n.zone
         /\ Lower(n).upper = {}
         /\ Lower(Lower(n)) = Lower(n)
<1>1. PICK sub, zone, upper :
        n = [sub |-> sub, zone |-> zone, upper |-> upper]
  BY DEF Name
<1>2. Lower(n) = [sub |-> sub, zone |-> zone, upper |-> {}]
  BY <1>1 DEF Lower
<1>3. Lower(Lower(n)) = [sub |-> sub, zone |-> zone, upper |-> {}]
  BY <1>2 DEF Lower
<1>4. Lower(n) \in Name
  BY <1>1, <1>2 DEF Name
<1>. QED  BY <1>1, <1>2, <1>3, <1>4

\* A name of the zone is the apex or below it.
LEMMA ZoneNames ==
  ASSUME NEW n \in Name, n.upper = {}
  PROVE  InZone(n) <=> IsApex(n) \/ IsSubdomain(n)
BY DEF Name, InZone, IsApex, IsSubdomain

LEMMA ZoneLawHolds == ZoneLaw
<1> SUFFICES ASSUME NEW q \in Question, NEW cfg \in ZoneConfig,
                    NEW txt \in SUBSET {"apex", "wildcard"}
             PROVE  LET reply == DnsReply(q, cfg, txt)
                    IN  /\ reply.rcode = "NXDOMAIN" => reply.answer = {}
                        /\ ~InZone(q.name) =>
                             reply.rcode = "NXDOMAIN" /\ DnsHit(q) = NoSlug
                        /\ InZone(q.name) /\ q.name.sub # <<>> =>
                             \/ DnsHit(q) = q.name.sub[Len(q.name.sub)]
                             \/ q.type = "TXT" /\ q.name.sub[1] = AcmeLabel
  BY DEF ZoneLaw
<1> DEFINE n == Qname(q)
           reply == DnsReply(q, cfg, txt)
<1>1. /\ n \in Name /\ n.upper = {}
      /\ n.zone = q.name.zone /\ n.sub = q.name.sub
  BY LowerFields DEF Question, Qname
<1>2. InZone(n) <=> IsApex(n) \/ IsSubdomain(n)
  BY <1>1, ZoneNames
<1>3. InZone(n) <=> InZone(q.name)
  BY <1>1 DEF InZone
<1>4. CASE AsksChallenge(q)
  <2>1. reply = IF GetTXT(txt, n) = {} THEN NXDomain ELSE NoError(GetTXT(txt, n))
    BY <1>4 DEF DnsReply, Ours
  <2>2. ~InZone(n) => GetTXT(txt, n) = {}
    BY DEF InZone, GetTXT
  <2>3. DnsHit(q) = NoSlug
    BY <1>4 DEF DnsHit
  <2>4. q.type = "TXT" /\ q.name.sub[1] = AcmeLabel
    BY <1>1, <1>4 DEF AsksChallenge, IsACMEChallenge, Name
  <2>. QED  BY <1>3, <2>1, <2>2, <2>3, <2>4 DEF NXDomain, NoError
<1>5. CASE Ours(q)
  <2>1. reply = NoError(Records(q, cfg))
    BY <1>5 DEF DnsReply, Ours
  <2>2. InZone(q.name)
    BY <1>2, <1>3, <1>5 DEF Ours
  <2>3. q.name.sub # <<>> => DnsHit(q) = q.name.sub[Len(q.name.sub)]
    BY <1>1, <1>5, <2>2 DEF DnsHit, DnsSlug, Ours, IsSubdomain, InZone
  <2>. QED  BY <2>1, <2>2, <2>3 DEF NoError
<1>6. CASE ~AsksChallenge(q) /\ ~Ours(q)
  <2>1. reply = NXDomain
    BY <1>6 DEF DnsReply
  <2>2. ~InZone(q.name)
    BY <1>2, <1>3, <1>6 DEF Ours
  <2>3. DnsHit(q) = NoSlug
    BY <1>2, <1>3, <1>6, <2>2 DEF DnsHit, DnsSlug
  <2>. QED  BY <2>1, <2>2, <2>3 DEF NXDomain
<1>. QED  BY <1>4, <1>5, <1>6

LEMMA CaseLawHolds == CaseLaw
<1> SUFFICES ASSUME NEW q \in Question, NEW cfg \in ZoneConfig,
                    NEW txt \in SUBSET {"apex", "wildcard"}
             PROVE  LET lower == [q EXCEPT !.name = Lower(@)]
                    IN  /\ DnsHit(q) = DnsHit(lower)
                        /\ q.type \notin {"NS", "SOA"} =>
                             DnsReply(q, cfg, txt) = DnsReply(lower, cfg, txt)
  BY DEF CaseLaw
<1> DEFINE lower == [q EXCEPT !.name = Lower(@)]
<1>1. q.name \in Name /\ lower.name = Lower(q.name) /\ lower.type = q.type
  BY DEF Question
<1>2. Qname(lower) = Qname(q)
  BY <1>1, LowerFields DEF Qname
<1> HIDE DEF lower
<1>3. AsksChallenge(lower) <=> AsksChallenge(q)
  BY <1>1, <1>2 DEF AsksChallenge
<1>4. Ours(lower) <=> Ours(q)
  BY <1>2, <1>3 DEF Ours
<1>5. DnsHit(q) = DnsHit(lower)
  BY <1>2, <1>3 DEF DnsHit
<1>6. ASSUME q.type \notin {"NS", "SOA"}
      PROVE  DnsReply(q, cfg, txt) = DnsReply(lower, cfg, txt)
  <2>1. Records(lower, cfg) = Records(q, cfg)
    BY <1>1, <1>6 DEF Records
  <2>2. CASE AsksChallenge(q)
    BY <1>2, <1>3, <2>2 DEF DnsReply, Ours
  <2>3. CASE Ours(q)
    BY <1>3, <1>4, <2>1, <2>3 DEF DnsReply, Ours
  <2>4. CASE ~AsksChallenge(q) /\ ~Ours(q)
    BY <1>3, <1>4, <2>4 DEF DnsReply
  <2>. QED  BY <2>2, <2>3, <2>4
<1>. QED  BY <1>5, <1>6 DEF lower

\* Without valid credentials the bare domain has nothing but errors.
LEMMA BareDomainGuarded ==
  ASSUME NEW r, Username(r) = Anonymous
  PROVE  RouteBareDomain(r) \in {"404", "401"}
<1>1. \A handler : RequireAuth(r, handler) = "401"
  BY DEF RequireAuth
<1>2. CASE IsAPI(r) /\ ~IsUI(r)
  BY <1>1, <1>2 DEF RouteBareDomain
<1>3. CASE IsUI(r) /\ ~IsAPI(r)
  BY <1>1, <1>3 DEF RouteBareDomain
<1>4. CASE IsAPI(r) /\ IsUI(r)
  BY <1>4 DEF IsAPI, IsUI, OfSlug
<1>5. CASE ~IsAPI(r) /\ ~IsUI(r)
  BY <1>5 DEF RouteBareDomain
<1>. QED  BY <1>2, <1>3, <1>4, <1>5

LEMMA AccessLawHolds == AccessLaw
<1> SUFFICES ASSUME NEW r \in Request, Route(r) \notin {"track", "404", "401"}
             PROVE  r.port = "https" /\ r.cred \in Auth
  BY DEF AccessLaw
<1>1. HttpSlug(r.host) = NoSlug /\ r.port = "https"
        /\ Route(r) = RouteBareDomain(r)
  BY DEF Route
<1>2. Username(r) # Anonymous
  BY <1>1, BareDomainGuarded
<1>. QED  BY <1>1, <1>2 DEF Username

LEMMA StageLawHolds == StageLaw
<1> SUFFICES ASSUME NEW n \in Name, NEW type \in {"A", "AAAA"}
             PROVE  LET hit == DnsHit([name |-> n, type |-> type])
                    IN  /\ HttpSlug(n) \in Slugs => hit = HttpSlug(n)
                        /\ hit \in Slugs /\ HttpSlug(n) # hit =>
                             Len(n.sub) = 2 \/ n.upper # {}
  BY DEF StageLaw
<1> DEFINE hit == DnsHit([name |-> n, type |-> type])
<1>1. /\ n.sub \in {<<>>} \cup {<<l>> : l \in Labels} \cup (Labels \X Labels)
      /\ n.upper \in SUBSET {"sub", "zone"}
  BY DEF Name
<1>2. Len(n.sub) \in 0..2 /\ (Len(n.sub) = 0 <=> n.sub = <<>>)
  BY <1>1
<1>3. hit = IF n.sub # <<>> /\ n.zone = "domain" THEN n.sub[Len(n.sub)] ELSE NoSlug
  <2>1. Lower(n).sub = n.sub /\ Lower(n).zone = n.zone /\ Lower(n).upper = {}
    BY LowerFields
  <2>. QED
    BY <2>1 DEF DnsHit, DnsSlug, AsksChallenge, IsSubdomain, Qname
<1> HIDE DEF hit
<1>4. ASSUME HttpSlug(n) \in Slugs  PROVE hit = HttpSlug(n)
  <2>1. n.zone = "domain" /\ Len(n.sub) = 1 /\ HttpSlug(n) = n.sub[1]
    BY <1>4, NoSlugNamed DEF HttpSlug
  <2>. QED  BY <1>2, <1>3, <2>1
<1>5. ASSUME hit \in Slugs, HttpSlug(n) # hit, n.upper = {}
      PROVE  Len(n.sub) = 2
  <2>1. n.sub # <<>> /\ n.zone = "domain" /\ hit = n.sub[Len(n.sub)]
    BY <1>3, <1>5, NoSlugNamed
  <2>2. Len(n.sub) # 1
    BY <1>5, <2>1 DEF HttpSlug
  <2>. QED  BY <1>2, <2>1, <2>2
<1>. QED  BY <1>4, <1>5 DEF hit

\* Leaving out the slugs of others keeps a user's own as they are.
LEMMA OwnKept ==
  ASSUME NEW v \in RegistryView, NEW user, user # Anonymous, NEW s \in Slugs
  PROVE  LET w == OwnOnly(v, user)
         IN  /\ v.owner[s] = user <=> w.owner[s] = user
             /\ v.owner[s] = user => w.count[s] = v.count[s]
BY DEF OwnOnly

LEMMA OwnListKept ==
  ASSUME NEW v \in RegistryView, NEW user, user # Anonymous
  PROVE  ListSlugs(OwnOnly(v, user), user) = ListSlugs(v, user)
<1> DEFINE w == OwnOnly(v, user)
<1>1. \A s \in Slugs : /\ v.owner[s] = user <=> w.owner[s] = user
                       /\ v.owner[s] = user => w.count[s] = v.count[s]
  BY OwnKept
<1> HIDE DEF w
<1>2. {s \in Slugs : w.owner[s] = user} = {s \in Slugs : v.owner[s] = user}
  BY <1>1
<1>3. ListSlugs(w, user) = ListSlugs(v, user)
  BY <1>1, <1>2 DEF ListSlugs
<1>. QED  BY <1>3 DEF w

\* A tracking request is answered without a look at the registry, or not at
\* all; nothing of it is left without the panic.
LEMMA TrackingPrivate ==
  ASSUME NEW r \in Request, NEW v \in RegistryView, NEW user
  PROVE  \/ TrackingReply(r, v) = TrackingReply(r, OwnOnly(v, user))
         \/ TrackingReply(r, v) = Aborted
<1> DEFINE w == OwnOnly(v, user)
           s == HttpSlug(r.host)
<1>1. SlugExists(w, s) /\ s \in w.panics => SlugExists(v, s) /\ s \in v.panics
  BY DEF OwnOnly, SlugExists
<1> HIDE DEF w
<1>2. CASE SlugExists(v, s) /\ s \in v.panics
  BY <1>2 DEF TrackingReply
<1>3. CASE ~(SlugExists(v, s) /\ s \in v.panics)
  <2>1. TrackingReply(r, v) = TrackingReply(r, w)
    BY <1>1, <1>3 DEF TrackingReply
  <2>. QED  BY <2>1 DEF w
<1>. QED  BY <1>2, <1>3

LEMMA PrivacyLawHolds == PrivacyLaw
<1> SUFFICES ASSUME NEW r \in Request, NEW v \in RegistryView
             PROVE  \/ HttpReply(r, v) = HttpReply(r, OwnOnly(v, Username(r)))
                    \/ Route(r) = "track" /\ HttpReply(r, v) = Aborted
  BY DEF PrivacyLaw
<1> DEFINE user == Username(r)
           w == OwnOnly(v, user)
<1>1. CASE Route(r) = "track"
  <2>1. \A view : HttpReply(r, view) = TrackingReply(r, view)
    BY <1>1 DEF HttpReply
  <2>. QED  BY <1>1, <2>1, TrackingPrivate
<1>2. CASE Route(r) # "track" /\ user = Anonymous
  <2>1. Route(r) \in {"404", "401"}
    BY <1>2, BareDomainGuarded DEF Route
  <2>2. HttpReply(r, v) = HttpReply(r, w)
    BY <2>1 DEF HttpReply
  <2>. QED  BY <2>2
<1>3. CASE Route(r) # "track" /\ user # Anonymous
  <2> DEFINE s == r.path[2]
             events(view) ==
               Answer(200, IF s \in Slugs THEN view.count[s] ELSE 0)
  <2>1. ListSlugs(v, user) = ListSlugs(w, user)
    BY <1>3, OwnListKept
  <2>2. s \in Slugs => /\ v.owner[s] = user <=> w.owner[s] = user
                       /\ v.owner[s] = user => v.count[s] = w.count[s]
    BY <1>3, OwnKept
  <2> HIDE DEF w
  <2>3. OwnerReply(v, user, s, events(v)) = OwnerReply(w, user, s, events(w))
    BY <2>2, ZenonT(30) DEF OwnerReply
  <2>4. \A a : OwnerReply(v, user, s, a) = OwnerReply(w, user, s, a)
    BY <2>2 DEF OwnerReply
  <2>5. HttpReply(r, v) = HttpReply(r, w)
    <3>1. CASE Route(r) = "list"
      <4>1. \A view : HttpReply(r, view) = Answer(200, ListSlugs(view, user))
        BY <3>1 DEF HttpReply
      <4>. QED  BY <2>1, <4>1
    <3>2. CASE Route(r) = "get" \/ Route(r) = "stream"
      <4>1. \A view : HttpReply(r, view) = OwnerReply(view, user, s, events(view))
        BY <3>2 DEF HttpReply
      <4>. QED  BY <2>3, <4>1
    <3>3. CASE Route(r) = "delete" \/ Route(r) = "clear"
      <4>1. \E a : \A view : HttpReply(r, view) = OwnerReply(view, user, s, a)
        <5>1. CASE Route(r) = "delete"
          BY <5>1 DEF HttpReply
        <5>2. CASE Route(r) = "clear"
          BY <5>2 DEF HttpReply
        <5>. QED  BY <3>3, <5>1, <5>2
      <4>. QED  BY <2>4, <4>1
    <3>4. CASE Route(r) \notin {"list", "get", "stream", "delete", "clear"}
      <4>1. \E a : \A view : HttpReply(r, view) = a
        BY <1>3, <3>4 DEF HttpReply
      <4>. QED  BY <4>1
    <3>. QED  BY <3>1, <3>2, <3>3, <3>4
  <2>. QED  BY <2>5 DEF w
<1>. QED  BY <1>1, <1>2, <1>3
-----------------------------------------------------------------------------
(* GeoIP.  findDB is a loop over a listing of any length, so that what it  *)
(* finds is proved by induction.  The provers cannot instantiate the       *)
(* library's induction theorems, whose parameter is an operator; that Nat  *)
(* is well founded is enough to have induction for sets.                   *)

LEMMA LeastNumber ==
  ASSUME NEW S, S \subseteq Nat, S # {}
  PROVE  \E n \in S : \A m \in S : n <= m
<1> DEFINE R == OpToRel(<, Nat)
<1>1. IsWellFoundedOn(R, Nat)
  BY NatLessThanWellFounded
<1>2. PICK n \in S : \A m \in S : ~(<<m, n>> \in R)
  <2> HIDE DEF R
  <2>. QED  BY <1>1, WFMin
<1>3. \A m \in S : <<m, n>> \in R <=> m < n
  BY DEF OpToRel
<1>4. ASSUME NEW m \in S  PROVE n <= m
  <2>1. m \in Nat /\ n \in Nat
    OBVIOUS
  <2>2. ~(m < n)
    <3> HIDE DEF R
    <3>. QED  BY <1>2, <1>3
  <2>. QED  BY <2>1, <2>2
<1>. QED  BY <1>4

\* Induction up to N, over a set instead of a predicate.
LEMMA UpwardInduction ==
  ASSUME NEW N \in Nat, NEW S, 0 \in S,
         \A n \in 1..N : n - 1 \in S => n \in S
  PROVE  0..N \subseteq S
<1> SUFFICES ASSUME (0..N) \ S # {}  PROVE FALSE
  OBVIOUS
<1> DEFINE T == (0..N) \ S
<1>1. PICK n \in T : \A m \in T : n <= m
  <2>1. T \subseteq Nat /\ T # {}
    OBVIOUS
  <2> HIDE DEF T
  <2>. QED  BY <2>1, LeastNumber
<1>2. n \in 1..N /\ n \notin S
  OBVIOUS
<1>3. n - 1 \notin T
  BY <1>1, <1>2
<1>. QED  BY <1>2, <1>3

\* The values of findDB's variable newest after each of N turns.
Turns(g, N, dir, kind) ==
  g = [n \in 0..N |-> IF n = 0 THEN NoFile
                      ELSE Newer(g[n - 1], dir[n], kind)]

\* The loop of findDB can be run: its recursive definition has a solution.
LEMMA LoopRuns ==
  ASSUME NEW N \in Nat, NEW dir, NEW kind
  PROVE  \E g : Turns(g, N, dir, kind)
<1> USE DEF Turns
<1> DEFINE Turn(g, n) == IF n = 0 THEN NoFile
                         ELSE Newer(g[n - 1], dir[n], kind)
           S == {m \in 0..N : \E g : g = [n \in 0..m |-> Turn(g, n)]}
<1>1. 0 \in S
  <2> DEFINE g == [n \in 0..0 |-> NoFile]
  <2>1. g = [n \in 0..0 |-> Turn(g, n)]
    OBVIOUS
  <2> HIDE DEF g
  <2>2. \E f : f = [n \in 0..0 |-> Turn(f, n)]
    BY <2>1
  <2>. QED  BY <2>2
<1>2. ASSUME NEW m \in 1..N, m - 1 \in S  PROVE m \in S
  <2>1. PICK g : g = [n \in 0..(m - 1) |-> Turn(g, n)]
    BY <1>2
  <2> DEFINE h == [n \in 0..m |-> IF n < m THEN g[n]
                                  ELSE Newer(g[m - 1], dir[m], kind)]
  <2>2. ASSUME NEW n \in 0..m  PROVE h[n] = Turn(h, n)
    <3>1. CASE n = 0
      BY <2>1, <3>1
    <3>2. CASE n \in 1..(m - 1)
      <4>1. h[n] = g[n] /\ h[n - 1] = g[n - 1]
        BY <3>2
      <4>2. g[n] = Newer(g[n - 1], dir[n], kind)
        BY <2>1, <3>2
      <4>. QED  BY <3>2, <4>1, <4>2
    <3>3. CASE n = m
      <4>1. h[m] = Newer(g[m - 1], dir[m], kind) /\ h[m - 1] = g[m - 1]
        OBVIOUS
      <4>. QED  BY <3>3, <4>1
    <3>. QED  BY <3>1, <3>2, <3>3
  <2>3. h = [n \in 0..m |-> h[n]]
    OBVIOUS
  <2> HIDE DEF h
  <2>4. h = [n \in 0..m |-> Turn(h, n)]
    BY <2>2, <2>3
  <2>5. \E f : f = [n \in 0..m |-> Turn(f, n)]
    BY <2>4
  <2>. QED  BY <2>5
<1>3. N \in S
  <2> HIDE DEF S
  <2>1. 0..N \subseteq S
    BY <1>1, <1>2, UpwardInduction
  <2>. QED  BY <2>1
<1>. QED  BY <1>3

\* What findDB returns is the last of the values that its variable has.
LEMMA LoopValues ==
  ASSUME NEW N \in Nat, NEW dir, Len(dir) = N, NEW kind
  PROVE  \E g : FindDB(dir, kind) = g[N] /\ Turns(g, N, dir, kind)
<1> DEFINE g == CHOOSE f : Turns(f, N, dir, kind)
<1>1. FindDB(dir, kind) = g[N]
  BY DEF FindDB, Turns
<1>2. Turns(g, N, dir, kind)
  BY LoopRuns
<1> HIDE DEF g
<1>. QED  BY <1>1, <1>2

LEMMA EntryParts ==
  ASSUME NEW f \in DirEntry
  PROVE  f.name \in Nat /\ f.mod \in Nat /\ f # NoFile
<1>1. f.name \in FileNames /\ f.mod \in ModTimes /\ f.holds # {}
  BY DEF DirEntry
<1>2. NoFile.holds = {}
  BY DEF NoFile
<1>3. f # NoFile
  BY <1>1, <1>2
<1>4. FileNames \subseteq Nat /\ ModTimes \subseteq Nat
  BY GeoAssumption
<1>. QED  BY <1>1, <1>3, <1>4

\* One turn keeps the newest database of what has been listed.
LEMMA TurnKeepsNewest ==
  ASSUME NEW files \in SUBSET DirEntry, NEW f \in DirEntry, NEW kind,
         NEW newest,
         \/ newest = NoFile /\ \A g \in files : ~IsDatabase(g, kind)
         \/ Newest(newest, kind, files)
  PROVE  LET next == Newer(newest, f, kind)
             more == files \cup {f}
         IN  \/ next = NoFile /\ \A g \in more : ~IsDatabase(g, kind)
             \/ Newest(next, kind, more)
<1> DEFINE next == Newer(newest, f, kind)
           more == files \cup {f}
<1>1. \A g \in more : g.name \in Nat /\ g.mod \in Nat /\ g # NoFile
  BY EntryParts
<1>2. CASE ~IsDatabase(f, kind)
  BY <1>2 DEF Newer, Newest, IsDatabase
<1>3. CASE IsDatabase(f, kind) /\ newest = NoFile
  <2>1. \A g \in files : ~IsDatabase(g, kind)
    BY <1>1, <1>3 DEF Newest
  <2>. QED  BY <1>1, <1>3, <2>1 DEF Newer, Newest, IsDatabase
<1>4. CASE IsDatabase(f, kind) /\ newest # NoFile
  <2>1. Newest(newest, kind, files)
    BY <1>4
  <2>2. CASE Supersedes(f, newest)
    <3>1. next = f
      BY <1>4, <2>2 DEF Newer
    <3>2. ASSUME NEW g \in more, kind \in g.holds, g.stat
          PROVE  g.mod < f.mod \/ (g.mod = f.mod /\ g.name <= f.name)
      BY <1>1, <2>1, <2>2, <3>2 DEF Newest, Supersedes
    <3>. QED  BY <1>4, <3>1, <3>2 DEF Newest, IsDatabase
  <2>3. CASE ~Supersedes(f, newest)
    <3>1. next = newest
      BY <1>4, <2>3 DEF Newer
    <3>2. f.mod < newest.mod \/ (f.mod = newest.mod /\ f.name <= newest.name)
      BY <1>1, <2>1, <2>3 DEF Newest, Supersedes
    <3>. QED  BY <2>1, <3>1, <3>2 DEF Newest
  <2>. QED  BY <2>2, <2>3
<1>. QED  BY <1>2, <1>3, <1>4

\* findDB returns the newest database of a kind, or nothing if there is none.
LEMMA FindDBNewest ==
  ASSUME NEW N \in Nat, NEW dir \in [1..N -> DirEntry], NEW kind
  PROVE  LET files == {dir[i] : i \in 1..N}
             found == FindDB(dir, kind)
         IN  \/ found = NoFile /\ \A g \in files : ~IsDatabase(g, kind)
             \/ Newest(found, kind, files)
<1>1. dir \in Seq(DirEntry) /\ Len(dir) = N
  OBVIOUS
<1>2. PICK g : FindDB(dir, kind) = g[N] /\ Turns(g, N, dir, kind)
  BY <1>1, LoopValues
<1> DEFINE Listed(n) == {dir[i] : i \in 1..n}
           Found(n) ==
             \/ g[n] = NoFile /\ \A f \in Listed(n) : ~IsDatabase(f, kind)
             \/ Newest(g[n], kind, Listed(n))
           S == {n \in 0..N : Found(n)}
<1>3. 0 \in S
  <2>1. g[0] = NoFile /\ Listed(0) = {}
    BY <1>2 DEF Turns
  <2>2. Found(0)
    BY <2>1
  <2>. QED  BY <2>2
<1>4. ASSUME NEW n \in 1..N, n - 1 \in S  PROVE n \in S
  <2>1. Listed(n) = Listed(n - 1) \cup {dir[n]}
    OBVIOUS
  <2>2. Listed(n - 1) \in SUBSET DirEntry /\ dir[n] \in DirEntry
    OBVIOUS
  <2>3. g[n] = Newer(g[n - 1], dir[n], kind)
    BY <1>2 DEF Turns
  <2>4. Found(n - 1)
    BY <1>4
  <2> HIDE DEF Listed
  <2>5. Found(n)
    BY <2>1, <2>2, <2>3, <2>4, TurnKeepsNewest
  <2>. QED  BY <2>5
<1>5. N \in S
  <2> HIDE DEF S
  <2>1. 0..N \subseteq S
    BY <1>3, <1>4, UpwardInduction
  <2>. QED  BY <2>1
<1>6. Found(N)
  BY <1>5
<1>. QED  BY <1>2, <1>6

LEMMA NewestLawFor ==
  ASSUME NEW dir \in Directory
  PROVE  LET files == {dir[i] : i \in DOMAIN dir}
             used  == GeoService(dir)
         IN  \/ /\ Newest(used.country, "country", files)
                /\ Newest(used.asn, "asn", files)
             \/ /\ used.country = NoFile /\ used.asn = NoFile
                /\ ~\E c, a \in files :
                      /\ Newest(c, "country", files) /\ c.opens
                      /\ Newest(a, "asn", files) /\ a.opens
<1>1. PICK N \in 0..Cardinality(FileNames) : dir \in Listing(N)
  BY DEF Directory
<1>2. /\ N \in Nat /\ dir \in [1..N -> DirEntry] /\ DOMAIN dir = 1..N
      /\ \A i, j \in 1..N : i < j => dir[i].name < dir[j].name
  BY <1>1 DEF Listing
<1> DEFINE files == {dir[i] : i \in DOMAIN dir}
           country == FindDB(dir, "country")
           asn == FindDB(dir, "asn")
<1>3. \A kind : LET found == FindDB(dir, kind)
                IN  \/ found = NoFile /\ \A f \in files : ~IsDatabase(f, kind)
                    \/ Newest(found, kind, files)
  BY <1>2, FindDBNewest
<1>4. \A f \in files : f.name \in Nat /\ f.mod \in Nat
  BY <1>2, EntryParts
\* Names are distinct, so there is one newest.
<1>5. ASSUME NEW f \in files, NEW kind, Newest(f, kind, files)
      PROVE  f = FindDB(dir, kind)
  <2> DEFINE found == FindDB(dir, kind)
  <2>1. Newest(found, kind, files)
    BY <1>3, <1>5 DEF Newest, IsDatabase
  <2>2. found.mod = f.mod /\ found.name = f.name
    BY <1>4, <1>5, <2>1 DEF Newest
  <2>3. PICK i \in 1..N, j \in 1..N : f = dir[i] /\ found = dir[j]
    BY <1>2, <2>1 DEF Newest
  <2>4. f.name \in Nat /\ ~(i < j) /\ ~(j < i)
    BY <1>2, <1>4, <2>2, <2>3
  <2>. QED  BY <2>3, <2>4
<1> HIDE DEF files
<1>6. CASE country.opens /\ asn.opens
  <2>1. country # NoFile /\ asn # NoFile
    BY <1>6 DEF NoFile
  <2>2. Newest(country, "country", files) /\ Newest(asn, "asn", files)
    BY <1>3, <2>1
  <2>3. GeoService(dir) = [country |-> country, asn |-> asn]
    BY <1>6 DEF GeoService
  <2>. QED  BY <2>2, <2>3 DEF files
<1>7. CASE ~(country.opens /\ asn.opens)
  <2>1. GeoService(dir) = [country |-> NoFile, asn |-> NoFile]
    BY <1>7 DEF GeoService
  <2>2. ~\E c, a \in files : /\ Newest(c, "country", files) /\ c.opens
                             /\ Newest(a, "asn", files) /\ a.opens
    BY <1>5, <1>7
  <2>3. GeoService(dir).country = NoFile /\ GeoService(dir).asn = NoFile
    BY <2>1
  <2>. QED  BY <2>2, <2>3 DEF files
<1> HIDE DEF country, asn
<1>. QED  BY <1>6, <1>7

LEMMA NewestLawHolds == NewestLaw
BY NewestLawFor DEF NewestLaw
-----------------------------------------------------------------------------
(* The laws hold of the process.                                            *)

\* The DNS server answers for, and records about, its own zone only: for every
\* question, set of slugs, configuration and content of the challenge store.
THEOREM ZoneGuarded == SystemSpec => []ZoneOnly
<1>1. ZoneOnly
  BY ZoneLawHolds DEF ZoneOnly
<1>. QED  BY <1>1, PTL

\* A resolver that randomises the case of its questions is answered and
\* recorded as if it did not.
THEOREM CaseIgnored == SystemSpec => []CaseBlind
<1>1. CaseBlind
  BY CaseLawHolds DEF CaseBlind
<1>. QED  BY <1>1, PTL

\* No route but tracking is reached without TLS and the credentials of an
\* entry of the configuration, whatever users and passwords there are.
THEOREM AccessGuarded == SystemSpec => []OnlyTrackingIsOpen
<1>1. OnlyTrackingIsOpen
  BY AccessLawHolds DEF OnlyTrackingIsOpen
<1>. QED  BY <1>1, PTL

\* Every reply of the HTTP server is the one that a registry without the slugs
\* of others would give, to every request in every spelling and with any number
\* of users and slugs; but a tracking request whose hit panics gets no reply.
THEOREM SlugsPrivate == SystemSpec => []OthersSlugsInvisible
<1>1. OthersSlugsInvisible
  BY PrivacyLawHolds DEF OthersSlugsInvisible
<1>. QED  BY <1>1, PTL

\* The DNS and the HTTP stage of a hit are never counted for different slugs,
\* however a name is spelled; a name with capitals, or with a label in front of
\* the slug, counts in DNS alone.
THEOREM StagesMeet == SystemSpec => []StagesAgree
<1>1. StagesAgree
  BY StageLawHolds DEF StagesAgree
<1>. QED  BY <1>1, PTL

\* The newest database of each kind is the one that is opened, and a newest
\* one that is missing or does not open disables both: for a directory with
\* any number of entries, listed by name as os.ReadDir does, and any
\* modification times.
THEOREM NewestFound == SystemSpec => []NewestDatabaseWins
<1>1. NewestDatabaseWins
  BY NewestLawHolds DEF NewestDatabaseWins
<1>. QED  BY <1>1, PTL
=============================================================================
