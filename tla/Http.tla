------------------------------- MODULE Http -------------------------------
(***************************************************************************)
(* Which handler of internal/httpserver serves a request, as which user,   *)
(* and what the reply tells about the registry.  The handlers keep no      *)
(* state of their own: a reply is a function of the request and the        *)
(* registry, and what a handler changes is a step of Tripflare.            *)
(*                                                                         *)
(* A request is its port, host, path, method and credentials.  Paths are   *)
(* one representative of each kind that the routing tells apart; the path  *)
(* of an API request for one slug carries that slug.  The port of the host *)
(* header, which extractSlug cuts off, is left out.                        *)
(***************************************************************************)
EXTENDS Dns

CONSTANTS
  Users,           \* user names
  Passwords,
  Auth             \* auth of the configuration: <<user, password>> pairs

\* config.validate requires an entry and a name in every entry.
ASSUME AuthAssumption == Auth # {} /\ Auth \subseteq Users \X Passwords

Anonymous == "anonymous"

Plain == {"/", "/api/slugs", "/api/other", "/tripflare", "/tripflare/style.css",
          "/tripflare/other", "/pixel.gif", "/photo.jpg", "/about"}

OfSlug == {"/api/slugs/{slug}", "/api/slugs/{slug}/events",
           "/api/slugs/{slug}/other"}

Request ==
  [port: {"http", "https"}, host: Name,
   path: (Plain \X {NoSlug}) \cup (OfSlug \X Labels),
   method: {"GET", "POST", "DELETE"},
   cred: {<<Anonymous, Anonymous>>} \cup (Users \X Passwords)]
-----------------------------------------------------------------------------
\* A label with capitals: no slug is spelled like it.
Unknown == "LABEL"

\* generateSlugID writes a slug in eight digits and lower-case letters.
ASSUME NoSlugNamed == NoSlug \notin Slugs /\ Unknown \notin Slugs

\* Mutant: the first label of the host, however many there are.
HttpSlugFirstLabel(host) ==
  IF host.zone = "domain" /\ "zone" \notin host.upper /\ host.sub # <<>>
  THEN IF "sub" \in host.upper THEN Unknown ELSE host.sub[1]
  ELSE NoSlug

\* extractSlug: exactly one label in front of the domain, capitals as they are.
HttpSlug(host) ==
  IF host.zone = "domain" /\ "zone" \notin host.upper /\ Len(host.sub) = 1
  THEN IF "sub" \in host.upper THEN Unknown ELSE host.sub[1]
  ELSE NoSlug

\* extractUsername
Username(r) == IF r.cred \in Auth THEN r.cred[1] ELSE Anonymous

\* routeAPI, routeSlugsCollection and routeSlugResource: any method but DELETE
\* reads.
RouteAPI(r) ==
  CASE r.path[1] = "/api/slugs" ->
         (CASE r.method = "GET"  -> "list"
            [] r.method = "POST" -> "create"
            [] OTHER             -> "405")
    [] r.path[1] = "/api/slugs/{slug}" ->
         IF r.method = "DELETE" THEN "delete" ELSE "get"
    [] r.path[1] = "/api/slugs/{slug}/events" ->
         IF r.method = "DELETE" THEN "clear" ELSE "stream"
    [] OTHER -> "404"

\* handleUI
RouteUI(r) ==
  CASE r.path[1] = "/tripflare"           -> "index"
    [] r.path[1] = "/tripflare/style.css" -> "style"
    [] OTHER                              -> "404"

IsAPI(r) == r.path[1] \in {"/api/slugs", "/api/other"} \cup OfSlug

IsUI(r) ==
  r.path[1] \in {"/tripflare", "/tripflare/style.css", "/tripflare/other"}

\* requireAuth in front of a handler.
RequireAuth(r, handler) == IF Username(r) = Anonymous THEN "401" ELSE handler

\* handleBareDomain
RouteBareDomain(r) ==
  CASE IsAPI(r) -> RequireAuth(r, RouteAPI(r))
    [] IsUI(r)  -> RequireAuth(r, RouteUI(r))
    [] OTHER    -> "404"

\* Mutant: port 80 routes like port 443.
RouteAnyPort(r) ==
  IF HttpSlug(r.host) # NoSlug THEN "track" ELSE RouteBareDomain(r)

\* redirectHandler on port 80, mainHandler on port 443.  A host that has no
\* slug, a foreign one included, is treated as the bare domain.
Route(r) ==
  CASE HttpSlug(r.host) # NoSlug -> "track"
    [] HttpSlug(r.host) = NoSlug /\ r.port = "https" -> RouteBareDomain(r)
    [] OTHER -> "404"
-----------------------------------------------------------------------------
(* Replies.  A registry gives each slug its owner and number of events;    *)
(* Anonymous owns the slugs that do not exist.  panics are slugs whose next *)
(* hit passes the limiter and panics in recordEvent of the registry, which *)
(* it does for a buffer two or more over the limit (see Registry).         *)

RegistryView == [owner: [Slugs -> Users \cup {Anonymous}],
                 count: [Slugs -> {0, 1}],
                 panics: SUBSET Slugs]

SlugExists(view, s) == s \in Slugs /\ view.owner[s] # Anonymous

\* pixel.IsPixelPath
IsPixelPath(path) == path \in {"/pixel.gif", "/photo.jpg"}

\* pixel.ContentType: everything but a GIF is sent, and labelled, as a PNG.
ContentType(path) == IF path = "/pixel.gif" THEN "image/gif" ELSE "image/png"

\* pixel.WritePixel
WritePixel(path) == IF path = "/pixel.gif" THEN "GIF" ELSE "PNG"

Answer(status, body) == [status |-> status, body |-> body]

\* net/http recovers a handler's panic and closes the connection.
Aborted == Answer(0, <<>>)

\* handleTripflare: the hit is recorded before anything is written; then a
\* pixel or the Open Graph page of the host.
TrackingReply(r, view) ==
  LET s == HttpSlug(r.host)
  IN  IF SlugExists(view, s) /\ s \in view.panics
      THEN Aborted
      ELSE IF IsPixelPath(r.path[1])
      THEN Answer(200, <<ContentType(r.path[1]), WritePixel(r.path[1])>>)
      ELSE Answer(200, <<"text/html", r.host>>)

\* What handleListSlugs sends.
ListSlugs(view, user) ==
  {<<s, view.count[s]>> : s \in {t \in Slugs : view.owner[t] = user}}

\* Mutant: 403 for a slug that exists and belongs to somebody else.
OwnerReplyForbidden(view, user, s, answer) ==
  CASE s \in Slugs /\ view.owner[s] = user     -> answer
    [] s \in Slugs /\ view.owner[s] \in Users -> Answer(403, "forbidden")
    [] OTHER                                   -> Answer(404, "not found")

\* requireSlugOwner: not found, whether the slug is missing or another's.
OwnerReply(view, user, s, answer) ==
  IF s \in Slugs /\ view.owner[s] = user THEN answer
                                         ELSE Answer(404, "not found")

\* handleCreateSlug
Created == Answer(201, "slug")

\* The handlers: what a request is answered by the registry it meets.
HttpReply(r, view) ==
  LET user == Username(r)
      s    == r.path[2]
      mine(answer) == OwnerReply(view, user, s, answer)
  IN  CASE Route(r) = "track"  -> TrackingReply(r, view)
        [] Route(r) = "list"   -> Answer(200, ListSlugs(view, user))
        [] Route(r) = "create" -> Created
        [] Route(r) \in {"get", "stream"} ->
             mine(Answer(200, IF s \in Slugs THEN view.count[s] ELSE 0))
        [] Route(r) = "delete" -> mine(Answer(204, ""))
        [] Route(r) = "clear"  -> mine(Answer(200, "cleared"))
        [] Route(r) \in {"index", "style"} -> Answer(200, Route(r))
        [] OTHER               -> Answer(Route(r), "error")
-----------------------------------------------------------------------------
\* Tracking is open to everybody; everything else that reads or changes slugs,
\* and the UI, is reached only over TLS and with the credentials of an entry of
\* the configuration, whatever host name, path and method a request uses.
AccessLaw ==
  \A r \in Request :
    Route(r) \notin {"track", "404", "401"} => r.port = "https" /\ r.cred \in Auth

\* What is left of a registry without the slugs of others; somebody who is not
\* logged in has none.
OwnOnly(view, user) ==
  LET own == {s \in Slugs : user # Anonymous /\ view.owner[s] = user}
  IN  [owner  |-> [s \in Slugs |-> IF s \in own THEN user ELSE Anonymous],
       count  |-> [s \in Slugs |-> IF s \in own THEN view.count[s] ELSE 0],
       panics |-> view.panics \cap own]

\* The slugs of others do not show: every request, to whatever host and in
\* whatever spelling, is answered as if there were none.  The one exception is
\* a tracking request whose hit panics in recordEvent: it gets no answer, and
\* would have got one if the slug did not exist.
PrivacyLaw ==
  \A r \in Request, v \in RegistryView :
    \/ HttpReply(r, v) = HttpReply(r, OwnOnly(v, Username(r)))
    \/ Route(r) = "track" /\ HttpReply(r, v) = Aborted

\* The stages of a hit never go to different slugs: a slug that the HTTP server
\* counts for is the one that the address queries for the same name counted
\* for, in whatever spelling.  Where DNS counts for a slug, HTTP does too,
\* unless the name has a prefix in front of the slug or capitals in it: for
\* those it counts for nothing.
StageLaw ==
  \A n \in Name, type \in {"A", "AAAA"} :
    LET hit == DnsHit([name |-> n, type |-> type])
    IN  /\ HttpSlug(n) \in Slugs => hit = HttpSlug(n)
        /\ hit \in Slugs /\ HttpSlug(n) # hit => Len(n.sub) = 2 \/ n.upper # {}
=============================================================================
