-------------------------------- MODULE Dns --------------------------------
(***************************************************************************)
(* What the DNS server (internal/dns) answers and which slug a query is    *)
(* recorded against.  handleQuery keeps no state of its own, so it is a    *)
(* function of the question, the configuration and the challenge store;    *)
(* the recording itself is a step of Tripflare.                            *)
(*                                                                         *)
(* One question per message: miekg/dns refuses others before the handler   *)
(* sees them.  Of a resource record only its type and value are kept.      *)
(***************************************************************************)
EXTENDS Names

QType == {"A", "AAAA", "NS", "SOA", "TXT", "MX"}

Question == [name: Name, type: QType]

\* external_ip is an IPv4 or an IPv6 address; nameservers may be empty.
ZoneConfig == [ip4: BOOLEAN, nameservers: SUBSET {"ns1", "ns2"}]
-----------------------------------------------------------------------------
\* HasPrefix "_acme-challenge." and HasSuffix of the domain, without a dot: a
\* name that only looks like the domain passes.  A name with capitals left in
\* it matches nothing that is written in lower case, here and below.
IsACMEChallenge(n) ==
  /\ n.upper = {}
  /\ n.sub # <<>>
  /\ Head(n.sub) = AcmeLabel
  /\ n.zone \in {"domain", "lookalike"}

\* Mutant: the dot in front of the domain is missing here too.
IsSubdomainNoDot(n) ==
  n.upper = {} /\ n.sub # <<>> /\ n.zone \in {"domain", "lookalike"}

\* HasSuffix of "." and the domain.
IsSubdomain(n) == n.upper = {} /\ n.sub # <<>> /\ n.zone = "domain"

\* qname == s.domain
IsApex(n) == n = [sub |-> <<>>, zone |-> "domain", upper |-> {}]

\* The label next to the domain: "slug" of prefix.slug.domain.
DnsSlug(n) == IF IsSubdomain(n) THEN n.sub[Len(n.sub)] ELSE NoSlug

\* GetTXT: the provider only ever sets the name of the apex challenge.
GetTXT(txt, n) == IF n.sub = <<AcmeLabel>> /\ n.zone = "domain" THEN txt ELSE {}

\* handleSubdomain.  answerNS and answerSOA compare the question's own name
\* with the domain, capitals included.
Records(q, cfg) ==
  CASE q.type = "A"    -> IF cfg.ip4 THEN {"external_ip"} ELSE {}
    [] q.type = "AAAA" -> IF cfg.ip4 THEN {} ELSE {"external_ip"}
    [] q.type = "NS"   -> IF IsApex(q.name) THEN cfg.nameservers ELSE {}
    [] q.type = "SOA"  -> IF IsApex(q.name) /\ cfg.nameservers # {}
                          THEN {"soa"} ELSE {}
    [] OTHER           -> {}

NXDomain == [rcode |-> "NXDOMAIN", answer |-> {}]

NoError(answer) == [rcode |-> "NOERROR", answer |-> answer]

\* Mutant: the question's name is not lower-cased before it is routed.
QnameAsAsked(q) == q.name

\* qname := strings.ToLower(q.Name)
Qname(q) == Lower(q.name)

\* The first case of handleQuery.
AsksChallenge(q) == q.type = "TXT" /\ IsACMEChallenge(Qname(q))

\* The two other cases.
Ours(q) == ~AsksChallenge(q) /\ (IsApex(Qname(q)) \/ IsSubdomain(Qname(q)))

\* handleQuery: the answer ...
DnsReply(q, cfg, txt) ==
  LET values == GetTXT(txt, Qname(q))
  IN  CASE AsksChallenge(q) -> IF values = {} THEN NXDomain ELSE NoError(values)
        [] Ours(q)          -> NoError(Records(q, cfg))
        [] OTHER            -> NXDomain

\* ... and the slug that recordEvent is called for.
DnsHit(q) == IF AsksChallenge(q) THEN NoSlug ELSE DnsSlug(Qname(q))
-----------------------------------------------------------------------------
\* The server answers for its own zone and for nothing else, although the test
\* for challenges only compares characters: outside the zone every reply is
\* NXDOMAIN and nothing is recorded.  NXDOMAIN never carries records.  Inside
\* the zone a question counts for the label next to the domain, in whatever
\* case it was asked; the test for challenges takes away TXT questions below
\* _acme-challenge, also those that name a slug, and no other.
ZoneLaw ==
  \A q \in Question, cfg \in ZoneConfig, txt \in SUBSET {"apex", "wildcard"} :
    LET reply == DnsReply(q, cfg, txt)
    IN  /\ reply.rcode = "NXDOMAIN" => reply.answer = {}
        /\ ~InZone(q.name) => reply.rcode = "NXDOMAIN" /\ DnsHit(q) = NoSlug
        /\ InZone(q.name) /\ q.name.sub # <<>> =>
             \/ DnsHit(q) = q.name.sub[Len(q.name.sub)]
             \/ q.type = "TXT" /\ q.name.sub[1] = AcmeLabel

\* A resolver that randomises the case of its questions gets the addresses and
\* the challenge tokens all the same and is recorded against the same slug.
\* (NS and SOA of the apex are the exception: see Records.)
CaseLaw ==
  \A q \in Question, cfg \in ZoneConfig, txt \in SUBSET {"apex", "wildcard"} :
    LET lower == [q EXCEPT !.name = Lower(@)]
    IN  /\ DnsHit(q) = DnsHit(lower)
        /\ q.type \notin {"NS", "SOA"} =>
             DnsReply(q, cfg, txt) = DnsReply(lower, cfg, txt)
=============================================================================
