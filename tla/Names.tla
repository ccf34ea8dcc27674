------------------------------- MODULE Names -------------------------------
(***************************************************************************)
(* Host names as the DNS server and the HTTP server tell them apart.       *)
(*                                                                         *)
(* A name is what stands to the left of a zone, label by label, the zone,  *)
(* and where capitals occur in it.  The zone is the configured domain, a   *)
(* longer name that merely ends in the same characters (notexample.com for *)
(* example.com), or something else.  The configured domain is taken to be  *)
(* written in lower case: nothing lower-cases it, so DNS would match no    *)
(* question otherwise.                                                     *)
(***************************************************************************)
EXTENDS Registry

AcmeLabel == "_acme-challenge"

Labels == Slugs \cup {AcmeLabel, "www"}

Name ==
  [sub: {<<>>} \cup {<<l>> : l \in Labels} \cup (Labels \X Labels),
   zone: {"domain", "lookalike", "other"},
   upper: SUBSET {"sub", "zone"}]

\* The slug of a name that has none.
NoSlug == "no slug"

\* strings.ToLower
Lower(n) == [n EXCEPT !.upper = {}]

\* The names that the operator owns: whole labels in front of the domain.
InZone(n) == n.zone = "domain"
=============================================================================
