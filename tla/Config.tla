------------------------------- MODULE Config -------------------------------
(***************************************************************************)
(* The configurations with which config.Load lets the process start.       *)
(*                                                                         *)
(* Of each setting only what later steps depend on is kept: whether a      *)
(* string is there, whether external_ip parses, whether flush_interval is  *)
(* positive (the default is) and whether the auth entries are usable.      *)
(* Paths and limits have defaults and are not validated.                   *)
(***************************************************************************)
File == [domain: BOOLEAN, external_ip: {"", "bad", "valid"},
         email: BOOLEAN, enabled: BOOLEAN,
         auth: {"none", "bad", "valid"}, positive_interval: BOOLEAN]

Environment == [domain: BOOLEAN, external_ip: {"", "bad", "valid"},
                email: BOOLEAN, enabled: {"", "false", "true"}]

\* applyEnvOverrides: the environment can switch ACME on, never off.
Overridden(f, e) ==
  [f EXCEPT !.domain = @ \/ e.domain,
            !.external_ip = IF e.external_ip = "" THEN @ ELSE e.external_ip,
            !.email = @ \/ e.email,
            !.enabled = @ \/ e.enabled = "true"]

\* validate: external_ip need not parse, flush_interval need not be positive.
Valid(c) ==
  /\ c.domain
  /\ c.external_ip # ""
  /\ c.enabled => c.email
  /\ c.auth = "valid"

\* Load, reduced to what the life cycle reads.
Settings ==
  {[ip |-> c.external_ip, acme |-> c.enabled, ticks |-> c.positive_interval] :
     c \in {d \in {Overridden(f, e) : f \in File, e \in Environment} : Valid(d)}}
=============================================================================
