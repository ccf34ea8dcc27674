---------------------------- MODULE MCTripflare ----------------------------
(* One slug, two users with one valid password each, one failing listener. *)
EXTENDS Tripflare

MCAuth == {<<"alice", "a">>, <<"bob", "b">>}
=============================================================================
