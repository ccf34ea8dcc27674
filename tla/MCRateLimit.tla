---------------------------- MODULE MCRateLimit ----------------------------
(* Instances of RateLimit for TLC.                                         *)
EXTENDS RateLimit

\* A burst tier and a slower tier; the ratios of capacity and window are not
\* whole numbers, so fractions of tokens occur.
TwoTiers == << [capacity |-> 3, window |-> 4], [capacity |-> 2, window |-> 3] >>
=============================================================================
