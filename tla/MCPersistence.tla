--------------------------- MODULE MCPersistence ---------------------------
(* Instances of Persistence for TLC.                                       *)
EXTENDS Persistence, TLC

\* Slug ids are interchangeable.
SlugSymmetry == Permutations(Slugs)
=============================================================================
