------------------------------- MODULE GeoIP -------------------------------
(***************************************************************************)
(* Which database files internal/geoip opens at start.                     *)
(*                                                                         *)
(* A directory is the sequence of its entries as os.ReadDir lists them.    *)
(* An entry has a name, of which its place in the alphabet and what        *)
(* isDatabase sees in it are kept, a modification time, and whether it is  *)
(* a file that os.Stat finds and that maxminddb can open.                  *)
(***************************************************************************)
EXTENDS Naturals, Sequences, FiniteSets

CONSTANTS
  FileNames,       \* names of .mmdb files, as places in the alphabet
  ModTimes         \* modification times

ASSUME GeoAssumption ==
  /\ FileNames \subseteq Nat /\ IsFiniteSet(FileNames)
  /\ ModTimes \subseteq Nat

Kinds == {"country", "asn"}

DirEntry == [name: FileNames, holds: (SUBSET Kinds) \ {{}}, mod: ModTimes,
             stat: BOOLEAN, opens: BOOLEAN]

Listing(n) ==
  {dir \in [1..n -> DirEntry] :
     \A i, j \in 1..n : i < j => dir[i].name < dir[j].name}

\* ReadDir sorts by name.
Directory == UNION {Listing(n) : n \in 0..Cardinality(FileNames)}

NoFile == [name |-> 0, holds |-> {}, mod |-> 0, stat |-> FALSE, opens |-> FALSE]

\* Mutant: at equal times the first that was met stays.
SupersedesIfLater(f, cur) == f.mod > cur.mod

\* supersedes: the later modification, and the greater name at equal times.
Supersedes(f, cur) ==
  IF f.mod = cur.mod THEN f.name > cur.name ELSE f.mod > cur.mod

\* isDatabase, and the test on os.Stat.
IsDatabase(f, kind) == kind \in f.holds /\ f.stat

\* One turn of findDB's loop: the newest database so far, after entry f.
Newer(newest, f, kind) ==
  IF IsDatabase(f, kind) /\ (newest = NoFile \/ Supersedes(f, newest))
  THEN f ELSE newest

\* findDB
FindDB(dir, kind) ==
  LET newest[n \in 0..Len(dir)] ==
        IF n = 0 THEN NoFile ELSE Newer(newest[n - 1], dir[n], kind)
  IN  newest[Len(dir)]

\* New, and the fallback of initServices when it fails: the pair of databases
\* that is open afterwards.  One that is missing or does not open disables
\* both.
GeoService(dir) ==
  LET country == FindDB(dir, "country")
      asn     == FindDB(dir, "asn")
  IN  IF country.opens /\ asn.opens
      THEN [country |-> country, asn |-> asn]
      ELSE [country |-> NoFile, asn |-> NoFile]
-----------------------------------------------------------------------------
\* f is the last modified of the databases of a kind, the last by name of
\* several.
Newest(f, kind, files) ==
  /\ f \in files /\ kind \in f.holds /\ f.stat
  /\ \A g \in files : kind \in g.holds /\ g.stat =>
       g.mod < f.mod \/ (g.mod = f.mod /\ g.name <= f.name)

\* The most recently modified database of each kind is the one that is used,
\* the last by name of several ("a directory always resolves the same way"),
\* and enrichment is all or nothing.
NewestLaw ==
  \A dir \in Directory :
    LET files == {dir[i] : i \in DOMAIN dir}
        used  == GeoService(dir)
    IN  \/ /\ Newest(used.country, "country", files)
           /\ Newest(used.asn, "asn", files)
        \/ /\ used.country = NoFile /\ used.asn = NoFile
           /\ ~\E c, a \in files :
                 /\ Newest(c, "country", files) /\ c.opens
                 /\ Newest(a, "asn", files) /\ a.opens
=============================================================================
