------------------------ MODULE MCConfigPersistence ------------------------
(* Constants for TLC: two keys; the second template drops one of them, the *)
(* third both.                                                             *)
EXTENDS ConfigPersistence

CONSTANTS k1, k2

MCKeys == {k1, k2}
MCEntries == <<{k1, k2}, {k2}, {}>>
MCDefaultKeys == {k1}
=============================================================================
