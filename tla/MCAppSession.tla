---------------------------- MODULE MCAppSession ----------------------------
(* Constants for TLC: the library's fetch and two details screens, books of    *)
(* three templates, and answers of every usable kind.                          *)
EXTENDS AppSession

\* Template 1 has one book; template 2 adds another, with a banner.
SmallBooks == [v \in Versions |-> 0 .. v - 1]
SmallBanners == [v \in Versions |-> IF v < 2 THEN {} ELSE {1}]

SoundAnswers == {"config", "noChange", "error"}
=============================================================================
