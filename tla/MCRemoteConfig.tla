--------------------------- MODULE MCRemoteConfig ---------------------------
(* Constants for TLC: two or three fetch calls, a server that publishes up to *)
(* two templates, and room on the clock for the fetch interval to elapse.     *)
EXTENDS RemoteConfig, TLC

Symmetry == Permutations(Calls)

\* A network and a server that answer every request with a usable body or an error.
SoundAnswers == {"config", "noChange", "error"}
AllAnswers == SoundAnswers \cup {"damaged", "noData", "errorBody", "backoff"}
=============================================================================
