--------------------------- MODULE MCOfflineSync ---------------------------
(* Two changes, the second without its base version; two runs. *)
EXTENDS OfflineSync, TLC

CONSTANTS r1, r2

MCMutations == 1..2
MCUnbased == {2}
MCRuns == {r1, r2}

(* An unknown state is treated as an offline one. *)
MCReports == {"offline", "online"}

Symmetry == Permutations(MCRuns)
=============================================================================
