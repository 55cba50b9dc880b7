---------------------------- MODULE MCHouseholds ----------------------------
(* A household of an owner, a member and an outsider. *)
EXTENDS Households, TLC

CONSTANTS r1, r2, r3

MCRequests == {r1, r2, r3}
MCUsers == 1..3
MCRoles == <<"none", "owner", "member">>

Ask(op, user, target) == [op |-> op, user |-> user, target |-> target]

(* Every operation, and those that meet: transfers both ways against       *)
(* leaving, removal and deletion; two users with one code; a rejoin; and   *)
(* an outsider, the first in the order of the locks, who joins and removes *)
(* the owner while it is itself removed.                                   *)
MCIntents ==
  { Ask("rename", 2, None), Ask("transfer", 2, 3), Ask("transfer", 3, 2),
    Ask("remove", 2, 3), Ask("remove", 2, 1), Ask("remove", 1, 2),
    Ask("invite", 3, None), Ask("revoke", 2, None),
    Ask("start", 2, None), Ask("start", 3, None), Ask("finish", 3, None),
    Ask("leave", 3, None), Ask("deleteAccount", 3, None),
    Ask("join", 3, None), Ask("join", 1, None) }

Symmetry == Permutations(MCRequests)
=============================================================================
