--------------------------- MODULE MCGroceryItems ---------------------------
(* Small instances of GroceryItems. *)
EXTENDS GroceryItems, TLC

CONSTANTS r1, r2, r3, milkItem, riceItem, newItem, milk, rice, k1

MCRequests == {r1, r2, r3}
MCItems == {milkItem, riceItem, newItem}
MCNames == {milk, rice}
MCKeys == {k1}
MCUsers == 1..2

(* milk is on the list, rice is done, one more id is free. *)
MCSeedItems ==
  (milkItem :> [status |-> "pending",   name |-> milk, assignee |-> None, version |-> Seed]) @@
  (riceItem :> [status |-> "completed", name |-> rice, assignee |-> None, version |-> Seed]) @@
  (newItem  :> [status |-> "absent",    name |-> None, assignee |-> None, version |-> Seed])

Ask(op, user, item, name, assignee, key, versioned) ==
  [op |-> op, user |-> user, item |-> item, name |-> name, assignee |-> assignee,
   key |-> key, versioned |-> versioned]

(* Adds, renames and reopens that compete for a name, an assignment each   *)
(* way between the two members, edits from a base version, keyed changes   *)
(* and the end of the session.                                             *)
MCIntents ==
  { Ask("add", 1, None, rice, None, k1, FALSE),
    Ask("add", 2, None, rice, 1, None, FALSE),
    Ask("edit", 2, milkItem, rice, None, k1, TRUE),
    Ask("edit", 1, milkItem, None, 2, None, TRUE),
    Ask("edit", 2, milkItem, milk, None, None, FALSE),
    Ask("complete", 2, milkItem, None, None, k1, FALSE),
    Ask("complete", 1, milkItem, None, None, None, FALSE),
    Ask("reopen", 1, riceItem, None, None, None, FALSE),
    Ask("delete", 1, milkItem, None, None, k1, FALSE),
    Ask("finish", 2, None, None, None, None, FALSE) }

(* Each member's change locks what the other's is waiting for. *)
LivenessIntents ==
  { Ask("edit", 1, milkItem, None, 2, None, FALSE),
    Ask("complete", 2, milkItem, None, None, k1, FALSE),
    Ask("finish", 1, None, None, None, None, FALSE) }

Symmetry == Permutations(MCRequests)

=============================================================================
