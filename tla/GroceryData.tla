---------------------------- MODULE GroceryData -----------------------------
(***************************************************************************)
(* The rows of one shopping session's tables, and the requests clients     *)
(* send about them.  Names are normalised already (trimmed, lower case);   *)
(* quantity, unit, notes and attribution are left out: no check of the     *)
(* code reads them.                                                        *)
(***************************************************************************)
EXTENDS Integers, FiniteSets

CONSTANTS
  Users,        \* user ids; an interval of numbers, lock_for_users orders them
  Items,        \* item ids, those of items not created yet included
  Names,        \* normalised item names
  Keys,         \* Idempotency-Key values
  Requests,     \* HTTP requests
  Intents,      \* what clients may ask, see IntentType
  SeedItems,    \* the session's items when the model starts
  SeedSeq,      \* the session's greatest sequence_number when the model starts
  Seed,         \* the version of the rows of SeedItems
  None

Ops == {"add", "edit", "complete", "reopen", "delete", "finish"}

Versions == Requests \union {Seed}

(* A row of grocery_items.  "absent": the id was never used.  updated_at   *)
(* is the start of the transaction that last changed the row, so a version *)
(* is that request.                                                        *)
Rows == [status   : {"absent", "pending", "completed", "deleted"},
         name     : Names \union {None},
         assignee : Users \union {None},
         version  : Versions]

(* What a client asks: versioned says whether it sends X-Base-Updated-At.  *)
(* In an edit, name or assignee None is a field the PATCH leaves out, and  *)
(* both None an edit of the other fields (quantity, unit, notes).          *)
IntentType == [op       : Ops,
               user     : Users,
               item     : Items \union {None},
               name     : Names \union {None},
               assignee : Users \union {None},
               key      : Keys \union {None},
               versioned: BOOLEAN]

ItemOps == {"edit", "complete", "reopen", "delete"}

(* The fields each endpoint has. *)
WellFormed(q) ==
  /\ q.op = "add" => q.name \in Names /\ q.item = None
  /\ q.op \notin {"add", "edit"} => q.name = None /\ q.assignee = None
  /\ q.op = "finish" => q.key = None /\ q.item = None
  /\ q.op \in ItemOps => q.item \in Items

(* The request as sent, which is also what request_hash fingerprints.      *)
MutationFields == [op       : Ops,
                   user     : Users,
                   item     : Items \union {None},
                   name     : Names \union {None},
                   assignee : Users \union {None},
                   key      : Keys \union {None},
                   base     : Versions \union {None}]

Mutations == {q \in MutationFields : WellFormed(q) /\ (q.base # None => q.op \in ItemOps)}

(* A row of grocery_activity_events; req and by say which request wrote it.*)
Events == [seq : Nat, item : Items, req : Mutations, by : Requests]

(* A row of grocery_mutation_idempotency: the request's fingerprint, and   *)
(* the request whose response is stored.                                   *)
Records == [req : Mutations, by : Requests]

Pending(rows, i) == rows[i].status = "pending"

PendingNamesDiffer(rows) ==
  \A i, j \in Items : Pending(rows, i) /\ Pending(rows, j) /\ rows[i].name = rows[j].name
                        => i = j

ASSUME UsersAssumption == Users \subseteq Nat
ASSUME SentinelAssumption ==
  /\ None \notin Users \union Items \union Names \union Keys \union Versions
  /\ Seed \notin Requests
ASSUME SeedAssumption ==
  /\ SeedSeq \in Nat
  /\ SeedItems \in [Items -> Rows]
  /\ \A i \in Items : /\ SeedItems[i].version = Seed
                      /\ SeedItems[i].status \in {"pending", "completed"}
                           => SeedItems[i].name \in Names
  /\ PendingNamesDiffer(SeedItems)
ASSUME IntentAssumption ==
  /\ Intents \subseteq IntentType
  /\ \A q \in Intents : WellFormed(q) /\ (q.versioned => q.op \in ItemOps)

=============================================================================
