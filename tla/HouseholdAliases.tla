-------------------------- MODULE HouseholdAliases --------------------------
(***************************************************************************)
(* The aliases of one household: what its members call the groceries.      *)
(* Requests are transactions of PostgreSQL at READ COMMITTED; each action  *)
(* is one statement.  The requester's own membership is the only row that  *)
(* is locked, so two members change the same alias at once.                *)
(***************************************************************************)
EXTENDS GroceryDictionary

CONSTANTS
  Users,
  Requests,          \* an alias has the id of the request that creates it
  SeedAliases,       \* ids of the aliases that are there first
  Stories            \* what the requests ask, on which aliases

VARIABLES
  aliases,           \* id -> [alias, key], None if it is not there
  members,
  lock,              \* user -> the request that has locked the membership
  intent, pc, answer,
  seen               \* request -> what its statements have read

aliasVars == <<aliases, members, lock, intent, pc, answer, seen>>

Ids == SeedAliases \union Requests
Op(r) == intent[r].op
There == {i \in Ids : aliases[i] # None}

Answers == {"ok", "error", "no household", "no alias", "unknown key", "standard term", "duplicate"}

ASSUME NoneAssumption == None \notin Requests \union Answers

(* Requests are validated before they come here, and the constraint holds  *)
(* of the aliases that are there first.                                    *)
ASSUME StoriesAssumption ==
  \A story \in Stories :
    /\ story.members \subseteq Users
    /\ \A r \in Requests :
         /\ story.intent[r].user \in Users
         /\ story.intent[r].op = "create" => story.intent[r].alias # None /\ story.intent[r].key # None
         /\ story.intent[r].op \in {"update", "delete"} => story.intent[r].id \in Ids
    /\ \A i, j \in SeedAliases : story.aliases[i] # None =>
         /\ story.aliases[i].key \in CanonicalKeys
         /\ story.aliases[j] # None /\ story.aliases[j].alias = story.aliases[i].alias => i = j

AliasesInit ==
  /\ lock = [u \in Users |-> None]
  /\ \E story \in Stories :
       /\ intent = story.intent
       /\ members = story.members
       /\ aliases = [i \in Ids |-> IF i \in SeedAliases THEN story.aliases[i] ELSE None]
  /\ pc = [r \in Requests |-> "idle"]
  /\ answer = [r \in Requests |-> None]
  /\ seen = [r \in Requests |-> None]

-----------------------------------------------------------------------------
Released(r) == [u \in Users |-> IF lock[u] = r THEN None ELSE lock[u]]

Answer(r, a) ==
  /\ pc' = [pc EXCEPT ![r] = "done"]
  /\ answer' = [answer EXCEPT ![r] = a]
  /\ lock' = Released(r)
  /\ UNCHANGED <<members, intent>>

Go(r, next, value) ==
  /\ pc' = [pc EXCEPT ![r] = next]
  /\ seen' = [seen EXCEPT ![r] = value]
  /\ UNCHANGED <<aliases, members, lock, intent, answer>>

(* SELECT ... FOR UPDATE of the requester's membership. *)
Granted(r) == lock[intent[r].user] = None

(* Mutant of RequireMembershipForMutation: read, but not locked. *)
RequireMembershipUnlocked(r) ==
  /\ pc[r] = "idle" /\ Op(r) \in {"create", "update", "delete"} /\ Granted(r)
  /\ IF intent[r].user \notin members
     THEN Answer(r, "no household") /\ UNCHANGED <<aliases, seen>>
     ELSE Go(r, IF Op(r) = "create" THEN "check" ELSE "find", None)

RequireMembershipForMutation(r) ==
  /\ pc[r] = "idle" /\ Op(r) \in {"create", "update", "delete"} /\ Granted(r)
  /\ IF intent[r].user \notin members
     THEN Answer(r, "no household") /\ UNCHANGED <<aliases, seen>>
     ELSE /\ pc' = [pc EXCEPT ![r] = IF Op(r) = "create" THEN "check" ELSE "find"]
          /\ lock' = [lock EXCEPT ![intent[r].user] = r]
          /\ UNCHANGED <<aliases, members, intent, answer, seen>>

GetForHousehold(r) ==
  /\ pc[r] = "find"
  /\ IF aliases[intent[r].id] = None
     THEN Answer(r, "no alias") /\ UNCHANGED <<aliases, seen>>
     ELSE Go(r, IF Op(r) = "update" THEN "check" ELSE "delete", aliases[intent[r].id])

(* The alias as it will be: a field that is not sent keeps the value read. *)
Target(r) == IF Op(r) = "create" THEN r ELSE intent[r].id
Wanted(r) ==
  [alias |-> IF intent[r].alias = None THEN seen[r].alias ELSE intent[r].alias,
   key   |-> IF intent[r].key = None THEN seen[r].key ELSE intent[r].key]

Taken(i, phrase) == \E j \in There \ {i} : aliases[j].alias = phrase

ValidateAliasMapping(row) ==
  IF row.key \notin CanonicalKeys THEN "unknown key"
  ELSE IF Remaps(row.alias, row.key) THEN "standard term"
  ELSE None

(* The mapping, then the alias's uniqueness by a read of its own. *)
Check(r) ==
  /\ pc[r] = "check"
  /\ LET refusal == ValidateAliasMapping(Wanted(r))
     IN IF refusal # None THEN Answer(r, refusal) /\ UNCHANGED <<aliases, seen>>
        ELSE IF Taken(Target(r), Wanted(r).alias)
        THEN Answer(r, "duplicate") /\ UNCHANGED <<aliases, seen>>
        ELSE Go(r, IF Op(r) = "create" THEN "insert" ELSE "update", seen[r])

(* Mutant of Insert: nothing decides again. *)
InsertUnconstrained(r) ==
  /\ pc[r] = "insert"
  /\ aliases' = [aliases EXCEPT ![r] = Wanted(r)]
  /\ pc' = [pc EXCEPT ![r] = "refresh"]
  /\ lock' = Released(r)
  /\ UNCHANGED <<members, intent, answer, seen>>

(* uq_household_grocery_aliases_household_normalized_alias decides what    *)
(* the read could not see.                                                 *)
Insert(r) ==
  /\ pc[r] = "insert"
  /\ IF Taken(r, intent[r].alias)
     THEN Answer(r, "duplicate") /\ UNCHANGED <<aliases, seen>>
     ELSE /\ aliases' = [aliases EXCEPT ![r] = Wanted(r)]
          /\ pc' = [pc EXCEPT ![r] = "refresh"]
          /\ lock' = Released(r)
          /\ UNCHANGED <<members, intent, answer, seen>>

(* The UPDATE sets the columns that differ from what was read; it finds no *)
(* row when the alias has been deleted.                                    *)
Update(r) ==
  LET i == intent[r].id
      Column(c) == IF Wanted(r)[c] # seen[r][c] THEN Wanted(r)[c] ELSE aliases[i][c]
      row == [alias |-> Column("alias"), key |-> Column("key")]
  IN /\ pc[r] = "update"
     /\ \/ aliases[i] = None /\ Answer(r, "error") /\ UNCHANGED <<aliases, seen>>
        \/ /\ aliases[i] # None /\ row.alias # aliases[i].alias /\ Taken(i, row.alias)
           /\ Answer(r, "duplicate") /\ UNCHANGED <<aliases, seen>>
        \/ /\ aliases[i] # None /\ ~(row.alias # aliases[i].alias /\ Taken(i, row.alias))
           /\ aliases' = [aliases EXCEPT ![i] = row]
           /\ pc' = [pc EXCEPT ![r] = "refresh"]
           /\ lock' = Released(r)
           /\ UNCHANGED <<members, intent, answer, seen>>

(* The row is read again for the answer. *)
Refresh(r) ==
  /\ pc[r] = "refresh"
  /\ Answer(r, IF aliases[Target(r)] = None THEN "error" ELSE "ok")
  /\ UNCHANGED <<aliases, seen>>

(* Deleting an alias that another request has deleted succeeds as well. *)
Delete(r) ==
  /\ pc[r] = "delete"
  /\ aliases' = [aliases EXCEPT ![intent[r].id] = None]
  /\ Answer(r, "ok")
  /\ seen' = seen

AliasStep(r) ==
  \/ RequireMembershipForMutation(r) \/ GetForHousehold(r) \/ Check(r)
  \/ Insert(r) \/ Update(r) \/ Refresh(r) \/ Delete(r)

(* A membership row is deleted, by its user or by the owner. *)
RemoveMember(u) ==
  /\ u \in members /\ lock[u] = None
  /\ members' = members \ {u}
  /\ UNCHANGED <<aliases, lock, intent, pc, answer, seen>>

=============================================================================
