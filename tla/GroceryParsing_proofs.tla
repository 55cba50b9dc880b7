------------------------ MODULE GroceryParsing_proofs ------------------------
(***************************************************************************)
(* Proofs about the aliases of a household and the commands that are       *)
(* parsed with them, for any number of users, aliases and requests and     *)
(* whatever the dictionary, the texts and the provider's answers are.      *)
(*                                                                         *)
(* What the parser accepts is shown to have every word of the text.  The   *)
(* induction over the tokens that this takes is by the least beginning for *)
(* which a statement would fail, since TLAPS has no induction rule that    *)
(* could be instantiated.  A command that is made of clauses is shown to   *)
(* be read clause by clause: its phrases are the only items, its numbers   *)
(* the only quantities, and each quantity is nearest to its own item.      *)
(***************************************************************************)
EXTENDS GroceryParsing, FiniteSetTheorems, SequenceTheorems, FunctionTheorems, TLAPS

-----------------------------------------------------------------------------
(* The inductive invariant. *)

Holding == {"find", "check", "insert", "update", "delete"}

Shapes ==
  /\ members \subseteq Users
  /\ lock \in [Users -> Requests \union {None}]
  /\ DOMAIN aliases = Ids
  /\ DOMAIN pc = Requests /\ DOMAIN answer = Requests /\ DOMAIN seen = Requests

(* What the requests ask does not change. *)
Asked ==
  \A r \in Requests :
    /\ intent[r].user \in Users
    /\ Op(r) = "create" => intent[r].alias # None /\ intent[r].key # None
    /\ Op(r) \in {"update", "delete"} => intent[r].id \in Ids

(* Each statement belongs to the requests that have it. *)
Stages ==
  \A r \in Requests :
    /\ pc[r] = "insert" => Op(r) = "create"
    /\ pc[r] = "update" => Op(r) = "update"
    /\ pc[r] = "delete" => Op(r) = "delete"
    /\ pc[r] = "find" => Op(r) \in {"update", "delete"}
    /\ pc[r] = "check" => Op(r) \in {"create", "update"}

(* A request that changes an alias has its user's membership locked from   *)
(* its first statement to its commit.                                      *)
Locked == \A r \in Requests : pc[r] \in Holding => lock[intent[r].user] = r

(* What is about to be written has passed validate_alias_mapping. *)
Valid == \A r \in Requests : pc[r] \in {"insert", "update"} => Wanted(r).key \in CanonicalKeys

IInv == TypeOK /\ Shapes /\ Asked /\ Stages /\ Locked /\ Valid

-----------------------------------------------------------------------------
LEMMA InitIInv == Init => IInv
  <1> SUFFICES ASSUME Init PROVE IInv
    OBVIOUS
  <1> USE NoneAssumption, StoriesAssumption DEF Init, AliasesInit, Ids
  <1>1. PICK story \in Stories :
          /\ intent = story.intent
          /\ members = story.members
          /\ aliases = [i \in Ids |-> IF i \in SeedAliases THEN story.aliases[i] ELSE None]
    OBVIOUS
  <1>2. There \subseteq SeedAliases /\ \A i \in There : aliases[i] = story.aliases[i] /\ aliases[i] # None
    BY <1>1 DEF There
  <1>3. AliasesOK
    <2>1. \A i, j \in SeedAliases : story.aliases[i] # None =>
            /\ story.aliases[i].key \in CanonicalKeys
            /\ story.aliases[j] # None /\ story.aliases[j].alias = story.aliases[i].alias => i = j
      OBVIOUS
    <2>2. QED BY ONLY <1>2, <2>1 DEF AliasesOK
  <1>4. TypeOK
    BY <1>3 DEF TypeOK, LocksOK
  <1>5. Asked
    BY <1>1 DEF Asked, Op
  <1>6. Shapes /\ Stages /\ Locked /\ Valid
    BY <1>1 DEF Shapes, Stages, Locked, Valid, Holding
  <1>7. QED BY <1>4, <1>5, <1>6 DEF IInv

-----------------------------------------------------------------------------
(* A request that is answered releases its locks. *)
LEMMA AnswerStep ==
  ASSUME IInv, NEW r \in Requests, NEW a, a # None, Answer(r, a), seen' = seen,
         DOMAIN aliases' = Ids, AliasesOK'
  PROVE  IInv'
  <1> USE NoneAssumption DEF IInv, TypeOK, Answer, Released, Op
  <1>1. LocksOK'
    BY DEF LocksOK, Shapes
  <1>2. \A q \in Requests : answer'[q] # None <=> pc'[q] = "done"
    BY DEF Shapes
  <1>3. Shapes'
    BY DEF Shapes
  <1>4. Asked' /\ Stages'
    BY DEF Asked, Stages, Shapes
  <1>5. Locked'
    BY DEF Locked, Holding, Shapes, Asked
  <1>6. Valid'
    BY DEF Valid, Wanted, Shapes
  <1>7. QED BY <1>1, <1>2, <1>3, <1>4, <1>5, <1>6

(* A request that goes on keeps what it has locked. *)
LEMMA GoStep ==
  ASSUME IInv, NEW r \in Requests, NEW next, NEW value, Go(r, next, value),
         pc[r] # "done", next # "done",
         pc[r] \in Holding <=> next \in Holding,
         next = "insert" => Op(r) = "create",
         next = "update" => Op(r) = "update",
         next = "delete" => Op(r) = "delete",
         next = "find" => Op(r) \in {"update", "delete"},
         next = "check" => Op(r) \in {"create", "update"},
         next \in {"insert", "update"} => value = seen[r] /\ Wanted(r).key \in CanonicalKeys
  PROVE  IInv'
  <1> USE NoneAssumption DEF IInv, TypeOK, Go, Op
  <1>1. AliasesOK'
    BY DEF AliasesOK, There, Ids
  <1>2. LocksOK'
    BY DEF LocksOK, Shapes, Holding
  <1>3. \A q \in Requests : answer'[q] # None <=> pc'[q] = "done"
    BY DEF Shapes
  <1>4. Shapes' /\ Asked' /\ Stages'
    BY DEF Shapes, Asked, Stages
  <1>5. Locked'
    BY DEF Locked, Shapes
  <1>6. Valid'
    <2>1. ASSUME NEW q \in Requests, pc'[q] \in {"insert", "update"}
          PROVE  seen'[q] = seen[q] /\ Wanted(q).key \in CanonicalKeys
      BY <2>1 DEF Valid, Shapes
    <2>2. QED BY <2>1 DEF Valid, Wanted
  <1>7. QED BY <1>1, <1>2, <1>3, <1>4, <1>5, <1>6

(* What Insert and Update have in common: the commit. *)
LEMMA WriteStep ==
  ASSUME IInv, NEW r \in Requests, pc[r] \in {"insert", "update"},
         pc' = [pc EXCEPT ![r] = "refresh"], lock' = Released(r),
         UNCHANGED <<members, intent, answer, seen>>,
         DOMAIN aliases' = Ids, AliasesOK'
  PROVE  IInv'
  <1> USE NoneAssumption DEF IInv, TypeOK, Released, Op
  <1>1. LocksOK'
    BY DEF LocksOK, Shapes
  <1>2. \A q \in Requests : answer'[q] # None <=> pc'[q] = "done"
    BY DEF Shapes
  <1>3. Shapes' /\ Asked' /\ Stages'
    BY DEF Shapes, Asked, Stages
  <1>4. Locked'
    BY DEF Locked, Holding, Shapes, Asked
  <1>5. Valid'
    BY DEF Valid, Wanted, Shapes
  <1>6. QED BY <1>1, <1>2, <1>3, <1>4, <1>5

-----------------------------------------------------------------------------
(* The statements on the aliases. *)

LEMMA Kept ==
  ASSUME IInv, aliases' = aliases
  PROVE  DOMAIN aliases' = Ids /\ AliasesOK'
  BY DEF IInv, TypeOK, Shapes, AliasesOK, There

LEMMA RequireStep ==
  ASSUME IInv, NEW r \in Requests, RequireMembershipForMutation(r)
  PROVE  IInv'
  <1> USE NoneAssumption
  <1>1. CASE intent[r].user \notin members
    <2>1. Answer(r, "no household") /\ UNCHANGED <<aliases, seen>>
      BY <1>1 DEF RequireMembershipForMutation
    <2>2. "no household" # None
      BY DEF Answers
    <2>3. QED BY <2>1, <2>2, Kept, AnswerStep
  <1>2. CASE intent[r].user \in members
    <2> DEFINE u == intent[r].user
    <2>1. /\ pc[r] = "idle" /\ Op(r) \in {"create", "update", "delete"} /\ lock[u] = None
          /\ pc' = [pc EXCEPT ![r] = IF Op(r) = "create" THEN "check" ELSE "find"]
          /\ lock' = [lock EXCEPT ![u] = r]
          /\ UNCHANGED <<aliases, members, intent, answer, seen>>
      BY <1>2 DEF RequireMembershipForMutation, Granted
    <2>2. u \in Users
      BY DEF IInv, Asked
    <2> USE <2>1, <2>2 DEF IInv, TypeOK, Op
    <2>3. AliasesOK'
      BY Kept
    <2>4. LocksOK'
      BY <1>2 DEF LocksOK, Shapes
    <2>5. \A q \in Requests : answer'[q] # None <=> pc'[q] = "done"
      BY DEF Shapes
    <2>6. Shapes' /\ Asked' /\ Stages'
      BY DEF Shapes, Asked, Stages
    <2>7. Locked'
      BY DEF Locked, Holding, Shapes
    <2>8. Valid'
      BY DEF Valid, Wanted, Shapes
    <2>9. QED BY <2>3, <2>4, <2>5, <2>6, <2>7, <2>8
  <1>3. QED BY <1>1, <1>2

LEMMA GetStep ==
  ASSUME IInv, NEW r \in Requests, GetForHousehold(r)
  PROVE  IInv'
  <1>1. CASE aliases[intent[r].id] = None
    <2>1. Answer(r, "no alias") /\ UNCHANGED <<aliases, seen>>
      BY <1>1 DEF GetForHousehold
    <2>2. "no alias" # None
      BY NoneAssumption DEF Answers
    <2>3. QED BY <2>1, <2>2, Kept, AnswerStep
  <1>2. CASE aliases[intent[r].id] # None
    <2> DEFINE next == IF Op(r) = "update" THEN "check" ELSE "delete"
    <2>1. pc[r] = "find" /\ Go(r, next, aliases[intent[r].id])
      BY <1>2 DEF GetForHousehold
    <2>2. Op(r) \in {"update", "delete"}
      BY <2>1 DEF IInv, Stages
    <2>3. /\ next \in {"check", "delete"}
          /\ next = "check" => Op(r) = "update"
          /\ next = "delete" => Op(r) = "delete"
      BY <2>2
    <2> HIDE DEF next
    <2>4. QED BY <2>1, <2>3, GoStep DEF Holding
  <1>3. QED BY <1>1, <1>2

LEMMA CheckStep ==
  ASSUME IInv, NEW r \in Requests, Check(r)
  PROVE  IInv'
  <1> DEFINE refusal == ValidateAliasMapping(Wanted(r))
             next == IF Op(r) = "create" THEN "insert" ELSE "update"
  <1>1. pc[r] = "check" /\ Op(r) \in {"create", "update"}
    BY DEF Check, IInv, Stages
  <1>2. \/ \E a : a # None /\ Answer(r, a) /\ UNCHANGED <<aliases, seen>>
        \/ refusal = None /\ Go(r, next, seen[r])
    BY NoneAssumption DEF Check, Answers
  <1>3. CASE \E a : a # None /\ Answer(r, a) /\ UNCHANGED <<aliases, seen>>
    BY <1>3, Kept, AnswerStep
  <1>4. CASE refusal = None /\ Go(r, next, seen[r])
    <2>1. Wanted(r).key \in CanonicalKeys
      BY <1>4, NoneAssumption DEF ValidateAliasMapping, Answers
    <2>2. /\ next \in {"insert", "update"}
          /\ next = "insert" => Op(r) = "create"
          /\ next = "update" => Op(r) = "update"
      BY <1>1
    <2> HIDE DEF next
    <2>3. QED BY <1>1, <1>4, <2>1, <2>2, GoStep DEF Holding
  <1>5. QED BY <1>2, <1>3, <1>4

LEMMA InsertStep ==
  ASSUME IInv, NEW r \in Requests, Insert(r)
  PROVE  IInv'
  <1>1. CASE Taken(r, intent[r].alias)
    <2>1. Answer(r, "duplicate") /\ UNCHANGED <<aliases, seen>>
      BY <1>1 DEF Insert
    <2>2. "duplicate" # None
      BY NoneAssumption DEF Answers
    <2>3. QED BY <2>1, <2>2, Kept, AnswerStep
  <1>2. CASE ~Taken(r, intent[r].alias)
    <2>1. /\ pc[r] = "insert"
          /\ aliases' = [aliases EXCEPT ![r] = Wanted(r)]
          /\ pc' = [pc EXCEPT ![r] = "refresh"]
          /\ lock' = Released(r)
          /\ UNCHANGED <<members, intent, answer, seen>>
      BY <1>2 DEF Insert
    <2>2. Wanted(r).alias = intent[r].alias /\ Wanted(r).key \in CanonicalKeys
      BY <2>1 DEF IInv, Stages, Asked, Valid, Wanted
    <2>3. r \in Ids /\ DOMAIN aliases = Ids
      BY DEF Ids, IInv, Shapes
    <2> HIDE DEF Wanted
    <2>4. AliasesOK'
      BY <1>2, <2>1, <2>2, <2>3 DEF IInv, TypeOK, AliasesOK, There, Taken, Ids
    <2>5. QED BY <2>1, <2>3, <2>4, WriteStep
  <1>3. QED BY <1>1, <1>2

LEMMA UpdateStep ==
  ASSUME IInv, NEW r \in Requests, Update(r)
  PROVE  IInv'
  <1> DEFINE i == intent[r].id
             Column(c) == IF Wanted(r)[c] # seen[r][c] THEN Wanted(r)[c] ELSE aliases[i][c]
             row == [alias |-> Column("alias"), key |-> Column("key")]
  <1>1. \/ \E a : a # None /\ Answer(r, a) /\ UNCHANGED <<aliases, seen>>
        \/ /\ aliases[i] # None
           /\ ~(row.alias # aliases[i].alias /\ Taken(i, row.alias))
           /\ pc[r] = "update"
           /\ aliases' = [aliases EXCEPT ![i] = row]
           /\ pc' = [pc EXCEPT ![r] = "refresh"]
           /\ lock' = Released(r)
           /\ UNCHANGED <<members, intent, answer, seen>>
    BY NoneAssumption DEF Update, Answers
  <1>2. CASE \E a : a # None /\ Answer(r, a) /\ UNCHANGED <<aliases, seen>>
    BY <1>2, Kept, AnswerStep
  <1>3. CASE /\ aliases[i] # None
             /\ ~(row.alias # aliases[i].alias /\ Taken(i, row.alias))
             /\ pc[r] = "update"
             /\ aliases' = [aliases EXCEPT ![i] = row]
             /\ pc' = [pc EXCEPT ![r] = "refresh"]
             /\ lock' = Released(r)
             /\ UNCHANGED <<members, intent, answer, seen>>
    <2>1. i \in Ids /\ DOMAIN aliases = Ids
      BY <1>3 DEF IInv, Stages, Asked, Shapes
    <2>2. Wanted(r).key \in CanonicalKeys
      BY <1>3 DEF IInv, Valid
    <2>3. i \in There
      BY <1>3, <2>1 DEF There
    <2>4. aliases[i].key \in CanonicalKeys
      BY <2>3 DEF IInv, TypeOK, AliasesOK
    <2>5. row.key \in CanonicalKeys
      BY <2>2, <2>4
    <2> HIDE DEF row, i
    <2>6. AliasesOK'
      BY <1>3, <2>1, <2>3, <2>5 DEF IInv, TypeOK, AliasesOK, There, Taken
    <2>7. QED BY <1>3, <2>1, <2>6, WriteStep
  <1>4. QED BY <1>1, <1>2, <1>3

LEMMA RefreshStep ==
  ASSUME IInv, NEW r \in Requests, Refresh(r)
  PROVE  IInv'
  <1>1. "ok" # None /\ "error" # None
    BY NoneAssumption DEF Answers
  <1>2. \E a : a # None /\ Answer(r, a) /\ UNCHANGED <<aliases, seen>>
    BY <1>1 DEF Refresh
  <1>3. QED BY <1>2, Kept, AnswerStep

LEMMA DeleteStep ==
  ASSUME IInv, NEW r \in Requests, Delete(r)
  PROVE  IInv'
  <1>1. "ok" # None
    BY NoneAssumption DEF Answers
  <1>2. intent[r].id \in Ids /\ DOMAIN aliases = Ids
    BY DEF Delete, IInv, Stages, Asked, Shapes
  <1>3. AliasesOK'
    BY <1>2 DEF Delete, IInv, TypeOK, AliasesOK, There
  <1>4. QED BY <1>1, <1>2, <1>3, AnswerStep DEF Delete

LEMMA RemoveStep ==
  ASSUME IInv, NEW u \in Users, RemoveMember(u)
  PROVE  IInv'
  <1>1. AliasesOK'
    BY Kept DEF RemoveMember
  <1>2. QED
    BY <1>1 DEF RemoveMember, IInv, TypeOK, LocksOK, Shapes, Asked, Stages, Locked, Valid, Wanted, Op

-----------------------------------------------------------------------------
(* The commands. *)

LEMMA PreviewStep ==
  ASSUME IInv, NEW r \in Requests, NEW source, NEW reason, NEW result,
         Preview(r, source, reason, result)
  PROVE  IInv'
  <1>1. "ok" # None
    BY NoneAssumption DEF Answers
  <1>2. \E a : a # None /\ Answer(r, a) /\ UNCHANGED <<aliases, seen>>
    BY <1>1 DEF Preview
  <1>3. QED BY <1>2, Kept, AnswerStep

LEMMA RefuseStep ==
  ASSUME IInv, NEW r \in Requests, NEW a, a # None, Refuse(r, a)
  PROVE  IInv'
  BY Kept, AnswerStep DEF Refuse

LEMMA ParseStepIInv ==
  ASSUME IInv, NEW r \in Requests, ParseStep(r)
  PROVE  IInv'
  <1>0. "no household" # None /\ "injection" # None /\ "aliases" # None
    BY NoneAssumption, RefusalsAssumption DEF Answers
  <1>1. CASE Authorize(r)
    <2>1. pc[r] = "idle" /\ (Refuse(r, "no household") \/ Go(r, "list", None))
      BY <1>1 DEF Authorize
    <2>2. QED BY <1>0, <2>1, RefuseStep, GoStep DEF Holding
  <1>2. CASE ListForHousehold(r)
    <2>1. pc[r] = "list" /\ \E value : Go(r, "ask", value)
      BY <1>2 DEF ListForHousehold
    <2>2. QED BY <2>1, GoStep DEF Holding
  <1>3. CASE Ask(r)
    <2>1. /\ pc[r] = "ask"
          /\ \/ Refuse(r, "injection")
             \/ Refuse(r, "aliases")
             \/ \E reason : FallBack(r, reason)
             \/ Go(r, "asked", seen[r])
      BY <1>3 DEF Ask
    <2>2. QED BY <1>0, <2>1, RefuseStep, GoStep, PreviewStep DEF Holding, FallBack
  <1>4. CASE Receive(r)
    BY <1>4, PreviewStep DEF Receive, FallBack
  <1>5. QED BY <1>1, <1>2, <1>3, <1>4 DEF ParseStep

LEMMA StutterStep == ASSUME IInv, UNCHANGED vars PROVE IInv'
  BY DEF vars, aliasVars, IInv, TypeOK, AliasesOK, There, LocksOK, Shapes, Asked, Stages, Locked, Valid, Wanted, Op

LEMMA NextIInv == IInv /\ [Next]_vars => IInv'
  <1> SUFFICES ASSUME IInv, [Next]_vars PROVE IInv'
    OBVIOUS
  <1>1. ASSUME NEW r \in Requests, ParseStep(r) PROVE IInv'
    BY <1>1, ParseStepIInv
  <1>2. ASSUME NEW r \in Requests, AliasStep(r) PROVE IInv'
    BY <1>2, RequireStep, GetStep, CheckStep, InsertStep, UpdateStep, RefreshStep, DeleteStep
       DEF AliasStep
  <1>3. ASSUME NEW u \in Users, RemoveMember(u) PROVE IInv'
    BY <1>3, RemoveStep
  <1>4. CASE UNCHANGED vars
    BY <1>4, StutterStep
  <1>5. QED BY <1>1, <1>2, <1>3, <1>4 DEF Next

(* The inductive invariant holds in every state of every behaviour.        *)
THEOREM Invariance == Spec => []IInv
  BY InitIInv, NextIInv, PTL DEF Spec

(* HouseholdGroceryAliasRepository: whatever requests overlap, no phrase   *)
(* has two aliases and no alias a key outside the dictionary; a membership *)
(* that is locked is there, and locked by a transaction of its user.       *)
THEOREM TypeCorrect == Spec => []TypeOK
  <1>1. IInv => TypeOK
    BY DEF IInv
  <1>2. QED BY <1>1, Invariance, PTL

-----------------------------------------------------------------------------
LEMMA ChangeStep ==
  ASSUME IInv, Next
  PROVE  \A i \in Ids : aliases'[i] # aliases[i] =>
           \E r \in Requests : /\ pc[r] \in {"insert", "update", "delete"} /\ pc'[r] # pc[r]
                               /\ Target(r) = i /\ intent[r].user \in members
  <1> SUFFICES ASSUME NEW i \in Ids, aliases'[i] # aliases[i]
               PROVE  \E r \in Requests : /\ pc[r] \in {"insert", "update", "delete"} /\ pc'[r] # pc[r]
                                          /\ Target(r) = i /\ intent[r].user \in members
    OBVIOUS
  <1>1. PICK r \in Requests : Insert(r) \/ Update(r) \/ Delete(r)
    BY DEF Next, ParseStep, AliasStep, RemoveMember, Authorize, ListForHousehold, Ask, Receive,
       Refuse, FallBack, Preview, Go, RequireMembershipForMutation, GetForHousehold, Check, Refresh
  <1>2. pc[r] \in {"insert", "update", "delete"} /\ pc'[r] # pc[r]
    BY <1>1 DEF Insert, Update, Delete, Answer, IInv, Shapes
  <1>3. Target(r) = i
    <2>1. CASE Insert(r)
      BY <2>1 DEF Insert, IInv, Stages, Shapes, Target
    <2>2. CASE Update(r)
      BY <2>2 DEF Update, IInv, Stages, Shapes, Target
    <2>3. CASE Delete(r)
      BY <2>3 DEF Delete, IInv, Stages, Shapes, Target
    <2>4. QED BY <1>1, <2>1, <2>2, <2>3
  <1>4. intent[r].user \in Users /\ lock[intent[r].user] = r
    BY <1>2 DEF IInv, Asked, Locked, Holding
  <1>5. intent[r].user \in members
    BY <1>4, NoneAssumption DEF IInv, TypeOK, LocksOK
  <1>6. QED BY <1>2, <1>3, <1>5

(* require_membership_for_mutation: an alias is created, changed or        *)
(* deleted only by the request for it whose user is a member then, though  *)
(* the membership was looked at statements before.                         *)
THEOREM MembersOnly == Spec => OnlyMembersChangeAliases
  <1>1. IInv /\ [Next]_vars =>
          [\A i \in Ids : aliases'[i] # aliases[i] =>
             \E r \in Requests : /\ pc[r] \in {"insert", "update", "delete"} /\ pc'[r] # pc[r]
                                 /\ Target(r) = i /\ intent[r].user \in members]_vars
    BY ChangeStep
  <1>2. QED BY <1>1, Invariance, PTL DEF Spec, OnlyMembersChangeAliases

-----------------------------------------------------------------------------
(* Where the words of a text are. *)

(* Among naturals there is a least one.                                    *)
LEMMA Least ==
  ASSUME NEW S \in SUBSET Nat, S # {}
  PROVE  \E m \in S : \A k \in S : m <= k
  <1>1. IsWellFoundedOn(OpToRel(<, Nat), Nat)
    BY NatLessThanWellFounded
  <1>2. PICK m \in S : \A k \in S : ~(<<k, m>> \in OpToRel(<, Nat))
    BY <1>1, WFMin
  <1>3. ASSUME NEW k \in S, k < m PROVE FALSE
    BY <1>2, <1>3 DEF OpToRel
  <1>4. QED BY <1>3

(* What the positions of a text are: each is where the one before ends,    *)
(* and the gap.                                                            *)
Advance(text, f, j) == IF j = 1 THEN 0 ELSE f[j - 1] + Length[text[j - 1]] + Gap(text[j])

(* The positions are defined for the tokens of a text: a shortest          *)
(* beginning of it without positions would have some.                      *)
LEMMA PositionsExist ==
  ASSUME NEW text \in Seq(Tokens)
  PROVE  \E f : f = [j \in DOMAIN text |-> IF j = 1 THEN 0 ELSE f[j - 1] + Length[text[j - 1]] + Gap(text[j])]
  <1> DEFINE Upto(n) == {f \in [1..n -> Nat] : \A j \in 1..n : f[j] = Advance(text, f, j)}
             Missing == {n \in 0..Len(text) : Upto(n) = {}}
  <1>1. Missing = {}
    <2> SUFFICES ASSUME Missing # {} PROVE FALSE
      OBVIOUS
    <2>1. PICK n \in Missing : \A k \in Missing : n <= k
      <3>1. Missing \in SUBSET Nat
        OBVIOUS
      <3>2. QED BY <3>1, Least
    <2>2. CASE n = 0
      <3>1. [j \in 1..0 |-> 0] \in Upto(0)
        OBVIOUS
      <3>2. QED BY <2>1, <2>2, <3>1
    <2>3. CASE n # 0
      <3>0. n \in Nat /\ n - 1 \in 0..Len(text) /\ ~(n <= n - 1)
        BY <2>1, <2>3
      <3>1. n - 1 \in 0..Len(text) /\ n - 1 \notin Missing
        <4> HIDE DEF Missing
        <4>1. QED BY ONLY <2>1, <3>0
      <3>2. PICK f \in [1..(n - 1) -> Nat] : \A j \in 1..(n - 1) : f[j] = Advance(text, f, j)
        BY <3>1
      <3> DEFINE g == [j \in 1..n |-> IF j = n THEN Advance(text, f, n) ELSE f[j]]
      <3>3. n \in 1..Len(text) /\ DOMAIN text = 1..Len(text)
        BY <2>1, <2>3
      <3>4. Advance(text, f, n) \in Nat
        <4>1. n # 1 => text[n - 1] \in Tokens /\ f[n - 1] \in Nat
          BY <3>2, <3>3
        <4>2. QED BY <4>1, MeasuresAssumption DEF Advance, Gap, Tokens
      <3>5. g \in [1..n -> Nat]
        BY <3>2, <3>3, <3>4
      <3>6. ASSUME NEW j \in 1..n PROVE g[j] = Advance(text, g, j)
        BY <3>2, <3>3 DEF Advance
      <3>7. QED BY <2>1, <3>5, <3>6
    <2>4. QED BY <2>2, <2>3
  <1>2. PICK f \in [1..Len(text) -> Nat] : \A j \in 1..Len(text) : f[j] = Advance(text, f, j)
    BY <1>1
  <1>3. f = [j \in DOMAIN text |-> IF j = 1 THEN 0 ELSE f[j - 1] + Length[text[j - 1]] + Gap(text[j])]
    BY <1>2 DEF Advance
  <1>4. QED BY <1>3

(* A token begins after the one before it. *)
LEMMA StartOfNext ==
  ASSUME NEW text \in Seq(Tokens), NEW i \in DOMAIN text
  PROVE  StartOf(text, i) = IF i = 1 THEN 0 ELSE EndOf(text, i - 1) + Gap(text[i])
  <1> DEFINE start == CHOOSE f : f = [j \in DOMAIN text |->
                        IF j = 1 THEN 0 ELSE f[j - 1] + Length[text[j - 1]] + Gap(text[j])]
  <1>1. start = [j \in DOMAIN text |-> IF j = 1 THEN 0 ELSE start[j - 1] + Length[text[j - 1]] + Gap(text[j])]
    BY PositionsExist
  <1>2. \A j \in DOMAIN text : StartOf(text, j) = start[j]
    BY DEF StartOf
  <1> HIDE DEF start
  <1>3. i # 1 => i - 1 \in DOMAIN text
    OBVIOUS
  <1>4. QED BY <1>1, <1>2, <1>3 DEF EndOf

(* Tokens begin and end at natural numbers. *)
LEMMA StartOfType ==
  ASSUME NEW text \in Seq(Tokens)
  PROVE  \A i \in DOMAIN text : StartOf(text, i) \in Nat /\ EndOf(text, i) \in Nat
  <1> DEFINE Bad == {i \in DOMAIN text : StartOf(text, i) \notin Nat}
  <1>1. ASSUME NEW i \in DOMAIN text PROVE Length[text[i]] \in Nat \ {0}
    BY MeasuresAssumption DEF Tokens
  <1>2. Bad = {}
    <2> SUFFICES ASSUME Bad # {} PROVE FALSE
      OBVIOUS
    <2>1. PICK i \in Bad : \A k \in Bad : i <= k
      <3>1. Bad \in SUBSET Nat
        OBVIOUS
      <3>2. QED BY <3>1, Least
    <2>2. i # 1 => i - 1 \in DOMAIN text /\ StartOf(text, i - 1) \in Nat
      BY <2>1
    <2>3. i # 1 => EndOf(text, i - 1) \in Nat
      BY <2>2, <1>1 DEF EndOf
    <2>4. QED BY <2>1, <2>3, StartOfNext DEF Gap
  <1>3. QED BY <1>1, <1>2 DEF EndOf

(* A token begins where the tokens before it have ended.                   *)
LEMMA LeftToRight ==
  ASSUME NEW text \in Seq(Tokens), NEW i \in DOMAIN text
  PROVE  \A j \in DOMAIN text : i < j => EndOf(text, i) <= StartOf(text, j) /\ EndOf(text, i) < EndOf(text, j)
  <1> DEFINE Bad == {j \in DOMAIN text : i < j /\ ~(EndOf(text, i) <= StartOf(text, j))}
  <1>1. \A j \in DOMAIN text : /\ StartOf(text, j) \in Nat /\ EndOf(text, j) \in Nat
                              /\ StartOf(text, j) < EndOf(text, j)
    <2>1. ASSUME NEW j \in DOMAIN text PROVE Length[text[j]] \in Nat \ {0}
      BY MeasuresAssumption DEF Tokens
    <2>2. QED BY <2>1, StartOfType DEF EndOf
  <1>2. Bad = {}
    <2> SUFFICES ASSUME Bad # {} PROVE FALSE
      OBVIOUS
    <2>1. PICK j \in Bad : \A k \in Bad : j <= k
      <3>1. Bad \in SUBSET Nat
        OBVIOUS
      <3>2. QED BY <3>1, Least
    <2>2. j - 1 \in DOMAIN text /\ j # 1 /\ i <= j - 1
      BY <2>1
    <2>3. EndOf(text, i) <= EndOf(text, j - 1)
      BY <1>1, <2>1, <2>2
    <2>4. StartOf(text, j) = EndOf(text, j - 1) + Gap(text[j])
      BY <2>1, <2>2, StartOfNext
    <2>5. QED BY <1>1, <2>1, <2>2, <2>3, <2>4 DEF Gap
  <1>3. QED BY <1>1, <1>2

-----------------------------------------------------------------------------
(* What a request says. *)

(* FlattenSeq's fold is defined, for the same reason. *)
LEMMA ConcatenationsExist ==
  ASSUME NEW S, NEW parts \in Seq(Seq(S))
  PROVE  \E f : f = [i \in 1..Len(parts) |-> IF i = 1 THEN parts[i] ELSE f[i - 1] \o parts[i]]
  <1> DEFINE Upto(n) == {f \in [1..n -> Seq(S)] :
                           \A i \in 1..n : f[i] = IF i = 1 THEN parts[i] ELSE f[i - 1] \o parts[i]}
             Missing == {n \in 0..Len(parts) : Upto(n) = {}}
  <1>1. Missing = {}
    <2> SUFFICES ASSUME Missing # {} PROVE FALSE
      OBVIOUS
    <2>1. PICK n \in Missing : \A k \in Missing : n <= k
      <3>1. Missing \in SUBSET Nat
        OBVIOUS
      <3>2. QED BY <3>1, Least
    <2>2. CASE n = 0
      <3>1. [i \in 1..0 |-> <<>>] \in Upto(0)
        OBVIOUS
      <3>2. QED BY <2>1, <2>2, <3>1
    <2>3. CASE n # 0
      <3>1. n \in 1..Len(parts) /\ n - 1 \in 0..Len(parts) /\ ~(n <= n - 1)
        BY <2>1, <2>3
      <3>2. n - 1 \notin Missing
        <4> HIDE DEF Missing
        <4>1. QED BY ONLY <2>1, <3>1
      <3>3. PICK f \in [1..(n - 1) -> Seq(S)] :
              \A i \in 1..(n - 1) : f[i] = IF i = 1 THEN parts[i] ELSE f[i - 1] \o parts[i]
        BY <3>1, <3>2
      <3> DEFINE last == IF n = 1 THEN parts[n] ELSE f[n - 1] \o parts[n]
                 g == [i \in 1..n |-> IF i = n THEN last ELSE f[i]]
      <3>4. last \in Seq(S)
        <4>1. parts[n] \in Seq(S) /\ (n # 1 => f[n - 1] \in Seq(S))
          BY <3>1, <3>3
        <4>2. QED BY <4>1
      <3>5. g \in [1..n -> Seq(S)]
        BY <3>1, <3>3, <3>4
      <3>6. ASSUME NEW i \in 1..n PROVE g[i] = IF i = 1 THEN parts[i] ELSE g[i - 1] \o parts[i]
        <4>0. i # n => i \in 1..(n - 1)
          BY <3>1
        <4>1. i # n => g[i] = f[i] /\ f[i] = IF i = 1 THEN parts[i] ELSE f[i - 1] \o parts[i]
          BY <3>3, <4>0
        <4>2. i # 1 => i - 1 \in 1..n /\ g[i - 1] = f[i - 1]
          BY <3>1
        <4>3. i = n => g[i] = last
          OBVIOUS
        <4> HIDE DEF g
        <4>4. QED BY <4>1, <4>2, <4>3
      <3>7. QED BY <2>1, <3>5, <3>6
    <2>4. QED BY <2>2, <2>3
  <1>2. Len(parts) \in 0..Len(parts)
    OBVIOUS
  <1>3. PICK f \in [1..Len(parts) -> Seq(S)] :
          \A i \in 1..Len(parts) : f[i] = IF i = 1 THEN parts[i] ELSE f[i - 1] \o parts[i]
    BY <1>1, <1>2
  <1>4. f = [i \in 1..Len(parts) |-> IF i = 1 THEN parts[i] ELSE f[i - 1] \o parts[i]]
    BY <1>3
  <1>5. QED BY <1>4

(* Sequences that follow each other are one sequence.                      *)
LEMMA FlattenSeqType ==
  ASSUME NEW S, NEW parts \in Seq(Seq(S)), parts # <<>>
  PROVE  FlattenSeq(parts) \in Seq(S)
  <1> DEFINE flatten == CHOOSE f : f = [i \in 1..Len(parts) |->
                                          IF i = 1 THEN parts[i] ELSE f[i - 1] \o parts[i]]
  <1>1. flatten = [i \in 1..Len(parts) |-> IF i = 1 THEN parts[i] ELSE flatten[i - 1] \o parts[i]]
    BY ConcatenationsExist
  <1>2. Len(parts) \in Nat /\ Len(parts) # 0
    OBVIOUS
  <1>3. FlattenSeq(parts) = flatten[Len(parts)]
    BY <1>2 DEF FlattenSeq
  <1> HIDE DEF flatten
  <1> DEFINE Bad == {i \in 1..Len(parts) : flatten[i] \notin Seq(S)}
  <1>4. Bad = {}
    <2> SUFFICES ASSUME Bad # {} PROVE FALSE
      OBVIOUS
    <2>1. PICK i \in Bad : \A k \in Bad : i <= k
      <3>1. Bad \in SUBSET Nat
        BY <1>2
      <3>2. QED BY <3>1, Least
    <2>2. parts[i] \in Seq(S)
      BY <2>1
    <2>3. i # 1 => flatten[i - 1] \in Seq(S)
      BY <2>1
    <2>4. i = 1 => flatten[i] = parts[i]
      BY <1>1, <2>1
    <2>5. i # 1 => flatten[i] = flatten[i - 1] \o parts[i]
      BY <1>1, <2>1
    <2>6. i # 1 => flatten[i - 1] \o parts[i] \in Seq(S)
      BY <2>2, <2>3
    <2>7. flatten[i] \in Seq(S)
      BY ONLY <2>2, <2>4, <2>5, <2>6
    <2>8. QED BY <2>1, <2>7
  <1>5. QED BY <1>2, <1>3, <1>4

(* What a request says is a sequence of tokens.                            *)
LEMMA TextType ==
  ASSUME NEW r \in Requests, intent[r].between \in Tokens, intent[r].said \in Seq(ClauseForms),
         intent[r].rest \in Seq(Tokens)
  PROVE  Text(r) \in Seq(Tokens)
  <1> DEFINE said == intent[r].said
             phrases == [n \in DOMAIN said |-> IF n = 1 THEN Said(said[n])
                                               ELSE <<intent[r].between>> \o Said(said[n])]
  <1>1. ASSUME NEW c \in ClauseForms PROVE Said(c) \in Seq(Tokens)
    <2>1. c.phrase \in Seq(Tokens) /\ c.place \in {"none", "before", "of", "after"}
      BY <1>1 DEF ClauseForms, Phrases
    <2>2. c.place # "none" => Measure(c) \in Seq(Tokens)
      <3>1. c.place # "none" => c.number \in Tokens /\ (c.unit # None => c.unit \in Tokens)
        BY <1>1 DEF ClauseForms, NumberWords, UnitWords
      <3>2. QED BY <3>1 DEF Measure
    <2>3. <<"of">> \in Seq(Tokens)
      BY WordsAssumption
    <2> DEFINE m == Measure(c)
    <2>4. c.place # "none" => m \in Seq(Tokens)
      BY <2>2
    <2> HIDE DEF m
    <2>5. CASE c.place = "none"
      BY <2>1, <2>5 DEF Said
    <2>6. CASE c.place = "before"
      <3>1. Said(c) = m \o c.phrase
        BY <2>6 DEF Said, m
      <3>2. QED BY <2>1, <2>4, <2>6, <3>1
    <2>7. CASE c.place = "of"
      <3>1. Said(c) = m \o <<"of">> \o c.phrase
        BY <2>7 DEF Said, m
      <3>2. QED BY <2>1, <2>3, <2>4, <2>7, <3>1
    <2>8. CASE c.place = "after"
      <3>1. Said(c) = c.phrase \o m
        BY <2>8 DEF Said, m
      <3>2. QED BY <2>1, <2>4, <2>8, <3>1
    <2>9. QED BY <2>1, <2>5, <2>6, <2>7, <2>8
  <1>2. phrases \in Seq(Seq(Tokens))
    <2>1. ASSUME NEW n \in DOMAIN said PROVE phrases[n] \in Seq(Tokens)
      <3>1. said[n] \in ClauseForms
        OBVIOUS
      <3>2. Said(said[n]) \in Seq(Tokens)
        BY <1>1, <3>1
      <3>3. <<intent[r].between>> \in Seq(Tokens)
        OBVIOUS
      <3>4. QED BY <3>2, <3>3
    <2>2. DOMAIN phrases = 1..Len(said) /\ Len(said) \in Nat
      OBVIOUS
    <2> HIDE DEF phrases
    <2>3. phrases \in [1..Len(said) -> Seq(Tokens)]
      <3>1. phrases = [n \in DOMAIN said |-> phrases[n]]
        BY DEF phrases
      <3>2. QED BY <2>1, <2>2, <3>1
    <2>4. QED BY <2>2, <2>3
  <1> HIDE DEF phrases
  <1> DEFINE parts == phrases \o <<intent[r].rest>>
  <1>3. parts \in Seq(Seq(Tokens)) /\ parts # <<>>
    <2>1. <<intent[r].rest>> \in Seq(Seq(Tokens)) /\ Len(<<intent[r].rest>>) = 1
      OBVIOUS
    <2>2. parts \in Seq(Seq(Tokens)) /\ Len(parts) = Len(phrases) + 1
      BY <1>2, <2>1
    <2>3. QED BY <1>2, <2>2
  <1>4. Text(r) = FlattenSeq(parts)
    BY DEF Text, phrases
  <1>5. QED BY <1>3, <1>4, FlattenSeqType

-----------------------------------------------------------------------------
(* Terms that are selected, and spans from left to right. *)

(* Spans of a text. *)
InText(text, spans) ==
  \A s \in spans : s.from \in DOMAIN text /\ s.to \in DOMAIN text /\ s.from <= s.to

(* The number of characters of a span. *)
LEMMA CharactersType ==
  ASSUME NEW text \in Seq(Tokens), NEW spans, InText(text, spans), NEW s \in spans
  PROVE  Characters(text, s) \in Nat
  <1>1. s.from \in DOMAIN text /\ s.to \in DOMAIN text /\ s.from <= s.to
    BY DEF InText
  <1>2. /\ StartOf(text, s.from) \in Nat /\ EndOf(text, s.from) \in Nat
        /\ StartOf(text, s.to) \in Nat /\ EndOf(text, s.to) \in Nat
    BY <1>1, StartOfType
  <1>3. StartOf(text, s.from) <= EndOf(text, s.from)
    BY <1>1, <1>2, MeasuresAssumption DEF EndOf, Tokens
  <1>4. s.from < s.to => EndOf(text, s.from) < EndOf(text, s.to)
    BY <1>1, LeftToRight
  <1>5. StartOf(text, s.from) <= EndOf(text, s.to)
    BY <1>1, <1>2, <1>3, <1>4
  <1>6. QED BY <1>2, <1>5 DEF Characters

(* Of some spans there is one that is looked at after all others.          *)
LEMMA OneIsLast ==
  ASSUME NEW text \in Seq(Tokens), NEW spans, InText(text, spans), spans # {}
  PROVE  \E s \in spans : \A e \in spans : ~Longer(text, s, e)
  <1> DEFINE sizes == {Characters(text, s) : s \in spans}
  <1>1. \A s \in spans : Characters(text, s) \in Nat
    BY CharactersType
  <1>2. PICK size \in sizes : \A k \in sizes : size <= k
    <2>1. sizes \in SUBSET Nat /\ sizes # {}
      BY <1>1
    <2> HIDE DEF sizes
    <2>2. QED BY <2>1, Least
  <1> DEFINE shortest == {s \in spans : Characters(text, s) = size}
             places == {Len(text) - s.from : s \in shortest}
  <1>3. PICK place \in places : \A k \in places : place <= k
    <2>1. places \in SUBSET Nat /\ places # {}
      BY <1>2 DEF InText
    <2> HIDE DEF places
    <2>2. QED BY <2>1, Least
  <1>4. PICK s \in shortest : place = Len(text) - s.from
    BY <1>3
  <1>5. ASSUME NEW e \in spans, Longer(text, s, e) PROVE FALSE
    <2>1. Characters(text, s) = size /\ size <= Characters(text, e) /\ size \in Nat
      BY <1>1, <1>2, <1>4
    <2>2. Characters(text, e) = size /\ s.from < e.from
      BY <1>1, <1>5, <2>1 DEF Longer, Before
    <2>3. place <= Len(text) - e.from
      BY <1>3, <2>2
    <2>4. s.from \in Nat /\ e.from \in Nat /\ Len(text) \in Nat
      <3>1. s.from \in DOMAIN text /\ e.from \in DOMAIN text
        BY ONLY InText(text, spans), s \in shortest, e \in spans DEF InText
      <3>2. DOMAIN text = 1..Len(text) /\ Len(text) \in Nat
        OBVIOUS
      <3>3. QED BY ONLY <3>1, <3>2
    <2>5. QED BY <1>4, <2>2, <2>3, <2>4
  <1>6. QED BY <1>4, <1>5

(* The terms of a text can be selected one after the other.                *)
LEMMA SelectionExists ==
  ASSUME NEW text \in Seq(Tokens), NEW spans, InText(text, spans), IsFiniteSet(spans)
  PROVE  \E selected \in SUBSET spans : Selection(text, spans, selected)
  <1> DEFINE Fails(S) == \A selected \in SUBSET S : ~Selection(text, S, selected)
             Bad == {n \in Nat : \E S \in SUBSET spans : Cardinality(S) = n /\ Fails(S)}
  <1>1. Bad = {}
    <2> SUFFICES ASSUME Bad # {} PROVE FALSE
      OBVIOUS
    <2>1. PICK n \in Bad : \A k \in Bad : n <= k
      <3>1. Bad \in SUBSET Nat
        OBVIOUS
      <3> HIDE DEF Bad
      <3>2. QED BY <3>1, Least
    <2>2. PICK S \in SUBSET spans : Cardinality(S) = n /\ Fails(S)
      BY <2>1
    <2>3. IsFiniteSet(S) /\ InText(text, S)
      BY FS_Subset DEF InText
    <2>4. S # {}
      BY <2>2 DEF Selection
    <2>5. PICK last \in S : \A e \in S : ~Longer(text, last, e)
      BY <2>3, <2>4, OneIsLast
    <2> DEFINE R == S \ {last}
    <2>6. PICK selected \in SUBSET R : Selection(text, R, selected)
      <3>1. Cardinality(R) = n - 1 /\ n - 1 \in Nat
        <4>1. Cardinality(R) = Cardinality(S) - 1
          BY <2>3, FS_RemoveElement
        <4>2. Cardinality(S) \in Nat /\ Cardinality(S) # 0
          BY <2>3, <2>4, FS_CardinalityType, FS_EmptySet
        <4>3. QED BY <2>2, <4>1, <4>2
      <3>2. n - 1 \notin Bad
        <4>1. n \in Nat /\ ~(n <= n - 1)
          OBVIOUS
        <4> HIDE DEF Bad
        <4>2. QED BY ONLY <2>1, <4>1
      <3>3. ~Fails(R)
        BY <3>1, <3>2
      <3>4. QED BY <3>3
    <2> DEFINE free == \A e \in selected : Longer(text, e, last) => ~Overlap(e, last)
               more == IF free THEN selected \union {last} ELSE selected
    <2>7. ASSUME NEW c \in R
          PROVE  c \in more <=> \A e \in more : Longer(text, e, c) => ~Overlap(e, c)
      <3>1. c \in selected <=> \A e \in selected : Longer(text, e, c) => ~Overlap(e, c)
        BY <2>6 DEF Selection
      <3>2. ~Longer(text, last, c) /\ c # last
        BY <2>5
      <3>3. QED BY <3>1, <3>2
    <2>8. last \in more <=> \A e \in more : Longer(text, e, last) => ~Overlap(e, last)
      <3>1. ~Longer(text, last, last)
        BY <2>5
      <3>2. last \notin selected
        BY <2>6
      <3>3. QED BY <3>1, <3>2
    <2>9. more \in SUBSET S /\ Selection(text, S, more)
      <3>1. more \in SUBSET S
        BY <2>6
      <3>2. QED BY <2>7, <2>8, <3>1 DEF Selection
    <2>10. QED BY <2>2, <2>9
  <1>2. Cardinality(spans) \in Nat
    BY FS_CardinalityType
  <1>3. QED BY <1>1, <1>2

(* Of two terms that overlap only one is selected. *)
LEMMA SelectedApart ==
  ASSUME NEW text \in Seq(Tokens), NEW spans, InText(text, spans),
         NEW selected \in SUBSET spans, Selection(text, spans, selected),
         NEW c \in selected, NEW d \in selected, c.from # d.from \/ c.to # d.to
  PROVE  ~Overlap(c, d)
  <1>1. Longer(text, c, d) \/ Longer(text, d, c)
    <2>1. Characters(text, c) \in Nat /\ Characters(text, d) \in Nat
      BY CharactersType
    <2>2. /\ c.from \in DOMAIN text /\ c.to \in DOMAIN text /\ c.from <= c.to
          /\ d.from \in DOMAIN text /\ d.to \in DOMAIN text /\ d.from <= d.to
      BY DEF InText
    <2>3. CASE c.from # d.from
      BY <2>1, <2>2, <2>3 DEF Longer, Before
    <2>4. CASE c.from = d.from
      <3>1. EndOf(text, c.to) # EndOf(text, d.to)
        <4>1. c.to < d.to => EndOf(text, c.to) < EndOf(text, d.to)
          BY <2>2, LeftToRight
        <4>2. d.to < c.to => EndOf(text, d.to) < EndOf(text, c.to)
          BY <2>2, LeftToRight
        <4>3. EndOf(text, c.to) \in Nat /\ EndOf(text, d.to) \in Nat
          BY <2>2, StartOfType
        <4>4. c.to < d.to \/ d.to < c.to
          BY <2>2, <2>4
        <4>5. QED BY <4>1, <4>2, <4>3, <4>4
      <3>2. StartOf(text, c.from) \in Nat /\ EndOf(text, c.to) \in Nat /\ EndOf(text, d.to) \in Nat
        BY <2>2, StartOfType
      <3>3. Characters(text, c) # Characters(text, d)
        BY <2>4, <3>1, <3>2 DEF Characters
      <3>4. QED BY <2>1, <3>3 DEF Longer
    <2>5. QED BY <2>3, <2>4
  <1>2. Overlap(c, d) <=> Overlap(d, c)
    BY DEF Overlap
  <1>3. QED BY <1>1, <1>2 DEF Selection

(* Spans that begin in different places are numbered from left to right.   *)
LEMMA InOrderIsBijection ==
  ASSUME NEW spans, IsFiniteSet(spans), \A s \in spans : s.from \in Int,
         \A s, e \in spans : s.from = e.from => s = e
  PROVE  InOrder(spans) \in Bijection(1..Cardinality(spans), spans)
  <1> DEFINE before(s) == {e \in spans : Before(e, s)}
             rank == [s \in spans |-> Cardinality(before(s)) + 1]
             n == Cardinality(spans)
  <1>1. n \in Nat /\ IsFiniteSet(1..n) /\ Cardinality(1..n) = n
    BY FS_CardinalityType, FS_Interval
  <1>2. ASSUME NEW s \in spans
        PROVE  IsFiniteSet(before(s)) /\ Cardinality(before(s)) \in 0..(n - 1)
    <2>1. before(s) \in SUBSET (spans \ {s})
      BY DEF Before
    <2>2. IsFiniteSet(spans \ {s}) /\ Cardinality(spans \ {s}) = n - 1
      BY FS_RemoveElement
    <2>3. IsFiniteSet(before(s)) /\ Cardinality(before(s)) <= n - 1
      BY <2>1, <2>2, FS_Subset
    <2>4. QED BY <1>1, <2>3, FS_CardinalityType
  <1> HIDE DEF before
  <1>3. rank \in [spans -> 1..n] /\ \A s \in spans : rank[s] = Cardinality(before(s)) + 1
    <2>1. \A s \in spans : Cardinality(before(s)) + 1 \in 1..n
      BY <1>1, <1>2
    <2>2. QED BY <2>1
  <1> HIDE DEF rank
  <1>4. ASSUME NEW s \in spans, NEW e \in spans, s.from < e.from
        PROVE  rank[s] < rank[e]
    <2>1. before(s) \union {s} \in SUBSET before(e)
      BY <1>4 DEF Before, before
    <2>2. s \notin before(s)
      BY DEF Before, before
    <2>3. Cardinality(before(s) \union {s}) = Cardinality(before(s)) + 1
      BY <1>2, <2>2, FS_AddElement
    <2>4. Cardinality(before(s) \union {s}) <= Cardinality(before(e))
      BY <1>2, <2>1, FS_Subset
    <2>5. Cardinality(before(s)) \in Int /\ Cardinality(before(e)) \in Int
      BY <1>1, <1>2
    <2>6. QED BY <1>3, <2>3, <2>4, <2>5
  <1>5. \A s, e \in spans : rank[s] = rank[e] => s = e
    <2>1. \A s \in spans : rank[s] \in Int
      BY <1>3
    <2>2. QED BY <1>4, <2>1
  <1>6. \A k \in 1..n : \E s \in spans : rank[s] = k
    <2>1. rank \in Injection(spans, 1..n)
      BY <1>3, <1>5, Fun_IsInj
    <2>2. rank \in Surjection(spans, 1..n)
      BY <1>1, <2>1, FS_Injection
    <2>3. QED BY <2>2, Fun_SurjectionProperties
  <1>7. ASSUME NEW k \in 1..n
        PROVE  InOrder(spans)[k] \in spans /\ rank[InOrder(spans)[k]] = k
    <2>1. \E s \in spans : Cardinality(before(s)) = k - 1
      <3>1. PICK s \in spans : rank[s] = k
        BY <1>6
      <3>2. Cardinality(before(s)) \in Int /\ rank[s] = Cardinality(before(s)) + 1
        BY <1>1, <1>2, <1>3
      <3>3. QED BY <3>1, <3>2
    <2>2. InOrder(spans)[k] = CHOOSE s \in spans : Cardinality(before(s)) = k - 1
      BY DEF InOrder, before
    <2>3. InOrder(spans)[k] \in spans /\ Cardinality(before(InOrder(spans)[k])) = k - 1
      BY <2>1, <2>2
    <2>4. QED BY <1>3, <2>3
  <1>8. InOrder(spans) \in [1..n -> spans]
    BY <1>7 DEF InOrder
  <1>9. \A k, l \in 1..n : InOrder(spans)[k] = InOrder(spans)[l] => k = l
    BY <1>7
  <1>10. \A s \in spans : \E k \in 1..n : InOrder(spans)[k] = s
    BY <1>3, <1>5, <1>7
  <1>11. QED BY <1>8, <1>9, <1>10, Fun_IsBij

-----------------------------------------------------------------------------
(* Items and quantities. *)

(* The words of a phrase that is plain. *)
LEMMA PlainWords ==
  ASSUME NEW text \in Seq(Tokens), NEW from \in DOMAIN text, NEW to \in DOMAIN text, from <= to,
         Plain(SubSeq(text, from, to)), NEW i \in from..to
  PROVE  text[i] \notin Measures \union Fillers
  <1> DEFINE phrase == SubSeq(text, from, to)
  <1>1. from \in Int /\ to \in Int /\ \A k \in from..to : text[k] \in Tokens
    OBVIOUS
  <1>2. DOMAIN phrase = 1..(to - from + 1) /\ phrase[i - from + 1] = text[i]
    <2>1. /\ phrase \in Seq(Tokens) /\ Len(phrase) = to - from + 1
          /\ \A k \in 1..(to - from + 1) : phrase[k] = text[from + k - 1]
      BY <1>1, SubSeqProperties
    <2> HIDE DEF phrase
    <2>2. i - from + 1 \in 1..(to - from + 1) /\ from + (i - from + 1) - 1 = i
      BY <1>1
    <2>3. DOMAIN phrase = 1..Len(phrase)
      BY <2>1
    <2>4. DOMAIN phrase = 1..(to - from + 1)
      BY <2>1, <2>3
    <2>5. phrase[i - from + 1] = text[from + (i - from + 1) - 1]
      BY <2>1, <2>2
    <2>6. QED BY <2>2, <2>4, <2>5
  <1>3. i - from + 1 \in DOMAIN phrase
    BY <1>1, <1>2
  <1>4. Plain(phrase)
    OBVIOUS
  <1> HIDE DEF phrase
  <1>5. text[i] \in ToSet(phrase)
    BY <1>2, <1>3 DEF ToSet
  <1>6. QED BY <1>4, <1>5 DEF Plain

(* What is found of one phrase. *)
LEMMA OccurrencesType ==
  ASSUME NEW text \in Seq(Tokens), NEW phrase, NEW key
  PROVE  LET spans == Occurrences(text, phrase, key)
         IN  /\ IsFiniteSet(spans) /\ InText(text, spans)
             /\ \A c \in spans : c.key = key /\ StandsAt(text, phrase, c.from, c.to)
  <1> DEFINE places == {q \in (DOMAIN text) \X (DOMAIN text) : StandsAt(text, phrase, q[1], q[2])}
             span == [p \in places |-> [from |-> p[1], to |-> p[2], key |-> key]]
             spans == Occurrences(text, phrase, key)
  <1>1. IsFiniteSet(places)
    <2>1. IsFiniteSet(DOMAIN text)
      BY FS_Interval
    <2>2. IsFiniteSet((DOMAIN text) \X (DOMAIN text))
      BY <2>1, FS_Product
    <2>3. QED BY <2>2, FS_Subset
  <1>2. spans = {span[p] : p \in places}
    BY DEF Occurrences
  <1>3. IsFiniteSet(spans)
    <2> HIDE DEF span, spans, places
    <2>1. span \in [places -> spans]
      BY <1>2 DEF span
    <2>2. \A c \in spans : \E p \in places : span[p] = c
      BY <1>2
    <2>3. span \in Surjection(places, spans)
      BY <2>1, <2>2, Fun_IsSurj
    <2>4. QED BY <1>1, <2>3, FS_Surjection
  <1>4. InText(text, spans)
    BY DEF InText, Occurrences, StandsAt
  <1>5. \A c \in spans : c.key = key /\ StandsAt(text, phrase, c.from, c.to)
    BY DEF Occurrences
  <1>6. QED BY <1>3, <1>4, <1>5

(* A selection is made of what there is. *)
LEMMA SelectedType ==
  ASSUME NEW text \in Seq(Tokens), NEW spans, InText(text, spans), IsFiniteSet(spans)
  PROVE  Selected(text, spans) \in SUBSET spans /\ Selection(text, spans, Selected(text, spans))
  BY SelectionExists DEF Selected

(* Candidates are finitely many terms in the text, each in a place of its  *)
(* own.                                                                    *)
LEMMA CandidatesType ==
  ASSUME NEW text \in Seq(Tokens), NEW owners
  PROVE  /\ IsFiniteSet(Candidates(text, owners)) /\ InText(text, Candidates(text, owners))
         /\ \A c \in Candidates(text, owners) :
              \E a \in DOMAIN owners : c \in Occurrences(text, a, owners[a])
         /\ \A c, d \in Candidates(text, owners) : c.from = d.from /\ c.to = d.to => c = d
  <1> DEFINE places == {q \in (DOMAIN text) \X (DOMAIN text) : TRUE}
             term == [p \in places |-> [from |-> p[1], to |-> p[2],
                                         key |-> owners[SubSeq(text, p[1], p[2])]]]
             terms == {term[p] : p \in places}
             candidates == Candidates(text, owners)
  <1>1. IsFiniteSet(places)
    <2>1. IsFiniteSet(DOMAIN text)
      BY FS_Interval
    <2>2. QED BY <2>1, FS_Product
  <1>2. IsFiniteSet(terms)
    <2> HIDE DEF places, term
    <2>1. term \in Surjection(places, terms)
      <3>1. term \in [places -> terms] /\ \A t \in terms : \E p \in places : term[p] = t
        BY DEF term
      <3> HIDE DEF terms
      <3>2. QED BY <3>1, Fun_IsSurj
    <2>2. QED BY <1>1, <2>1, FS_Surjection
  <1>3. ASSUME NEW c \in candidates
        PROVE  \E a \in DOMAIN owners : c \in Occurrences(text, a, owners[a])
    <2>1. PICK a \in DOMAIN owners : c \in Selected(text, Occurrences(text, a, owners[a]))
      BY DEF Candidates
    <2>2. c \in Occurrences(text, a, owners[a])
      BY <2>1, OccurrencesType, SelectedType
    <2>3. QED BY <2>2
  <1>4. ASSUME NEW a \in DOMAIN owners, NEW c \in Occurrences(text, a, owners[a])
        PROVE  /\ c \in terms /\ c.from \in DOMAIN text /\ c.to \in DOMAIN text /\ c.from <= c.to
               /\ c = [from |-> c.from, to |-> c.to, key |-> owners[SubSeq(text, c.from, c.to)]]
    <2>1. PICK p \in (DOMAIN text) \X (DOMAIN text) :
            StandsAt(text, a, p[1], p[2]) /\ c = [from |-> p[1], to |-> p[2], key |-> owners[a]]
      BY DEF Occurrences
    <2>2. SubSeq(text, p[1], p[2]) = a /\ p[1] <= p[2] /\ p \in places
      BY <2>1 DEF StandsAt
    <2>3. c = term[p]
      BY <2>1, <2>2
    <2>4. c.from = p[1] /\ c.to = p[2]
      BY <2>1
    <2>5. QED BY <2>1, <2>2, <2>3, <2>4
  <1> HIDE DEF terms
  <1>5. candidates \subseteq terms
    BY <1>3, <1>4
  <1>6. IsFiniteSet(candidates)
    BY <1>2, <1>5, FS_Subset
  <1>7. InText(text, candidates)
    BY <1>3, <1>4 DEF InText
  <1>8. \A c, d \in candidates : c.from = d.from /\ c.to = d.to => c = d
    BY <1>3, <1>4
  <1>9. QED BY <1>3, <1>6, <1>7, <1>8

(* Items that are in a text, in different places. *)
Apart(text, items) ==
  /\ Len(items) \in Nat /\ DOMAIN items = 1..Len(items)
  /\ \A n \in DOMAIN items :
       items[n].from \in DOMAIN text /\ items[n].to \in DOMAIN text /\ items[n].from <= items[n].to
  /\ \A n, k \in DOMAIN items : n # k => ~Overlap(items[n], items[k])

(* The items of a text are terms in different places. *)
LEMMA FindItemsType ==
  ASSUME NEW text \in Seq(Tokens), NEW owners
  PROVE  Apart(text, FindItems(text, owners))
  <1> DEFINE candidates == Candidates(text, owners)
             selected == Selected(text, candidates)
             items == FindItems(text, owners)
             size == Cardinality(selected)
  <1>1. /\ IsFiniteSet(candidates) /\ InText(text, candidates)
        /\ \A c, d \in candidates : c.from = d.from /\ c.to = d.to => c = d
    BY CandidatesType
  <1> HIDE DEF candidates
  <1>2. selected \in SUBSET candidates /\ Selection(text, candidates, selected)
    BY <1>1, SelectedType
  <1>3. items = InOrder(selected)
    BY DEF FindItems, candidates
  <1> HIDE DEF selected, items
  <1>4. ASSUME NEW c \in selected, NEW d \in selected, c # d
        PROVE  ~Overlap(c, d)
    <2>1. c.from # d.from \/ c.to # d.to
      BY <1>1, <1>2, <1>4
    <2>2. QED BY <1>1, <1>2, <2>1, SelectedApart
  <1>5. IsFiniteSet(selected)
    BY <1>1, <1>2, FS_Subset
  <1>6. \A c \in selected : c.from \in DOMAIN text /\ c.to \in DOMAIN text /\ c.from <= c.to
    BY <1>1, <1>2 DEF InText
  <1>7. \A c, d \in selected : c.from = d.from => c = d
    BY <1>4, <1>6 DEF Overlap
  <1>8. items \in Bijection(1..size, selected)
    <2>1. \A c \in selected : c.from \in Int
      BY <1>6
    <2>2. QED BY <1>3, <1>5, <1>7, <2>1, InOrderIsBijection
  <1>9. items \in [1..size -> selected] /\ \A n, k \in 1..size : items[n] = items[k] => n = k
    BY <1>8, Fun_BijectionProperties
  <1>10. size \in Nat
    BY <1>5, FS_CardinalityType
  <1> HIDE DEF size
  <1>11. Len(items) = size /\ DOMAIN items = 1..size
    BY <1>9, <1>10
  <1>12. \A n \in 1..size : items[n] \in selected
    BY <1>9
  <1>13. ASSUME NEW n \in 1..size
         PROVE  /\ items[n].from \in DOMAIN text /\ items[n].to \in DOMAIN text
                /\ items[n].from <= items[n].to
    BY <1>6, <1>12
  <1>14. \A n, k \in 1..size : n # k => ~Overlap(items[n], items[k])
    BY <1>4, <1>9, <1>12
  <1>15. QED BY <1>10, <1>11, <1>13, <1>14 DEF items, Apart

(* The quantities of a text are what its numbers begin. *)
LEMMA FindQuantitiesType ==
  ASSUME NEW text \in Seq(Tokens)
  PROVE  ToSet(FindQuantities(text)) =
           {QuantityAt(text, i) : i \in {n \in DOMAIN text : text[n] \in DOMAIN NumberValues}}
  <1> DEFINE numbers == {n \in DOMAIN text : text[n] \in DOMAIN NumberValues}
             quantity == [i \in numbers |-> QuantityAt(text, i)]
             spans == {QuantityAt(text, i) : i \in numbers}
             size == Cardinality(spans)
  <1>1. IsFiniteSet(numbers)
    <2>1. IsFiniteSet(DOMAIN text)
      BY FS_Interval
    <2>2. QED BY <2>1, FS_Subset
  <1>2. IsFiniteSet(spans)
    <2>1. quantity \in Surjection(numbers, spans)
      <3> HIDE DEF numbers
      <3>1. quantity \in [numbers -> spans] /\ \A s \in spans : \E i \in numbers : quantity[i] = s
        OBVIOUS
      <3> HIDE DEF quantity, spans
      <3>2. QED BY <3>1, Fun_IsSurj
    <2>2. QED BY <1>1, <2>1, FS_Surjection
  <1>3. (\A s \in spans : s.from \in Int) /\ \A s, e \in spans : s.from = e.from => s = e
    BY DEF QuantityAt
  <1>4. FindQuantities(text) = InOrder(spans)
    BY DEF FindQuantities
  <1> HIDE DEF spans
  <1> DEFINE ordered == InOrder(spans)
  <1>5. ordered \in Bijection(1..size, spans)
    BY <1>2, <1>3, InOrderIsBijection
  <1> HIDE DEF size, ordered
  <1>6. /\ ordered \in [1..size -> spans]
        /\ \A s \in spans : \E n \in 1..size : ordered[n] = s
    <2>1. ordered \in [1..size -> spans] /\ ordered \in Surjection(1..size, spans)
      BY ONLY <1>5, Fun_BijectionProperties
    <2>2. QED BY ONLY <2>1 DEF Surjection
  <1>7. ToSet(ordered) = spans
    BY <1>6 DEF ToSet
  <1>8. QED BY <1>4, <1>7 DEF spans, ordered

(* Every quantity has a nearest item. *)
LEMMA NearestType ==
  ASSUME NEW text \in Seq(Tokens), NEW items, NEW size \in Nat, DOMAIN items = 1..size, size # 0,
         \A n \in 1..size : items[n].from \in DOMAIN text /\ items[n].to \in DOMAIN text,
         NEW q, q.from \in DOMAIN text, q.to \in DOMAIN text
  PROVE  Nearest(text, q, items) \in 1..size
  <1> DEFINE d(n) == Distance(text, q, items[n])
             distances == {d(n) : n \in 1..size}
  <1>1. ASSUME NEW n \in 1..size PROVE d(n) \in Nat
    <2>0. items[n].from \in DOMAIN text /\ items[n].to \in DOMAIN text
      OBVIOUS
    <2>1. /\ StartOf(text, items[n].from) \in Nat /\ EndOf(text, items[n].to) \in Nat
          /\ StartOf(text, q.from) \in Nat /\ EndOf(text, q.to) \in Nat
      BY <2>0, StartOfType
    <2>2. q.to < items[n].from => EndOf(text, q.to) <= StartOf(text, items[n].from)
      BY <2>0, LeftToRight
    <2>3. items[n].to < q.from => EndOf(text, items[n].to) <= StartOf(text, q.from)
      BY <2>0, LeftToRight
    <2>4. CASE q.to < items[n].from
      <3>1. d(n) = StartOf(text, items[n].from) - EndOf(text, q.to)
        BY <2>4 DEF Distance
      <3> HIDE DEF d
      <3>2. QED BY ONLY <2>1, <2>2, <2>4, <3>1
    <2>5. CASE ~(q.to < items[n].from) /\ items[n].to < q.from
      <3>1. d(n) = StartOf(text, q.from) - EndOf(text, items[n].to)
        BY <2>5 DEF Distance
      <3> HIDE DEF d
      <3>2. QED BY ONLY <2>1, <2>3, <2>5, <3>1
    <2>6. CASE ~(q.to < items[n].from) /\ ~(items[n].to < q.from)
      BY <2>6 DEF Distance
    <2>7. QED BY <2>4, <2>5, <2>6
  <1> HIDE DEF d
  <1>2. PICK least \in distances : \A k \in distances : least <= k
    <2>1. distances \in SUBSET Nat /\ d(1) \in distances
      BY <1>1
    <2> HIDE DEF distances
    <2>2. QED BY <2>1, Least
  <1> DEFINE nearest == {n \in 1..size : d(n) = least}
  <1>3. PICK n \in nearest : \A k \in nearest : n <= k
    <2>1. nearest \in SUBSET Nat /\ nearest # {}
      BY <1>2
    <2> HIDE DEF nearest
    <2>2. QED BY <2>1, Least
  <1>4. ASSUME NEW k \in 1..size PROVE d(n) < d(k) \/ (d(n) = d(k) /\ n <= k)
    <2>1. d(n) = least /\ least <= d(k) /\ d(k) \in Nat /\ least \in Nat
      BY <1>1, <1>2, <1>3
    <2>2. d(k) = least => n <= k
      BY <1>3
    <2>3. QED BY <2>1, <2>2
  <1>5. \E m \in DOMAIN items : \A k \in DOMAIN items : d(m) < d(k) \/ (d(m) = d(k) /\ m <= k)
    BY <1>3, <1>4
  <1>6. QED BY <1>5 DEF Nearest, d

-----------------------------------------------------------------------------
(* Counting words. *)

(* Sets that are in bijection have the same size. *)
LEMMA SameSize ==
  ASSUME NEW S, IsFiniteSet(S), NEW T, NEW f \in [S -> T],
         \A a, b \in S : f[a] = f[b] => a = b,
         \A t \in T : \E s \in S : f[s] = t
  PROVE  IsFiniteSet(T) /\ Cardinality(T) = Cardinality(S)
  <1>1. f \in Bijection(S, T)
    BY Fun_IsBij
  <1>2. ExistsBijection(S, T)
    BY <1>1 DEF ExistsBijection
  <1>3. QED BY <1>2, FS_Bijection

(* A set without two elements. *)
LEMMA AtMostOne ==
  ASSUME NEW S, IsFiniteSet(S), ~(Cardinality(S) > 1), NEW a \in S, NEW b \in S
  PROVE  a = b
  <1>1. Cardinality({b}) = 1 /\ IsFiniteSet({b}) /\ Cardinality(S) \in Nat
    BY FS_Singleton, FS_CardinalityType
  <1>2. Cardinality({b}) <= Cardinality(S) /\ (Cardinality(S) = Cardinality({b}) => S = {b})
    BY FS_Subset
  <1>3. QED BY <1>1, <1>2

(* Sizes of sets that are apart add up. *)
LEMMA SumOfTwo ==
  ASSUME NEW A, NEW B, IsFiniteSet(A), IsFiniteSet(B), A \intersect B = {}
  PROVE  /\ IsFiniteSet(A \union B)
         /\ Cardinality(A \union B) = Cardinality(A) + Cardinality(B)
  <1>1. /\ IsFiniteSet(A \union B)
        /\ Cardinality(A \union B) = Cardinality(A) + Cardinality(B) - Cardinality(A \cap B)
    BY FS_Union
  <1>2. Cardinality(A) \in Nat /\ Cardinality(B) \in Nat /\ Cardinality(A \cap B) = 0
    BY FS_CardinalityType, FS_EmptySet
  <1>3. QED BY <1>1, <1>2

(* Sizes of four sets that are apart. *)
LEMMA SumOfFour ==
  ASSUME NEW A, NEW B, NEW C, NEW D, IsFiniteSet(A), IsFiniteSet(B), IsFiniteSet(C), IsFiniteSet(D),
         A \intersect B = {}, A \intersect C = {}, A \intersect D = {},
         B \intersect C = {}, B \intersect D = {}, C \intersect D = {}
  PROVE  Cardinality(A \union B \union C \union D)
           = Cardinality(A) + Cardinality(B) + Cardinality(C) + Cardinality(D)
  <1>1. /\ IsFiniteSet(A \union B)
        /\ Cardinality(A \union B) = Cardinality(A) + Cardinality(B)
    BY SumOfTwo
  <1>2. (A \union B) \intersect C = {} /\ (A \union B \union C) \intersect D = {}
    OBVIOUS
  <1>3. /\ IsFiniteSet(A \union B \union C)
        /\ Cardinality(A \union B \union C) = Cardinality(A \union B) + Cardinality(C)
    BY ONLY <1>1, <1>2, IsFiniteSet(C), SumOfTwo
  <1>4. Cardinality(A \union B \union C \union D) = Cardinality(A \union B \union C) + Cardinality(D)
    BY ONLY <1>2, <1>3, IsFiniteSet(D), SumOfTwo
  <1>5. QED BY <1>1, <1>3, <1>4

(* Sizes of four sets that may overlap. *)
LEMMA SumOfFourBounds ==
  ASSUME NEW A, NEW B, NEW C, NEW D, IsFiniteSet(A), IsFiniteSet(B), IsFiniteSet(C), IsFiniteSet(D)
  PROVE  Cardinality(A \union B \union C \union D)
           <= Cardinality(A) + Cardinality(B) + Cardinality(C) + Cardinality(D)
  <1>1. ASSUME NEW S, NEW T, IsFiniteSet(S), IsFiniteSet(T)
        PROVE  /\ IsFiniteSet(S \union T)
               /\ Cardinality(S \union T) \in Nat /\ Cardinality(S) \in Nat /\ Cardinality(T) \in Nat
               /\ Cardinality(S \union T) <= Cardinality(S) + Cardinality(T)
    <2>1. /\ IsFiniteSet(S \union T) /\ IsFiniteSet(S \intersect T)
          /\ Cardinality(S \union T) = Cardinality(S) + Cardinality(T) - Cardinality(S \intersect T)
      BY <1>1, FS_Union, FS_Intersection
    <2>2. /\ Cardinality(S) \in Nat /\ Cardinality(T) \in Nat /\ Cardinality(S \intersect T) \in Nat
          /\ Cardinality(S \union T) \in Nat
      BY <1>1, <2>1, FS_CardinalityType
    <2>3. QED BY <2>1, <2>2
  <1>2. IsFiniteSet(A \union B) /\ IsFiniteSet(A \union B \union C)
    BY <1>1
  <1> DEFINE ab == Cardinality(A \union B)
             abc == Cardinality(A \union B \union C)
             abcd == Cardinality(A \union B \union C \union D)
             a == Cardinality(A)  b == Cardinality(B)  c == Cardinality(C)  d == Cardinality(D)
  <1>3. /\ ab \in Nat /\ abc \in Nat /\ abcd \in Nat /\ a \in Nat /\ b \in Nat /\ c \in Nat /\ d \in Nat
        /\ ab <= a + b /\ abc <= ab + c /\ abcd <= abc + d
    BY <1>1, <1>2
  <1> HIDE DEF ab, abc, abcd, a, b, c, d
  <1>4. abcd <= a + b + c + d
    BY <1>3
  <1>5. QED BY <1>4 DEF abcd, a, b, c, d

(* A list of these items, with the quantities given to them. *)
Listed(text, items, list) ==
  /\ DOMAIN list = DOMAIN items
  /\ \A n \in DOMAIN items :
       LET mine == Assigned(text, FindQuantities(text), items, n)
           q == IF mine = {} THEN [quantity |-> None, unit |-> None] ELSE CHOOSE m \in mine : TRUE
       IN  /\ list[n].name = SubSeq(text, items[n].from, items[n].to)
           /\ list[n].quantity = q.quantity /\ list[n].unit = q.unit

Places(text, items) == {i \in DOMAIN text : \E n \in DOMAIN items : Covers(items[n], i)}

WordsCounted(text, items, list) ==
  /\ IsFiniteSet(Places(text, items))
  /\ Cardinality(UNION {{n} \X DOMAIN list[n].name : n \in DOMAIN list}) = Cardinality(Places(text, items))

(* The words of the items: their number is that of the places they have.   *)
LEMMA WordsOfItems ==
  ASSUME NEW text \in Seq(Tokens), NEW items, Apart(text, items), NEW list, Listed(text, items, list)
  PROVE  WordsCounted(text, items, list)
  <1> DEFINE size == Len(items)
             names == [n \in 1..size |-> list[n].name]
             places == {i \in DOMAIN text : \E n \in 1..size : Covers(items[n], i)}
             words == UNION {{n} \X DOMAIN names[n] : n \in 1..size}
             home(i) == CHOOSE n \in 1..size : Covers(items[n], i)
             f == [i \in places |-> <<home(i), i - items[home(i)].from + 1>>]
  <1>0. /\ size \in Nat /\ DOMAIN items = 1..size /\ DOMAIN list = 1..size
        /\ \A n \in 1..size : /\ items[n].from \in DOMAIN text /\ items[n].to \in DOMAIN text
                               /\ items[n].from <= items[n].to
                               /\ names[n] = SubSeq(text, items[n].from, items[n].to)
        /\ \A n, k \in 1..size : n # k => ~Overlap(items[n], items[k])
    BY DEF Apart, Listed
  <1> HIDE DEF size, names
  <1>1. IsFiniteSet(places)
    <2>1. IsFiniteSet(DOMAIN text)
      BY FS_Interval
    <2>2. QED BY <2>1, FS_Subset
  <1>2. ASSUME NEW n \in 1..size
        PROVE  /\ items[n].from \in 1..Len(text) /\ items[n].to \in 1..Len(text)
               /\ items[n].from \in Int /\ items[n].to \in Int /\ items[n].from <= items[n].to
               /\ DOMAIN names[n] = 1..(items[n].to - items[n].from + 1)
    <2> DEFINE from == items[n].from
               to == items[n].to
    <2>1. from \in 1..Len(text) /\ to \in 1..Len(text) /\ from <= to
      BY <1>0
    <2> HIDE DEF from, to
    <2>2. SubSeq(text, from, to) = [k \in 1..(to - from + 1) |-> text[k + from - 1]]
      BY <2>1
    <2>3. names[n] = SubSeq(text, from, to)
      BY <1>0 DEF from, to
    <2>4. from \in Int /\ to \in Int
      BY <2>1
    <2>5. QED BY <2>1, <2>2, <2>3, <2>4 DEF from, to
  <1>3. ASSUME NEW i \in places
        PROVE  home(i) \in 1..size /\ Covers(items[home(i)], i) /\ i \in Int
    <2>1. i \in 1..Len(text) /\ \E n \in 1..size : Covers(items[n], i)
      OBVIOUS
    <2>2. home(i) = CHOOSE n \in 1..size : Covers(items[n], i)
      OBVIOUS
    <2> HIDE DEF home, places
    <2>3. home(i) \in 1..size /\ Covers(items[home(i)], i)
      BY ONLY <2>1, <2>2
    <2>4. i \in Int
      BY ONLY <2>1, text \in Seq(Tokens)
    <2>5. QED BY <2>3, <2>4
  <1> HIDE DEF home
  <1> DEFINE from(n) == items[n].from
             to(n) == items[n].to
  <1>4. ASSUME NEW n \in 1..size
         PROVE  /\ from(n) \in Int /\ to(n) \in Int /\ from(n) \in 1..Len(text) /\ to(n) \in 1..Len(text)
                /\ DOMAIN names[n] = 1..(to(n) - from(n) + 1)
    BY <1>2
  <1>5. \A n, i : Covers(items[n], i) <=> from(n) <= i /\ i <= to(n)
    BY DEF Covers
  <1> HIDE DEF from, to
  <1>6. ASSUME NEW i \in Int, NEW n \in 1..size, NEW k \in 1..size,
               Covers(items[n], i), Covers(items[k], i)
        PROVE  n = k
    <2>1. Overlap(items[n], items[k])
      <3>1. from(n) <= to(k) /\ from(k) <= to(n)
        <4>1. from(n) <= i /\ i <= to(n) /\ from(k) <= i /\ i <= to(k)
          BY ONLY <1>6, <1>5
        <4>2. from(n) \in Int /\ to(n) \in Int /\ from(k) \in Int /\ to(k) \in Int
          BY ONLY <1>4, n \in 1..size, k \in 1..size
        <4>3. QED BY ONLY <4>1, <4>2, i \in Int
      <3>2. QED BY <3>1 DEF Overlap, from, to
    <2>2. QED BY <1>0, <2>1
  <1>7. f \in [places -> words]
    <2>1. ASSUME NEW i \in places
          PROVE  <<home(i), i - from(home(i)) + 1>> \in words
      <3> DEFINE n == home(i)
      <3>1. n \in 1..size /\ Covers(items[n], i) /\ i \in Int
        BY <1>3
      <3> HIDE DEF n
      <3>2. from(n) <= i /\ i <= to(n)
        BY ONLY <1>5, <3>1
      <3>3. i - from(n) + 1 \in 1..(to(n) - from(n) + 1)
        BY ONLY <1>4, <3>1, <3>2
      <3>4. i - from(n) + 1 \in DOMAIN names[n]
        BY ONLY <1>4, <3>1, <3>3
      <3>5. QED BY <3>1, <3>4 DEF n
    <2>2. QED BY <2>1 DEF from
  <1>8. ASSUME NEW i \in places, NEW j \in places, f[i] = f[j] PROVE i = j
    <2>1. home(i) = home(j) /\ i - items[home(i)].from + 1 = j - items[home(j)].from + 1
      BY <1>8
    <2>2. i \in Int /\ j \in Int /\ items[home(i)].from \in Int
      BY <1>2, <1>3
    <2>3. QED BY <2>1, <2>2
  <1>9. ASSUME NEW w \in words PROVE \E i \in places : f[i] = w
    <2>1. PICK n \in 1..size : w \in {n} \X DOMAIN names[n]
      OBVIOUS
    <2>0. PICK k \in DOMAIN names[n] : w = <<n, k>>
      BY <2>1
    <2> DEFINE i == k + from(n) - 1
    <2>2. k \in 1..(to(n) - from(n) + 1)
      BY ONLY <1>4, <2>0, n \in 1..size
    <2>3. i \in 1..Len(text) /\ from(n) <= i /\ i <= to(n) /\ i \in Int /\ i - from(n) + 1 = k
      <3>1. from(n) \in 1..Len(text) /\ to(n) \in 1..Len(text) /\ Len(text) \in Nat
        BY ONLY <1>4, n \in 1..size, text \in Seq(Tokens)
      <3>2. QED BY ONLY <2>2, <3>1
    <2> HIDE DEF i
    <2>4. i \in DOMAIN text /\ Covers(items[n], i)
      <3>1. Covers(items[n], i)
        BY ONLY <1>5, <2>3
      <3>2. DOMAIN text = 1..Len(text)
        OBVIOUS
      <3>3. QED BY <2>3, <3>1, <3>2
    <2>5. i \in places
      BY <2>4
    <2>6. home(i) = n
      BY <1>3, <1>6, <2>3, <2>4, <2>5
    <2>7. QED BY <2>0, <2>3, <2>5, <2>6 DEF from
  <1> HIDE DEF f, words, places
  <1>10. Cardinality(words) = Cardinality(places)
    BY <1>1, <1>7, <1>8, <1>9, SameSize
  <1>11. places = Places(text, items) /\ words = UNION {{n} \X DOMAIN list[n].name : n \in DOMAIN list}
    <2>1. \A n \in 1..size : names[n] = list[n].name
      BY DEF names
    <2>2. words = UNION {{n} \X DOMAIN list[n].name : n \in 1..size}
      BY <2>1 DEF words
    <2>3. QED BY <1>0, <2>2 DEF Places, places
  <1>12. QED BY <1>1, <1>10, <1>11 DEF WordsCounted

Numbers(text) == {i \in DOMAIN text : text[i] \in DOMAIN NumberValues}
Measured(text) == {i \in Numbers(text) : HasUnit(text, i)}

QuantitiesCounted(text, list) ==
  /\ IsFiniteSet(Numbers(text)) /\ IsFiniteSet(Measured(text))
  /\ Cardinality({n \in DOMAIN list : list[n].quantity # None}) = Cardinality(Numbers(text))
  /\ Cardinality({n \in DOMAIN list : list[n].unit # None}) = Cardinality(Measured(text))

(* Every quantity is given to an item of its own.                          *)
LEMMA QuantitiesGiven ==
  ASSUME NEW text \in Seq(Tokens), NEW items, Apart(text, items), items # <<>>,
         ~TwoForOneItem(text, FindQuantities(text), items),
         NEW list, Listed(text, items, list)
  PROVE  QuantitiesCounted(text, list)
  <1> DEFINE size == Len(items)
             numbers == Numbers(text)
             quantities == {QuantityAt(text, i) : i \in numbers}
             near(i) == Nearest(text, QuantityAt(text, i), items)
             given(n) == {q \in quantities : Nearest(text, q, items) = n}
             hasQuantity == {n \in 1..size : list[n].quantity # None}
             hasUnit == {n \in 1..size : list[n].unit # None}
  <1>0. /\ size \in Nat /\ size # 0 /\ DOMAIN items = 1..size /\ DOMAIN list = 1..size
        /\ \A n \in 1..size : items[n].from \in DOMAIN text /\ items[n].to \in DOMAIN text
        /\ \A n \in 1..size :
             LET mine == Assigned(text, FindQuantities(text), items, n)
                 q == IF mine = {} THEN [quantity |-> None, unit |-> None] ELSE CHOOSE m \in mine : TRUE
             IN  list[n].quantity = q.quantity /\ list[n].unit = q.unit
    BY DEF Apart, Listed
  <1> HIDE DEF size
  <1>1. IsFiniteSet(numbers) /\ IsFiniteSet(Measured(text))
    <2>1. IsFiniteSet(DOMAIN text)
      BY FS_Interval
    <2>2. numbers \in SUBSET (DOMAIN text) /\ Measured(text) \in SUBSET (DOMAIN text)
      BY DEF Numbers, Measured
    <2>3. QED BY <2>1, <2>2, FS_Subset
  <1>2. ToSet(FindQuantities(text)) = quantities
    BY FindQuantitiesType DEF Numbers
  <1>3. \A n : Assigned(text, FindQuantities(text), items, n) = given(n)
    BY <1>2 DEF Assigned
  <1>4. ASSUME NEW i \in numbers
        PROVE  /\ i \in DOMAIN text /\ text[i] \in DOMAIN NumberValues
               /\ QuantityAt(text, i).from = i
               /\ QuantityAt(text, i).quantity # None
               /\ QuantityAt(text, i).unit # None <=> i \in Measured(text)
               /\ QuantityAt(text, i) \in given(near(i)) /\ near(i) \in 1..size
    <2>1. i \in DOMAIN text /\ text[i] \in DOMAIN NumberValues
      BY DEF Numbers
    <2>2. HasUnit(text, i) => i + 1 \in DOMAIN text
      BY <2>1 DEF HasUnit
    <2> DEFINE q == QuantityAt(text, i)
    <2>3. /\ q.from = i /\ q.to \in DOMAIN text /\ q.quantity # None
          /\ q.unit # None <=> i \in Measured(text)
      BY <2>1, <2>2, MeasuresAssumption DEF QuantityAt, HasUnit, Measured
    <2>4. q \in quantities
      OBVIOUS
    <2> HIDE DEF q
    <2>5. Nearest(text, q, items) \in 1..size
      BY <1>0, <2>1, <2>3, NearestType
    <2>6. QED BY <2>1, <2>3, <2>4, <2>5 DEF q
  <1>5. ASSUME NEW i \in numbers, NEW j \in numbers, near(i) = near(j) PROVE i = j
    <2> DEFINE n == near(i)
    <2>1. Assigned(text, FindQuantities(text), items, n) = given(n) /\ QuantityAt(text, i) \in given(n) /\ QuantityAt(text, j) \in given(n)
      BY <1>3, <1>4, <1>5
    <2>2. IsFiniteSet(given(n))
      <3> DEFINE f == [k \in numbers |-> QuantityAt(text, k)]
      <3>1. f \in [numbers -> quantities] /\ \A q \in quantities : \E k \in numbers : f[k] = q
        OBVIOUS
      <3> HIDE DEF f, quantities, numbers
      <3>2. IsFiniteSet(quantities)
        BY <1>1, <3>1, Fun_IsSurj, FS_Surjection
      <3>3. QED BY <3>2, FS_Subset
    <2>3. ~(Cardinality(given(n)) > 1)
      BY <1>0, <1>4, <2>1 DEF TwoForOneItem
    <2> HIDE DEF given, n
    <2>4. QuantityAt(text, i) = QuantityAt(text, j)
      BY ONLY <2>1, <2>2, <2>3, AtMostOne
    <2>5. QED BY <1>4, <2>4
  <1>6. ASSUME NEW n \in 1..size, given(n) # {}
        PROVE  \E i \in numbers : /\ near(i) = n /\ list[n].quantity = QuantityAt(text, i).quantity
                                  /\ list[n].unit = QuantityAt(text, i).unit
    <2> DEFINE q == CHOOSE m \in given(n) : TRUE
    <2>1. q \in given(n)
      BY <1>6
    <2>2. list[n].quantity = q.quantity /\ list[n].unit = q.unit
      BY <1>0, <1>3, <1>6
    <2> HIDE DEF q
    <2>3. QED BY <2>1, <2>2
  <1>7. ASSUME NEW n \in 1..size, given(n) = {}
        PROVE  list[n].quantity = None /\ list[n].unit = None
    BY <1>0, <1>3, <1>7
  <1> HIDE DEF near, given, quantities, numbers
  <1>8. ASSUME NEW i \in numbers
        PROVE  /\ list[near(i)].quantity = QuantityAt(text, i).quantity
               /\ list[near(i)].unit = QuantityAt(text, i).unit
    <2>1. PICK j \in numbers : /\ near(j) = near(i)
                               /\ list[near(i)].quantity = QuantityAt(text, j).quantity
                               /\ list[near(i)].unit = QuantityAt(text, j).unit
      BY <1>4, <1>6
    <2>2. j = i
      BY <1>5, <2>1
    <2>3. QED BY <2>1, <2>2
  <1>9. Cardinality(hasQuantity) = Cardinality(numbers)
    <2> DEFINE f == [i \in numbers |-> near(i)]
    <2>1. f \in [numbers -> hasQuantity] /\ \A i, j \in numbers : f[i] = f[j] => i = j
      BY <1>4, <1>5, <1>8
    <2>2. ASSUME NEW n \in hasQuantity PROVE \E i \in numbers : f[i] = n
      BY <1>6, <1>7
    <2> HIDE DEF f, hasQuantity
    <2>3. QED BY <1>1, <2>1, <2>2, SameSize
  <1>10. Cardinality(hasUnit) = Cardinality(Measured(text))
    <2> DEFINE measured == Measured(text)
               f == [i \in measured |-> near(i)]
    <2>1. measured \subseteq numbers
      BY DEF Measured, numbers
    <2>2. f \in [measured -> hasUnit] /\ \A i, j \in measured : f[i] = f[j] => i = j
      <3>1. ASSUME NEW i \in measured PROVE near(i) \in hasUnit /\ i \in numbers
        BY <1>4, <1>8, <2>1
      <3> HIDE DEF hasUnit, measured
      <3>2. QED BY <1>5, <3>1
    <2>3. ASSUME NEW n \in hasUnit PROVE \E i \in measured : f[i] = n
      <3>1. PICK i \in numbers : near(i) = n /\ list[n].unit = QuantityAt(text, i).unit
        BY <1>6, <1>7
      <3>2. QED BY <1>4, <3>1
    <2> HIDE DEF f, hasUnit, measured
    <2>4. QED BY <1>1, <2>2, <2>3, SameSize DEF measured
  <1>11. QED BY <1>0, <1>1, <1>9, <1>10 DEF numbers, QuantitiesCounted

(* The words of a text that is read, counted.                              *)
Counted(text, items) ==
  LET accounted ==
        Cardinality({i \in DOMAIN text : text[i] \in Fillers})
        + Cardinality(UNION {{n} \X DOMAIN items[n].name : n \in DOMAIN items})
        + Cardinality({n \in DOMAIN items : items[n].quantity # None})
        + Cardinality({n \in DOMAIN items : items[n].unit # None})
  IN  /\ Len(text) <= accounted
      /\ (\A n \in DOMAIN items : Plain(items[n].name)) => Len(text) = accounted

(* A list that is accepted consists of the items found, with the           *)
(* quantities given to them, and no word of the text is left over.         *)
LEMMA Accepted ==
  ASSUME NEW text, NEW table, ParseGroceryCommand(text, table).error = None
  PROVE  LET items == FindItems(text, AliasOwners(table))
             quantities == FindQuantities(text)
             result == ParseGroceryCommand(text, table).items
         IN  /\ items # <<>>
             /\ \A i \in DOMAIN text : \/ text[i] \in Fillers
                                       \/ \E s \in ToSet(items) \union ToSet(quantities) : Covers(s, i)
             /\ ~TwoForOneItem(text, quantities, items)
             /\ Listed(text, items, result)
  <1> DEFINE items == FindItems(text, AliasOwners(table))
             quantities == FindQuantities(text)
             result == ParseGroceryCommand(text, table).items
  <1>1. \A why \in {"alias", "nothing", "unsupported"} : Refused(why).error # None
    BY RefusalsAssumption DEF Refused
  <1>2. /\ InvalidAliases(table) = {} /\ items # <<>>
        /\ ResidualWords(text, items, quantities) \ (AllowedCommandWords \union Punctuation) = {}
        /\ ~TwoForOneItem(text, quantities, items)
    BY <1>1 DEF ParseGroceryCommand
  <1>3. \A i \in DOMAIN text : text[i] \in Fillers \/ \E s \in ToSet(items) \union ToSet(quantities) : Covers(s, i)
    BY <1>2 DEF ResidualWords, Fillers
  <1>4. result = [n \in DOMAIN items |->
          LET mine == Assigned(text, quantities, items, n)
              q == IF mine = {} THEN [quantity |-> None, unit |-> None] ELSE CHOOSE m \in mine : TRUE
          IN [name |-> SubSeq(text, items[n].from, items[n].to), key |-> items[n].key,
              quantity |-> q.quantity, unit |-> q.unit]]
    BY <1>1, <1>2 DEF ParseGroceryCommand
  <1> HIDE DEF items, quantities, result
  <1>5. /\ DOMAIN result = DOMAIN items
        /\ \A n \in DOMAIN items :
             LET mine == Assigned(text, quantities, items, n)
                 q == IF mine = {} THEN [quantity |-> None, unit |-> None] ELSE CHOOSE m \in mine : TRUE
             IN  /\ result[n].name = SubSeq(text, items[n].from, items[n].to)
                 /\ result[n].quantity = q.quantity /\ result[n].unit = q.unit
    BY <1>4
  <1>6. QED BY <1>2, <1>3, <1>5 DEF Listed, items, quantities, result

(* Every word is of some kind; when no item's name holds a number, a unit  *)
(* or a filler it is of one kind only, so the kinds add up.                *)
LEMMA NothingIsLost ==
  ASSUME NEW text \in Seq(Tokens), NEW table, ParseGroceryCommand(text, table).error = None
  PROVE  Counted(text, ParseGroceryCommand(text, table).items)
  <1> DEFINE items == FindItems(text, AliasOwners(table))
             quantities == FindQuantities(text)
             result == ParseGroceryCommand(text, table).items
  <1>1. Apart(text, items)
    BY FindItemsType
  <1>2. /\ items # <<>>
        /\ \A i \in DOMAIN text : \/ text[i] \in Fillers
                                  \/ \E s \in ToSet(items) \union ToSet(quantities) : Covers(s, i)
        /\ ~TwoForOneItem(text, quantities, items)
        /\ Listed(text, items, result)
    BY Accepted
  <1>3. ToSet(quantities) = {QuantityAt(text, i) : i \in Numbers(text)}
    BY FindQuantitiesType DEF Numbers
  <1> HIDE DEF items, result
  <1> DEFINE fillers == {i \in DOMAIN text : text[i] \in Fillers}
             places == Places(text, items)
             numbers == Numbers(text)
             units == {i + 1 : i \in Measured(text)}
  <1>4. QuantitiesCounted(text, result)
    BY <1>1, <1>2, QuantitiesGiven
  <1>5. WordsCounted(text, items, result)
    BY <1>1, <1>2, WordsOfItems
  <1>6. IsFiniteSet(units) /\ Cardinality(units) = Cardinality(Measured(text))
    <2> DEFINE f == [i \in Measured(text) |-> i + 1]
    <2>1. \A i \in Measured(text) : i \in Int
      BY DEF Measured, Numbers
    <2>2. f \in [Measured(text) -> units] /\ \A i, j \in Measured(text) : f[i] = f[j] => i = j
      BY <2>1
    <2>3. \A u \in units : \E i \in Measured(text) : f[i] = u
      OBVIOUS
    <2> HIDE DEF f, units
    <2>4. QED BY <1>4, <2>2, <2>3, SameSize DEF QuantitiesCounted
  <1>7. IsFiniteSet(DOMAIN text) /\ Cardinality(DOMAIN text) = Len(text) /\ IsFiniteSet(fillers)
    <2>1. DOMAIN text = 1..Len(text) /\ Len(text) \in Nat
      OBVIOUS
    <2>2. IsFiniteSet(DOMAIN text) /\ Cardinality(DOMAIN text) = Len(text)
      BY <2>1, FS_Interval
    <2>3. QED BY <2>2, FS_Subset
  <1>8. ASSUME NEW i \in numbers PROVE i \in DOMAIN text /\ text[i] \in DOMAIN NumberValues
    BY DEF Numbers
  <1>9. ASSUME NEW u \in units PROVE u \in DOMAIN text /\ text[u] \in DOMAIN UnitOwners
    BY DEF Measured, Numbers, HasUnit
  <1>10. DOMAIN text = fillers \union places \union numbers \union units
    <2>1. ASSUME NEW i \in DOMAIN text, i \notin fillers, i \notin places
          PROVE  i \in numbers \union units
      <3>1. PICK s \in ToSet(items) \union ToSet(quantities) : Covers(s, i)
        BY <1>2, <2>1
      <3>2. s \notin ToSet(items)
        BY <2>1, <3>1 DEF ToSet, Places
      <3>3. PICK k \in numbers : s = QuantityAt(text, k)
        BY <1>3, <3>1, <3>2
      <3>4. i = k \/ (i = k + 1 /\ HasUnit(text, k))
        BY <1>8, <3>1, <3>3 DEF QuantityAt, Covers
      <3>5. QED BY <3>3, <3>4 DEF Measured
    <2>2. fillers \subseteq DOMAIN text /\ places \subseteq DOMAIN text
      BY DEF Places
    <2> HIDE DEF fillers, places, numbers, units
    <2>3. QED BY <1>8, <1>9, <2>1, <2>2
  <1>11. /\ fillers \intersect numbers = {} /\ fillers \intersect units = {}
         /\ numbers \intersect units = {}
    <2>1. \A i \in fillers : text[i] \in Fillers
      OBVIOUS
    <2> HIDE DEF fillers, places, numbers, units
    <2>2. QED BY <1>8, <1>9, <2>1, WordsAssumption DEF Measures
  <1>12. ASSUME \A n \in DOMAIN result : Plain(result[n].name)
         PROVE  /\ fillers \intersect places = {} /\ places \intersect numbers = {}
                /\ places \intersect units = {}
    <2>1. ASSUME NEW i \in places PROVE text[i] \notin Measures \union Fillers
      <3>1. PICK n \in DOMAIN items : Covers(items[n], i)
        BY DEF Places
      <3>2. /\ items[n].from \in DOMAIN text /\ items[n].to \in DOMAIN text
            /\ items[n].from <= items[n].to
        BY <1>1 DEF Apart
      <3>3. Plain(SubSeq(text, items[n].from, items[n].to))
        BY <1>2, <1>12 DEF Listed
      <3>4. i \in DOMAIN text
        BY DEF Places
      <3>5. i \in items[n].from..items[n].to
        BY <3>1, <3>2, <3>4 DEF Covers
      <3>6. QED BY <3>2, <3>3, <3>5, PlainWords
    <2>2. \A i \in fillers : text[i] \in Fillers
      OBVIOUS
    <2> HIDE DEF fillers, places, numbers, units
    <2>3. QED BY <1>8, <1>9, <2>1, <2>2 DEF Measures
  <1> HIDE DEF fillers, places, numbers, units
  <1>13. /\ IsFiniteSet(places) /\ IsFiniteSet(numbers)
    BY <1>4, <1>5 DEF WordsCounted, QuantitiesCounted, places, numbers
  <1> DEFINE sum == Cardinality(fillers) + Cardinality(places) + Cardinality(numbers) + Cardinality(units)
  <1>14. /\ Len(text) <= sum
         /\ (\A n \in DOMAIN result : Plain(result[n].name)) => Len(text) = sum
    <2>1. Len(text) <= sum
      <3>1. Cardinality(fillers \union places \union numbers \union units) <= sum
        BY <1>6, <1>7, <1>13, SumOfFourBounds
      <3> HIDE DEF sum
      <3>2. QED BY <1>7, <1>10, <3>1
    <2>2. ASSUME \A n \in DOMAIN result : Plain(result[n].name) PROVE Len(text) = sum
      <3>1. /\ fillers \intersect places = {} /\ places \intersect numbers = {}
            /\ places \intersect units = {}
        BY <1>12, <2>2
      <3>2. QED BY <1>6, <1>7, <1>10, <1>11, <1>13, <3>1, SumOfFour
    <2>3. QED BY <2>1, <2>2
  <1>15. Counted(text, result)
    BY <1>4, <1>5, <1>6, <1>14
       DEF Counted, WordsCounted, QuantitiesCounted, fillers, places, numbers
  <1>16. QED BY <1>15 DEF result

-----------------------------------------------------------------------------
(* The parts of a text. *)

(* Where each of the parts of a sequence ends. *)
Ends(parts, whole, end) ==
  /\ end \in [0..Len(parts) -> Nat] /\ end[0] = 0 /\ end[Len(parts)] = Len(whole)
  /\ \A n \in 1..Len(parts) : /\ end[n] = end[n - 1] + Len(parts[n])
                              /\ end[n] <= Len(whole)
                              /\ \A k \in 1..Len(parts[n]) : whole[end[n - 1] + k] = parts[n][k]

(* What two sequences are when they are put together. *)
LEMMA Joined ==
  ASSUME NEW S, NEW a \in Seq(S), NEW b \in Seq(S)
  PROVE  /\ a \o b \in Seq(S) /\ Len(a \o b) = Len(a) + Len(b)
         /\ \A i \in 1..Len(a) : (a \o b)[i] = a[i]
         /\ \A k \in 1..Len(b) : (a \o b)[Len(a) + k] = b[k]
  BY ConcatProperties

(* Each part is in the whole, one after the other. *)
LEMMA FlattenSeqEnds ==
  ASSUME NEW S, NEW parts \in Seq(Seq(S)), parts # <<>>
  PROVE  \E end : Ends(parts, FlattenSeq(parts), end)
  <1> DEFINE flatten == CHOOSE f : f = [i \in 1..Len(parts) |->
                                          IF i = 1 THEN parts[i] ELSE f[i - 1] \o parts[i]]
             size == Len(parts)
             whole == FlattenSeq(parts)
  <1>1. flatten = [i \in 1..size |-> IF i = 1 THEN parts[i] ELSE flatten[i - 1] \o parts[i]]
    BY ConcatenationsExist
  <1>2. size \in Nat /\ size # 0 /\ \A n \in 1..size : parts[n] \in Seq(S) /\ Len(parts[n]) \in Nat
    OBVIOUS
  <1>3. whole = flatten[size]
    BY <1>2 DEF FlattenSeq
  <1> HIDE DEF flatten, size, whole
  <1>4. /\ flatten[1] = parts[1]
        /\ \A n \in 1..size : n # 1 => flatten[n] = flatten[n - 1] \o parts[n]
    <2> DEFINE next(n) == IF n = 1 THEN parts[n] ELSE flatten[n - 1] \o parts[n]
    <2>1. flatten = [n \in 1..size |-> next(n)]
      BY <1>1
    <2>2. \A n \in 1..size : flatten[n] = next(n)
      <3> HIDE DEF next
      <3>1. QED BY <2>1
    <2>3. 1 \in 1..size
      BY <1>2
    <2>4. QED BY <2>2, <2>3
  <1>5. \A n \in 1..size : flatten[n] \in Seq(S)
    <2> DEFINE Bad == {i \in 1..size : flatten[i] \notin Seq(S)}
    <2>1. Bad = {}
      <3> SUFFICES ASSUME Bad # {} PROVE FALSE
        OBVIOUS
      <3>1. PICK i \in Bad : \A k \in Bad : i <= k
        <4>1. Bad \in SUBSET Nat
          BY <1>2
        <4> HIDE DEF Bad
        <4>2. QED BY <4>1, Least
      <3>2. i # 1 => i - 1 \in 1..size /\ flatten[i - 1] \in Seq(S)
        BY <1>2, <3>1
      <3>3. parts[i] \in Seq(S) /\ i \in 1..size /\ flatten[i] \notin Seq(S)
        BY <1>2, <3>1
      <3>4. i # 1 => flatten[i - 1] \o parts[i] \in Seq(S)
        BY <3>2, <3>3
      <3>5. QED BY <1>4, <3>3, <3>4
    <2>2. QED BY <2>1
  <1> DEFINE end == [n \in 0..size |-> IF n = 0 THEN 0 ELSE Len(flatten[n])]
  <1>6. end \in [0..size -> Nat] /\ end[0] = 0 /\ end[size] = Len(whole)
    <2>1. \A n \in 1..size : Len(flatten[n]) \in Nat
      BY <1>5
    <2>2. \A n \in 0..size : n = 0 \/ n \in 1..size
      BY <1>2
    <2>3. QED BY <1>2, <1>3, <2>1, <2>2
  <1>7. ASSUME NEW n \in 1..size
        PROVE  /\ end[n] = end[n - 1] + Len(parts[n])
               /\ \A k \in 1..Len(parts[n]) : flatten[n][end[n - 1] + k] = parts[n][k]
    <2>1. n \in 0..size /\ n - 1 \in 0..size /\ parts[n] \in Seq(S)
      BY <1>2
    <2>2. CASE n = 1
      <3>1. end[1] = Len(parts[1]) /\ end[0] = 0
        BY <1>2, <1>4, <2>1, <2>2
      <3>2. \A k \in 1..Len(parts[1]) : 0 + k = k
        OBVIOUS
      <3> HIDE DEF end
      <3>3. QED BY <1>2, <1>4, <2>2, <3>1, <3>2
    <2>3. CASE n # 1
      <3>1. n - 1 \in 1..size /\ n # 0 /\ n - 1 # 0
        BY <1>2, <2>3
      <3>2. flatten[n - 1] \in Seq(S) /\ flatten[n] = flatten[n - 1] \o parts[n]
        BY <1>4, <1>5, <2>3, <3>1
      <3>3. end[n - 1] = Len(flatten[n - 1]) /\ end[n] = Len(flatten[n])
        BY <2>1, <3>1
      <3> HIDE DEF end
      <3>4. Len(flatten[n]) = Len(flatten[n - 1]) + Len(parts[n])
        BY ONLY <2>1, <3>2, Joined
      <3>5. \A k \in 1..Len(parts[n]) :
              (flatten[n - 1] \o parts[n])[Len(flatten[n - 1]) + k] = parts[n][k]
        <4> DEFINE a == flatten[n - 1]
                   b == parts[n]
        <4>1. a \in Seq(S) /\ b \in Seq(S)
          BY <2>1, <3>2
        <4> HIDE DEF a, b
        <4>2. \A k \in 1..Len(b) : (a \o b)[Len(a) + k] = b[k]
          BY ONLY <4>1, Joined
        <4>3. QED BY ONLY <4>2 DEF a, b
      <3>6. QED BY ONLY <3>2, <3>3, <3>4, <3>5
    <2>4. QED BY <2>2, <2>3
  <1> HIDE DEF end
  (* What is in one is in all that follow. *)
  <1>8. ASSUME NEW n \in 1..size
        PROVE  \A m \in n..size : /\ end[n] <= end[m]
                                  /\ \A i \in 1..end[n] : flatten[m][i] = flatten[n][i]
    <2> DEFINE Bad == {m \in n..size : ~(/\ end[n] <= end[m]
                                         /\ \A i \in 1..end[n] : flatten[m][i] = flatten[n][i])}
    <2>1. Bad = {}
      <3> SUFFICES ASSUME Bad # {} PROVE FALSE
        OBVIOUS
      <3>1. PICK m \in Bad : \A k \in Bad : m <= k
        <4>1. Bad \in SUBSET Nat
          BY <1>2
        <4> HIDE DEF Bad
        <4>2. QED BY <4>1, Least
      <3>2. m \in 1..size /\ m - 1 \in 0..size /\ n \in 0..size /\ m \in 0..size
        BY <1>2, <3>1
      <3>3. m # n
        <4>1. end[n] \in Nat
          BY <1>6, <3>2
        <4>2. m \in n..size /\ ~(end[n] <= end[m] /\ \A i \in 1..end[n] : flatten[m][i] = flatten[n][i])
          BY <3>1
        <4>3. QED BY ONLY <4>1, <4>2
      <3>4. m - 1 \in n..size /\ ~(m <= m - 1) /\ m # 1 /\ m - 1 \in 1..size
        BY <1>2, <3>1, <3>3
      <3>5. m - 1 \notin Bad
        <4> HIDE DEF Bad
        <4>1. QED BY ONLY <3>1, <3>4
      <3>6. /\ end[n] <= end[m - 1]
            /\ \A i \in 1..end[n] : flatten[m - 1][i] = flatten[n][i]
        BY <3>4, <3>5
      <3>7. end[m] = end[m - 1] + Len(parts[m]) /\ Len(parts[m]) \in Nat
        BY <1>2, <1>7, <3>2
      <3>8. end[n] \in Nat /\ end[m] \in Nat /\ end[m - 1] \in Nat
        BY <1>6, <3>2
      <3>9. end[m - 1] = Len(flatten[m - 1])
        BY <3>2, <3>4 DEF end
      <3>10. \A i \in 1..end[n] : flatten[m][i] = flatten[m - 1][i]
        <4>1. flatten[m] = flatten[m - 1] \o parts[m] /\ flatten[m - 1] \in Seq(S) /\ parts[m] \in Seq(S)
          BY <1>2, <1>4, <1>5, <3>2, <3>4
        <4>2. \A i \in 1..end[n] : i \in 1..Len(flatten[m - 1])
          BY ONLY <3>6, <3>8, <3>9
        <4>3. \A i \in 1..Len(flatten[m - 1]) : (flatten[m - 1] \o parts[m])[i] = flatten[m - 1][i]
          BY ONLY <4>1, Joined, ZenonT(30)
        <4>4. QED BY ONLY <4>1, <4>2, <4>3
      <3>11. QED BY <3>1, <3>6, <3>7, <3>8, <3>10, SMTT(30)
    <2>2. QED BY <2>1
  <1>9. ASSUME NEW n \in 1..size
        PROVE  /\ end[n] <= Len(whole)
               /\ \A k \in 1..Len(parts[n]) : whole[end[n - 1] + k] = parts[n][k]
    <2>1. size \in n..size /\ n \in 0..size /\ n - 1 \in 0..size
      BY <1>2
    <2>2. end[n] <= end[size] /\ \A i \in 1..end[n] : whole[i] = flatten[n][i]
      BY <1>3, <1>8, <2>1
    <2>3. end[n] \in Nat /\ end[n - 1] \in Nat /\ Len(parts[n]) \in Nat
      BY <1>2, <1>6, <2>1
    <2>4. ASSUME NEW k \in 1..Len(parts[n]) PROVE end[n - 1] + k \in 1..end[n]
      BY <1>7, <2>3
    <2>5. QED BY <1>6, <1>7, <2>2, <2>4
  <1>10. Ends(parts, whole, end)
    BY <1>6, <1>7, <1>9 DEF Ends, size
  <1>11. QED BY <1>10 DEF whole

(* Every place of the whole is in one of the parts. *)
LEMMA PartOf ==
  ASSUME NEW S, NEW parts \in Seq(Seq(S)), NEW whole \in Seq(S), NEW end, Ends(parts, whole, end),
         NEW i \in 1..Len(whole)
  PROVE  \E n \in 1..Len(parts) : end[n - 1] < i /\ i <= end[n]
  <1> DEFINE Enough == {n \in 0..Len(parts) : i <= end[n]}
  <1>1. PICK n \in Enough : \A k \in Enough : n <= k
    <2>1. Enough \in SUBSET Nat /\ Len(parts) \in Enough
      BY DEF Ends
    <2> HIDE DEF Enough
    <2>2. QED BY <2>1, Least
  <1>2. n # 0
    BY <1>1 DEF Ends
  <1>3. n \in 1..Len(parts) /\ n - 1 \in 0..Len(parts) /\ ~(n <= n - 1)
    BY <1>1, <1>2
  <1>4. n - 1 \notin Enough
    <2> HIDE DEF Enough
    <2>1. QED BY ONLY <1>1, <1>3
  <1>5. end[n - 1] \in Nat /\ ~(i <= end[n - 1])
    BY <1>3, <1>4 DEF Ends
  <1>6. QED BY <1>1, <1>3, <1>5

(* A part ends where or before the next ones end. *)
LEMMA EndsGrow ==
  ASSUME NEW parts, Len(parts) \in Nat, \A n \in 1..Len(parts) : Len(parts[n]) \in Nat,
         NEW whole, NEW end, Ends(parts, whole, end), NEW n \in 0..Len(parts)
  PROVE  \A m \in n..Len(parts) : end[n] <= end[m]
  <1> DEFINE Bad == {m \in n..Len(parts) : ~(end[n] <= end[m])}
  <1>1. Bad = {}
    <2> SUFFICES ASSUME Bad # {} PROVE FALSE
      OBVIOUS
    <2>1. PICK m \in Bad : \A k \in Bad : m <= k
      <3>1. Bad \in SUBSET Nat
        OBVIOUS
      <3> HIDE DEF Bad
      <3>2. QED BY <3>1, Least
    <2>2. m \in n..Len(parts) /\ ~(end[n] <= end[m])
      BY <2>1
    <2>3. end[n] \in Nat /\ end[m] \in Nat
      <3>1. n \in 0..Len(parts) /\ m \in 0..Len(parts)
        BY ONLY <2>2, n \in 0..Len(parts), Len(parts) \in Nat
      <3>2. end \in [0..Len(parts) -> Nat]
        BY DEF Ends
      <3>3. QED BY ONLY <3>1, <3>2
    <2>4. m # n
      BY ONLY <2>2, <2>3
    <2>5. m - 1 \in n..Len(parts) /\ m \in 1..Len(parts) /\ ~(m <= m - 1)
      BY <2>2, <2>4
    <2>6. m - 1 \notin Bad
      <3> HIDE DEF Bad
      <3>1. QED BY ONLY <2>1, <2>5
    <2>7. end[n] <= end[m - 1] /\ end[m - 1] \in Nat
      <3>1. m - 1 \in 0..Len(parts)
        BY ONLY <2>5, Len(parts) \in Nat
      <3>2. end \in [0..Len(parts) -> Nat]
        BY DEF Ends
      <3>3. end[m - 1] \in Nat
        BY ONLY <3>1, <3>2
      <3>4. QED BY <2>5, <2>6, <3>3
    <2>8. end[m] = end[m - 1] + Len(parts[m]) /\ Len(parts[m]) \in Nat
      BY <2>5 DEF Ends
    <2>9. QED BY <2>2, <2>3, <2>7, <2>8
  <1>2. QED BY <1>1

-----------------------------------------------------------------------------
(* Where the words of a clause are in what it says. *)
MeasureLength(c) == IF c.place = "none" THEN 0 ELSE IF c.unit = None THEN 1 ELSE 2
BeforePhrase(c) == IF c.place = "before" THEN MeasureLength(c) ELSE 0
NumberAt(c) == IF c.place = "before" THEN 1 ELSE Len(c.phrase) + 1

(* What a clause without "of" consists of. *)
LEMMA ClauseType ==
  ASSUME NEW c \in ClauseForms, c.place # "of"
  PROVE  /\ c.phrase \in Seq(Tokens) /\ Len(c.phrase) \in Nat \ {0}
         /\ c.place \in {"none", "before", "after"}
         /\ c.place # "none" => c.number \in NumberWords /\ (c.unit # None => c.unit \in UnitWords)
  <1>1. c.phrase \in Seq(Tokens) /\ c.phrase # <<>>
    BY DEF ClauseForms, Phrases
  <1>2. c.place \in {"none", "before", "after"}
    BY DEF ClauseForms
  <1>3. c.place # "none" => c.number \in NumberWords /\ (c.unit # None => c.unit \in UnitWords)
    BY DEF ClauseForms
  <1>4. QED BY <1>1, <1>2, <1>3

(* The words that a clause says, and where they are. *)
LEMMA SaidWords ==
  ASSUME NEW c \in ClauseForms, c.place # "of"
  PROVE  /\ Said(c) \in Seq(Tokens) /\ Len(Said(c)) = MeasureLength(c) + Len(c.phrase)
         /\ \A k \in 1..Len(c.phrase) : Said(c)[BeforePhrase(c) + k] = c.phrase[k]
         /\ c.place # "none" => /\ Said(c)[NumberAt(c)] = c.number
                                /\ c.unit # None => Said(c)[NumberAt(c) + 1] = c.unit
  <1> DEFINE phrase == c.phrase
             measure == Measure(c)
  <1>1. /\ phrase \in Seq(Tokens) /\ Len(phrase) \in Nat
        /\ c.place \in {"none", "before", "after"}
        /\ c.place # "none" => c.number \in Tokens /\ (c.unit # None => c.unit \in Tokens)
    BY ClauseType DEF NumberWords, UnitWords
  <1>2. ASSUME c.place # "none"
        PROVE  /\ measure \in Seq(Tokens) /\ Len(measure) = MeasureLength(c)
               /\ measure[1] = c.number /\ 1 \in 1..Len(measure)
               /\ c.unit # None => measure[2] = c.unit /\ 2 \in 1..Len(measure)
    BY <1>1, <1>2 DEF Measure, MeasureLength
  <1> HIDE DEF phrase, measure
  <1>3. CASE c.place = "none"
    <2>1. Said(c) = phrase /\ MeasureLength(c) = 0 /\ BeforePhrase(c) = 0
      BY <1>3 DEF Said, MeasureLength, BeforePhrase, phrase
    <2>2. QED BY <1>1, <1>3, <2>1 DEF phrase
  <1>4. CASE c.place = "before"
    <2>1. Said(c) = measure \o phrase /\ BeforePhrase(c) = Len(measure) /\ NumberAt(c) = 1
      BY <1>2, <1>4 DEF Said, BeforePhrase, NumberAt, measure, phrase
    <2>2. /\ measure \o phrase \in Seq(Tokens) /\ Len(measure \o phrase) = Len(measure) + Len(phrase)
          /\ \A i \in 1..Len(measure) : (measure \o phrase)[i] = measure[i]
          /\ \A k \in 1..Len(phrase) : (measure \o phrase)[Len(measure) + k] = phrase[k]
      BY ONLY <1>1, <1>2, <1>4, Joined
    <2>3. 1 + 1 = 2
      OBVIOUS
    <2>4. QED BY <1>2, <1>4, <2>1, <2>2, <2>3 DEF phrase
  <1>5. CASE c.place = "after"
    <2>1. Said(c) = phrase \o measure /\ BeforePhrase(c) = 0 /\ NumberAt(c) = Len(phrase) + 1
      BY <1>5 DEF Said, BeforePhrase, NumberAt, measure, phrase
    <2>2. /\ phrase \o measure \in Seq(Tokens) /\ Len(phrase \o measure) = Len(phrase) + Len(measure)
          /\ \A i \in 1..Len(phrase) : (phrase \o measure)[i] = phrase[i]
          /\ \A k \in 1..Len(measure) : (phrase \o measure)[Len(phrase) + k] = measure[k]
      BY ONLY <1>1, <1>2, <1>5, Joined
    <2>3. /\ Len(phrase) + 1 + 1 = Len(phrase) + 2 /\ \A k \in 1..Len(phrase) : 0 + k = k
          /\ Len(phrase) + Len(measure) = Len(measure) + Len(phrase)
      BY <1>1, <1>2, <1>5
    <2>4. /\ Said(c)[NumberAt(c)] = measure[1]
          /\ c.unit # None => Said(c)[NumberAt(c) + 1] = measure[2]
      BY <1>2, <1>5, <2>1, <2>2, <2>3
    <2>5. /\ Said(c) \in Seq(Tokens) /\ Len(Said(c)) = MeasureLength(c) + Len(phrase)
          /\ \A k \in 1..Len(phrase) : Said(c)[BeforePhrase(c) + k] = phrase[k]
      BY <1>2, <1>5, <2>1, <2>2, <2>3
    <2>6. QED BY <1>2, <1>5, <2>4, <2>5 DEF phrase
  <1>6. QED BY <1>1, <1>3, <1>4, <1>5

(* Where the words of a clause are in a text. *)
Spot(c, base, final) ==
  [first  |-> base + 1,
   from   |-> base + BeforePhrase(c) + 1,
   to     |-> base + BeforePhrase(c) + Len(c.phrase),
   number |-> base + NumberAt(c),
   last   |-> base + NumberAt(c) + (IF c.unit = None THEN 0 ELSE 1),
   final  |-> final]

ClauseAt(text, c, a) ==
  /\ a.first \in Nat \ {0} /\ a.from \in Nat /\ a.to \in Nat /\ a.final \in Nat
  /\ a.first <= a.from /\ a.from <= a.to /\ a.to <= a.final /\ a.final <= Len(text)
  /\ SubSeq(text, a.from, a.to) = c.phrase
  /\ c.place # "none" =>
       /\ a.number \in Nat /\ a.last \in Nat
       /\ a.first <= a.number /\ a.number <= a.last /\ a.last <= a.final
       /\ text[a.number] = c.number
       /\ IF c.unit = None THEN a.last = a.number ELSE a.last = a.number + 1 /\ text[a.last] = c.unit
       /\ IF c.place = "before" THEN a.last + 1 = a.from ELSE a.number = a.to + 1 /\ a.last = a.final
  /\ \A i \in a.first..a.final :
       (a.from <= i /\ i <= a.to) \/ (c.place # "none" /\ a.number <= i /\ i <= a.last)

(* A text that consists of these clauses, with fillers between them. *)
LaidOut(text, said, at) ==
  /\ \A n \in DOMAIN said : ClauseAt(text, said[n], at[n])
  /\ \A n, k \in DOMAIN said : n < k => at[n].final + 1 < at[k].first
  /\ \A i \in DOMAIN text : \/ text[i] \in Fillers
                            \/ \E n \in DOMAIN said : at[n].first <= i /\ i <= at[n].final

(* What a clause says is where it has been put. *)
LEMMA SpotOfClause ==
  ASSUME NEW c \in ClauseForms, c.place # "of", NEW text \in Seq(Tokens), NEW base \in Nat,
         base + Len(Said(c)) <= Len(text),
         \A k \in 1..Len(Said(c)) : text[base + k] = Said(c)[k]
  PROVE  ClauseAt(text, c, Spot(c, base, base + Len(Said(c))))
  <1> DEFINE phrase == c.phrase
             size == Len(c.phrase)
             ahead == BeforePhrase(c)
             spot == Spot(c, base, base + Len(Said(c)))
  <1>1. /\ phrase \in Seq(Tokens) /\ size \in Nat \ {0} /\ c.place \in {"none", "before", "after"}
    BY ClauseType
  <1>2. /\ Len(Said(c)) = MeasureLength(c) + size
        /\ \A k \in 1..size : Said(c)[ahead + k] = phrase[k]
        /\ c.place # "none" => /\ Said(c)[NumberAt(c)] = c.number
                               /\ c.unit # None => Said(c)[NumberAt(c) + 1] = c.unit
    BY SaidWords
  <1>3. /\ MeasureLength(c) = IF c.place = "none" THEN 0 ELSE IF c.unit = None THEN 1 ELSE 2
        /\ ahead = IF c.place = "before" THEN MeasureLength(c) ELSE 0
        /\ NumberAt(c) = IF c.place = "before" THEN 1 ELSE size + 1
    BY DEF MeasureLength, BeforePhrase, NumberAt
  <1>4. /\ spot.first = base + 1 /\ spot.from = base + ahead + 1 /\ spot.to = base + ahead + size
        /\ spot.number = base + NumberAt(c)
        /\ spot.last = base + NumberAt(c) + (IF c.unit = None THEN 0 ELSE 1)
        /\ spot.final = base + Len(Said(c))
    BY DEF Spot
  <1> HIDE DEF phrase, size, ahead, spot
  <1>5. Len(text) \in Nat /\ ahead \in Nat /\ ahead + size <= Len(Said(c))
    BY <1>1, <1>2, <1>3
  <1>6. /\ spot.first \in Nat \ {0} /\ spot.from \in Nat /\ spot.to \in Nat /\ spot.final \in Nat
        /\ spot.first <= spot.from /\ spot.from <= spot.to /\ spot.to <= spot.final
        /\ spot.final <= Len(text)
    BY <1>1, <1>2, <1>3, <1>4, <1>5, SMTT(30)
  <1>7. SubSeq(text, spot.from, spot.to) = phrase
    <2>1. spot.from \in 1..Len(text) /\ spot.to \in 1..Len(text) /\ spot.to - spot.from + 1 = size
      BY <1>1, <1>4, <1>5, <1>6
    <2>2. \A k \in 1..size : text[spot.from + k - 1] = phrase[k]
      <3> SUFFICES ASSUME NEW k \in 1..size PROVE text[spot.from + k - 1] = phrase[k]
        OBVIOUS
      <3>1. spot.from + k - 1 = base + (ahead + k) /\ ahead + k \in 1..Len(Said(c))
        BY <1>1, <1>2, <1>3, <1>4, <1>5
      <3>2. QED BY <1>2, <3>1
    <2>3. SubSeq(text, spot.from, spot.to) = [k \in 1..size |-> text[k + spot.from - 1]]
      BY <2>1, SMTT(30)
    <2>4. phrase = [k \in 1..size |-> phrase[k]]
      BY <1>1 DEF size, phrase
    <2>5. \A k \in 1..size : text[k + spot.from - 1] = phrase[k]
      BY <2>1, <2>2
    <2>6. QED BY <2>3, <2>4, <2>5
  <1>8. ASSUME c.place # "none"
        PROVE  /\ spot.number \in Nat /\ spot.last \in Nat
               /\ spot.first <= spot.number /\ spot.number <= spot.last /\ spot.last <= spot.final
               /\ text[spot.number] = c.number
               /\ IF c.unit = None THEN spot.last = spot.number
                  ELSE spot.last = spot.number + 1 /\ text[spot.last] = c.unit
               /\ IF c.place = "before" THEN spot.last + 1 = spot.from
                  ELSE spot.number = spot.to + 1 /\ spot.last = spot.final
    <2>1. /\ spot.number \in Nat /\ spot.last \in Nat
          /\ spot.first <= spot.number /\ spot.number <= spot.last /\ spot.last <= spot.final
          /\ IF c.unit = None THEN spot.last = spot.number ELSE spot.last = spot.number + 1
          /\ IF c.place = "before" THEN spot.last + 1 = spot.from
             ELSE spot.number = spot.to + 1 /\ spot.last = spot.final
      <3> DEFINE more == IF c.unit = None THEN 0 ELSE 1
      <3>1. more \in {0, 1} /\ MeasureLength(c) = more + 1 /\ (more = 0 <=> c.unit = None)
        BY <1>3, <1>8
      <3>2. spot.last = base + NumberAt(c) + more
        BY <1>4
      <3> HIDE DEF more
      <3>3. CASE c.place = "before"
        <4>1. NumberAt(c) = 1 /\ ahead = more + 1 /\ Len(Said(c)) = more + 1 + size
          BY <1>2, <1>3, <3>1, <3>3
        <4>2. QED BY <1>1, <1>4, <3>1, <3>2, <3>3, <4>1
      <3>4. CASE c.place # "before"
        <4>1. NumberAt(c) = size + 1 /\ ahead = 0 /\ Len(Said(c)) = more + 1 + size
          BY <1>2, <1>3, <3>1, <3>4
        <4>2. QED BY <1>1, <1>4, <3>1, <3>2, <3>4, <4>1
      <3>5. QED BY <3>3, <3>4
    <2>2. /\ NumberAt(c) \in 1..Len(Said(c))
          /\ c.unit # None => NumberAt(c) + 1 \in 1..Len(Said(c))
      BY <1>1, <1>2, <1>3, <1>8
    <2>3. text[spot.number] = c.number
      BY <1>2, <1>4, <1>8, <2>2
    <2>4. c.unit # None => text[spot.last] = c.unit
      <3>1. c.unit # None => spot.last = base + (NumberAt(c) + 1)
        BY <1>4, <2>2
      <3>2. QED BY <1>2, <1>8, <2>2, <3>1
    <2>5. QED BY <2>1, <2>3, <2>4
  <1>9. ASSUME NEW i \in spot.first..spot.final
        PROVE  \/ spot.from <= i /\ i <= spot.to
               \/ c.place # "none" /\ spot.number <= i /\ i <= spot.last
    BY <1>1, <1>2, <1>3, <1>4, <1>5, SMTT(30)
  <1>10. QED BY <1>6, <1>7, <1>8, <1>9 DEF ClauseAt, spot, phrase

(* Clauses that are said one after the other.                              *)
LEMMA LayoutExists ==
  ASSUME NEW said \in Seq(ClauseForms), \A n \in DOMAIN said : said[n].place # "of",
         NEW between \in Fillers \intersect Tokens, NEW parts, NEW text \in Seq(Tokens),
         parts = [n \in DOMAIN said |-> IF n = 1 THEN Said(said[n])
                                        ELSE <<between>> \o Said(said[n])] \o << <<>> >>,
         text = FlattenSeq(parts)
  PROVE  \E at : LaidOut(text, said, at)
  <1> DEFINE size == Len(said)
             sep(n) == IF n = 1 THEN 0 ELSE 1
  <1>1. size \in Nat /\ DOMAIN said = 1..size
    OBVIOUS
  <1>2. ASSUME NEW n \in 1..size
        PROVE  /\ said[n] \in ClauseForms /\ said[n].place # "of"
               /\ Said(said[n]) \in Seq(Tokens) /\ Len(Said(said[n])) \in Nat
    <2>1. said[n] \in ClauseForms /\ said[n].place # "of"
      BY <1>1
    <2>2. QED BY <2>1, SaidWords
  <1> HIDE DEF size
  <1>3. /\ parts \in Seq(Seq(Tokens)) /\ Len(parts) = size + 1
        /\ \A n \in 1..size : parts[n] = IF n = 1 THEN Said(said[n]) ELSE <<between>> \o Said(said[n])
        /\ parts[size + 1] = <<>>
    <2> DEFINE phrases == [n \in 1..size |-> IF n = 1 THEN Said(said[n])
                                             ELSE <<between>> \o Said(said[n])]
    <2>1. phrases \in Seq(Seq(Tokens)) /\ Len(phrases) = size
      <3>1. ASSUME NEW n \in 1..size
            PROVE  (IF n = 1 THEN Said(said[n]) ELSE <<between>> \o Said(said[n])) \in Seq(Tokens)
        <4>1. <<between>> \in Seq(Tokens)
          OBVIOUS
        <4>2. QED BY <1>2, <4>1
      <3>2. phrases \in [1..size -> Seq(Tokens)]
        BY <3>1
      <3> HIDE DEF phrases
      <3>3. phrases \in Seq(Seq(Tokens))
        BY ONLY <1>1, <3>2
      <3>4. DOMAIN phrases = 1..size
        BY ONLY <3>2
      <3>5. QED BY ONLY <1>1, <3>3, <3>4
    <2> DEFINE empty == <<>>
               rest == <<empty>>
    <2>2. parts = phrases \o rest
      BY <1>1
    <2>3. rest \in Seq(Seq(Tokens)) /\ Len(rest) = 1 /\ rest[1] = empty
      <3>1. empty \in Seq(Tokens)
        OBVIOUS
      <3> HIDE DEF empty
      <3>2. QED BY <3>1
    <2>4. \A n \in 1..size : phrases[n] = IF n = 1 THEN Said(said[n]) ELSE <<between>> \o Said(said[n])
      OBVIOUS
    <2> HIDE DEF phrases, rest
    <2>5. \A n \in 1..Len(phrases) : (phrases \o rest)[n] = phrases[n]
      BY ONLY <2>1, <2>3, Joined
    <2>6. \A k \in 1..Len(rest) : (phrases \o rest)[Len(phrases) + k] = rest[k]
      BY ONLY <2>1, <2>3, Joined
    <2>7. phrases \o rest \in Seq(Seq(Tokens)) /\ Len(phrases \o rest) = Len(phrases) + Len(rest)
      BY ONLY <2>1, <2>3, Joined
    <2>8. parts[size + 1] = empty
      <3>1. 1 \in 1..Len(rest)
        BY ONLY <2>3
      <3>2. QED BY ONLY <2>1, <2>2, <2>3, <2>6, <3>1
    <2>9. QED BY <2>1, <2>2, <2>3, <2>4, <2>5, <2>7, <2>8
  <1>4. ASSUME NEW n \in 1..size
        PROVE  /\ Len(parts[n]) = sep(n) + Len(Said(said[n]))
               /\ n # 1 => parts[n][1] = between
               /\ \A k \in 1..Len(Said(said[n])) : parts[n][sep(n) + k] = Said(said[n])[k]
    <2> DEFINE words == Said(said[n])
               b == <<between>>
    <2>1. words \in Seq(Tokens) /\ Len(words) \in Nat
      BY <1>2
    <2>2. b \in Seq(Tokens) /\ Len(b) = 1 /\ b[1] = between
      OBVIOUS
    <2> HIDE DEF words, b
    <2>3. /\ Len(b \o words) = 1 + Len(words) /\ (b \o words)[1] = between
          /\ \A k \in 1..Len(words) : (b \o words)[1 + k] = words[k]
      <3>1. Len(b \o words) = Len(b) + Len(words)
        BY ONLY <2>1, <2>2, Joined
      <3>2. \A i \in 1..Len(b) : (b \o words)[i] = b[i]
        BY ONLY <2>1, <2>2, Joined
      <3>3. \A k \in 1..Len(words) : (b \o words)[Len(b) + k] = words[k]
        <4>1. b \in Seq(Tokens) /\ words \in Seq(Tokens)
          BY <2>1, <2>2
        <4>2. QED BY ONLY <4>1, Joined
      <3>4. QED BY <2>2, <3>1, <3>2, <3>3
    <2>4. parts[n] = IF n = 1 THEN words ELSE b \o words
      BY <1>3 DEF words, b
    <2>5. CASE n = 1
      <3>1. \A k \in 1..Len(words) : 0 + k = k
        OBVIOUS
      <3>2. QED BY <2>1, <2>4, <2>5, <3>1 DEF words
    <2>6. CASE n # 1
      BY <2>1, <2>3, <2>4, <2>6 DEF words
    <2>7. QED BY <2>5, <2>6
  <1>5. \A n \in 1..size + 1 : Len(parts[n]) \in Nat
    BY <1>3
  <1>6. PICK end : Ends(parts, text, end)
    <2>1. Len(parts) # 0
      BY <1>1, <1>3
    <2>2. parts # <<>>
      BY <2>1
    <2>3. QED BY <1>3, <2>2, FlattenSeqEnds
  <1>7. /\ \A n \in 0..(size + 1) : end[n] \in Nat
        /\ end[0] = 0 /\ end[size] = Len(text)
    <2>1. end \in [0..(size + 1) -> Nat] /\ end[0] = 0 /\ end[size + 1] = Len(text)
      BY <1>3, <1>6 DEF Ends
    <2>2. end[size + 1] = end[size] + Len(parts[size + 1])
      <3>1. size + 1 \in 1..Len(parts) /\ (size + 1) - 1 = size
        BY <1>1, <1>3
      <3>2. QED BY <1>6, <3>1 DEF Ends
    <2>3. Len(parts[size + 1]) = 0 /\ size \in 0..(size + 1)
      BY <1>1, <1>3
    <2>4. \A n \in 0..(size + 1) : end[n] \in Nat
      BY ONLY <2>1
    <2>5. end[size] \in Nat
      BY ONLY <2>3, <2>4
    <2>6. end[size] = Len(text)
      BY ONLY <2>1, <2>2, <2>3, <2>5
    <2>7. QED BY <2>1, <2>4, <2>6
  <1>8. ASSUME NEW n \in 1..size
        PROVE  /\ end[n] = end[n - 1] + sep(n) + Len(Said(said[n])) /\ end[n] <= Len(text)
               /\ n # 1 => text[end[n - 1] + 1] = between
               /\ \A k \in 1..Len(Said(said[n])) : text[end[n - 1] + sep(n) + k] = Said(said[n])[k]
    <2>1. n \in 1..Len(parts) /\ n - 1 \in 0..(size + 1)
      BY <1>1, <1>3
    <2>2. /\ end[n] = end[n - 1] + Len(parts[n]) /\ end[n] <= Len(text)
          /\ \A k \in 1..Len(parts[n]) : text[end[n - 1] + k] = parts[n][k]
      BY <1>6, <2>1 DEF Ends
    <2>3. end[n - 1] \in Nat /\ Len(Said(said[n])) \in Nat /\ sep(n) \in {0, 1} /\ (n # 1 => sep(n) = 1)
      BY <1>2, <1>7, <2>1
    <2> DEFINE s == sep(n)
               e == end[n - 1]
               p == Len(parts[n])
               w == Len(Said(said[n]))
    <2>8. e \in Nat /\ s \in {0, 1} /\ w \in Nat /\ p = s + w /\ (n # 1 => s = 1) /\ end[n] = e + p
      BY <1>4, <2>2, <2>3
    <2> HIDE DEF sep, s, e, p, w
    <2>4. ASSUME NEW k \in 1..Len(Said(said[n]))
          PROVE  text[end[n - 1] + sep(n) + k] = Said(said[n])[k]
      <3>1. sep(n) + k \in 1..Len(parts[n]) /\ end[n - 1] + (sep(n) + k) = end[n - 1] + sep(n) + k
        <4>1. \A j \in 1..w : s + j \in 1..p /\ e + (s + j) = e + s + j
          BY ONLY <2>8
        <4>2. QED BY <4>1 DEF s, e, p, w
      <3>2. QED BY <1>4, <2>2, <3>1
    <2>5. n # 1 => text[end[n - 1] + 1] = between
      <3>1. n # 1 => 1 \in 1..Len(parts[n])
        <4>1. n # 1 => 1 \in 1..p
          BY ONLY <2>8
        <4>2. QED BY <4>1 DEF p
      <3>2. QED BY <1>4, <2>2, <3>1
    <2>6. end[n] = end[n - 1] + sep(n) + Len(Said(said[n]))
      <3>1. end[n] = e + s + w
        BY ONLY <2>8
      <3>2. QED BY <3>1 DEF e, s, w
    <2>7. QED BY <2>2, <2>4, <2>5, <2>6
  <1> DEFINE base(n) == end[n - 1] + sep(n)
             at == [n \in 1..size |-> Spot(said[n], base(n), end[n])]
  <1>9. ASSUME NEW n \in 1..size
        PROVE  /\ base(n) \in Nat /\ end[n] \in Nat /\ at[n] = Spot(said[n], base(n), end[n])
               /\ at[n].first = base(n) + 1 /\ at[n].final = end[n]
    <2>1. n - 1 \in 0..(size + 1) /\ n \in 0..(size + 1)
      BY <1>1
    <2>2. base(n) \in Nat /\ end[n] \in Nat
      BY <1>7, <2>1
    <2> HIDE DEF base
    <2>3. QED BY <2>2 DEF Spot
  <1>10. ASSUME NEW n \in 1..size PROVE ClauseAt(text, said[n], at[n])
    <2>1. end[n] = base(n) + Len(Said(said[n])) /\ end[n] <= Len(text)
      BY <1>8
    <2>2. \A k \in 1..Len(Said(said[n])) : text[base(n) + k] = Said(said[n])[k]
      BY <1>8
    <2> HIDE DEF base, at
    <2>3. ClauseAt(text, said[n], Spot(said[n], base(n), end[n]))
      BY <1>2, <1>9, <2>1, <2>2, SpotOfClause
    <2>4. QED BY <1>9, <2>3
  <1> HIDE DEF at
  <1>11. ASSUME NEW n \in 1..size, NEW k \in 1..size, n < k PROVE at[n].final + 1 < at[k].first
    <2>1. n \in 0..Len(parts) /\ k - 1 \in n..Len(parts) /\ k - 1 \in 0..(size + 1) /\ k # 1
      BY <1>1, <1>3, <1>11
    <2>2. end[n] <= end[k - 1]
      <3>1. \A m \in 1..Len(parts) : Len(parts[m]) \in Nat
        BY <1>3, <1>5
      <3>2. Len(parts) \in Nat
        BY <1>1, <1>3
      <3>3. QED BY <1>6, <2>1, <3>1, <3>2, EndsGrow
    <2>3. at[k].first = end[k - 1] + 2 /\ at[n].final = end[n]
      <3>1. end[k - 1] \in Nat
        BY <1>7, <2>1
      <3>2. QED BY <1>9, <2>1, <3>1, SMTT(30)
    <2>4. end[n] \in Nat /\ end[k - 1] \in Nat
      BY <1>7, <1>9, <2>1
    <2>5. QED BY <2>2, <2>3, <2>4
  <1>12. ASSUME NEW i \in DOMAIN text
         PROVE  text[i] \in Fillers \/ \E n \in 1..size : at[n].first <= i /\ i <= at[n].final
    <2>1. i \in 1..Len(text) /\ i \in Nat
      OBVIOUS
    <2>2. PICK n \in 1..Len(parts) : end[n - 1] < i /\ i <= end[n]
      BY <1>3, <1>6, <2>1, PartOf
    <2>3. n \in 1..size
      <3>1. n # size + 1
        <4>1. (size + 1) - 1 = size /\ end[size] = Len(text) /\ i <= Len(text) /\ Len(text) \in Nat
          BY <1>1, <1>7, <2>1
        <4>2. QED BY <2>1, <2>2, <4>1
      <3>2. QED BY <1>1, <1>3, <2>2, <3>1
    <2>4. end[n - 1] \in Nat /\ at[n].first = end[n - 1] + sep(n) + 1 /\ at[n].final = end[n]
      <3>1. n - 1 \in 0..(size + 1)
        BY <1>1, <2>3
      <3>2. QED BY <1>7, <1>9, <2>3, <3>1
    <2>5. CASE n # 1 /\ i = end[n - 1] + 1
      BY <1>8, <2>3, <2>5
    <2>6. CASE ~(n # 1 /\ i = end[n - 1] + 1)
      <3>1. at[n].first <= i
        BY <2>1, <2>2, <2>4, <2>6
      <3>2. QED BY <2>2, <2>3, <2>4, <3>1
    <2>7. QED BY <2>5, <2>6
  <1>13. LaidOut(text, said, at)
    BY <1>1, <1>10, <1>11, <1>12 DEF LaidOut
  <1>14. QED BY <1>13

-----------------------------------------------------------------------------
(* Commands whose clauses are separated. *)

(* Spans that are numbered from left to right are in order. *)
LEMMA InOrderOf ==
  ASSUME NEW size \in Nat, NEW span, span = [n \in 1..size |-> span[n]],
         \A n \in 1..size : span[n].from \in Int,
         \A n, k \in 1..size : n < k => span[n].from < span[k].from
  PROVE  InOrder({span[n] : n \in 1..size}) = span
  <1> DEFINE spans == {span[n] : n \in 1..size}
             before(s) == {e \in spans : Before(e, s)}
  <1>1. \A n, k \in 1..size : span[n] = span[k] => n = k
    OBVIOUS
  <1>2. ASSUME NEW m \in 0..size
        PROVE  IsFiniteSet({span[k] : k \in 1..m}) /\ Cardinality({span[k] : k \in 1..m}) = m
    <2> DEFINE T == {span[k] : k \in 1..m}
               f == [k \in 1..m |-> span[k]]
    <2>1. IsFiniteSet(1..m) /\ Cardinality(1..m) = m
      BY FS_Interval
    <2>2. f \in [1..m -> T] /\ \A t \in T : \E k \in 1..m : f[k] = t
      OBVIOUS
    <2>3. \A k, l \in 1..m : f[k] = f[l] => k = l
      BY <1>1
    <2> HIDE DEF f, T
    <2>4. IsFiniteSet(T) /\ Cardinality(T) = m
      BY <2>1, <2>2, <2>3, SameSize
    <2>5. QED BY <2>4 DEF T
  <1>3. Cardinality(spans) = size
    <2>1. size \in 0..size
      OBVIOUS
    <2>2. QED BY <1>2, <2>1
  <1>4. ASSUME NEW n \in 1..size
        PROVE  Cardinality(before(span[n])) = n - 1
    <2>1. before(span[n]) = {span[k] : k \in 1..(n - 1)}
      <3>1. ASSUME NEW k \in 1..size PROVE Before(span[k], span[n]) <=> k < n
        BY DEF Before
      <3>2. \A k \in 1..size : k < n <=> k \in 1..(n - 1)
        OBVIOUS
      <3>3. \A k \in 1..(n - 1) : k \in 1..size
        OBVIOUS
      <3>4. QED BY <3>1, <3>2, <3>3
    <2>2. n - 1 \in 0..size
      OBVIOUS
    <2>3. QED BY <1>2, <2>1, <2>2
  <1>5. ASSUME NEW n \in 1..size
        PROVE  (CHOOSE s \in spans : Cardinality(before(s)) = n - 1) = span[n]
    <2>1. span[n] \in spans /\ Cardinality(before(span[n])) = n - 1
      BY <1>4
    <2>2. ASSUME NEW s \in spans, Cardinality(before(s)) = n - 1 PROVE s = span[n]
      <3>1. PICK k \in 1..size : s = span[k]
        OBVIOUS
      <3>2. k - 1 = n - 1
        BY <1>4, <2>2, <3>1
      <3>3. k = n
        BY <3>2
      <3>4. QED BY <3>1, <3>3
    <2> HIDE DEF spans, before
    <2>3. QED BY <2>1, <2>2
  <1>6. InOrder(spans) = [n \in 1..size |-> CHOOSE s \in spans : Cardinality(before(s)) = n - 1]
    BY <1>3 DEF InOrder
  <1> HIDE DEF spans, before
  <1>7. InOrder(spans) = [n \in 1..size |-> span[n]]
    BY <1>5, <1>6
  <1>8. QED BY <1>7 DEF spans

(* A span is not longer than one that it is in. *)
LEMMA InsideIsNotLonger ==
  ASSUME NEW text \in Seq(Tokens), NEW s, NEW e,
         s.from \in DOMAIN text, s.to \in DOMAIN text, e.from \in DOMAIN text, e.to \in DOMAIN text,
         s.from <= e.from, e.from <= e.to, e.to <= s.to
  PROVE  ~Longer(text, e, s)
  <1>1. \A i \in DOMAIN text : /\ StartOf(text, i) \in Nat /\ EndOf(text, i) \in Nat
                              /\ StartOf(text, i) < EndOf(text, i)
    <2>1. ASSUME NEW i \in DOMAIN text PROVE Length[text[i]] \in Nat \ {0}
      BY MeasuresAssumption DEF Tokens
    <2>2. QED BY <2>1, StartOfType DEF EndOf
  <1>2. s.from < e.from => StartOf(text, s.from) < StartOf(text, e.from)
    <2>1. s.from < e.from => EndOf(text, s.from) <= StartOf(text, e.from)
      BY LeftToRight
    <2>2. /\ StartOf(text, s.from) \in Nat /\ EndOf(text, s.from) \in Nat /\ StartOf(text, e.from) \in Nat
          /\ StartOf(text, s.from) < EndOf(text, s.from)
      BY <1>1
    <2>3. QED BY ONLY <2>1, <2>2
  <1>3. e.to < s.to => EndOf(text, e.to) < EndOf(text, s.to)
    BY LeftToRight
  <1>4. s.from \in Int /\ s.to \in Int /\ e.from \in Int /\ e.to \in Int
    OBVIOUS
  <1>5. /\ StartOf(text, s.from) \in Int /\ StartOf(text, e.from) \in Int
        /\ EndOf(text, s.to) \in Int /\ EndOf(text, e.to) \in Int
    BY <1>1
  <1>6. StartOf(text, s.from) <= StartOf(text, e.from) /\ EndOf(text, e.to) <= EndOf(text, s.to)
    <2>1. s.from = e.from \/ s.from < e.from
      BY <1>4
    <2>2. e.to = s.to \/ e.to < s.to
      BY <1>4
    <2>3. QED BY <1>2, <1>3, <1>5, <2>1, <2>2
  <1>7. Characters(text, e) <= Characters(text, s)
    BY <1>5, <1>6 DEF Characters
  <1>8. Characters(text, e) = Characters(text, s) => StartOf(text, s.from) = StartOf(text, e.from)
    BY <1>5, <1>6 DEF Characters
  <1>9. Characters(text, e) \in Int /\ Characters(text, s) \in Int
    BY <1>5 DEF Characters
  <1>10. QED BY <1>2, <1>4, <1>5, <1>7, <1>8, <1>9 DEF Longer, Before

-----------------------------------------------------------------------------
(* A command whose clauses can be told apart. *)
Dictated(text, said, at, owners) ==
  /\ LaidOut(text, said, at)
  /\ \A n \in DOMAIN said :
       said[n].place # "of" /\ said[n].phrase \in DOMAIN owners /\ Plain(said[n].phrase)
  /\ \A a \in Mentioned(text, owners) : Plain(a)

(* The clauses follow each other. *)
LEMMA ClausesApart ==
  ASSUME NEW text \in Seq(Tokens), NEW said \in Seq(ClauseForms), NEW at, NEW owners,
         Dictated(text, said, at, owners)
  PROVE  /\ \A n \in DOMAIN said :
              /\ at[n].from \in DOMAIN text /\ at[n].to \in DOMAIN text /\ at[n].from <= at[n].to
              /\ at[n].first \in Nat /\ at[n].final \in Nat
              /\ at[n].first <= at[n].from /\ at[n].to <= at[n].final
         /\ \A n, k \in DOMAIN said : n < k => at[n].to + 1 < at[k].from
  <1>1. ASSUME NEW n \in DOMAIN said
        PROVE  /\ at[n].from \in DOMAIN text /\ at[n].to \in DOMAIN text /\ at[n].from <= at[n].to
               /\ at[n].first \in Nat /\ at[n].final \in Nat
               /\ at[n].first <= at[n].from /\ at[n].to <= at[n].final
    <2>1. /\ at[n].first \in Nat \ {0} /\ at[n].from \in Nat /\ at[n].to \in Nat /\ at[n].final \in Nat
          /\ at[n].first <= at[n].from /\ at[n].from <= at[n].to /\ at[n].to <= at[n].final
          /\ at[n].final <= Len(text)
      BY DEF Dictated, LaidOut, ClauseAt
    <2>2. DOMAIN text = 1..Len(text) /\ Len(text) \in Nat
      OBVIOUS
    <2>3. QED BY <2>1, <2>2, SMTT(30)
  <1>2. ASSUME NEW n \in DOMAIN said, NEW k \in DOMAIN said, n < k
        PROVE  at[n].to + 1 < at[k].from
    <2>1. at[n].final + 1 < at[k].first
      BY <1>2 DEF Dictated, LaidOut
    <2>2. at[n].to \in Int /\ at[k].from \in Int
      BY <1>1
    <2>3. at[n].to <= at[n].final /\ at[n].final \in Int /\ at[k].first <= at[k].from /\ at[k].first \in Int
      BY <1>1
    <2>4. QED BY ONLY <2>1, <2>2, <2>3, SMTT(30)
  <1>3. QED BY <1>1, <1>2

(* A word that is no number, unit or filler is in a phrase. *)
LEMMA PlainIsPhrase ==
  ASSUME NEW text \in Seq(Tokens), NEW said \in Seq(ClauseForms), NEW at, NEW owners,
         Dictated(text, said, at, owners),
         NEW i \in DOMAIN text, text[i] \notin Measures \union Fillers
  PROVE  \E n \in DOMAIN said : at[n].from <= i /\ i <= at[n].to
  <1>1. PICK n \in DOMAIN said : at[n].first <= i /\ i <= at[n].final
    BY DEF Dictated, LaidOut
  <1>2. ClauseAt(text, said[n], at[n]) /\ said[n] \in ClauseForms /\ said[n].place # "of"
    BY DEF Dictated, LaidOut
  <1>3. i \in at[n].first..at[n].final
    BY <1>1, <1>2 DEF ClauseAt
  <1>4. CASE said[n].place # "none" /\ at[n].number <= i /\ i <= at[n].last
    <2>1. /\ at[n].number \in Nat /\ at[n].last \in Nat /\ text[at[n].number] = said[n].number
          /\ IF said[n].unit = None THEN at[n].last = at[n].number
             ELSE at[n].last = at[n].number + 1 /\ text[at[n].last] = said[n].unit
      BY <1>2, <1>4 DEF ClauseAt
    <2>2. said[n].number \in NumberWords /\ (said[n].unit # None => said[n].unit \in UnitWords)
      BY <1>2, <1>4, ClauseType
    <2>3. i = at[n].number \/ (said[n].unit # None /\ i = at[n].last)
      BY <1>3, <1>4, <2>1
    <2>4. QED BY <2>1, <2>2, <2>3 DEF NumberWords, UnitWords, Measures
  <1>5. QED BY <1>2, <1>3, <1>4 DEF ClauseAt

(* The words of a phrase are plain. *)
LEMMA PhraseIsPlain ==
  ASSUME NEW text \in Seq(Tokens), NEW said \in Seq(ClauseForms), NEW at, NEW owners,
         Dictated(text, said, at, owners),
         NEW n \in DOMAIN said, NEW i \in DOMAIN text, at[n].from <= i, i <= at[n].to
  PROVE  text[i] \notin Measures \union Fillers
  <1>1. at[n].from \in DOMAIN text /\ at[n].to \in DOMAIN text /\ at[n].from <= at[n].to
    BY ClausesApart
  <1>2. Plain(SubSeq(text, at[n].from, at[n].to))
    BY DEF Dictated, LaidOut, ClauseAt
  <1>3. i \in at[n].from..at[n].to
    BY <1>1
  <1>4. QED BY <1>1, <1>2, <1>3, PlainWords

(* A term that is found is in one phrase. *)
LEMMA OccurrenceInPhrase ==
  ASSUME NEW text \in Seq(Tokens), NEW said \in Seq(ClauseForms), NEW at, NEW owners,
         Dictated(text, said, at, owners),
         NEW a \in DOMAIN owners, NEW c \in Occurrences(text, a, owners[a])
  PROVE  \E n \in DOMAIN said : at[n].from <= c.from /\ c.to <= at[n].to
  <1>1. /\ c.from \in DOMAIN text /\ c.to \in DOMAIN text /\ c.from <= c.to
        /\ \A i \in c.from..c.to : text[i] \notin Measures \union Fillers
    <2>1. /\ c.from \in DOMAIN text /\ c.to \in DOMAIN text /\ c.from <= c.to
          /\ StandsAt(text, a, c.from, c.to)
      BY OccurrencesType DEF InText
    <2>2. Plain(a)
      BY <2>1 DEF Dictated, Mentioned
    <2>3. Plain(SubSeq(text, c.from, c.to))
      BY <2>1, <2>2 DEF StandsAt
    <2>4. QED BY <2>1, <2>3, PlainWords
  <1>2. PICK n \in DOMAIN said : at[n].from <= c.from /\ c.from <= at[n].to
    <2>1. c.from \in c.from..c.to
      BY <1>1
    <2>2. text[c.from] \notin Measures \union Fillers
      BY <1>1, <2>1
    <2>3. QED BY <1>1, <2>2, PlainIsPhrase
  <1>3. ASSUME ~(c.to <= at[n].to) PROVE FALSE
    <2> DEFINE j == at[n].to + 1
    <2>1. at[n].to \in Int /\ c.from \in Int /\ c.to \in Int
      BY <1>1, ClausesApart
    <2>2. j \in c.from..c.to
      BY <1>2, <1>3, <2>1
    <2>3. j \in DOMAIN text
      BY <1>1, <2>2
    <2> HIDE DEF j
    <2>4. PICK k \in DOMAIN said : at[k].from <= j /\ j <= at[k].to
      BY <1>1, <2>2, <2>3, PlainIsPhrase
    <2>5. /\ at[k].from \in Int /\ at[k].to \in Int /\ at[n].from \in Int /\ at[n].from <= at[n].to
          /\ n < k => at[n].to + 1 < at[k].from
          /\ k < n => at[k].to + 1 < at[n].from
      BY ClausesApart, SMTT(30)
    <2>6. n = k \/ n < k \/ k < n
      OBVIOUS
    <2>7. QED BY <2>1, <2>4, <2>5, <2>6, SMTT(30) DEF j
  <1>4. QED BY <1>2, <1>3

(* The items of a command are its phrases. *)
ItemsSaid(said, at, owners) ==
  [n \in DOMAIN said |-> [from |-> at[n].from, to |-> at[n].to, key |-> owners[said[n].phrase]]]

(* The items that are found are the phrases of the clauses. *)
LEMMA ItemsAreSaid ==
  ASSUME NEW text \in Seq(Tokens), NEW said \in Seq(ClauseForms), NEW at, NEW owners,
         Dictated(text, said, at, owners)
  PROVE  FindItems(text, owners) = ItemsSaid(said, at, owners)
  <1> DEFINE candidates == Candidates(text, owners)
             selected == Selected(text, candidates)
             item == ItemsSaid(said, at, owners)
  <1>1. /\ IsFiniteSet(candidates) /\ InText(text, candidates)
        /\ \A c, d \in candidates : c.from = d.from /\ c.to = d.to => c = d
        /\ \A c \in candidates : \E a \in DOMAIN owners : c \in Occurrences(text, a, owners[a])
    BY CandidatesType
  <1>2. ASSUME NEW n \in DOMAIN said
        PROVE  /\ said[n].phrase \in DOMAIN owners
               /\ item[n] \in Occurrences(text, said[n].phrase, owners[said[n].phrase])
               /\ item[n].from = at[n].from /\ item[n].to = at[n].to
               /\ item[n].from \in DOMAIN text /\ item[n].to \in DOMAIN text /\ item[n].from <= item[n].to
    <2>1. item[n] = [from |-> at[n].from, to |-> at[n].to, key |-> owners[said[n].phrase]]
      BY DEF ItemsSaid
    <2>2. at[n].from \in DOMAIN text /\ at[n].to \in DOMAIN text /\ at[n].from <= at[n].to
      BY ClausesApart
    <2>3. SubSeq(text, at[n].from, at[n].to) = said[n].phrase /\ said[n].phrase \in DOMAIN owners
      BY DEF Dictated, LaidOut, ClauseAt
    <2>4. text[at[n].from] \notin Punctuation
      <3>1. at[n].from <= at[n].from
        BY <2>2
      <3>2. QED BY <2>2, <3>1, PhraseIsPlain DEF Fillers
    <2>5. StandsAt(text, said[n].phrase, at[n].from, at[n].to)
      BY <2>2, <2>3, <2>4 DEF StandsAt
    <2> DEFINE p == <<at[n].from, at[n].to>>
    <2>6. /\ p \in (DOMAIN text) \X (DOMAIN text) /\ p[1] = at[n].from /\ p[2] = at[n].to
      BY <2>2
    <2> HIDE DEF p, item
    <2>7. item[n] \in Occurrences(text, said[n].phrase, owners[said[n].phrase])
      BY <2>1, <2>5, <2>6 DEF Occurrences
    <2>8. QED BY <2>1, <2>2, <2>3, <2>7
  <1> HIDE DEF candidates, item
  <1>3. selected \in SUBSET candidates /\ Selection(text, candidates, selected)
    BY <1>1, SelectedType
  <1> HIDE DEF selected
  <1>4. ASSUME NEW a \in DOMAIN owners, NEW c \in Occurrences(text, a, owners[a])
        PROVE  \E n \in DOMAIN said : /\ Overlap(c, item[n]) /\ ~Longer(text, c, item[n])
                                      /\ \A k \in DOMAIN said : Overlap(c, item[k]) => k = n
    <2>1. PICK n \in DOMAIN said : at[n].from <= c.from /\ c.to <= at[n].to
      BY OccurrenceInPhrase
    <2>2. c.from \in DOMAIN text /\ c.to \in DOMAIN text /\ c.from <= c.to
      BY OccurrencesType DEF InText
    <2>3. ~Longer(text, c, item[n])
      BY <1>2, <2>1, <2>2, InsideIsNotLonger
    <2>4. Overlap(c, item[n])
      <3>1. c.from \in Int /\ c.to \in Int /\ at[n].from \in Int /\ at[n].to \in Int
        BY <1>2, <2>2
      <3>2. QED BY <1>2, <2>1, <2>2, <3>1 DEF Overlap
    <2>5. ASSUME NEW k \in DOMAIN said, Overlap(c, item[k]) PROVE k = n
      <3>1. c.from <= at[k].to /\ at[k].from <= c.to
        BY <1>2, <2>5 DEF Overlap
      <3>2. /\ n < k => at[n].to + 1 < at[k].from
            /\ k < n => at[k].to + 1 < at[n].from
        BY ClausesApart
      <3>3. /\ c.from \in Int /\ c.to \in Int /\ at[n].from \in Int /\ at[n].to \in Int
            /\ at[k].from \in Int /\ at[k].to \in Int
        BY <1>2, <2>2, SMTT(30)
      <3>4. ~(n < k) /\ ~(k < n)
        BY ONLY <2>1, <3>1, <3>2, <3>3, SMTT(30)
      <3>5. QED BY <3>4
    <2>6. QED BY <2>3, <2>4, <2>5
  <1>5. ASSUME NEW n \in DOMAIN said PROVE item[n] \in candidates
    <2> DEFINE found == Occurrences(text, said[n].phrase, owners[said[n].phrase])
               taken == Selected(text, found)
    <2>1. taken \in SUBSET found /\ Selection(text, found, taken)
      BY OccurrencesType, SelectedType
    <2>2. item[n] \in found /\ said[n].phrase \in DOMAIN owners
      BY <1>2
    <2>3. ASSUME NEW e \in taken, Longer(text, e, item[n]) PROVE ~Overlap(e, item[n])
      BY <1>4, <2>1, <2>2, <2>3
    <2>4. taken \in {Selected(text, Occurrences(text, a, owners[a])) : a \in DOMAIN owners}
      BY <2>2
    <2> HIDE DEF found, taken
    <2>5. item[n] \in taken
      BY <2>1, <2>2, <2>3 DEF Selection
    <2>6. QED BY <2>4, <2>5 DEF candidates, Candidates
  <1>6. ASSUME NEW n \in DOMAIN said PROVE item[n] \in selected
    <2>1. ASSUME NEW e \in selected, Longer(text, e, item[n]) PROVE ~Overlap(e, item[n])
      BY <1>1, <1>3, <1>4, <2>1
    <2>2. QED BY <1>3, <1>5, <2>1 DEF Selection
  <1>7. ASSUME NEW e \in selected PROVE \E n \in DOMAIN said : e = item[n]
    <2>1. PICK n \in DOMAIN said : Overlap(e, item[n])
      BY <1>1, <1>3, <1>4
    <2>2. e \in candidates /\ item[n] \in candidates /\ item[n] \in selected
      BY <1>3, <1>6, <1>5
    <2>3. e.from = item[n].from /\ e.to = item[n].to
      BY <1>1, <1>3, <2>1, <2>2, SelectedApart
    <2>4. QED BY <1>1, <2>2, <2>3
  <1>8. selected = {item[n] : n \in DOMAIN said}
    BY <1>6, <1>7
  <1>9. InOrder({item[n] : n \in 1..Len(said)}) = item
    <2>1. Len(said) \in Nat /\ DOMAIN said = 1..Len(said)
      OBVIOUS
    <2>2. item = [n \in 1..Len(said) |-> item[n]]
      BY <2>1 DEF item, ItemsSaid
    <2>3. \A n \in 1..Len(said) : item[n].from \in Int /\ item[n].to \in Int
      BY <1>2, <2>1
    <2>4. ASSUME NEW n \in 1..Len(said), NEW k \in 1..Len(said), n < k
          PROVE  item[n].from < item[k].from
      <3>1. at[n].to + 1 < at[k].from
        BY <2>1, <2>4, ClausesApart
      <3>2. /\ item[n].from = at[n].from /\ item[k].from = at[k].from
            /\ item[n].to = at[n].to /\ item[n].from <= item[n].to
        BY <1>2, <2>1
      <3>3. item[n].from \in Int /\ item[n].to \in Int /\ item[k].from \in Int
        BY <2>3
      <3> DEFINE a == item[n].from
                 b == item[n].to
                 c == item[k].from
      <3>4. a \in Int /\ b \in Int /\ c \in Int /\ a <= b /\ b + 1 < c
        BY <3>1, <3>2, <3>3
      <3> HIDE DEF a, b, c
      <3>5. a < c
        BY <3>4
      <3>6. QED BY <3>5 DEF a, c
    <2>5. QED BY <2>1, <2>2, <2>3, <2>4, InOrderOf
  <1>10. FindItems(text, owners) = InOrder(selected)
    BY DEF FindItems, selected, candidates
  <1>11. DOMAIN said = 1..Len(said)
    OBVIOUS
  <1>12. QED BY <1>8, <1>9, <1>10, <1>11 DEF item

-----------------------------------------------------------------------------
(* The quantities of the clauses. *)

(* How far words are apart. *)
LEMMA GapsBetween ==
  ASSUME NEW text \in Seq(Tokens), NEW i \in DOMAIN text, NEW j \in DOMAIN text, i < j,
         text[j] \notin Punctuation
  PROVE  /\ StartOf(text, j) - EndOf(text, i) \in Int
         /\ j = i + 1 => StartOf(text, j) - EndOf(text, i) = 1
         /\ i + 1 < j => StartOf(text, j) - EndOf(text, i) > 1
  <1>1. DOMAIN text = 1..Len(text) /\ Len(text) \in Nat
    OBVIOUS
  <1>2. i \in Int /\ j \in Int /\ j # 1 /\ j - 1 \in DOMAIN text
    BY <1>1
  <1>3. StartOf(text, j) = EndOf(text, j - 1) + 1
    BY <1>2, StartOfNext DEF Gap
  <1>4. /\ StartOf(text, j) \in Nat /\ EndOf(text, i) \in Nat /\ EndOf(text, j - 1) \in Nat
    BY <1>2, StartOfType
  <1>5. i + 1 < j => EndOf(text, i) < EndOf(text, j - 1)
    <2>1. i + 1 < j => i < j - 1
      BY <1>2
    <2>2. QED BY <1>2, <2>1, LeftToRight
  <1>6. j = i + 1 => j - 1 = i
    BY <1>2
  <1>7. QED BY <1>3, <1>4, <1>5, <1>6

(* Nothing is said after a clause but a filler. *)
LEMMA FillerFollows ==
  ASSUME NEW text \in Seq(Tokens), NEW said \in Seq(ClauseForms), NEW at, NEW owners,
         Dictated(text, said, at, owners),
         NEW n \in DOMAIN said, at[n].final + 1 \in DOMAIN text
  PROVE  text[at[n].final + 1] \in Fillers
  <1> DEFINE i == at[n].final + 1
  <1>1. ASSUME NEW k \in DOMAIN said, at[k].first <= i, i <= at[k].final PROVE FALSE
    <2>1. /\ n < k => at[n].final + 1 < at[k].first
          /\ k < n => at[k].final + 1 < at[n].first
      BY DEF Dictated, LaidOut
    <2>2. /\ at[n].first \in Nat /\ at[n].final \in Nat /\ at[k].first \in Nat /\ at[k].final \in Nat
          /\ at[n].first <= at[n].final
      <3>1. /\ at[n].first <= at[n].from /\ at[n].from <= at[n].to /\ at[n].to <= at[n].final
            /\ at[n].from \in DOMAIN text /\ at[n].to \in DOMAIN text
            /\ at[n].first \in Nat /\ at[n].final \in Nat /\ at[k].first \in Nat /\ at[k].final \in Nat
        BY ClausesApart
      <3>2. at[n].from \in Int /\ at[n].to \in Int
        BY <3>1
      <3>3. QED BY ONLY <3>1, <3>2, SMTT(30)
    <2>3. n < k \/ k < n \/ n = k
      OBVIOUS
    <2>4. ~(n < k)
      BY ONLY <1>1, <2>1, <2>2
    <2>5. ~(k < n)
      <3>1. at[n].final + 1 <= at[k].final
        BY <1>1
      <3>2. ~(at[k].final + 1 < at[n].first)
        <4> DEFINE first == at[n].first
                   here  == at[n].final
                   there == at[k].final
        <4>1. first \in Int /\ here \in Int /\ there \in Int /\ first <= here /\ here + 1 <= there
          BY <2>2, <3>1
        <4> HIDE DEF first, here, there
        <4>2. ~(there + 1 < first)
          BY ONLY <4>1
        <4>3. QED BY <4>2 DEF first, there
      <3>3. QED BY <2>1, <3>2
    <2>6. n # k
      BY ONLY <1>1, <2>2
    <2>7. QED BY <2>3, <2>4, <2>5, <2>6
  <1>2. \/ text[i] \in Fillers
        \/ \E k \in DOMAIN said : at[k].first <= i /\ i <= at[k].final
    BY DEF Dictated, LaidOut
  <1>3. QED BY <1>1, <1>2

WithQuantity(said) == {n \in DOMAIN said : said[n].place # "none"}

QuantitySaid(said, at, n) ==
  [from     |-> at[n].number, to |-> at[n].last,
   quantity |-> NumberValues[said[n].number],
   unit     |-> IF said[n].unit = None THEN None ELSE UnitOwners[said[n].unit]]

(* The quantity that begins with the number of a clause. *)
LEMMA QuantityIsSaid ==
  ASSUME NEW text \in Seq(Tokens), NEW said \in Seq(ClauseForms), NEW at, NEW owners,
         Dictated(text, said, at, owners), NEW n \in WithQuantity(said)
  PROVE  /\ at[n].number \in DOMAIN text /\ at[n].last \in DOMAIN text
         /\ text[at[n].number] = said[n].number /\ said[n].number \in NumberWords
         /\ at[n].first <= at[n].number /\ at[n].number <= at[n].last /\ at[n].last <= at[n].final
         /\ \A i \in DOMAIN text : at[n].number < i /\ i <= at[n].last => text[i] \in DOMAIN UnitOwners
         /\ at[n].last + 1 = at[n].from \/ at[n].number = at[n].to + 1
         /\ QuantityAt(text, at[n].number) = QuantitySaid(said, at, n)
  <1>1. /\ n \in DOMAIN said /\ said[n] \in ClauseForms /\ said[n].place # "none"
        /\ ClauseAt(text, said[n], at[n])
    BY DEF WithQuantity, Dictated, LaidOut
  <1>2. /\ at[n].number \in Nat /\ at[n].last \in Nat /\ at[n].first \in Nat \ {0} /\ at[n].final \in Nat
        /\ at[n].first <= at[n].number /\ at[n].number <= at[n].last /\ at[n].last <= at[n].final
        /\ at[n].final <= Len(text) /\ text[at[n].number] = said[n].number
        /\ IF said[n].unit = None THEN at[n].last = at[n].number
           ELSE at[n].last = at[n].number + 1 /\ text[at[n].last] = said[n].unit
        /\ IF said[n].place = "before" THEN at[n].last + 1 = at[n].from
           ELSE at[n].number = at[n].to + 1 /\ at[n].last = at[n].final
    BY <1>1 DEF ClauseAt
  <1>3. DOMAIN text = 1..Len(text) /\ Len(text) \in Nat
    OBVIOUS
  <1>4. at[n].number \in DOMAIN text /\ at[n].last \in DOMAIN text
    BY <1>2, <1>3
  <1>5. said[n].number \in NumberWords /\ (said[n].unit # None => said[n].unit \in UnitWords)
    BY <1>1, ClauseType DEF Dictated
  <1>6. ASSUME NEW i \in DOMAIN text, at[n].number < i, i <= at[n].last PROVE text[i] \in DOMAIN UnitOwners
    <2>1. i \in Int
      BY <1>3
    <2>2. said[n].unit # None /\ i = at[n].last
      BY <1>2, <1>6, <2>1
    <2>3. QED BY <1>2, <1>5, <2>2 DEF UnitWords
  <1>7. HasUnit(text, at[n].number) <=> said[n].unit # None
    <2>1. CASE said[n].unit # None
      <3>1. at[n].number < Len(text) /\ text[at[n].number + 1] \in DOMAIN UnitOwners
        BY <1>2, <1>3, <1>5, <2>1 DEF UnitWords
      <3>2. QED BY <2>1, <3>1 DEF HasUnit
    <2>2. CASE said[n].unit = None
      <3> SUFFICES ASSUME HasUnit(text, at[n].number) PROVE FALSE
        BY <2>2
      <3> DEFINE i == at[n].last + 1
      <3>1. i \in DOMAIN text /\ text[i] \in Measures
        BY <1>2, <1>3, <2>2 DEF HasUnit, Measures
      <3>2. CASE said[n].place = "before"
        <4>1. at[n].from <= i /\ i <= at[n].to
          <5>1. i = at[n].from /\ at[n].from <= at[n].to
            BY <1>1, <1>2, <3>2, ClausesApart
          <5>2. i \in Int
            BY <1>2
          <5>3. QED BY <5>1, <5>2
        <4> HIDE DEF i
        <4>2. QED BY <1>1, <3>1, <4>1, PhraseIsPlain
      <3>3. CASE said[n].place # "before"
        <4>1. text[i] \in Fillers
          BY <1>1, <1>2, <3>1, <3>3, FillerFollows
        <4>2. QED BY <3>1, <4>1, WordsAssumption
      <3>4. QED BY <3>2, <3>3
    <2>3. QED BY <2>1, <2>2
  <1>8. QuantityAt(text, at[n].number) = QuantitySaid(said, at, n)
    <2>1. said[n].unit # None => text[at[n].number + 1] = said[n].unit
      BY <1>2
    <2>2. QED BY <1>2, <1>7, <2>1 DEF QuantityAt, QuantitySaid
  <1>9. QED BY <1>2, <1>4, <1>5, <1>6, <1>8

(* The numbers of a command are those of its clauses. *)
LEMMA NumbersAreSaid ==
  ASSUME NEW text \in Seq(Tokens), NEW said \in Seq(ClauseForms), NEW at, NEW owners,
         Dictated(text, said, at, owners)
  PROVE  ToSet(FindQuantities(text)) = {QuantitySaid(said, at, n) : n \in WithQuantity(said)}
  <1> DEFINE numbers == {i \in DOMAIN text : text[i] \in DOMAIN NumberValues}
  <1>1. ASSUME NEW i \in numbers PROVE \E n \in WithQuantity(said) : i = at[n].number
    <2>1. i \in DOMAIN text /\ text[i] \in Measures /\ text[i] \notin Fillers /\ text[i] \notin DOMAIN UnitOwners
      BY WordsAssumption DEF Measures
    <2>2. PICK n \in DOMAIN said : at[n].first <= i /\ i <= at[n].final
      BY <2>1 DEF Dictated, LaidOut
    <2>3. ~(at[n].from <= i /\ i <= at[n].to)
      BY <2>1, PhraseIsPlain
    <2>4. ClauseAt(text, said[n], at[n]) /\ i \in at[n].first..at[n].final
      <3>1. ClauseAt(text, said[n], at[n])
        BY DEF Dictated, LaidOut
      <3>2. at[n].first \in Int /\ at[n].final \in Int /\ i \in Int
        BY <2>1, <3>1 DEF ClauseAt
      <3>3. QED BY <2>2, <3>1, <3>2
    <2>5. said[n].place # "none" /\ at[n].number <= i /\ i <= at[n].last
      BY <2>3, <2>4 DEF ClauseAt
    <2>6. n \in WithQuantity(said)
      BY <2>5 DEF WithQuantity
    <2>7. ~(at[n].number < i)
      BY <2>1, <2>5, <2>6, QuantityIsSaid
    <2>8. at[n].number \in Int /\ i \in Int
      BY <2>1, <2>6, QuantityIsSaid
    <2>9. i = at[n].number
      BY ONLY <2>5, <2>7, <2>8
    <2>10. QED BY <2>6, <2>9
  <1>2. ASSUME NEW n \in WithQuantity(said)
        PROVE  at[n].number \in numbers /\ QuantityAt(text, at[n].number) = QuantitySaid(said, at, n)
    BY QuantityIsSaid DEF NumberWords
  <1>3. ToSet(FindQuantities(text)) = {QuantityAt(text, i) : i \in numbers}
    BY FindQuantitiesType
  <1> HIDE DEF numbers
  <1>4. QED BY <1>1, <1>2, <1>3

(* A quantity is next to the item of its own clause and next to no other.  *)
LEMMA NearestIsSaid ==
  ASSUME NEW text \in Seq(Tokens), NEW said \in Seq(ClauseForms), NEW at, NEW owners,
         Dictated(text, said, at, owners), NEW n \in WithQuantity(said)
  PROVE  Nearest(text, QuantitySaid(said, at, n), ItemsSaid(said, at, owners)) = n
  <1> DEFINE items == ItemsSaid(said, at, owners)
             q == QuantitySaid(said, at, n)
             d(k) == Distance(text, q, items[k])
  <1>1. n \in DOMAIN said /\ DOMAIN items = DOMAIN said /\ DOMAIN said = 1..Len(said)
    BY DEF WithQuantity, ItemsSaid
  <1>2. \A k \in DOMAIN said : items[k].from = at[k].from /\ items[k].to = at[k].to
    BY DEF ItemsSaid
  <1>3. q.from = at[n].number /\ q.to = at[n].last
    BY DEF QuantitySaid
  <1>4. /\ at[n].number \in DOMAIN text /\ at[n].last \in DOMAIN text
        /\ at[n].first <= at[n].number /\ at[n].number <= at[n].last /\ at[n].last <= at[n].final
        /\ at[n].last + 1 = at[n].from \/ at[n].number = at[n].to + 1
        /\ text[at[n].number] \notin Punctuation
    <2>1. text[at[n].number] \in Measures
      BY QuantityIsSaid DEF NumberWords, Measures
    <2>2. text[at[n].number] \notin Punctuation
      BY <2>1, WordsAssumption DEF Fillers
    <2>3. QED BY <2>2, QuantityIsSaid
  <1>5. ASSUME NEW k \in DOMAIN said
        PROVE  /\ at[k].from \in DOMAIN text /\ at[k].to \in DOMAIN text /\ at[k].from <= at[k].to
               /\ at[k].first \in Nat /\ at[k].final \in Nat
               /\ at[k].first <= at[k].from /\ at[k].to <= at[k].final
               /\ text[at[k].from] \notin Punctuation
    <2>1. /\ at[k].from \in DOMAIN text /\ at[k].to \in DOMAIN text /\ at[k].from <= at[k].to
          /\ at[k].first \in Nat /\ at[k].final \in Nat
          /\ at[k].first <= at[k].from /\ at[k].to <= at[k].final
      BY ClausesApart
    <2>2. at[k].from <= at[k].from
      BY <2>1
    <2>3. text[at[k].from] \notin Fillers
      BY <2>1, <2>2, PhraseIsPlain
    <2>4. QED BY <2>1, <2>3 DEF Fillers
  <1>6. /\ at[n].number \in Int /\ at[n].last \in Int
        /\ \A k \in DOMAIN said : at[k].from \in Int /\ at[k].to \in Int
    BY <1>4, <1>5
  <1> HIDE DEF items, q
  <1>7. d(n) = 1
    <2>1. CASE at[n].last + 1 = at[n].from
      <3>1. at[n].last < at[n].from
        BY <1>1, <1>6, <2>1
      <3>2. d(n) = StartOf(text, at[n].from) - EndOf(text, at[n].last)
        BY <1>1, <1>2, <1>3, <3>1 DEF Distance
      <3>3. StartOf(text, at[n].from) - EndOf(text, at[n].last) = 1
        BY <1>1, <1>4, <1>5, <2>1, <3>1, GapsBetween
      <3>4. QED BY <3>2, <3>3
    <2>2. CASE at[n].number = at[n].to + 1
      <3>1. at[n].to < at[n].number /\ ~(at[n].last < at[n].from)
        BY <1>1, <1>4, <1>5, <1>6, <2>2
      <3>2. d(n) = StartOf(text, at[n].number) - EndOf(text, at[n].to)
        BY <1>1, <1>2, <1>3, <3>1 DEF Distance
      <3>3. StartOf(text, at[n].number) - EndOf(text, at[n].to) = 1
        BY <1>1, <1>4, <1>5, <2>2, <3>1, GapsBetween
      <3>4. QED BY <3>2, <3>3
    <2>3. QED BY <1>4, <2>1, <2>2
  <1>8. ASSUME NEW k \in DOMAIN said, k # n PROVE d(k) \in Int /\ d(k) > 1
    <2>1. /\ n < k => at[n].final + 1 < at[k].first
          /\ k < n => at[k].final + 1 < at[n].first
      BY <1>1 DEF Dictated, LaidOut
    <2>2. CASE n < k
      <3>1. at[n].last + 1 < at[k].from /\ at[n].last < at[k].from
        <4>1. /\ at[n].final \in Int /\ at[k].first \in Int /\ at[k].first <= at[k].from
              /\ at[k].from \in Int /\ at[n].last \in Int
          BY <1>1, <1>5, <1>6
        <4>2. at[n].last <= at[n].final /\ at[n].final + 1 < at[k].first
          BY <1>4, <2>1, <2>2
        <4>3. QED BY ONLY <4>1, <4>2
      <3>2. d(k) = StartOf(text, at[k].from) - EndOf(text, at[n].last)
        BY <1>2, <1>3, <3>1 DEF Distance
      <3>3. /\ StartOf(text, at[k].from) - EndOf(text, at[n].last) \in Int
            /\ StartOf(text, at[k].from) - EndOf(text, at[n].last) > 1
        BY <1>4, <1>5, <3>1, GapsBetween
      <3> HIDE DEF d
      <3>4. QED BY ONLY <3>2, <3>3
    <2>3. CASE k < n
      <3>1. at[k].to + 1 < at[n].number /\ at[k].to < at[n].number /\ ~(at[n].last < at[k].from)
        <4>1. /\ at[n].first \in Int /\ at[k].final \in Int /\ at[k].to <= at[k].final
              /\ at[k].from \in Int /\ at[k].to \in Int /\ at[k].from <= at[k].to
              /\ at[n].number \in Int /\ at[n].last \in Int
          BY <1>1, <1>5, <1>6
        <4>2. /\ at[n].first <= at[n].number /\ at[n].number <= at[n].last
              /\ at[k].final + 1 < at[n].first
          BY <1>4, <2>1, <2>3
        <4>3. at[k].to + 1 < at[n].number
          BY ONLY <4>1, <4>2, SMTT(30)
        <4>4. at[k].to < at[n].number
          BY ONLY <4>1, <4>3
        <4>5. ~(at[n].last < at[k].from)
          BY ONLY <4>1, <4>2, <4>4, SMTT(30)
        <4>6. QED BY <4>3, <4>4, <4>5
      <3>2. d(k) = StartOf(text, at[n].number) - EndOf(text, at[k].to)
        BY <1>2, <1>3, <3>1 DEF Distance
      <3>3. /\ StartOf(text, at[n].number) - EndOf(text, at[k].to) \in Int
            /\ StartOf(text, at[n].number) - EndOf(text, at[k].to) > 1
        BY <1>4, <1>5, <3>1, GapsBetween
      <3> HIDE DEF d
      <3>4. QED BY ONLY <3>2, <3>3
    <2>4. QED BY <1>1, <1>8, <2>2, <2>3
  <1>9. Nearest(text, q, items) =
          CHOOSE m \in DOMAIN said : \A k \in DOMAIN said : d(m) < d(k) \/ (d(m) = d(k) /\ m <= k)
    BY <1>1 DEF Nearest
  <1> HIDE DEF d
  <1>10. \A k \in DOMAIN said : d(n) < d(k) \/ (d(n) = d(k) /\ n <= k)
    BY <1>1, <1>7, <1>8
  <1>11. ASSUME NEW m \in DOMAIN said, m # n PROVE ~(d(m) < d(n) \/ (d(m) = d(n) /\ m <= n))
    BY <1>7, <1>8, <1>11
  <1>12. QED BY <1>1, <1>9, <1>10, <1>11 DEF q, items

-----------------------------------------------------------------------------
(* A command is read as it was said. *)

(* What the clauses say, item by item. *)
ListSaid(said, table) ==
  [n \in DOMAIN said |->
     LET c == said[n]
     IN [name     |-> c.phrase,
         key      |-> IF c.phrase \in DOMAIN StandardTerms THEN StandardTerms[c.phrase]
                      ELSE table[c.phrase],
         quantity |-> IF c.place = "none" THEN None ELSE NumberValues[c.number],
         unit     |-> IF c.place = "none" \/ c.unit = None THEN None ELSE UnitOwners[c.unit]]]

(* Every item is given the quantity of its clause. *)
LEMMA AssignedAsSaid ==
  ASSUME NEW text \in Seq(Tokens), NEW said \in Seq(ClauseForms), NEW at, NEW owners,
         Dictated(text, said, at, owners), NEW n \in DOMAIN said
  PROVE  Assigned(text, FindQuantities(text), ItemsSaid(said, at, owners), n) =
           IF said[n].place = "none" THEN {} ELSE {QuantitySaid(said, at, n)}
  <1> DEFINE items == ItemsSaid(said, at, owners)
  <1>1. ToSet(FindQuantities(text)) = {QuantitySaid(said, at, m) : m \in WithQuantity(said)}
    BY NumbersAreSaid
  <1>2. \A m \in WithQuantity(said) : Nearest(text, QuantitySaid(said, at, m), items) = m
    BY NearestIsSaid
  <1>3. n \in WithQuantity(said) <=> said[n].place # "none"
    BY DEF WithQuantity
  <1> HIDE DEF items
  <1>4. Assigned(text, FindQuantities(text), items, n) =
          {q \in {QuantitySaid(said, at, m) : m \in WithQuantity(said)} : Nearest(text, q, items) = n}
    BY <1>1 DEF Assigned
  <1>5. QED BY <1>2, <1>3, <1>4 DEF items

(* No word but a filler is left over. *)
LEMMA NothingElseIsSaid ==
  ASSUME NEW text \in Seq(Tokens), NEW said \in Seq(ClauseForms), NEW at, NEW owners,
         Dictated(text, said, at, owners)
  PROVE  ResidualWords(text, ItemsSaid(said, at, owners), FindQuantities(text)) \subseteq Fillers
  <1> DEFINE items == ItemsSaid(said, at, owners)
             quantities == FindQuantities(text)
  <1>1. ASSUME NEW i \in DOMAIN text, \A s \in ToSet(items) \union ToSet(quantities) : ~Covers(s, i)
        PROVE  text[i] \in Fillers
    <2> SUFFICES ASSUME text[i] \notin Fillers PROVE FALSE
      OBVIOUS
    <2>1. PICK n \in DOMAIN said : at[n].first <= i /\ i <= at[n].final
      BY DEF Dictated, LaidOut
    <2>2. ClauseAt(text, said[n], at[n]) /\ i \in at[n].first..at[n].final
      <3>1. ClauseAt(text, said[n], at[n])
        BY DEF Dictated, LaidOut
      <3>2. at[n].first \in Int /\ at[n].final \in Int /\ i \in Int
        BY <3>1 DEF ClauseAt
      <3>3. QED BY <2>1, <3>1, <3>2
    <2>3. CASE at[n].from <= i /\ i <= at[n].to
      <3>1. items[n] \in ToSet(items) /\ Covers(items[n], i)
        BY <2>3 DEF ItemsSaid, ToSet, Covers
      <3>2. QED BY <1>1, <3>1
    <2>4. CASE said[n].place # "none" /\ at[n].number <= i /\ i <= at[n].last
      <3>1. n \in WithQuantity(said)
        BY <2>4 DEF WithQuantity
      <3>2. QuantitySaid(said, at, n) \in ToSet(quantities)
        BY <3>1, NumbersAreSaid
      <3>3. Covers(QuantitySaid(said, at, n), i)
        BY <2>4 DEF QuantitySaid, Covers
      <3>4. QED BY <1>1, <3>2, <3>3
    <2>5. QED BY <2>2, <2>3, <2>4 DEF ClauseAt
  <1>2. QED BY <1>1 DEF ResidualWords

(* A command whose clauses can be told apart is read as it was said.       *)
LEMMA ReadAsSaid ==
  ASSUME NEW text \in Seq(Tokens), NEW said \in Seq(ClauseForms), NEW at, NEW table,
         Dictated(text, said, at, AliasOwners(table)), InvalidAliases(table) = {}, said # <<>>
  PROVE  ParseGroceryCommand(text, table) =
           IF TooMuch(said) THEN Refused("unsupported")
           ELSE [items |-> ListSaid(said, table), error |-> None]
  <1> DEFINE owners == AliasOwners(table)
             items == FindItems(text, owners)
             quantities == FindQuantities(text)
             result == [n \in DOMAIN items |->
                          LET mine == Assigned(text, quantities, items, n)
                              q == IF mine = {} THEN [quantity |-> None, unit |-> None]
                                   ELSE CHOOSE m \in mine : TRUE
                          IN [name |-> SubSeq(text, items[n].from, items[n].to), key |-> items[n].key,
                              quantity |-> q.quantity, unit |-> q.unit]]
  <1> HIDE DEF owners
  <1>1. items = ItemsSaid(said, at, owners) /\ DOMAIN items = DOMAIN said
    <2>1. items = ItemsSaid(said, at, owners)
      BY ItemsAreSaid DEF owners
    <2>2. QED BY <2>1 DEF ItemsSaid
  <1>2. DOMAIN said = 1..Len(said) /\ Len(said) \in Nat /\ Len(said) # 0
    OBVIOUS
  <1>3. Len(items) = Len(said) /\ items # <<>>
    BY <1>1, <1>2
  <1> HIDE DEF items, quantities
  <1>4. ASSUME NEW n \in DOMAIN said
        PROVE  Assigned(text, quantities, items, n) =
                 IF said[n].place = "none" THEN {} ELSE {QuantitySaid(said, at, n)}
    BY <1>1, AssignedAsSaid DEF owners, quantities
  <1>5. ~TwoForOneItem(text, quantities, items)
    <2>1. ASSUME NEW n \in DOMAIN items PROVE ~(Cardinality(Assigned(text, quantities, items, n)) > 1)
      <3>1. Cardinality({}) = 0 /\ Cardinality({QuantitySaid(said, at, n)}) = 1
        BY FS_EmptySet, FS_Singleton
      <3>2. Cardinality(Assigned(text, quantities, items, n)) \in {0, 1}
        BY <1>1, <1>4, <3>1
      <3>3. QED BY <3>2
    <2>2. QED BY <2>1 DEF TwoForOneItem
  <1>6. ResidualWords(text, items, quantities) \ (AllowedCommandWords \union Punctuation) = {}
    <2>1. ResidualWords(text, items, quantities) \subseteq Fillers
      BY <1>1, NothingElseIsSaid DEF owners, quantities
    <2>2. QED BY <2>1 DEF Fillers
  <1>7. (\E q \in ToSet(quantities) : q.quantity \notin Quantities)
          <=> \E n \in DOMAIN said : said[n].place # "none" /\ NumberValues[said[n].number] \notin Quantities
    <2>1. ToSet(quantities) = {QuantitySaid(said, at, n) : n \in WithQuantity(said)}
      BY NumbersAreSaid DEF quantities, owners
    <2>2. \A n \in DOMAIN said : QuantitySaid(said, at, n).quantity = NumberValues[said[n].number]
      BY DEF QuantitySaid
    <2>3. QED BY <2>1, <2>2 DEF WithQuantity
  <1>8. Len(items) > MaxItems <=> Len(said) > MaxItems
    BY <1>3
  <1>9. ParseGroceryCommand(text, table) =
          IF TooMuch(said) THEN Refused("unsupported") ELSE [items |-> result, error |-> None]
    BY <1>3, <1>5, <1>6, <1>7, <1>8 DEF ParseGroceryCommand, TooMuch, items, quantities, owners
  <1>10. ASSUME NEW n \in DOMAIN said
         PROVE  result[n] = ListSaid(said, table)[n]
    <2> DEFINE c == said[n]
               mine == Assigned(text, quantities, items, n)
               q == IF mine = {} THEN [quantity |-> None, unit |-> None] ELSE CHOOSE m \in mine : TRUE
    <2>1. result[n] = [name |-> SubSeq(text, items[n].from, items[n].to), key |-> items[n].key,
                       quantity |-> q.quantity, unit |-> q.unit]
      BY <1>1
    <2>2. /\ q.quantity = IF c.place = "none" THEN None ELSE NumberValues[c.number]
          /\ q.unit = IF c.place = "none" \/ c.unit = None THEN None ELSE UnitOwners[c.unit]
      <3>1. CASE c.place = "none"
        <4>1. mine = {}
          BY <1>4, <3>1
        <4>2. q = [quantity |-> None, unit |-> None]
          BY <4>1
        <4> HIDE DEF q
        <4>3. QED BY <3>1, <4>2
      <3>2. CASE c.place # "none"
        <4>1. mine = {QuantitySaid(said, at, n)}
          BY <1>4, <3>2
        <4>2. q = QuantitySaid(said, at, n)
          <5> HIDE DEF mine
          <5>1. QED BY <4>1
        <4> HIDE DEF q
        <4>3. QED BY <3>2, <4>2 DEF QuantitySaid
      <3>3. QED BY <3>1, <3>2
    <2>3. /\ items[n] = [from |-> at[n].from, to |-> at[n].to, key |-> owners[c.phrase]]
          /\ SubSeq(text, at[n].from, at[n].to) = c.phrase /\ c.phrase \in DOMAIN owners
      BY <1>1 DEF ItemsSaid, Dictated, LaidOut, ClauseAt, owners
    <2>4. owners[c.phrase] = IF c.phrase \in DOMAIN StandardTerms THEN StandardTerms[c.phrase]
                             ELSE table[c.phrase]
      BY <2>3 DEF owners, AliasOwners, InvalidAliases, Remaps
    <2>8. items[n].from = at[n].from /\ items[n].to = at[n].to /\ items[n].key = owners[c.phrase]
      BY <2>3
    <2> HIDE DEF q, c, result
    <2>5. result[n] = [name |-> c.phrase, key |-> owners[c.phrase], quantity |-> q.quantity, unit |-> q.unit]
      BY <2>1, <2>3, <2>8
    <2>6. ListSaid(said, table)[n] =
            [name     |-> c.phrase,
             key      |-> IF c.phrase \in DOMAIN StandardTerms THEN StandardTerms[c.phrase] ELSE table[c.phrase],
             quantity |-> IF c.place = "none" THEN None ELSE NumberValues[c.number],
             unit     |-> IF c.place = "none" \/ c.unit = None THEN None ELSE UnitOwners[c.unit]]
      BY DEF ListSaid, c
    <2>7. QED BY <2>2, <2>4, <2>5, <2>6
  <1>11. result = [n \in DOMAIN said |-> result[n]]
    BY <1>1
  <1>12. ListSaid(said, table) = [n \in DOMAIN said |-> ListSaid(said, table)[n]]
    BY DEF ListSaid
  <1> HIDE DEF result
  <1>13. result = ListSaid(said, table)
    BY <1>10, <1>11, <1>12
  <1>14. QED BY <1>9, <1>13

-----------------------------------------------------------------------------
(* What the rules have been told. *)

(* What the requests ask, in words of the text. *)
Wording ==
  \A r \in Requests :
    Op(r) = "parse" => /\ intent[r].between \in Fillers \intersect Tokens
                       /\ intent[r].said \in Seq(ClauseForms)
                       /\ intent[r].rest \in Seq(Tokens)

(* The second inductive invariant: what a request of the rules has been    *)
(* told is what the parser has made of its text, with the aliases it has   *)
(* read.                                                                   *)
Heard ==
  /\ Wording
  /\ DOMAIN preview = Requests
  /\ \A r \in ReadByRules :
       pc[r] = "done" /\ preview[r].result = ParseGroceryCommand(Text(r), seen[r])

(* What has been heard is complete. *)
LEMMA HeardIsComplete == ASSUME Heard PROVE NothingIsLeftOut
  <1>1. ASSUME NEW r \in ReadByRules, preview[r].result.error = None
        PROVE  Counted(Text(r), preview[r].result.items)
    <2>1. r \in Requests /\ Op(r) = "parse"
      BY DEF ReadByRules, ParseRequests
    <2>2. Text(r) \in Seq(Tokens)
      BY <2>1, TextType DEF Heard, Wording
    <2>3. preview[r].result = ParseGroceryCommand(Text(r), seen[r])
      BY DEF Heard
    <2>4. QED BY <1>1, <2>2, <2>3, NothingIsLost
  <1>2. QED BY <1>1 DEF NothingIsLeftOut, Counted

(* The clauses of a command, without "of", lie side by side in its text.   *)
LEMMA TextLaidOut ==
  ASSUME NEW r \in Requests, intent[r].said \in Seq(ClauseForms),
         intent[r].between \in Fillers \intersect Tokens, intent[r].rest = <<>>,
         \A n \in DOMAIN intent[r].said : intent[r].said[n].place # "of"
  PROVE  /\ Text(r) \in Seq(Tokens)
         /\ \E at : LaidOut(Text(r), intent[r].said, at)
  <1> DEFINE said == intent[r].said
             between == intent[r].between
             parts == [n \in DOMAIN said |-> IF n = 1 THEN Said(said[n])
                                             ELSE <<between>> \o Said(said[n])] \o << <<>> >>
  <1>1. Text(r) \in Seq(Tokens)
    <2>1. <<>> \in Seq(Tokens)
      OBVIOUS
    <2>2. QED BY <2>1, TextType
  <1>2. Text(r) = FlattenSeq(parts)
    BY DEF Text
  <1> HIDE DEF parts
  <1>3. /\ said \in Seq(ClauseForms) /\ between \in Fillers \intersect Tokens
        /\ \A n \in DOMAIN said : said[n].place # "of"
    OBVIOUS
  <1>4. parts = [n \in DOMAIN said |-> IF n = 1 THEN Said(said[n])
                                       ELSE <<between>> \o Said(said[n])] \o << <<>> >>
    BY DEF parts
  <1> HIDE DEF said, between
  <1>5. \E at : LaidOut(Text(r), said, at)
    BY <1>1, <1>2, <1>3, <1>4, LayoutExists
  <1>6. QED BY <1>1, <1>5 DEF said

(* What has been heard is understood as it was said. *)
LEMMA HeardIsUnderstood == ASSUME Heard PROVE ClausesAreUnderstood
  <1> SUFFICES ASSUME NEW r \in ReadByRules,
                      \A n \in DOMAIN intent[r].said : intent[r].said[n].place # "of",
                      Clear(r), intent[r].said # <<>>, InvalidAliases(seen[r]) = {}
               PROVE  preview[r].result = IF TooMuch(intent[r].said) THEN Refused("unsupported")
                                          ELSE [items |-> Meaning(r), error |-> None]
    BY DEF ClausesAreUnderstood, UnderstoodAsSaid
  <1> DEFINE said == intent[r].said
             text == Text(r)
             table == seen[r]
  <1>1. r \in Requests /\ Op(r) = "parse"
    BY DEF ReadByRules, ParseRequests
  <1>2. intent[r].between \in Fillers \intersect Tokens /\ said \in Seq(ClauseForms)
    BY <1>1 DEF Heard, Wording
  <1>3. text \in Seq(Tokens) /\ \E at : LaidOut(text, said, at)
    BY <1>1, <1>2, TextLaidOut DEF Clear
  <1>4. PICK at : LaidOut(text, said, at)
    BY <1>3
  <1>5. \A a \in Mentioned(text, AliasOwners(table)) : Plain(a)
    <2>1. \A a \in Mentioned(text, table) : Plain(a)
      BY DEF Clear
    <2>2. \A a \in DOMAIN AliasOwners(table) : a \in DOMAIN StandardTerms \/ a \in DOMAIN table
      BY DEF AliasOwners
    <2>3. QED BY <2>1, <2>2, WordsAssumption DEF Mentioned
  <1>6. preview[r].result = ParseGroceryCommand(text, table)
    BY DEF Heard
  <1>7. Meaning(r) = ListSaid(said, table)
    BY DEF Meaning, ListSaid
  <1>8. /\ \A n \in DOMAIN said :
             said[n].place # "of" /\ said[n].phrase \in DOMAIN AliasOwners(table) /\ Plain(said[n].phrase)
        /\ InvalidAliases(table) = {} /\ said # <<>>
    BY DEF Clear
  <1> HIDE DEF said, text, table
  <1>9. Dictated(text, said, at, AliasOwners(table))
    BY <1>4, <1>5, <1>8 DEF Dictated
  <1>10. ParseGroceryCommand(text, table) =
           IF TooMuch(said) THEN Refused("unsupported")
           ELSE [items |-> ListSaid(said, table), error |-> None]
    BY <1>2, <1>3, <1>8, <1>9, ReadAsSaid
  <1>11. QED BY <1>6, <1>7, <1>10 DEF said

-----------------------------------------------------------------------------
(* Nothing has been heard at first. *)
LEMMA InitHeard == Init => Heard
  <1> SUFFICES ASSUME Init PROVE Heard
    OBVIOUS
  <1>1. Wording
    BY WordsAssumption DEF Init, AliasesInit, Op, Wording
  <1>2. ReadByRules = {} /\ DOMAIN preview = Requests
    BY DEF Init, ReadByRules, ParseRequests
  <1>3. QED BY <1>1, <1>2 DEF Heard

(* A step without a preview that leaves the requests that are done. *)
LEMMA HeardKept ==
  ASSUME Heard, UNCHANGED <<intent, preview>>,
         \A q \in Requests : pc[q] = "done" => pc'[q] = "done" /\ seen'[q] = seen[q]
  PROVE  Heard'
  <1>1. /\ \A r \in Requests : Op(r)' = Op(r) /\ Text(r)' = Text(r)
        /\ ParseRequests' = ParseRequests /\ Wording'
    BY DEF Op, Text, ParseRequests, Heard, Wording
  <1>2. ReadByRules' = ReadByRules
    BY <1>1 DEF ReadByRules
  <1>3. ASSUME NEW r \in ReadByRules
        PROVE  /\ pc'[r] = "done" /\ seen'[r] = seen[r] /\ preview'[r] = preview[r]
               /\ Text(r)' = Text(r)
    BY <1>1 DEF Heard, ReadByRules, ParseRequests
  <1>4. QED BY <1>1, <1>2, <1>3 DEF Heard

(* A request that is answered, or goes on, is one that was not done. *)
LEMMA MoveHeard ==
  ASSUME IInv, Heard, NEW r \in Requests, pc[r] # "done", NEW next, NEW value,
         pc' = [pc EXCEPT ![r] = next], seen' = [seen EXCEPT ![r] = value],
         UNCHANGED <<intent, preview>>
  PROVE  Heard'
  <1>1. \A q \in Requests : pc[q] = "done" => pc'[q] = "done" /\ seen'[q] = seen[q]
    BY DEF IInv, Shapes
  <1>2. QED BY <1>1, HeardKept

(* A request that is not done moves on with what it has read. *)
LEMMA LeaveHeard ==
  ASSUME IInv, Heard, NEW r \in Requests, pc[r] # "done", NEW next,
         pc' = [pc EXCEPT ![r] = next], UNCHANGED <<intent, preview, seen>>
  PROVE  Heard'
  <1>1. \A q \in Requests : pc[q] = "done" => pc'[q] = "done" /\ seen'[q] = seen[q]
    BY DEF IInv, Shapes
  <1>2. QED BY <1>1, HeardKept

(* The statements on the aliases leave what has been heard. *)
LEMMA AliasStepHeard ==
  ASSUME IInv, Heard, NEW r \in Requests, AliasStep(r), preview' = preview
  PROVE  Heard'
  <1>0. ASSUME pc[r] # "done", NEW a, Answer(r, a), UNCHANGED seen PROVE Heard'
    BY <1>0, LeaveHeard DEF Answer
  <1>1. ASSUME pc[r] # "done", NEW next, NEW value, Go(r, next, value) PROVE Heard'
    BY <1>1, MoveHeard DEF Go
  <1>2. CASE RequireMembershipForMutation(r)
    BY <1>0, <1>2, LeaveHeard DEF RequireMembershipForMutation
  <1>3. CASE GetForHousehold(r)
    BY <1>0, <1>1, <1>3 DEF GetForHousehold
  <1>4. CASE Check(r)
    BY <1>0, <1>1, <1>4 DEF Check
  <1>5. CASE Insert(r)
    BY <1>0, <1>5, LeaveHeard DEF Insert
  <1>6. CASE Update(r)
    <2>1. /\ pc[r] = "update"
          /\ \/ \E a : Answer(r, a) /\ UNCHANGED seen
             \/ pc' = [pc EXCEPT ![r] = "refresh"] /\ UNCHANGED <<intent, seen>>
      BY <1>6 DEF Update
    <2>2. QED BY <1>0, <2>1, LeaveHeard
  <1>7. CASE Refresh(r)
    BY <1>0, <1>7 DEF Refresh
  <1>8. CASE Delete(r)
    BY <1>0, <1>8 DEF Delete
  <1>9. QED BY <1>2, <1>3, <1>4, <1>5, <1>6, <1>7, <1>8 DEF AliasStep

(* A preview is what the parser has made of the text. *)
LEMMA PreviewHeard ==
  ASSUME IInv, Heard, NEW r \in Requests, NEW source, NEW reason, NEW result,
         pc[r] \in {"ask", "asked"}, Preview(r, source, reason, result),
         source = "rule_based" => result = ParseGroceryCommand(Text(r), seen[r])
  PROVE  Heard'
  <1>1. /\ preview' = [preview EXCEPT ![r] = [source |-> source, reason |-> reason, result |-> result]]
        /\ UNCHANGED <<aliases, seen, intent>>
        /\ pc' = [pc EXCEPT ![r] = "done"]
    BY DEF Preview, Answer
  <1>2. /\ \A q \in Requests : Op(q)' = Op(q) /\ Text(q)' = Text(q)
        /\ ParseRequests' = ParseRequests /\ Wording'
    BY <1>1 DEF Op, Text, ParseRequests, Heard, Wording
  <1>3. ASSUME NEW q \in ReadByRules'
        PROVE  /\ pc'[q] = "done"
               /\ preview'[q].result = ParseGroceryCommand(Text(q), seen[q])
    <2>1. q \in Requests /\ q \in ParseRequests /\ preview'[q] # None /\ preview'[q].source = "rule_based"
      BY <1>2 DEF ReadByRules, ParseRequests
    <2>2. CASE q = r
      <3>1. preview'[r] = [source |-> source, reason |-> reason, result |-> result] /\ pc'[r] = "done"
        BY <1>1 DEF Heard, IInv, Shapes
      <3>2. result = ParseGroceryCommand(Text(r), seen[r])
        BY <2>1, <2>2, <3>1
      <3>3. QED BY <2>2, <3>1, <3>2
    <2>3. CASE q # r
      <3>1. preview'[q] = preview[q] /\ pc'[q] = pc[q]
        BY <1>1, <2>1, <2>3 DEF Heard, IInv, Shapes
      <3>2. q \in ReadByRules
        BY <2>1, <3>1 DEF ReadByRules
      <3>3. QED BY <3>1, <3>2 DEF Heard
    <2>4. QED BY <2>2, <2>3
  <1>4. ASSUME NEW q \in ReadByRules' PROVE Text(q)' = Text(q) /\ seen'[q] = seen[q]
    BY <1>1, <1>2 DEF ReadByRules, ParseRequests
  <1>5. DOMAIN preview' = Requests
    BY <1>1 DEF Heard
  <1>6. QED BY <1>2, <1>3, <1>4, <1>5 DEF Heard

(* A command is heard when its preview is made. *)
LEMMA ParseStepHeard ==
  ASSUME IInv, Heard, NEW r \in Requests, ParseStep(r)
  PROVE  Heard'
  <1>0. ASSUME pc[r] # "done", NEW a, Refuse(r, a) PROVE Heard'
    BY <1>0, LeaveHeard DEF Refuse, Answer
  <1>1. ASSUME pc[r] # "done", NEW next, NEW value, Go(r, next, value), preview' = preview PROVE Heard'
    BY <1>1, MoveHeard DEF Go
  <1>2. CASE Authorize(r)
    BY <1>0, <1>1, <1>2 DEF Authorize
  <1>3. CASE ListForHousehold(r)
    BY <1>1, <1>3 DEF ListForHousehold
  <1>4. CASE Ask(r)
    <2>1. /\ pc[r] = "ask"
          /\ \/ \E a : Refuse(r, a)
             \/ \E reason : FallBack(r, reason)
             \/ Go(r, "asked", seen[r]) /\ preview' = preview
      BY <1>4 DEF Ask
    <2>2. CASE \E reason : FallBack(r, reason)
      BY <2>1, <2>2, PreviewHeard DEF FallBack
    <2>3. QED BY <1>0, <1>1, <2>1, <2>2
  <1>5. CASE Receive(r)
    <2>1. /\ pc[r] = "asked"
          /\ \/ \E response : Preview(r, "openrouter", None, response)
             \/ \E reason : FallBack(r, reason)
      BY <1>5 DEF Receive
    <2>2. CASE \E response : Preview(r, "openrouter", None, response)
      BY <2>1, <2>2, PreviewHeard
    <2>3. CASE \E reason : FallBack(r, reason)
      BY <2>1, <2>3, PreviewHeard DEF FallBack
    <2>4. QED BY <2>1, <2>2, <2>3
  <1>6. QED BY <1>2, <1>3, <1>4, <1>5 DEF ParseStep

(* Every step keeps Heard. *)
LEMMA NextHeard == IInv /\ Heard /\ [Next]_vars => Heard'
  <1> SUFFICES ASSUME IInv, Heard, [Next]_vars PROVE Heard'
    OBVIOUS
  <1>1. ASSUME NEW r \in Requests, ParseStep(r) PROVE Heard'
    BY <1>1, ParseStepHeard
  <1>2. ASSUME NEW r \in Requests, AliasStep(r), preview' = preview PROVE Heard'
    BY <1>2, AliasStepHeard
  <1>3. ASSUME NEW u \in Users, RemoveMember(u), preview' = preview PROVE Heard'
    BY <1>3, HeardKept DEF RemoveMember
  <1>4. CASE UNCHANGED vars
    BY <1>4, HeardKept DEF vars, aliasVars
  <1>5. QED BY <1>1, <1>2, <1>3, <1>4 DEF Next

(* What has been heard is so in every state of every behaviour.            *)
THEOREM AlwaysHeard == Spec => []Heard
  <1>1. IInv /\ Heard /\ [Next]_vars => (IInv /\ Heard)'
    BY NextIInv, NextHeard
  <1>2. Init => IInv /\ Heard
    BY InitIInv, InitHeard
  <1>3. QED BY <1>1, <1>2, PTL DEF Spec

(* README.md:415-417, rule_based_grocery_parser.py: whatever the aliases   *)
(* are and however they change meanwhile, every word of a command that the *)
(* rules accept is in an item, in a quantity or a filler, and in one only  *)
(* unless an item's name itself holds a number, a unit or a filler.        *)
THEOREM EveryWordIsRead == Spec => []NothingIsLeftOut
  <1>1. Heard => NothingIsLeftOut
    BY HeardIsComplete
  <1>2. QED BY <1>1, AlwaysHeard, PTL

(* README.md:414-416, rule_based_grocery_parser.py: whatever the aliases   *)
(* are and however they change meanwhile, a command that is made of        *)
(* clauses, with quantity and item next to each other, is read clause by   *)
(* clause or refused for its length or a quantity that no item may have,   *)
(* unless an alias that holds a number, a unit or a filler is in its text. *)
THEOREM ClausesRead == Spec => []ClausesAreUnderstood
  <1>1. Heard => ClausesAreUnderstood
    BY HeardIsUnderstood
  <1>2. QED BY <1>1, AlwaysHeard, PTL

=============================================================================
