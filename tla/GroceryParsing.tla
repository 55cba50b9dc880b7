--------------------------- MODULE GroceryParsing ---------------------------
(***************************************************************************)
(* A command on its way to a preview: the household's aliases are read,    *)
(* the text is screened and given to the provider, and the rule-based      *)
(* parser takes over when the provider has no usable result.  Meanwhile    *)
(* members change the aliases.                                             *)
(***************************************************************************)
EXTENDS HouseholdAliases, RuleBasedParser

CONSTANTS
  Instructions,              \* tokens that the prompt policy refuses
  MaxInputCharacters,        \* of a text that is sent to the provider
  MaxRelevantAliases,        \* of a prompt, 25 in the code
  Responses                  \* what the provider may answer

VARIABLE preview             \* request -> source, reason and result

vars == <<aliasVars, preview>>

Init == AliasesInit /\ preview = [r \in Requests |-> None]

ASSUME RefusalsAssumption ==
  None \notin {"injection", "aliases", "alias", "nothing", "unsupported"}

ParseRequests == {r \in Requests : Op(r) = "parse"}

-----------------------------------------------------------------------------
(* A request says clauses: an item with a quantity before it, after it or  *)
(* before it with "of", or without.  Some say other tokens instead.        *)
Measure(c) == IF c.unit = None THEN <<c.number>> ELSE <<c.number, c.unit>>

Said(c) ==
  CASE c.place = "none"   -> c.phrase
    [] c.place = "before" -> Measure(c) \o c.phrase
    [] c.place = "of"     -> Measure(c) \o <<"of">> \o c.phrase
    [] c.place = "after"  -> c.phrase \o Measure(c)

Text(r) ==
  FlattenSeq([n \in DOMAIN intent[r].said |->
                IF n = 1 THEN Said(intent[r].said[n])
                ELSE <<intent[r].between>> \o Said(intent[r].said[n])] \o <<intent[r].rest>>)

(* The screening of a text, before it is put into the prompt. *)
TextLength(text) == IF text = <<>> THEN 0 ELSE EndOf(text, Len(text))
Unsafe(text) == \E i \in DOMAIN text : text[i] \in Instructions

Mentioned(text, table) ==
  {a \in DOMAIN table : \E i, j \in DOMAIN text : StandsAt(text, a, i, j)}

UnsafeAliases(text, table) ==
  \/ \E a \in Mentioned(text, table) : table[a] \notin CanonicalKeys \/ Remaps(a, table[a])
  \/ Cardinality(Mentioned(text, table)) > MaxRelevantAliases

(* What a response comes to, in the order in which it is looked at; None   *)
(* stands for a timeout or a failed request.                               *)
Response ==
  {None} \union
    [success : BOOLEAN,
     envelope : {None} \union
       [error : BOOLEAN, choice : {None} \union
          [error : BOOLEAN, finish : {"stop", "error"}, content : {None, "invalid", "valid"}]]]

ASSUME ResponsesAssumption == Responses \subseteq Response

Extract(response) ==
  IF response = None THEN "transport_error"
  ELSE LET e == response.envelope
       IN IF ~response.success THEN "provider_error"
          ELSE IF e = None THEN "invalid_response"
          ELSE IF e.error THEN "provider_error"
          ELSE IF e.choice = None THEN "invalid_response"
          ELSE IF e.choice.error \/ e.choice.finish = "error" THEN "provider_error"
          ELSE IF e.choice.content # "valid" THEN "invalid_response"
          ELSE None

-----------------------------------------------------------------------------
(* The request: membership, aliases, provider, fallback. *)

Refuse(r, a) == Answer(r, a) /\ UNCHANGED <<aliases, seen, preview>>

Preview(r, source, reason, result) ==
  /\ preview' = [preview EXCEPT ![r] = [source |-> source, reason |-> reason, result |-> result]]
  /\ Answer(r, IF source = "rule_based" /\ result.error # None THEN result.error ELSE "ok")
  /\ UNCHANGED <<aliases, seen>>

FallBack(r, reason) ==
  Preview(r, "rule_based", reason, ParseGroceryCommand(Text(r), seen[r]))

Authorize(r) ==
  /\ pc[r] = "idle" /\ Op(r) = "parse"
  /\ IF intent[r].user \notin members THEN Refuse(r, "no household")
     ELSE Go(r, "list", None) /\ preview' = preview

ListForHousehold(r) ==
  /\ pc[r] = "list"
  /\ Go(r, "ask", [a \in {aliases[i].alias : i \in There} |->
                     (CHOOSE row \in {aliases[i] : i \in There} : row.alias = a).key])
  /\ preview' = preview

(* The headers are made before the body, and the length is looked at       *)
(* before the aliases.                                                     *)
Ask(r) ==
  /\ pc[r] = "ask"
  /\ IF Unsafe(Text(r)) THEN Refuse(r, "injection")
     ELSE IF ~intent[r].configured THEN FallBack(r, "not_configured")
     ELSE IF TextLength(Text(r)) > MaxInputCharacters THEN FallBack(r, "input_limit")
     ELSE IF UnsafeAliases(Text(r), seen[r]) THEN Refuse(r, "aliases")
     ELSE Go(r, "asked", seen[r]) /\ preview' = preview

Receive(r) ==
  /\ pc[r] = "asked"
  /\ \E response \in Responses :
       IF Extract(response) = None THEN Preview(r, "openrouter", None, response)
       ELSE FallBack(r, Extract(response))

ParseStep(r) == Authorize(r) \/ ListForHousehold(r) \/ Ask(r) \/ Receive(r)

Next ==
  \/ \E r \in Requests : ParseStep(r) \/ (AliasStep(r) /\ preview' = preview)
  \/ \E u \in Users : RemoveMember(u) /\ preview' = preview

Spec == Init /\ [][Next]_vars

-----------------------------------------------------------------------------
(* Properties. *)

(* What a command may consist of. *)
Tokens == DOMAIN Length
NumberWords == Tokens \intersect DOMAIN NumberValues
UnitWords == Tokens \intersect DOMAIN UnitOwners
Phrases == Seq(Tokens) \ {<<>>}
ClauseForms ==
  [phrase : Phrases, place : {"none"}, number : {None}, unit : {None}] \union
  [phrase : Phrases, place : {"before", "of", "after"},
   number : NumberWords, unit : UnitWords \union {None}]

(* Every word is of one kind, and no standard term holds a number, a unit, *)
(* a separator or another filler.  An alias may.                           *)
Fillers == AllowedCommandWords \union Punctuation
Measures == DOMAIN NumberValues \union DOMAIN UnitOwners
Plain(phrase) == ToSet(phrase) \intersect (Measures \union Fillers) = {}

ASSUME WordsAssumption ==
  /\ Measures \intersect Fillers = {}
  /\ DOMAIN NumberValues \intersect DOMAIN UnitOwners = {}
  /\ \A a \in DOMAIN StandardTerms : Plain(a)
  /\ "of" \in Tokens
  /\ \A story \in Stories, r \in Requests :
       LET asked == story.intent[r]
       IN asked.op = "parse" => /\ asked.between \in Fillers \intersect Tokens
                               /\ asked.said \in Seq(ClauseForms)
                               /\ asked.rest \in Seq(Tokens)

(* No two aliases are one phrase, and a lock is kept for a transaction.     *)
AliasesOK ==
  /\ \A i \in There : aliases[i].key \in CanonicalKeys
  /\ \A i, j \in There : aliases[i].alias = aliases[j].alias => i = j

LocksOK ==
  \A u \in Users : lock[u] # None =>
    u \in members /\ intent[lock[u]].user = u /\ pc[lock[u]] \in {"find", "check", "insert", "update", "delete"}

TypeOK ==
  /\ AliasesOK
  /\ LocksOK
  /\ \A r \in Requests : answer[r] # None <=> pc[r] = "done"

(* What a command says, clause by clause. *)
Meaning(r) ==
  [n \in DOMAIN intent[r].said |->
     LET c == intent[r].said[n]
     IN [name     |-> c.phrase,
         key      |-> IF c.phrase \in DOMAIN StandardTerms THEN StandardTerms[c.phrase]
                      ELSE seen[r][c.phrase],
         quantity |-> IF c.place = "none" THEN None ELSE NumberValues[c.number],
         unit     |-> IF c.place = "none" \/ c.unit = None THEN None ELSE UnitOwners[c.unit]]]

ReadByRules == {r \in ParseRequests : preview[r] # None /\ preview[r].source = "rule_based"}

(* More than the parser takes, or a quantity an item cannot have. *)
TooMuch(said) ==
  \/ Len(said) > MaxItems
  \/ \E n \in DOMAIN said : said[n].place # "none" /\ NumberValues[said[n].number] \notin Quantities

(* Clauses about known terms only, in a text in which no alias occurs that *)
(* holds a number, a unit or a filler and so runs across the clauses.      *)
Clear(r) ==
  /\ intent[r].rest = <<>>
  /\ \A n \in DOMAIN intent[r].said :
       intent[r].said[n].phrase \in DOMAIN AliasOwners(seen[r]) /\ Plain(intent[r].said[n].phrase)
  /\ \A a \in Mentioned(Text(r), seen[r]) : Plain(a)

UnderstoodAsSaid(r) ==
  Clear(r) /\ intent[r].said # <<>> /\ InvalidAliases(seen[r]) = {}
  => preview[r].result = IF TooMuch(intent[r].said) THEN Refused("unsupported")
                         ELSE [items |-> Meaning(r), error |-> None]

(* README.md:414-416: the parser "supports multiple items and quantity     *)
(* placement before or after an item": a command whose clauses are         *)
(* separated by "and" or a comma is read clause by clause, when quantity   *)
(* and item are next to each other, or refused for its number of items or  *)
(* for a quantity that schemas/grocery_extraction.py:70-74 does not allow. *)
ClausesAreUnderstood ==
  \A r \in ReadByRules :
    (\A n \in DOMAIN intent[r].said : intent[r].said[n].place # "of") => UnderstoodAsSaid(r)

(* README.md:415-417: a command with ambiguous quantities is rejected and   *)
(* not answered with an incomplete list: what is accepted is as it was     *)
(* said, also when "of" comes between a quantity and its item.             *)
QuantitiesAreNotMisplaced ==
  \A r \in ReadByRules :
    Clear(r) /\ preview[r].result.error = None => preview[r].result.items = Meaning(r)

(* README.md:415-417: commands with unknown words or ambiguous quantities  *)
(* are rejected instead of answered with an incomplete list: every word of *)
(* a text that is accepted is in an item, in a quantity or a filler; it is *)
(* so once, unless an alias that holds a number, a unit or a filler was    *)
(* found in the text, whose words count as both.                           *)
NothingIsLeftOut ==
  \A r \in ReadByRules :
    LET text == Text(r)
        items == preview[r].result.items
        accounted ==
          Cardinality({i \in DOMAIN text : text[i] \in Fillers})
          + Cardinality(UNION {{n} \X DOMAIN items[n].name : n \in DOMAIN items})
          + Cardinality({n \in DOMAIN items : items[n].quantity # None})
          + Cardinality({n \in DOMAIN items : items[n].unit # None})
    IN preview[r].result.error = None =>
         /\ Len(text) <= accounted
         /\ (\A n \in DOMAIN items : Plain(items[n].name)) => Len(text) = accounted

(* README.md:344-348: only members change the aliases: a member whose row  *)
(* is removed while the request runs has changed nothing afterwards.       *)
OnlyMembersChangeAliases ==
  [][\A i \in Ids : aliases'[i] # aliases[i] =>
       \E r \in Requests : /\ pc[r] \in {"insert", "update", "delete"} /\ pc'[r] # pc[r]
                           /\ Target(r) = i /\ intent[r].user \in members]_vars

=============================================================================
