--------------------------- MODULE RuleBasedParser ---------------------------
(***************************************************************************)
(* The parser that turns a command into a shopping list without a model:   *)
(* longest terms first, every quantity to the nearest item, and no word    *)
(* that is not understood.  A text is a sequence of tokens; distances are  *)
(* counted in characters, as in the code.                                  *)
(***************************************************************************)
EXTENDS GroceryDictionary, SequencesExt

CONSTANTS
  Length,                \* token -> its number of characters
  Punctuation,           \* tokens written without a space before them
  NumberValues,          \* number word -> its value
  Quantities,            \* positive, ten digits, three decimals: grocery_extraction.py:70-74
  UnitOwners,            \* unit word -> unit
  AllowedCommandWords,
  MaxItems               \* of one command, 25 in the code

ASSUME MeasuresAssumption ==
  /\ MaxItems \in Nat
  /\ \A token \in DOMAIN Length : Length[token] \in Nat \ {0}
  /\ \A word \in DOMAIN NumberValues : NumberValues[word] # None
  /\ \A word \in DOMAIN UnitOwners : UnitOwners[word] # None

(* Where a token of the text begins and ends. *)
Gap(token) == IF token \in Punctuation THEN 0 ELSE 1
StartOf(text, i) ==
  LET start[j \in DOMAIN text] ==
        IF j = 1 THEN 0 ELSE start[j - 1] + Length[text[j - 1]] + Gap(text[j])
  IN start[i]
EndOf(text, i) == StartOf(text, i) + Length[text[i]]

(* A span holds the tokens from ... to. *)
Overlap(s, e) == s.from <= e.to /\ e.from <= s.to
Covers(s, i) == s.from <= i /\ i <= s.to
Characters(text, s) == EndOf(text, s.to) - StartOf(text, s.from)
Before(s, e) == s.from < e.from

(* Spans from left to right. *)
InOrder(spans) ==
  [n \in 1..Cardinality(spans) |->
     CHOOSE s \in spans : Cardinality({e \in spans : Before(e, s)}) = n - 1]

(* The terms of one household: its aliases over the standard terms. *)
InvalidAliases(aliases) ==
  {a \in DOMAIN aliases : aliases[a] \notin CanonicalKeys \/ Remaps(a, aliases[a])}

AliasOwners(aliases) ==
  [a \in DOMAIN aliases \union DOMAIN StandardTerms |->
     IF a \in DOMAIN aliases THEN aliases[a] ELSE StandardTerms[a]]

(* A phrase in a text; one that begins with punctuation follows no word.   *)
StandsAt(text, phrase, i, j) ==
  /\ i <= j /\ SubSeq(text, i, j) = phrase
  /\ text[i] \in Punctuation => i = 1 \/ text[i - 1] \in Punctuation

Occurrences(text, phrase, key) ==
  {[from |-> p[1], to |-> p[2], key |-> key] :
     p \in {q \in (DOMAIN text) \X (DOMAIN text) : StandsAt(text, phrase, q[1], q[2])}}

(* Mutant of Longer: the shortest term is taken first. *)
ShorterFirst(text, c, d) ==
  \/ Characters(text, c) < Characters(text, d)
  \/ Characters(text, c) = Characters(text, d) /\ Before(c, d)

(* The order in which terms are taken: of equally long ones the first. *)
Longer(text, c, d) ==
  \/ Characters(text, c) > Characters(text, d)
  \/ Characters(text, c) = Characters(text, d) /\ Before(c, d)

(* A term is selected unless it overlaps one that was selected before. *)
Selection(text, candidates, selected) ==
  \A c \in candidates :
    c \in selected <=> \A e \in selected : Longer(text, e, c) => ~Overlap(e, c)

Selected(text, candidates) ==
  CHOOSE selected \in SUBSET candidates : Selection(text, candidates, selected)

(* re.finditer takes what one phrase matches in the same way, from left to *)
(* right, since it is all of one length.                                   *)
Candidates(text, owners) ==
  UNION {Selected(text, Occurrences(text, phrase, owners[phrase])) : phrase \in DOMAIN owners}

FindItems(text, owners) == InOrder(Selected(text, Candidates(text, owners)))

(* A number, with the unit that directly follows it. *)
HasUnit(text, i) == i < Len(text) /\ text[i + 1] \in DOMAIN UnitOwners

QuantityAt(text, i) ==
  [from     |-> i,
   to       |-> IF HasUnit(text, i) THEN i + 1 ELSE i,
   quantity |-> NumberValues[text[i]],
   unit     |-> IF HasUnit(text, i) THEN UnitOwners[text[i + 1]] ELSE None]

FindQuantities(text) ==
  InOrder({QuantityAt(text, i) : i \in {n \in DOMAIN text : text[n] \in DOMAIN NumberValues}})

Distance(text, quantity, item) ==
  IF quantity.to < item.from THEN StartOf(text, item.from) - EndOf(text, quantity.to)
  ELSE IF item.to < quantity.from THEN StartOf(text, quantity.from) - EndOf(text, item.to)
  ELSE 0

(* The item a quantity is given to: of equally near ones the first. *)
Nearest(text, quantity, items) ==
  LET d(n) == Distance(text, quantity, items[n])
  IN CHOOSE n \in DOMAIN items : \A k \in DOMAIN items : d(n) < d(k) \/ (d(n) = d(k) /\ n <= k)

Assigned(text, quantities, items, n) ==
  {q \in ToSet(quantities) : Nearest(text, q, items) = n}

(* Mutant of TwoForOneItem: one of the quantities is kept. *)
OneIsKept(text, quantities, items) == FALSE

TwoForOneItem(text, quantities, items) ==
  \E n \in DOMAIN items : Cardinality(Assigned(text, quantities, items, n)) > 1

(* Words that belong to no item and no quantity. *)
ResidualWords(text, items, quantities) ==
  {text[i] : i \in {n \in DOMAIN text :
     \A s \in ToSet(items) \union ToSet(quantities) : ~Covers(s, n)}}

Refused(why) == [items |-> <<>>, error |-> why]

ParseGroceryCommand(text, aliases) ==
  LET items == FindItems(text, AliasOwners(aliases))
      quantities == FindQuantities(text)
      unsupported ==
        \/ Len(items) > MaxItems
        \/ ResidualWords(text, items, quantities) \ (AllowedCommandWords \union Punctuation) # {}
        \/ TwoForOneItem(text, quantities, items)
        \/ \E q \in ToSet(quantities) : q.quantity \notin Quantities
      ExtractedItem(n) ==
        LET mine == Assigned(text, quantities, items, n)
            q == IF mine = {} THEN [quantity |-> None, unit |-> None] ELSE CHOOSE m \in mine : TRUE
        IN [name |-> SubSeq(text, items[n].from, items[n].to), key |-> items[n].key,
            quantity |-> q.quantity, unit |-> q.unit]
  IN IF InvalidAliases(aliases) # {} THEN Refused("alias")
     ELSE IF items = <<>> THEN Refused("nothing")
     ELSE IF unsupported THEN Refused("unsupported")
     ELSE [items |-> [n \in DOMAIN items |-> ExtractedItem(n)], error |-> None]

=============================================================================
