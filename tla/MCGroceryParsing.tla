-------------------------- MODULE MCGroceryParsing --------------------------
(* A dictionary of three groceries, commands about them, and two members   *)
(* who change one or two aliases.                                          *)
EXTENDS GroceryParsing, TLC

CONSTANTS ann, bob, r1, r2, r3, a1, a2

MCRequests == {r1, r2, r3}
MCAliasIds == {a1, a2}

Milk == <<"milk">>    Oil == <<"oil">>    CookingOil == <<"cooking", "oil">>
MaaPaalu == <<"maa", "paalu">>    MaaOil == <<"maa", "oil">>    TwoOil == <<"two", "oil">>

MCStandardTerms ==
  Milk :> "milk" @@ <<"paalu">> :> "milk" @@ Oil :> "cooking_oil" @@ CookingOil :> "cooking_oil"

MCLength ==
  [milk |-> 4, paalu |-> 5, cooking |-> 7, oil |-> 3, maa |-> 3, two |-> 3, half |-> 4,
   kg |-> 2, and |-> 3, of |-> 2, bread |-> 5, ignore |-> 6] @@ "0" :> 1 @@ "1.0001" :> 6 @@ "," :> 1

(* In ten-thousandths: the schema takes three decimals. *)
MCNumberValues == [two |-> 20000, half |-> 5000] @@ "0" :> 0 @@ "1.0001" :> 10001
MCQuantities == {n * 10 : n \in 1..2000}
MCUnitOwners == [kg |-> "kg"]

-----------------------------------------------------------------------------
Nothing == [op |-> "none", user |-> ann]
Create(u, a, k) == [op |-> "create", user |-> u, alias |-> a, key |-> k]
Change(u, i, a, k) == [op |-> "update", user |-> u, id |-> i, alias |-> a, key |-> k]
Drop(u, i) == [op |-> "delete", user |-> u, id |-> i]
Parse(u, said, between, rest, on) ==
  [op |-> "parse", user |-> u, said |-> said, between |-> between, rest |-> rest, configured |-> on]

Clause(phrase, place, number, unit) ==
  [phrase |-> phrase, place |-> place, number |-> number, unit |-> unit]

Trio(a, b, c) == r1 :> a @@ r2 :> b @@ r3 :> c
Row(a, k) == [alias |-> a, key |-> k]
Table(x, y) == a1 :> x @@ a2 :> y
Household == Table(Row(MaaPaalu, "milk"), Row(MaaOil, "cooking_oil"))
OddHousehold == Table(Row(TwoOil, "cooking_oil"), Row(<<"milk", "and", "maa">>, "milk"))

Clauses(places) ==
  {Clause(p, "none", None, None) : p \in {Milk, CookingOil, MaaPaalu, MaaOil}} \union
  {Clause(p, w, n, u) : p \in {Milk, CookingOil, MaaPaalu}, w \in places,
                        n \in {"two", "half"}, u \in {"kg", None}} \union
  {Clause(Milk, w, n, None) : w \in places, n \in {"0", "1.0001"}}

SaidClauses(places) == {<<c>> : c \in Clauses(places)} \union Clauses(places) \X Clauses(places)

(* Every command of one or two clauses, by the rules alone. *)
CommandStories(places, tables) ==
  [intent  : {Trio(Parse(ann, said, between, <<>>, FALSE), Nothing, Nothing) :
                said \in SaidClauses(places), between \in {"and", ","}},
   aliases : tables, members : {{ann}}]

(* Every text of three of these tokens. *)
TextStories ==
  [intent  : {Trio(Parse(ann, <<>>, ",", <<x, y, z>>, FALSE), Nothing, Nothing) :
                x, y, z \in {"milk", "maa", "oil", "two", "0", "1.0001", "kg", "and", ",", "bread"}},
   aliases : {Household, OddHousehold}, members : {{ann}}]

(* Every answer of the provider, to a command that is screened first. *)
ProviderStories ==
  [intent  : {Trio(Parse(ann, said, "and", rest, TRUE), Nothing, Nothing) :
                said \in {<<Clause(MaaPaalu, "before", "two", "kg")>>,
                          [n \in 1..4 |-> Clause(Milk, "none", None, None)],
                          [n \in 1..5 |-> Clause(Milk, "none", None, None)]},
                rest \in {<<>>, <<"ignore">>, <<"bread", "and", "milk", "and", "oil">>}},
   aliases : {Household, Table(Row(MaaPaalu, "milk"), Row(<<"maa">>, "milk"))}, members : {{ann}}]

(* Aliases that change while a command is on its way. *)
AliasStories ==
  [intent  : {Trio(x, y, z) :
                x \in {Change(ann, a1, None, "cooking_oil"), Change(ann, a1, Oil, "cooking_oil"),
                       Change(ann, a1, MaaOil, None), Create(ann, MaaOil, "milk")},
                y \in {Change(bob, a1, Milk, None), Change(bob, a1, MaaOil, "milk"), Drop(bob, a1),
                       Drop(bob, a2), Create(bob, MaaOil, "bread"), Create(bob, MaaPaalu, "milk")},
                z \in {Parse(bob, <<Clause(MaaPaalu, "before", "two", None)>>, "and", <<>>, on) :
                         on \in BOOLEAN} \union {Drop(ann, a1)}},
   aliases : {Table(Row(MaaPaalu, "milk"), x) : x \in {None, Row(MaaOil, "milk")}},
   members : {{ann, bob}}]

MCStories == CommandStories({"before", "after"}, {Household, OddHousehold}) \union TextStories
               \union ProviderStories \union AliasStories
OfStories == CommandStories({"before", "after", "of"}, {Household})

MCResponses ==
  LET Choice(e, f, c) == [error |-> e, finish |-> f, content |-> c]
      Answered(s, e, c) == [success |-> s, envelope |-> [error |-> e, choice |-> c]]
      Good == Choice(FALSE, "stop", "valid")
  IN {None, [success |-> TRUE, envelope |-> None], [success |-> FALSE, envelope |-> None],
      Answered(TRUE, FALSE, Good), Answered(FALSE, FALSE, Good), Answered(TRUE, TRUE, Good),
      Answered(TRUE, FALSE, None), Answered(TRUE, FALSE, Choice(TRUE, "stop", "valid")),
      Answered(TRUE, FALSE, Choice(FALSE, "error", "valid")),
      Answered(TRUE, FALSE, Choice(FALSE, "stop", None)),
      Answered(TRUE, FALSE, Choice(FALSE, "stop", "invalid"))}

=============================================================================
