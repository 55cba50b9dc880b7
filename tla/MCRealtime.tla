----------------------------- MODULE MCRealtime -----------------------------
EXTENDS Realtime, TLC

CONSTANTS a, b, milk, list

MCUsers == {a, b}
Add == [kind |-> "add", item |-> None]
Change == [kind |-> "change", item |-> milk]
Delete == [kind |-> "delete", item |-> milk]

Story(query, script, dials, may) ==
  [screen |-> {query}, script |-> script, dials |-> dials, may |-> may]

(* Three events are needed for a gap; three connections for a handler that *)
(* starts a subscription again while two wait for the one that failed.     *)
MCStories ==
  { Story(list, <<Add, Add, Add>>, 2, {}),
    Story(milk, <<Add, Change, Add>>, 2, {}),
    Story(list, <<Add, Add>>, 2, {"redis"}),
    Story(list, <<Add, Add>>, 2, {"network"}),
    Story(milk, <<Change, Delete>>, 2, {}),
    Story(list, <<Add>>, 2, {"token", "factory", "fetch"}),
    Story(list, <<Add>>, 2, {"crash", "publish"}),
    Story(list, <<Add>>, 2, {"removal", "guest"}),
    Story(list, <<>>, 3, {"redis", "guest"}) }

MCStaleStories == {Story(list, <<Add>>, 2, {"redis"})}

Symmetry == Permutations(Sockets)
=============================================================================
