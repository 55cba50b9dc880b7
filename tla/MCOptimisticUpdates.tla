------------------------ MODULE MCOptimisticUpdates ------------------------
EXTENDS OptimisticUpdates, TLC

CONSTANTS milk, m1, m2, o1

MCSeeds == {milk}
MCMutations == {m1, m2}
MCOthers == {o1}

Pair(a, b) == m1 :> a @@ m2 :> b

(* Two updates of one item, of an item and one that is being added, or of  *)
(* an item the phone is adding.                                            *)
Pairs == {Pair("add", "add"), Pair("add", "edit"), Pair("add", "delete"),
          Pair("edit", "edit"), Pair("edit", "delete"), Pair("delete", "delete")}

ListStories ==
  [op : Pairs, target : {Pair(milk, milk)}, others : {"none", "edit", "delete"},
   loaded : {TRUE}, stored : {None}, open : {{}}]
  \union
  [op : {Pair("add", "edit"), Pair("add", "delete")}, target : {Pair(milk, Temp(m1))}, others : {"none", "edit"},
   loaded : {TRUE}, stored : {None}, open : {{}}]

(* The list is still being loaded, with or without a copy in SQLite.       *)
LoadStories ==
  [op : {Pair(a, "none") : a \in {"add", "edit", "delete"}}, target : {Pair(milk, milk)}, others : {"none", "edit"},
   loaded : {FALSE}, stored : {None, << >>}, open : {{}}]

(* The item's own screen is open.                                          *)
DetailStories ==
  [op : {Pair(a, "none") : a \in {"edit", "delete"}}, target : {Pair(milk, milk)}, others : {"edit", "delete"},
   loaded : {TRUE}, stored : {None}, open : {{milk}}]

MCStories == ListStories \union LoadStories \union DetailStories
=============================================================================
