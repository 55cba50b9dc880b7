---------------------- MODULE OptimisticUpdates_proofs -----------------------
(***************************************************************************)
(* Proofs about OptimisticUpdates, for any number of items and of changes  *)
(* by the phone and by others.                                             *)
(*                                                                         *)
(* The list is right, or there is a reason for it: an event has not been   *)
(* heard of, a fetch has yet to read or to arrive, one was dropped and     *)
(* never started again, or an update that may still fail is in the list.   *)
(* A reason is never lost but for another one, except when the list        *)
(* arrives; and what an update would put back is as well founded as the    *)
(* list it replaced.                                                       *)
(***************************************************************************)
EXTENDS OptimisticUpdates, TLAPS

-----------------------------------------------------------------------------
(* The inductive invariant. *)

Maps(V) == UNION {[S -> V] : S \in SUBSET Items}

Fetches == [stage : {"idle", "started", "read"}, answer : Lists \union Copies \union {None}]

Updates ==
  [stage : {"idle", "cancelling", "applied", "settled"}, reply : Replies \union {None},
   previous : Lists \union {None}, detail : Copies \union {None}, ours : Lists \union {None},
   count : Nat]

Shapes ==
  /\ story \in Stories
  /\ server \in Maps(Writers)
  /\ \A e \in events : e.item \in Items
  /\ list \in Lists \union {None}
  /\ count \in Nat
  /\ details \in Lists
  /\ fetch \in [Queries -> Fetches]
  /\ \A q \in Queries : fetch[q].stage = "read" =>
       fetch[q].answer \in (IF q = ListQuery THEN Lists ELSE Copies \union {None})
  /\ update \in [Mutations -> Updates]
  /\ hydrating = "reading" => story.stored \in Lists

Applied(m) == update[m].stage = "applied"

(* A change has its request's answer only after it was applied, and is     *)
(* settled only with one.                                                  *)
Replied ==
  \A m \in Mutations :
    /\ update[m].stage \in {"idle", "cancelling"} => update[m].reply = None
    /\ update[m].stage = "settled" => update[m].reply # None
    /\ m \in sent => update[m].stage \in {"applied", "settled"}
    /\ Applied(m) => update[m].previous \in Lists /\ update[m].ours \in Lists

(* Each list has a number: an update that was applied before the one the   *)
(* server sent has a smaller one, and is not taken for it.                 *)
Numbered ==
  \A m \in Mutations : Applied(m) =>
    update[m].count <= count /\ (ListQuery \in fresh => update[m].count < count)

Loaded == ListQuery \in fresh => list # None

(* An answer from before a change is followed by an event. *)
Heard ==
  fetch[ListQuery].stage = "read" =>
    fetch[ListQuery].answer = Shown(server) \/ events # {} \/ "joined" \in debt

(* Why a list may be old. *)
Owes(m) == m \in debt /\ update[m].stage # "idle" /\ update[m].reply # "ok"

Reason ==
  \/ events # {}
  \/ fetch[ListQuery].stage = "started"
  \/ fetch[ListQuery].stage = "read" /\ fetch[ListQuery].answer = Shown(server)
  \/ debt \intersect {"joined", "failed"} # {}
  \/ \E m \in Mutations : Owes(m)

Explained(l) == l = Shown(server) \/ Reason

(* An update the server is not known to have made. *)
Open(m) == Applied(m) /\ update[m].reply # "ok"

ListExplained ==
  /\ Explained(list) \/ \E m \in Mutations : Open(m)
  /\ ListQuery \in fresh => Explained(list)

(* What a rollback would put back, and what a confirmation replaces. *)
PreviousExplained ==
  \A m \in Mutations : Applied(m) /\ Unchanged(m) =>
    Explained(update[m].previous) \/ \E n \in Mutations \ {m} : Open(n)

Pending ==
  \A m \in Mutations : Applied(m) /\ Unchanged(m) /\ story.op[m] # "delete" =>
    list # None /\ \E i \in DOMAIN list : list[i].pending = TRUE

IInv ==
  Shapes /\ Replied /\ Numbered /\ Loaded /\ Heard /\ ListExplained /\ PreviousExplained /\ Pending

-----------------------------------------------------------------------------
(* Types. *)

LEMMA ListQueryApart == ListQuery \notin Items /\ ListQuery \notin Seeds /\ ListQuery \in Queries
  BY SeedsAssumption DEF Items, Queries, ListQuery, Temp, Made

LEMMA IsMap ==
  ASSUME NEW V, NEW f, f = [i \in DOMAIN f |-> f[i]], DOMAIN f \subseteq Items,
         \A i \in DOMAIN f : f[i] \in V
  PROVE  f \in Maps(V)
  BY DEF Maps

LEMMA OfMap ==
  ASSUME NEW V, NEW f \in Maps(V)
  PROVE  /\ f = [i \in DOMAIN f |-> f[i]] /\ DOMAIN f \subseteq Items
         /\ \A i \in DOMAIN f : f[i] \in V
  BY DEF Maps

LEMMA ListsAreMaps == Lists = Maps(Copies)
  BY DEF Lists, Maps

LEMMA WithoutMap ==
  ASSUME NEW V, NEW f \in Maps(V), NEW i
  PROVE  Without(f, i) \in Maps(V)
  BY IsMap, OfMap DEF Without, Restrict

LEMMA ReplaceMap ==
  ASSUME NEW V, NEW f \in Maps(V), NEW i \in Items, NEW new, new \in V \/ new = None
  PROVE  Replace(f, i, new) \in Maps(V)
  <1>1. CASE new = None
    BY <1>1, WithoutMap DEF Replace
  <1>2. CASE new # None
    <2> DEFINE g == [j \in DOMAIN f \union {i} |-> IF j = i THEN new ELSE f[j]]
    <2>1. Replace(f, i, new) = g
      BY <1>2 DEF Replace
    <2>2. DOMAIN g = DOMAIN f \union {i} /\ g = [j \in DOMAIN g |-> g[j]]
      OBVIOUS
    <2>3. \A j \in DOMAIN g : g[j] \in V
      BY <1>2, OfMap
    <2>4. DOMAIN g \subseteq Items
      BY <2>2, OfMap
    <2> HIDE DEF g
    <2>5. g \in Maps(V)
      BY <2>2, <2>3, <2>4, IsMap
    <2>6. QED BY <2>1, <2>5
  <1>3. QED BY <1>1, <1>2

LEMMA ReplacePending ==
  ASSUME NEW f \in Lists, NEW i, NEW new \in Copies
  PROVE  i \in DOMAIN Replace(f, i, new) /\ Replace(f, i, new)[i] = new
  BY NoneAssumption DEF Replace

LEMMA ShownIsList ==
  ASSUME NEW rows \in Maps(Writers)
  PROVE  /\ Shown(rows) \in Lists
         /\ \A i \in DOMAIN Shown(rows) : Shown(rows)[i].pending = FALSE
         /\ \A i : Lookup(Shown(rows), i) \in Copies \union {None}
  <1>1. /\ DOMAIN Shown(rows) = DOMAIN rows
        /\ \A i \in DOMAIN rows : Shown(rows)[i] = [by |-> rows[i], pending |-> FALSE]
    BY DEF Shown, FromServer
  <1>2. \A i \in DOMAIN rows : Shown(rows)[i] \in Copies
    <2>1. \A i \in DOMAIN rows : rows[i] \in Writers
      BY OfMap
    <2>2. \A w \in Writers : [by |-> w, pending |-> FALSE] \in Copies
      BY DEF Copies
    <2>3. QED BY <1>1, <2>1, <2>2
  <1>3. Shown(rows) = [i \in DOMAIN Shown(rows) |-> Shown(rows)[i]]
    BY DEF Shown
  <1>4. Shown(rows) \in Lists
    BY <1>1, <1>2, <1>3, OfMap, IsMap, ListsAreMaps
  <1>5. \A i \in DOMAIN rows : Shown(rows)[i].pending = FALSE
    BY <1>1
  <1>6. QED BY <1>1, <1>2, <1>4, <1>5 DEF Lookup

LEMMA LookupCopy ==
  ASSUME NEW f \in Lists, NEW i
  PROVE  Lookup(f, i) \in Copies \union {None}
  BY OfMap, ListsAreMaps DEF Lookup

LEMMA EmptyList == << >> \in Lists
  BY DEF Lists

LEMMA ItemIsItem ==
  ASSUME Shapes, NEW m \in Mutations
  PROVE  Item(m) \in Items /\ Temp(m) \in Items /\ Made(m) \in Items
  <1>1. Temp(m) \in Items /\ Made(m) \in Items
    BY DEF Items
  <1>2. story.target[m] \in Items
    BY StoriesAssumption DEF Shapes
  <1>3. QED BY <1>1, <1>2 DEF Item

LEMMA OfferedCopies ==
  ASSUME NEW m \in Mutations
  PROVE  /\ FromServer(m) \in Copies
         /\ OptimisticItem(m) \in Copies \union {None}
         /\ story.op[m] # "delete" => OptimisticItem(m) \in Copies /\ OptimisticItem(m).pending = TRUE
  BY DEF FromServer, OptimisticItem, Copies, Writers

-----------------------------------------------------------------------------
LEMMA InitIInv == Init => IInv
  <1> SUFFICES ASSUME Init PROVE IInv
    OBVIOUS
  <1>1. server \in Maps(Writers)
    <2>1. server = [i \in Seeds |-> "seed"] /\ Seeds \subseteq Items
      BY DEF Init, Items
    <2>2. QED BY <2>1 DEF Maps, Writers
  <1>2. Shown(server) \in Lists /\ DOMAIN Shown(server) = Seeds
    BY <1>1, ShownIsList DEF Init, Shown
  <1>3. Shown(server) # None
    BY <1>2, NoneAssumption
  <1>4. details \in Lists
    <2>1. details = Restrict(Shown(server), story.open) /\ story.open \subseteq Seeds
      BY StoriesAssumption DEF Init
    <2>2. /\ DOMAIN details = story.open /\ details = [i \in DOMAIN details |-> details[i]]
          /\ \A i \in DOMAIN details : details[i] = Shown(server)[i]
      BY <2>1 DEF Restrict
    <2>3. /\ DOMAIN details \subseteq DOMAIN Shown(server) /\ Shown(server) \in Maps(Copies)
      BY <1>2, <2>1, <2>2, ListsAreMaps
    <2>4. DOMAIN details \subseteq Items /\ \A i \in DOMAIN details : details[i] \in Copies
      BY <2>2, <2>3, OfMap
    <2>5. QED BY <2>2, <2>4, IsMap, ListsAreMaps
  <1>5. /\ fetch \in [Queries -> Fetches]
        /\ \A q \in Queries : fetch[q].stage # "read"
        /\ ~story.loaded => fetch[ListQuery].stage = "started"
    BY ListQueryApart DEF Init, Fetches, Idle
  <1>6. update = [m \in Mutations |-> NoUpdate] /\ NoUpdate \in Updates
    BY DEF Init, NoUpdate, Updates
  <1>7. Shapes
    BY <1>1, <1>2, <1>4, <1>5, <1>6 DEF Init, Shapes
  <1>8. \A m \in Mutations : update[m].stage = "idle" /\ update[m].reply = None
    BY <1>6 DEF NoUpdate
  <1>9. story.loaded \in BOOLEAN
    BY StoriesAssumption DEF Init
  <1>10. story.loaded <=> ListQuery \in fresh
    BY <1>9, StoriesAssumption, ListQueryApart DEF Init
  <1>11. list # None => list = Shown(server)
    BY <1>9 DEF Init
  <1>12. Explained(list) /\ Loaded
    <2>1. CASE story.loaded
      BY <2>1, <1>3 DEF Explained, Loaded, Init
    <2>2. CASE ~story.loaded
      BY <2>2, <1>5, <1>10 DEF Explained, Reason, Loaded
    <2>3. QED BY <1>9, <2>1, <2>2
  <1>13. Replied /\ Numbered /\ Heard /\ ListExplained /\ PreviousExplained /\ Pending
    BY <1>5, <1>8, <1>12, ListQueryApart
       DEF Init, Replied, Numbered, Heard, ListExplained, PreviousExplained, Pending, Applied
  <1>14. QED BY <1>7, <1>12, <1>13 DEF IInv
-----------------------------------------------------------------------------
LEMMA IdleFetches ==
  /\ Idle \in Fetches /\ Idle.stage = "idle"
  /\ [Idle EXCEPT !.stage = "started"] \in Fetches
  /\ [Idle EXCEPT !.stage = "started"].stage = "started"
  BY DEF Idle, Fetches

LEMMA FetchTypes ==
  ASSUME Shapes
  PROVE  /\ fetch \in [Queries -> Fetches]
         /\ \A q \in Queries : fetch[q].stage \in {"idle", "started", "read"}
         /\ fetch[ListQuery].stage = "read" => fetch[ListQuery].answer \in Lists
         /\ \A i \in Seeds : fetch[i].stage = "read" => fetch[i].answer \in Copies \union {None}
         /\ \A q \in Queries : fetch[q].stage = "read" =>
              fetch[q].answer \in (IF q = ListQuery THEN Lists ELSE Copies \union {None})
  BY ListQueryApart DEF Shapes, Fetches, Queries

(* Fetches that are dropped or started, and others that stay. *)
LEMMA FetchStays ==
  ASSUME Shapes, DOMAIN fetch' = Queries, fetch' = [q \in Queries |-> fetch'[q]],
         \A q \in Queries : fetch'[q] \in {fetch[q], Idle, [Idle EXCEPT !.stage = "started"]}
  PROVE  /\ fetch' \in [Queries -> Fetches]
         /\ \A q \in Queries : fetch'[q].stage = "read" =>
              fetch'[q].answer \in (IF q = ListQuery THEN Lists ELSE Copies \union {None})
  <1>1. \A q \in Queries : fetch'[q] \in Fetches
    BY FetchTypes, IdleFetches
  <1>2. \A q \in Queries : fetch'[q].stage = "read" => fetch'[q] = fetch[q]
    BY IdleFetches
  <1>3. QED BY <1>1, <1>2, FetchTypes

LEMMA UpdateTypes ==
  ASSUME Shapes, NEW m \in Mutations
  PROVE  /\ update \in [Mutations -> Updates]
         /\ update[m].stage \in {"idle", "cancelling", "applied", "settled"}
         /\ update[m].reply \in Replies \union {None}
         /\ update[m].previous \in Lists \union {None}
         /\ update[m].detail \in Copies \union {None}
         /\ update[m].ours \in Lists \union {None}
         /\ update[m].count \in Nat
  BY DEF Shapes, Updates

LEMMA SettledUpdate ==
  ASSUME Shapes, NEW m \in Mutations, Settle(m)
  PROVE  /\ update' \in [Mutations -> Updates]
         /\ update'[m].stage = "settled" /\ update'[m].reply = update[m].reply
         /\ \A n \in Mutations \ {m} : update'[n] = update[n]
  BY UpdateTypes DEF Settle, NoUpdate, Updates

LEMMA AnsweredUpdate ==
  ASSUME Shapes, NEW m \in Mutations, NEW reply \in Replies, Answer(m, reply)
  PROVE  /\ update' \in [Mutations -> Updates]
         /\ update'[m].reply = IF update[m].reply = None THEN reply ELSE update[m].reply
         /\ \A n \in Mutations :
              /\ update'[n].stage = update[n].stage /\ update'[n].previous = update[n].previous
              /\ update'[n].ours = update[n].ours /\ update'[n].count = update[n].count
         /\ \A n \in Mutations \ {m} : update'[n] = update[n]
  <1>1. update[m].reply = None => [update[m] EXCEPT !.reply = reply] \in Updates
    BY UpdateTypes DEF Updates
  <1>2. update'[m] = [update[m] EXCEPT !.reply = IF update[m].reply = None THEN reply ELSE update[m].reply]
    BY UpdateTypes DEF Answer
  <1>3. QED BY <1>2, UpdateTypes DEF Answer, Updates

LEMMA PreviousListType == ASSUME Shapes PROVE PreviousList \in Lists
  BY EmptyList DEF Shapes, PreviousList

(* What stays the same in most steps. *)
LEMMA SameShapes ==
  ASSUME Shapes, UNCHANGED <<story, server, events, hydrating>>,
         list' \in Lists \union {None}, count' \in Nat, details' \in Lists,
         fetch' \in [Queries -> Fetches],
         \A q \in Queries : fetch'[q].stage = "read" =>
           fetch'[q].answer \in (IF q = ListQuery THEN Lists ELSE Copies \union {None}),
         update' \in [Mutations -> Updates]
  PROVE  Shapes'
  BY DEF Shapes

LEMMA CacheTypes ==
  ASSUME Shapes
  PROVE  /\ list \in Lists \union {None} /\ count \in Nat /\ details \in Lists
         /\ update \in [Mutations -> Updates] /\ server \in Maps(Writers)
  BY DEF Shapes

LEMMA ReadShapes == ASSUME Shapes, NEW q \in Queries, Read(q) PROVE Shapes'
  <1> DEFINE answer == IF q = ListQuery THEN Shown(server) ELSE Lookup(Shown(server), q)
  <1>1. answer \in (IF q = ListQuery THEN Lists ELSE Copies \union {None})
    BY CacheTypes, ShownIsList
  <1>2. fetch' = [fetch EXCEPT ![q] = [stage |-> "read", answer |-> answer]]
    BY DEF Read
  <1> HIDE DEF answer
  <1>3. [stage |-> "read", answer |-> answer] \in Fetches
    BY <1>1 DEF Fetches
  <1>4. fetch' \in [Queries -> Fetches]
    BY <1>2, <1>3, FetchTypes
  <1>5. \A p \in Queries : fetch'[p].stage = "read" =>
          fetch'[p].answer \in (IF p = ListQuery THEN Lists ELSE Copies \union {None})
    BY <1>1, <1>2, FetchTypes
  <1>6. QED BY <1>4, <1>5, CacheTypes, SameShapes DEF Read

LEMMA ListArrivesShapes == ASSUME Shapes, ListArrives PROVE Shapes'
  <1>1. list' \in Lists /\ count' = count + 1
    BY FetchTypes DEF ListArrives, SetList
  <1>2. fetch' = [fetch EXCEPT ![ListQuery] = Idle]
    BY DEF ListArrives
  <1>3. /\ DOMAIN fetch' = Queries /\ fetch' = [q \in Queries |-> fetch'[q]]
        /\ \A q \in Queries : fetch'[q] \in {fetch[q], Idle, [Idle EXCEPT !.stage = "started"]}
    BY <1>2, FetchTypes
  <1>4. QED BY <1>1, <1>3, FetchStays, CacheTypes, SameShapes DEF ListArrives

LEMMA DetailArrivesShapes == ASSUME Shapes, NEW i \in Seeds, DetailArrives(i) PROVE Shapes'
  <1>1. i \in Items
    BY DEF Items
  <1>2. details' \in Lists
    <2>1. fetch[i].answer \in Copies \union {None}
      BY FetchTypes DEF DetailArrives
    <2>2. Replace(details, i, fetch[i].answer) \in Lists
      BY <1>1, <2>1, CacheTypes, ListsAreMaps, ReplaceMap
    <2>3. QED BY <2>2, CacheTypes DEF DetailArrives
  <1>3. fetch' = [fetch EXCEPT ![i] = Idle]
    BY DEF DetailArrives
  <1>4. /\ DOMAIN fetch' = Queries /\ fetch' = [q \in Queries |-> fetch'[q]]
        /\ \A q \in Queries : fetch'[q] \in {fetch[q], Idle, [Idle EXCEPT !.stage = "started"]}
    BY <1>3, FetchTypes
  <1>5. QED BY <1>2, <1>4, FetchStays, CacheTypes, SameShapes DEF DetailArrives

LEMMA FetchFailsShapes == ASSUME Shapes, NEW q \in Queries, FetchFails(q) PROVE Shapes'
  <1>1. fetch' = [fetch EXCEPT ![q] = Idle]
    BY DEF FetchFails
  <1>2. /\ DOMAIN fetch' = Queries /\ fetch' = [p \in Queries |-> fetch'[p]]
        /\ \A p \in Queries : fetch'[p] \in {fetch[p], Idle, [Idle EXCEPT !.stage = "started"]}
    BY <1>1, FetchTypes
  <1>3. QED BY <1>2, FetchStays, CacheTypes, SameShapes DEF FetchFails

LEMMA OthersChangeShapes ==
  ASSUME Shapes, NEW o \in Others, NEW i \in Seeds, OthersChange(o, i) PROVE Shapes'
  <1>1. i \in Items /\ o \in Writers
    BY DEF Items, Writers
  <1>2. server' \in Maps(Writers)
    BY <1>1, CacheTypes, ReplaceMap DEF OthersChange
  <1>3. \A e \in events' : e.item \in Items
    BY <1>1 DEF OthersChange, Announce, Shapes
  <1>4. QED BY <1>2, <1>3 DEF OthersChange, Shapes, cache

LEMMA AcceptShapes == ASSUME Shapes, NEW m \in Mutations, Accept(m) PROVE Shapes'
  <1> DEFINE row == IF story.op[m] = "add" THEN Made(m) ELSE Item(m)
  <1>1. row \in Items /\ m \in Writers
    BY ItemIsItem DEF Writers
  <1>2. /\ server' = Replace(server, row, IF story.op[m] = "delete" THEN None ELSE m)
        /\ Announce(story.op[m], row, m)
        /\ Answer(m, "ok")
    BY DEF Accept
  <1> HIDE DEF row
  <1>3. server' \in Maps(Writers)
    BY <1>1, <1>2, CacheTypes, ReplaceMap
  <1>4. \A e \in events' : e.item \in Items
    BY <1>1, <1>2 DEF Announce, Shapes
  <1>5. update' \in [Mutations -> Updates]
    BY <1>2, AnsweredUpdate DEF Replies
  <1>6. QED BY <1>3, <1>4, <1>5 DEF Accept, Shapes, cache

LEMMA RefuseShapes == ASSUME Shapes, NEW m \in Mutations, Refuse(m) PROVE Shapes'
  <1>1. update' \in [Mutations -> Updates]
    BY AnsweredUpdate DEF Refuse, Replies
  <1>2. QED BY <1>1 DEF Refuse, Shapes, cache

LEMMA LoseShapes == ASSUME Shapes, NEW m \in Mutations, Lose(m) PROVE Shapes'
  <1>1. update' \in [Mutations -> Updates]
    <2>1. update' = [update EXCEPT ![m] = [update[m] EXCEPT !.reply = "lost"]]
      BY DEF Lose
    <2>2. [update[m] EXCEPT !.reply = "lost"] \in Updates
      BY UpdateTypes DEF Updates, Replies
    <2>3. QED BY <2>1, <2>2, UpdateTypes
  <1>2. QED BY <1>1 DEF Lose, Shapes, cache

LEMMA BeginShapes == ASSUME Shapes, NEW m \in Mutations, Begin(m) PROVE Shapes'
  <1>1. update' \in [Mutations -> Updates]
    BY UpdateTypes DEF Begin, Updates
  <1>2. /\ DOMAIN fetch' = Queries /\ fetch' = [q \in Queries |-> fetch'[q]]
        /\ \A q \in Queries : fetch'[q] \in {fetch[q], Idle, [Idle EXCEPT !.stage = "started"]}
    BY DEF Begin
  <1>3. QED BY <1>1, <1>2, FetchStays, CacheTypes, SameShapes DEF Begin

LEMMA NotFoundShapes == ASSUME Shapes, NEW m \in Mutations, NotFound(m) PROVE Shapes'
  <1>1. update' \in [Mutations -> Updates]
    <2> DEFINE new == [update[m] EXCEPT !.stage = "settled", !.reply = "not found"]
    <2>1. update' = [update EXCEPT ![m] = new]
      BY UpdateTypes DEF NotFound
    <2>2. new \in Updates
      BY UpdateTypes DEF Updates, Replies
    <2>3. QED BY <2>1, <2>2, UpdateTypes
  <1>2. QED BY <1>1 DEF NotFound, Shapes, cache

LEMMA ApplyShapes == ASSUME Shapes, NEW m \in Mutations, Apply(m) PROVE Shapes'
  <1> DEFINE i == Item(m)
             ours == Replace(PreviousList, i, OptimisticItem(m))
             new == [stage |-> "applied", reply |-> None, previous |-> PreviousList,
                     detail |-> Lookup(details, i), ours |-> ours, count |-> count + 1]
  <1>1. i \in Items
    BY ItemIsItem
  <1>2. OptimisticItem(m) \in Copies \union {None}
    BY OfferedCopies
  <1>3. ours \in Lists /\ Replace(details, i, OptimisticItem(m)) \in Lists
    BY <1>1, <1>2, CacheTypes, PreviousListType, ListsAreMaps, ReplaceMap
  <1>4. /\ list' = ours /\ count' = count + 1 /\ details' = Replace(details, i, OptimisticItem(m))
        /\ update' = [update EXCEPT ![m] = new]
    BY DEF Apply, SetList
  <1>5. /\ DOMAIN fetch' = Queries /\ fetch' = [q \in Queries |-> fetch'[q]]
        /\ \A q \in Queries : fetch'[q] \in {fetch[q], Idle, [Idle EXCEPT !.stage = "started"]}
    BY FetchTypes DEF Apply
  <1>6. Lookup(details, i) \in Copies \union {None}
    BY CacheTypes, LookupCopy
  <1> HIDE DEF i, ours
  <1>7. update' \in [Mutations -> Updates]
    BY <1>3, <1>4, <1>6, PreviousListType, CacheTypes DEF Updates
  <1>8. QED BY <1>3, <1>4, <1>5, <1>7, FetchStays, CacheTypes, SameShapes DEF Apply

LEMMA LeaveItShapes == ASSUME Shapes, NEW m \in Mutations, LeaveIt(m) PROVE Shapes'
  <1>1. update' \in [Mutations -> Updates]
    BY SettledUpdate DEF LeaveIt
  <1>2. QED BY <1>1 DEF LeaveIt, Shapes, cache

LEMMA RollbackShapes ==
  ASSUME Shapes, NEW m \in Mutations, Rollback(m), update[m].previous \in Lists PROVE Shapes'
  <1>1. update' \in [Mutations -> Updates]
    BY SettledUpdate DEF Rollback
  <1>2. details' \in Lists
    BY UpdateTypes, ItemIsItem, CacheTypes, ListsAreMaps, ReplaceMap DEF Rollback
  <1>3. list' \in Lists /\ count' = count + 1
    BY DEF Rollback, SetList
  <1>4. /\ DOMAIN fetch' = Queries /\ fetch' = [q \in Queries |-> fetch'[q]]
        /\ \A q \in Queries : fetch'[q] \in {fetch[q], Idle, [Idle EXCEPT !.stage = "started"]}
    BY FetchTypes DEF Rollback
  <1>5. QED BY <1>1, <1>2, <1>3, <1>4, FetchStays, CacheTypes, SameShapes DEF Rollback

LEMMA ConfirmDeletionShapes ==
  ASSUME Shapes, NEW m \in Mutations, ConfirmDeletion(m) PROVE Shapes'
  <1>1. update' \in [Mutations -> Updates]
    BY SettledUpdate DEF ConfirmDeletion
  <1>2. QED BY <1>1 DEF ConfirmDeletion, Shapes, cache

LEMMA ConfirmShapes ==
  ASSUME Shapes, NEW m \in Mutations, Confirm(m), update[m].ours \in Lists PROVE Shapes'
  <1> DEFINE row == IF story.op[m] = "add" THEN Made(m) ELSE Item(m)
  <1>1. update' \in [Mutations -> Updates]
    BY SettledUpdate DEF Confirm
  <1>2. row \in Items /\ FromServer(m) \in Copies
    BY ItemIsItem, OfferedCopies
  <1>3. /\ list' = Replace(Without(update[m].ours, Item(m)), row, FromServer(m))
        /\ details' = Replace(Without(details, Item(m)), row, FromServer(m))
        /\ count' = count + 1
    BY DEF Confirm, Confirmed, SetList
  <1> HIDE DEF row
  <1>4. Without(update[m].ours, Item(m)) \in Maps(Copies) /\ Without(details, Item(m)) \in Maps(Copies)
    BY CacheTypes, ListsAreMaps, WithoutMap
  <1>5. list' \in Lists /\ details' \in Lists
    BY <1>2, <1>3, <1>4, ListsAreMaps, ReplaceMap
  <1>6. QED BY <1>1, <1>3, <1>5, CacheTypes, FetchTypes, SameShapes DEF Confirm

LEMMA SynchronizeShapes == ASSUME Shapes, NEW e, Synchronize(e) PROVE Shapes'
  <1>1. details' \in Lists
    BY CacheTypes, ListsAreMaps, WithoutMap DEF Synchronize
  <1>2. /\ DOMAIN fetch' = Queries /\ fetch' = [q \in Queries |-> fetch'[q]]
        /\ \A q \in Queries : fetch'[q] \in {fetch[q], Idle, [Idle EXCEPT !.stage = "started"]}
    BY DEF Synchronize
  <1>3. \A d \in events' : d.item \in Items
    BY DEF Synchronize, Shapes
  <1>4. QED BY <1>1, <1>2, <1>3, FetchStays DEF Synchronize, Shapes

LEMMA HydrateShapes == ASSUME Shapes, Hydrate PROVE Shapes'
  <1>1. story.stored \in Lists \union {None}
    BY StoriesAssumption DEF Shapes
  <1>2. QED BY <1>1 DEF Hydrate, Shapes, cache

LEMMA HydratedShapes == ASSUME Shapes, Hydrated PROVE Shapes'
  <1>1. list' \in Lists \union {None} /\ count' \in Nat
    BY CacheTypes DEF Hydrated, SetList, Shapes
  <1>2. QED BY <1>1 DEF Hydrated, Shapes

-----------------------------------------------------------------------------
(* Steps that leave the list alone, and steps that write a new one. *)

ListInv == Numbered /\ Loaded /\ ListExplained /\ PreviousExplained /\ Pending

(* Whatever explained a list explains it, or something else does. *)
ReasonsStay ==
  /\ Reason => Reason'
  /\ server' = server \/ Reason'

LEMMA ReasonKept ==
  ASSUME Shapes, events' = events, server' = server, debt \subseteq debt',
         fetch'[ListQuery] = fetch[ListQuery],
         \A m \in Mutations : /\ update'[m].stage = "idle" => update[m].stage = "idle"
                              /\ update'[m].reply = "ok" => update[m].reply = "ok"
  PROVE  ReasonsStay
  <1> SUFFICES ASSUME Reason PROVE Reason'
    BY DEF ReasonsStay
  <1>1. CASE \E m \in Mutations : Owes(m)
    BY <1>1 DEF Reason, Owes
  <1>2. CASE debt \intersect {"joined", "failed"} # {}
    BY <1>2 DEF Reason
  <1>3. CASE events # {} \/ fetch[ListQuery].stage = "started"
    BY <1>3 DEF Reason
  <1>4. CASE fetch[ListQuery].stage = "read" /\ fetch[ListQuery].answer = Shown(server)
    <2>1. fetch'[ListQuery].stage = "read" /\ fetch'[ListQuery].answer = Shown(server)'
      BY <1>4 DEF Shown
    <2>2. QED BY <2>1 DEF Reason
  <1>5. QED BY <1>1, <1>2, <1>3, <1>4 DEF Reason

LEMMA SameList ==
  ASSUME IInv, UNCHANGED <<story, list, count>>, ReasonsStay,
         ListQuery \in fresh' => ListQuery \in fresh,
         \A n \in Mutations : Applied(n)' =>
           /\ Applied(n) /\ update'[n].previous = update[n].previous
           /\ update'[n].count = update[n].count,
         \A n \in Mutations : Open(n) => Open(n)' \/ Reason' \/ ListQuery \in fresh
  PROVE  ListInv'
  <1> USE DEF IInv
  <1>1. server' = server => Shown(server)' = Shown(server)
    BY DEF Shown
  <1>2. Numbered' /\ Loaded'
    BY DEF Numbered, Loaded
  <1>3. Pending'
    BY DEF Pending, Unchanged
  <1>4. ListExplained'
    <2>1. Explained(list) => Explained(list)'
      BY <1>1 DEF Explained, ReasonsStay
    <2>2. (\E n \in Mutations : Open(n)) => Explained(list)' \/ \E n \in Mutations : Open(n)'
      BY <2>1 DEF ListExplained, Explained
    <2>3. QED BY <2>1, <2>2 DEF ListExplained
  <1>5. PreviousExplained'
    <2> SUFFICES ASSUME NEW m \in Mutations, Applied(m)', Unchanged(m)'
                 PROVE  Explained(update[m].previous)' \/ \E n \in Mutations \ {m} : Open(n)'
      BY DEF PreviousExplained
    <2>1. /\ Applied(m) /\ update'[m].previous = update[m].previous
          /\ update'[m].count = update[m].count
      OBVIOUS
    <2>2. Unchanged(m) /\ update[m].count = count
      BY <2>1 DEF Unchanged
    <2>3. update[m].count \in Nat
      BY UpdateTypes
    <2>4. ListQuery \notin fresh
      BY <2>1, <2>2, <2>3 DEF Numbered
    <2>5. CASE \E n \in Mutations \ {m} : Open(n)
      BY <2>4, <2>5 DEF Explained
    <2>6. CASE Explained(update[m].previous)
      BY <1>1, <2>1, <2>6 DEF Explained, ReasonsStay
    <2>7. QED BY <2>1, <2>2, <2>5, <2>6 DEF PreviousExplained
  <1>6. QED BY <1>2, <1>3, <1>4, <1>5 DEF ListInv

LEMMA NewList ==
  ASSUME IInv, count' = count + 1, list' \in Lists,
         \A n \in Mutations : Applied(n)' => Applied(n) /\ update'[n].count = update[n].count,
         Explained(list)' \/ (ListQuery \notin fresh' /\ \E n \in Mutations : Open(n)')
  PROVE  ListInv'
  <1>1. list' # None
    BY NoneAssumption
  <1>2. \A n \in Mutations : Applied(n)' => update'[n].count < count'
    <2> SUFFICES ASSUME NEW n \in Mutations, Applied(n)' PROVE update'[n].count < count'
      OBVIOUS
    <2>1. update[n].count <= count /\ update[n].count \in Nat /\ count \in Nat
      BY UpdateTypes, CacheTypes DEF IInv, Numbered
    <2>2. QED BY <2>1
  <1>3. \A n \in Mutations : Applied(n)' => ~Unchanged(n)' /\ update'[n].count <= count'
    <2> SUFFICES ASSUME NEW n \in Mutations, Applied(n)'
                 PROVE  update'[n].count # count' /\ update'[n].count <= count'
      BY DEF Unchanged
    <2>1. update[n].count \in Nat /\ count \in Nat /\ update'[n].count = update[n].count
      BY UpdateTypes, CacheTypes DEF IInv
    <2>2. QED BY <1>2, <2>1
  <1>4. Numbered' /\ Loaded' /\ PreviousExplained' /\ Pending'
    BY <1>1, <1>2, <1>3 DEF Numbered, Loaded, PreviousExplained, Pending
  <1>5. ListExplained'
    BY DEF ListExplained
  <1>6. QED BY <1>4, <1>5 DEF ListInv

LEMMA HeardKept ==
  ASSUME Heard, debt \subseteq debt',
         fetch'[ListQuery] = fetch[ListQuery] \/ fetch'[ListQuery].stage # "read",
         events' # {} \/ UNCHANGED <<events, server>>
  PROVE  Heard'
  <1>1. server' = server => Shown(server)' = Shown(server)
    BY DEF Shown
  <1>2. QED BY <1>1 DEF Heard

LEMMA AllKept ==
  ASSUME Shapes', Replied', Heard', ListInv'
  PROVE  IInv'
  BY DEF IInv, ListInv

LEMMA SameReplied ==
  ASSUME Replied, update' = update, sent' \subseteq sent
  PROVE  Replied'
  BY DEF Replied, Applied

LEMMA SameUpdates ==
  ASSUME update' = update
  PROVE  /\ \A n \in Mutations : Applied(n)' =>
              /\ Applied(n) /\ update'[n].previous = update[n].previous
              /\ update'[n].count = update[n].count
         /\ \A n \in Mutations : Open(n) => Open(n)' \/ Reason' \/ ListQuery \in fresh
  BY DEF Applied, Open

-----------------------------------------------------------------------------
(* The library's and the server's steps. *)

LEMMA ReadStep == ASSUME IInv, NEW q \in Queries, Read(q) PROVE IInv'
  <1>1. Shapes'
    BY ReadShapes DEF IInv
  <1>2. Replied'
    BY SameReplied DEF Read, IInv
  <1>3. q = ListQuery => fetch'[ListQuery].stage = "read" /\ fetch'[ListQuery].answer = Shown(server)'
    BY FetchTypes, ListQueryApart DEF Read, IInv, Shown
  <1>4. q # ListQuery => fetch'[ListQuery] = fetch[ListQuery]
    BY FetchTypes, ListQueryApart DEF Read, IInv
  <1>5. Heard'
    <2>1. CASE q = ListQuery
      BY <1>3, <2>1 DEF Heard
    <2>2. CASE q # ListQuery
      BY <1>4, <2>2, HeardKept DEF Read, IInv, history
    <2>3. QED BY <2>1, <2>2
  <1>6. ReasonsStay
    <2>1. CASE q = ListQuery
      BY <1>3, <2>1 DEF ReasonsStay, Reason
    <2>2. CASE q # ListQuery
      BY <1>4, <2>2, ReasonKept DEF Read, IInv, history
    <2>3. QED BY <2>1, <2>2
  <1>7. ListInv'
    BY <1>6, SameList, SameUpdates DEF Read, history
  <1>8. QED BY <1>1, <1>2, <1>5, <1>7, AllKept

LEMMA ListArrivesStep == ASSUME IInv, ListArrives PROVE IInv'
  <1>1. Shapes'
    BY ListArrivesShapes DEF IInv
  <1>2. Replied'
    BY SameReplied DEF ListArrives, IInv
  <1>3. fetch'[ListQuery].stage = "idle"
    BY FetchTypes, ListQueryApart, IdleFetches DEF ListArrives, IInv
  <1>4. Heard'
    BY <1>3 DEF Heard
  <1>5. Explained(list)'
    <2>1. \/ fetch[ListQuery].answer = Shown(server)
          \/ events # {} \/ "joined" \in debt
      BY DEF ListArrives, IInv, Heard
    <2>2. list' = fetch[ListQuery].answer /\ Shown(server)' = Shown(server) /\ events' = events /\ debt' = debt
      BY DEF ListArrives, SetList, Shown
    <2>3. QED BY <2>1, <2>2 DEF Explained, Reason
  <1>6. list' \in Lists /\ count' = count + 1
    BY FetchTypes DEF ListArrives, SetList, IInv
  <1>7. ListInv'
    BY <1>5, <1>6, NewList, SameUpdates DEF ListArrives
  <1>8. QED BY <1>1, <1>2, <1>4, <1>7, AllKept

LEMMA DetailArrivesStep == ASSUME IInv, NEW i \in Seeds, DetailArrives(i) PROVE IInv'
  <1>1. Shapes'
    BY DetailArrivesShapes DEF IInv
  <1>2. Replied'
    BY SameReplied DEF DetailArrives, IInv
  <1>3. fetch'[ListQuery] = fetch[ListQuery]
    BY FetchTypes, ListQueryApart DEF DetailArrives, IInv
  <1>4. Heard'
    BY <1>3, HeardKept DEF DetailArrives, IInv
  <1>5. ReasonsStay
    BY <1>3, ReasonKept DEF DetailArrives, IInv
  <1>6. ListQuery \in fresh' => ListQuery \in fresh
    BY ListQueryApart DEF DetailArrives
  <1>7. ListInv'
    BY <1>5, <1>6, SameList, SameUpdates DEF DetailArrives
  <1>8. QED BY <1>1, <1>2, <1>4, <1>7, AllKept

LEMMA FetchFailsStep == ASSUME IInv, NEW q \in Queries, FetchFails(q) PROVE IInv'
  <1>1. Shapes'
    BY FetchFailsShapes DEF IInv
  <1>2. Replied'
    BY SameReplied DEF FetchFails, IInv
  <1>3. fetch'[ListQuery] = fetch[ListQuery] \/ (q = ListQuery /\ fetch'[ListQuery].stage # "read")
    BY FetchTypes, ListQueryApart, IdleFetches DEF FetchFails, IInv
  <1>4. Heard'
    BY <1>3, HeardKept DEF FetchFails, IInv
  <1>5. ReasonsStay
    <2>1. CASE q = ListQuery
      <3>1. "failed" \in debt'
        BY <2>1 DEF FetchFails
      <3>2. QED BY <3>1 DEF ReasonsStay, Reason
    <2>2. CASE q # ListQuery
      BY <1>3, <2>2, ReasonKept DEF FetchFails, IInv
    <2>3. QED BY <2>1, <2>2
  <1>6. ListInv'
    BY <1>5, SameList, SameUpdates DEF FetchFails
  <1>7. QED BY <1>1, <1>2, <1>4, <1>6, AllKept

LEMMA OthersChangeStep ==
  ASSUME IInv, NEW o \in Others, NEW i \in Seeds, OthersChange(o, i) PROVE IInv'
  <1>1. Shapes'
    BY OthersChangeShapes DEF IInv
  <1>2. Replied'
    BY SameReplied DEF OthersChange, IInv
  <1>3. events' # {}
    BY DEF OthersChange, Announce
  <1>4. Heard'
    BY <1>3, HeardKept DEF OthersChange, IInv, cache, history
  <1>5. ReasonsStay
    BY <1>3 DEF ReasonsStay, Reason
  <1>6. ListInv'
    BY <1>5, SameList, SameUpdates DEF OthersChange, cache, history
  <1>7. QED BY <1>1, <1>2, <1>4, <1>6, AllKept

LEMMA AcceptStep == ASSUME IInv, NEW m \in Mutations, Accept(m) PROVE IInv'
  <1>1. Shapes'
    BY AcceptShapes DEF IInv
  <1>2. /\ \A n \in Mutations :
             /\ update'[n].stage = update[n].stage /\ update'[n].previous = update[n].previous
             /\ update'[n].ours = update[n].ours /\ update'[n].count = update[n].count
        /\ \A n \in Mutations : n # m => update'[n] = update[n]
        /\ update'[m].reply # None
        /\ update[m].reply # None => update'[m].reply = update[m].reply
    BY AnsweredUpdate, NoneAssumption DEF Accept, IInv, Replies
  <1>3. Replied'
    BY <1>2 DEF Accept, IInv, Replied, Applied
  <1>4. events' # {}
    BY DEF Accept, Announce
  <1>5. Heard'
    BY <1>4, HeardKept DEF Accept, IInv, cache, history
  <1>6. ReasonsStay /\ Reason'
    BY <1>4 DEF ReasonsStay, Reason
  <1>7. ListInv'
    BY <1>2, <1>6, SameList DEF Accept, cache, history, Applied
  <1>8. QED BY <1>1, <1>3, <1>5, <1>7, AllKept

LEMMA RefuseStep == ASSUME IInv, NEW m \in Mutations, Refuse(m) PROVE IInv'
  <1>1. Shapes'
    BY RefuseShapes DEF IInv
  <1>2. /\ \A n \in Mutations :
             /\ update'[n].stage = update[n].stage /\ update'[n].previous = update[n].previous
             /\ update'[n].ours = update[n].ours /\ update'[n].count = update[n].count
        /\ \A n \in Mutations : n # m => update'[n] = update[n]
        /\ update'[m].reply # None
        /\ update[m].reply # None => update'[m].reply = update[m].reply
        /\ update'[m].reply = "ok" => update[m].reply = "ok"
    BY AnsweredUpdate, NoneAssumption DEF Refuse, IInv, Replies
  <1>3. Replied'
    BY <1>2 DEF Refuse, IInv, Replied, Applied
  <1>4. Heard'
    BY HeardKept DEF Refuse, IInv, cache, history
  <1>5. \A n \in Mutations : /\ update'[n].stage = "idle" => update[n].stage = "idle"
                             /\ update'[n].reply = "ok" => update[n].reply = "ok"
    BY <1>2
  <1>6. ReasonsStay
    BY <1>5, ReasonKept DEF Refuse, IInv, cache, history
  <1>7. ListInv'
    BY <1>2, <1>5, <1>6, SameList DEF Refuse, cache, history, Applied, Open
  <1>8. QED BY <1>1, <1>3, <1>4, <1>7, AllKept

LEMMA LoseStep == ASSUME IInv, NEW m \in Mutations, Lose(m) PROVE IInv'
  <1>1. Shapes'
    BY LoseShapes DEF IInv
  <1>2. /\ \A n \in Mutations :
             /\ update'[n].stage = update[n].stage /\ update'[n].previous = update[n].previous
             /\ update'[n].ours = update[n].ours /\ update'[n].count = update[n].count
        /\ \A n \in Mutations : n # m => update'[n] = update[n]
        /\ update'[m].reply = "lost" /\ update[m].stage = "applied"
    BY UpdateTypes DEF Lose, IInv, Updates
  <1>3. Replied'
    <2>1. sent' = sent /\ Replied /\ "lost" # None
      BY NoneAssumption DEF Lose, IInv, Replies
    <2>2. QED BY <1>2, <2>1 DEF Replied, Applied
  <1>4. Heard'
    BY HeardKept DEF Lose, IInv, cache, history
  <1>5. \A n \in Mutations : /\ update'[n].stage = "idle" => update[n].stage = "idle"
                             /\ update'[n].reply = "ok" => update[n].reply = "ok"
    BY <1>2
  <1>6. ReasonsStay
    BY <1>5, ReasonKept DEF Lose, IInv, cache, history
  <1>7. ListInv'
    BY <1>2, <1>5, <1>6, SameList DEF Lose, cache, history, Applied, Open
  <1>8. QED BY <1>1, <1>3, <1>4, <1>7, AllKept

-----------------------------------------------------------------------------
(* The phone's steps. *)

LEMMA BeginStep == ASSUME IInv, NEW m \in Mutations, Begin(m) PROVE IInv'
  <1>1. Shapes'
    BY BeginShapes DEF IInv
  <1>2. /\ update[m].stage = "idle" /\ update[m].reply = None
        /\ update'[m].stage = "cancelling" /\ update'[m].reply = None
        /\ \A n \in Mutations : n # m => update'[n] = update[n]
    BY UpdateTypes DEF Begin, IInv, Replied, Updates
  <1>3. fetch'[ListQuery] = Idle /\ Idle.stage = "idle"
    BY ListQueryApart, IdleFetches DEF Begin
  <1>4. Replied'
    BY <1>2 DEF Begin, IInv, Replied, Applied
  <1>5. Heard'
    BY <1>3 DEF Heard
  <1>6. ReasonsStay
    <2>1. CASE fetch[ListQuery].stage = "idle"
      <3>1. Reason => events # {} \/ debt \intersect {"joined", "failed"} # {} \/ \E n \in Mutations : Owes(n)
        BY <2>1 DEF Reason
      <3>2. (\E n \in Mutations : Owes(n)) => \E n \in Mutations : Owes(n)'
        BY <1>2, <2>1 DEF Owes, Begin
      <3>3. QED BY <3>1, <3>2 DEF ReasonsStay, Reason, Begin
    <2>2. CASE fetch[ListQuery].stage # "idle"
      <3>1. Owes(m)'
        BY <1>2, <2>2, NoneAssumption DEF Owes, Begin, Replies
      <3>2. QED BY <3>1 DEF ReasonsStay, Reason
    <2>3. QED BY <2>1, <2>2
  <1>7. ListInv'
    <2>1. \A n \in Mutations : Applied(n)' =>
            /\ Applied(n) /\ update'[n].previous = update[n].previous
            /\ update'[n].count = update[n].count
      BY <1>2 DEF Applied
    <2>2. \A n \in Mutations : Open(n) => Open(n)'
      BY <1>2 DEF Applied, Open
    <2>3. QED BY <1>6, <2>1, <2>2, SameList DEF Begin
  <1>8. QED BY <1>1, <1>4, <1>5, <1>7, AllKept

LEMMA NotFoundStep == ASSUME IInv, NEW m \in Mutations, NotFound(m) PROVE IInv'
  <1>1. Shapes'
    BY NotFoundShapes DEF IInv
  <1>2. /\ update[m].stage = "cancelling" /\ update[m].reply = None
        /\ update'[m].stage = "settled" /\ update'[m].reply = "not found"
        /\ \A n \in Mutations : n # m => update'[n] = update[n]
    BY UpdateTypes DEF NotFound, IInv, Replied, Updates
  <1>3. Replied'
    BY <1>2, NoneAssumption DEF NotFound, IInv, Replied, Applied, Replies
  <1>4. Heard'
    BY HeardKept DEF NotFound, IInv, cache, history
  <1>5. \A n \in Mutations : /\ update'[n].stage = "idle" => update[n].stage = "idle"
                             /\ update'[n].reply = "ok" => update[n].reply = "ok"
    BY <1>2
  <1>6. ReasonsStay
    BY <1>5, ReasonKept DEF NotFound, IInv, cache, history
  <1>7. ListInv'
    <2>1. \A n \in Mutations : Applied(n)' =>
            /\ Applied(n) /\ update'[n].previous = update[n].previous
            /\ update'[n].count = update[n].count
      BY <1>2 DEF Applied
    <2>2. \A n \in Mutations : Open(n) => Open(n)'
      BY <1>2 DEF Applied, Open
    <2>3. QED BY <1>6, <2>1, <2>2, SameList DEF NotFound, cache, history
  <1>8. QED BY <1>1, <1>3, <1>4, <1>7, AllKept

LEMMA ApplyStep == ASSUME IInv, NEW m \in Mutations, Apply(m) PROVE IInv'
  <1> DEFINE i == Item(m)
             ours == Replace(PreviousList, i, OptimisticItem(m))
  <1>1. Shapes'
    BY ApplyShapes DEF IInv
  <1>2. /\ update[m].stage = "cancelling" /\ update[m].reply = None
        /\ list' = ours /\ count' = count + 1 /\ count \in Nat
        /\ ListQuery \notin fresh'
        /\ ours \in Lists /\ PreviousList \in Lists
    <2>1. ours \in Lists
      BY ItemIsItem, OfferedCopies, PreviousListType, ListsAreMaps, ReplaceMap DEF IInv
    <2>2. QED BY <2>1, PreviousListType, CacheTypes DEF Apply, SetList, IInv, Replied
  <1>3. /\ update'[m].stage = "applied" /\ update'[m].reply = None
        /\ update'[m].previous = PreviousList /\ update'[m].ours = ours
        /\ update'[m].count = count + 1
        /\ \A n \in Mutations : n # m => update'[n] = update[n]
    BY UpdateTypes DEF Apply, IInv
  <1>4. fetch'[ListQuery] = fetch[ListQuery]
    <2>1. i # ListQuery
      BY ItemIsItem, ListQueryApart DEF IInv
    <2>2. QED BY <2>1, FetchTypes, ListQueryApart DEF Apply, IInv
  <1>5. Replied'
    BY <1>2, <1>3 DEF Apply, IInv, Replied, Applied
  <1>6. Heard'
    BY <1>4, HeardKept DEF Apply, IInv
  <1>7. \A n \in Mutations : /\ update'[n].stage = "idle" => update[n].stage = "idle"
                             /\ update'[n].reply = "ok" => update[n].reply = "ok"
    BY <1>2, <1>3
  <1>8. ReasonsStay
    BY <1>4, <1>7, ReasonKept DEF Apply, IInv
  <1> HIDE DEF ours, i
  <1>9. \A n \in Mutations \ {m} : Applied(n)' => update'[n].count < count' /\ ~Unchanged(n)'
    <2> SUFFICES ASSUME NEW n \in Mutations \ {m}, Applied(n)'
                 PROVE  update'[n].count < count' /\ update'[n].count # count'
      BY DEF Unchanged
    <2>1. Applied(n) /\ update'[n].count = update[n].count
      BY <1>3 DEF Applied
    <2>2. update[n].count <= count /\ update[n].count \in Nat /\ count \in Nat
      BY <2>1, UpdateTypes, CacheTypes DEF IInv, Numbered
    <2>3. QED BY <1>2, <2>1, <2>2
  <1>10. Numbered'
    <2> SUFFICES ASSUME NEW n \in Mutations, Applied(n)' PROVE update'[n].count <= count'
      BY <1>2 DEF Numbered
    <2>1. CASE n = m
      BY <1>2, <1>3, <2>1
    <2>2. CASE n # m
      BY <1>2, <1>3, <1>9, <2>2, UpdateTypes DEF IInv
    <2>3. QED BY <2>1, <2>2
  <1>11. Loaded'
    BY <1>2 DEF Loaded
  <1>12. Open(m)'
    BY <1>3, NoneAssumption DEF Open, Applied, Replies
  <1>13. ListExplained'
    BY <1>2, <1>12 DEF ListExplained
  <1>14. PICK previous : previous = PreviousList
    OBVIOUS
  <1>15. Explained(previous)' \/ \E n \in Mutations \ {m} : Open(n)'
    <2>1. CASE list = None
      <3>1. Owes(m)'
        BY <1>3, <2>1, NoneAssumption DEF Owes, Apply, Replies
      <3>2. QED BY <3>1 DEF Explained, Reason
    <2>2. CASE list # None
      <3>1. previous = list
        BY <1>14, <2>2 DEF PreviousList
      <3>2. \A n \in Mutations : Open(n) => n # m /\ Open(n)'
        BY <1>2, <1>3 DEF Open, Applied
      <3>3. Shown(server)' = Shown(server)
        BY DEF Apply, Shown
      <3>4. Explained(list) => Explained(previous)'
        BY <1>8, <3>1, <3>3 DEF Explained, ReasonsStay
      <3>5. QED BY <3>2, <3>4 DEF IInv, ListExplained
    <2>3. QED BY <2>1, <2>2
  <1>16. PreviousExplained'
    <2> SUFFICES ASSUME NEW k \in Mutations, Applied(k)', Unchanged(k)'
                 PROVE  Explained(update[k].previous)' \/ \E n \in Mutations \ {k} : Open(n)'
      BY DEF PreviousExplained
    <2>1. k = m /\ update'[k].previous = previous
      BY <1>3, <1>9, <1>14
    <2>2. QED BY <1>15, <2>1 DEF Explained
  <1>17. Pending'
    <2> SUFFICES ASSUME NEW n \in Mutations, Applied(n)', Unchanged(n)', story.op[n] # "delete"
                 PROVE  list' # None /\ \E j \in DOMAIN list' : list'[j].pending = TRUE
      BY DEF Pending, Apply
    <2>1. n = m
      BY <1>9
    <2>2. OptimisticItem(m) \in Copies /\ OptimisticItem(m).pending = TRUE
      BY <2>1, OfferedCopies
    <2>3. i \in DOMAIN ours /\ ours[i] = OptimisticItem(m)
      BY <1>2, <2>2, ReplacePending DEF ours
    <2>4. QED BY <1>2, <2>2, <2>3, NoneAssumption
  <1>18. QED
    BY <1>1, <1>5, <1>6, <1>10, <1>11, <1>13, <1>16, <1>17, AllKept DEF ListInv

LEMMA LeaveItStep == ASSUME IInv, NEW m \in Mutations, LeaveIt(m) PROVE IInv'
  <1>1. Shapes'
    BY LeaveItShapes DEF IInv
  <1>2. /\ update[m].stage = "applied" /\ update[m].reply # None
        /\ update'[m].stage = "settled" /\ update'[m].reply = update[m].reply
        /\ \A n \in Mutations : n # m => update'[n] = update[n]
    BY SettledUpdate DEF LeaveIt, IInv
  <1>3. Replied'
    BY <1>2 DEF LeaveIt, IInv, Replied, Applied
  <1>4. Heard'
    BY HeardKept DEF LeaveIt, IInv, cache
  <1>5. \A n \in Mutations : /\ update'[n].stage = "idle" => update[n].stage = "idle"
                             /\ update'[n].reply = "ok" => update[n].reply = "ok"
    BY <1>2
  <1>6. ReasonsStay
    BY <1>5, ReasonKept DEF LeaveIt, IInv, cache
  <1>7. Open(m) => Reason' \/ ListQuery \in fresh
    <2> SUFFICES ASSUME Open(m), ListQuery \notin fresh PROVE Owes(m)'
      BY DEF Reason
    <2>1. QED BY <1>2 DEF Open, Owes, LeaveIt
  <1>8. ListInv'
    <2>1. \A n \in Mutations : Applied(n)' =>
            /\ Applied(n) /\ update'[n].previous = update[n].previous
            /\ update'[n].count = update[n].count
      BY <1>2 DEF Applied
    <2>2. \A n \in Mutations : Open(n) => Open(n)' \/ Reason' \/ ListQuery \in fresh
      BY <1>2, <1>7 DEF Applied, Open
    <2>3. QED BY <1>6, <2>1, <2>2, SameList DEF LeaveIt, cache
  <1>9. QED BY <1>1, <1>3, <1>4, <1>8, AllKept

LEMMA RollbackStep == ASSUME IInv, NEW m \in Mutations, Rollback(m) PROVE IInv'
  <1>1. update[m].previous \in Lists
    BY DEF Rollback, IInv, Replied, Applied
  <1>2. Shapes'
    BY <1>1, RollbackShapes DEF IInv
  <1>3. /\ update[m].stage = "applied" /\ update[m].reply \in {"refused", "lost"}
        /\ update'[m].stage = "settled" /\ update'[m].reply = update[m].reply
        /\ \A n \in Mutations : n # m => update'[n] = update[n]
    BY SettledUpdate DEF Rollback, IInv
  <1>4. Replied'
    BY <1>3, NoneAssumption DEF Rollback, IInv, Replied, Applied, Replies
  <1>5. fetch'[ListQuery] = fetch[ListQuery]
    <2>1. Item(m) # ListQuery
      BY ItemIsItem, ListQueryApart DEF IInv
    <2>2. QED BY <2>1, FetchTypes, ListQueryApart DEF Rollback, IInv
  <1>6. Heard'
    BY <1>5, HeardKept DEF Rollback, IInv
  <1>7. \A n \in Mutations : /\ update'[n].stage = "idle" => update[n].stage = "idle"
                             /\ update'[n].reply = "ok" => update[n].reply = "ok"
    BY <1>3
  <1>8. ReasonsStay
    BY <1>5, <1>7, ReasonKept DEF Rollback, IInv
  <1>9. Explained(update[m].previous) \/ \E n \in Mutations \ {m} : Open(n)
    BY <1>3 DEF Rollback, IInv, PreviousExplained, Applied
  <1>10. list' = update[m].previous /\ count' = count + 1 /\ ListQuery \notin fresh'
    BY DEF Rollback, SetList
  <1>11. Explained(list)' \/ \E n \in Mutations : Open(n)'
    <2>1. Shown(server)' = Shown(server)
      BY DEF Rollback, Shown
    <2>2. Explained(update[m].previous) => Explained(list)'
      BY <1>8, <1>10, <2>1 DEF Explained, ReasonsStay
    <2>3. \A n \in Mutations \ {m} : Open(n) => Open(n)'
      BY <1>3 DEF Open, Applied
    <2>4. QED BY <1>9, <2>2, <2>3
  <1>12. \A n \in Mutations : Applied(n)' => Applied(n) /\ update'[n].count = update[n].count
    BY <1>3 DEF Applied
  <1>13. ListInv'
    BY <1>1, <1>10, <1>11, <1>12, NewList
  <1>14. QED BY <1>2, <1>4, <1>6, <1>13, AllKept

LEMMA ConfirmDeletionStep == ASSUME IInv, NEW m \in Mutations, ConfirmDeletion(m) PROVE IInv'
  <1>1. Shapes'
    BY ConfirmDeletionShapes DEF IInv
  <1>2. /\ update[m].stage = "applied" /\ update[m].reply = "ok"
        /\ update'[m].stage = "settled" /\ update'[m].reply = "ok"
        /\ \A n \in Mutations : n # m => update'[n] = update[n]
    BY SettledUpdate DEF ConfirmDeletion, IInv
  <1>3. Replied'
    BY <1>2, NoneAssumption DEF ConfirmDeletion, IInv, Replied, Applied, Replies
  <1>4. Heard'
    BY HeardKept DEF ConfirmDeletion, IInv, cache, history
  <1>5. \A n \in Mutations : /\ update'[n].stage = "idle" => update[n].stage = "idle"
                             /\ update'[n].reply = "ok" => update[n].reply = "ok"
    BY <1>2
  <1>6. ReasonsStay
    BY <1>5, ReasonKept DEF ConfirmDeletion, IInv, cache, history
  <1>7. ListInv'
    <2>1. \A n \in Mutations : Applied(n)' =>
            /\ Applied(n) /\ update'[n].previous = update[n].previous
            /\ update'[n].count = update[n].count
      BY <1>2 DEF Applied
    <2>2. \A n \in Mutations : Open(n) => Open(n)'
      BY <1>2 DEF Applied, Open
    <2>3. QED BY <1>6, <2>1, <2>2, SameList DEF ConfirmDeletion, cache, history
  <1>8. QED BY <1>1, <1>3, <1>4, <1>7, AllKept

(* What a confirmation writes needs no reason of its own: an update that   *)
(* the server has made was followed by an event, and its list was pending. *)
LEMMA ConfirmStep == ASSUME IInv, NEW m \in Mutations, Confirm(m) PROVE IInv'
  <1>1. update[m].ours \in Lists
    BY DEF Confirm, IInv, Replied, Applied
  <1>2. Shapes'
    BY <1>1, ConfirmShapes DEF IInv
  <1>3. /\ update[m].stage = "applied" /\ update[m].reply = "ok"
        /\ update'[m].stage = "settled" /\ update'[m].reply = "ok"
        /\ \A n \in Mutations : n # m => update'[n] = update[n]
    BY SettledUpdate DEF Confirm, IInv
  <1>4. Replied'
    BY <1>3, NoneAssumption DEF Confirm, IInv, Replied, Applied, Replies
  <1>5. Heard'
    BY HeardKept DEF Confirm, IInv
  <1>6. \A n \in Mutations : /\ update'[n].stage = "idle" => update[n].stage = "idle"
                             /\ update'[n].reply = "ok" => update[n].reply = "ok"
    BY <1>3
  <1>7. ReasonsStay
    BY <1>6, ReasonKept DEF Confirm, IInv
  <1>8. list # Shown(server)
    <2>1. \E i \in DOMAIN list : list[i].pending = TRUE
      BY <1>3 DEF Confirm, IInv, Pending, Applied
    <2>2. \A i \in DOMAIN Shown(server) : Shown(server)[i].pending = FALSE
      BY ShownIsList, CacheTypes DEF IInv
    <2>3. QED BY <2>1, <2>2
  <1>9. Reason \/ \E n \in Mutations \ {m} : Open(n)
    BY <1>3, <1>8 DEF IInv, ListExplained, Explained, Open
  <1>10. list' \in Lists /\ count' = count + 1 /\ ListQuery \notin fresh'
    <2>1. list' # None /\ count' = count + 1 /\ ListQuery \notin fresh'
      <3>1. Confirmed(m) # None
        <4>1. FromServer(m) \in Copies /\ FromServer(m) # None
          BY OfferedCopies, NoneAssumption
        <4>2. Without(update[m].ours, Item(m)) \in Maps(Copies)
          BY <1>1, ListsAreMaps, WithoutMap
        <4>3. Confirmed(m) \in Maps(Copies)
          BY <4>1, <4>2, ItemIsItem, ReplaceMap DEF Confirmed, IInv
        <4>4. QED BY <4>3, ListsAreMaps, NoneAssumption
      <3>2. QED BY <3>1 DEF Confirm, SetList
    <2>2. QED BY <1>2, <2>1, CacheTypes DEF Shapes
  <1>11. Explained(list)' \/ \E n \in Mutations : Open(n)'
    <2>1. Reason => Explained(list)'
      BY <1>7 DEF Explained, ReasonsStay
    <2>2. \A n \in Mutations \ {m} : Open(n) => Open(n)'
      BY <1>3 DEF Open, Applied
    <2>3. QED BY <1>9, <2>1, <2>2
  <1>12. \A n \in Mutations : Applied(n)' => Applied(n) /\ update'[n].count = update[n].count
    BY <1>3 DEF Applied
  <1>13. ListInv'
    BY <1>10, <1>11, <1>12, NewList
  <1>14. QED BY <1>2, <1>4, <1>5, <1>13, AllKept

LEMMA SynchronizeStep == ASSUME IInv, NEW e, Synchronize(e) PROVE IInv'
  <1>1. Shapes'
    BY SynchronizeShapes DEF IInv
  <1>2. Replied'
    BY SameReplied DEF Synchronize, IInv
  <1>3. e.item # ListQuery
    BY ListQueryApart DEF Synchronize, IInv, Shapes
  <1>4. "joined" \in debt' \/ fetch'[ListQuery].stage = "started"
    <2>1. CASE Joins
      BY <2>1 DEF Synchronize
    <2>2. CASE ~Joins
      BY <2>2, ListQueryApart, IdleFetches DEF Synchronize
    <2>3. QED BY <2>1, <2>2
  <1>5. Heard'
    BY <1>4 DEF Heard
  <1>6. ReasonsStay
    BY <1>4 DEF ReasonsStay, Reason
  <1>7. ListQuery \in fresh' => ListQuery \in fresh
    BY DEF Synchronize
  <1>8. ListInv'
    BY <1>6, <1>7, SameList, SameUpdates DEF Synchronize
  <1>9. QED BY <1>1, <1>2, <1>5, <1>8, AllKept

LEMMA HydrateStep == ASSUME IInv, Hydrate PROVE IInv'
  <1>1. Shapes'
    BY HydrateShapes DEF IInv
  <1>2. Replied'
    BY SameReplied DEF Hydrate, IInv
  <1>3. Heard'
    BY HeardKept DEF Hydrate, IInv, cache, history
  <1>4. ReasonsStay
    BY ReasonKept DEF Hydrate, IInv, cache, history
  <1>5. ListInv'
    BY <1>4, SameList, SameUpdates DEF Hydrate, cache, history
  <1>6. QED BY <1>1, <1>2, <1>3, <1>5, AllKept

LEMMA HydratedStep == ASSUME IInv, Hydrated PROVE IInv'
  <1>1. Shapes'
    BY HydratedShapes DEF IInv
  <1>2. Replied'
    BY SameReplied DEF Hydrated, IInv
  <1>3. Heard'
    BY HeardKept DEF Hydrated, IInv
  <1>4. ReasonsStay
    BY ReasonKept DEF Hydrated, IInv
  <1>5. ListInv'
    <2>1. CASE StillUnloaded
      <3>1. list = None /\ list' = story.stored /\ count' = count + 1 /\ story.stored \in Lists
            /\ ListQuery \notin fresh'
        BY <2>1 DEF Hydrated, StillUnloaded, SetList, IInv, Shapes
      <3>2. list # Shown(server)
        BY <3>1, ShownIsList, CacheTypes, NoneAssumption DEF IInv
      <3>3. Reason \/ \E n \in Mutations : Open(n)
        BY <3>2 DEF IInv, ListExplained, Explained
      <3>4. Explained(list)' \/ \E n \in Mutations : Open(n)'
        BY <1>4, <3>3, SameUpdates DEF Explained, ReasonsStay, Open, Applied, Hydrated
      <3>5. QED BY <3>1, <3>4, NewList, SameUpdates DEF Hydrated
    <2>2. CASE ~StillUnloaded
      BY <1>4, <2>2, SameList, SameUpdates DEF Hydrated
    <2>3. QED BY <2>1, <2>2
  <1>6. QED BY <1>1, <1>2, <1>3, <1>5, AllKept

LEMMA NextIInv == IInv /\ [Next]_vars => IInv'
  <1> SUFFICES ASSUME IInv, [Next]_vars PROVE IInv'
    OBVIOUS
  <1>1. ASSUME NEW m \in Mutations, Begin(m) \/ Apply(m) \/ NotFound(m) PROVE IInv'
    BY <1>1, BeginStep, ApplyStep, NotFoundStep
  <1>2. ASSUME NEW m \in Mutations, Accept(m) \/ Refuse(m) \/ Lose(m) PROVE IInv'
    BY <1>2, AcceptStep, RefuseStep, LoseStep
  <1>3. ASSUME NEW m \in Mutations, LeaveIt(m) \/ Rollback(m) \/ ConfirmDeletion(m) \/ Confirm(m)
        PROVE  IInv'
    BY <1>3, LeaveItStep, RollbackStep, ConfirmDeletionStep, ConfirmStep
  <1>4. ASSUME NEW q \in Queries, Read(q) \/ FetchFails(q) PROVE IInv'
    BY <1>4, ReadStep, FetchFailsStep
  <1>5. CASE ListArrives
    BY <1>5, ListArrivesStep
  <1>6. ASSUME NEW i \in Seeds, DetailArrives(i) PROVE IInv'
    BY <1>6, DetailArrivesStep
  <1>7. ASSUME NEW o \in Others, NEW i \in Seeds, OthersChange(o, i) PROVE IInv'
    BY <1>7, OthersChangeStep
  <1>8. ASSUME NEW e \in events, Synchronize(e) PROVE IInv'
    BY <1>8, SynchronizeStep
  <1>9. CASE Hydrate \/ Hydrated
    BY <1>9, HydrateStep, HydratedStep
  <1>10. CASE UNCHANGED vars
    <2>1. Shown(server)' = Shown(server)
      BY <1>10 DEF vars, Shown
    <2>2. QED
      BY <1>10, <2>1 DEF vars, cache, history, IInv, Shapes, Replied, Numbered, Loaded, Heard, ListExplained,
         PreviousExplained, Pending, Explained, Reason, Owes, Open, Applied, Unchanged
  <1>11. QED BY <1>1, <1>2, <1>3, <1>4, <1>5, <1>6, <1>7, <1>8, <1>9, <1>10 DEF Next

(* The inductive invariant holds in every state of every behaviour.        *)
THEOREM Invariance == Spec => []IInv
  BY InitIInv, NextIInv, PTL DEF Spec

(* However updates, refetches, events and failures overlap: once nothing   *)
(* is under way the list of the phone is the server's, or the refetch that *)
(* would have made it so was given up for an update that failed, failed    *)
(* itself, or was joined after it had read.                                *)
THEOREM TheListSettles == Spec => []ListSettles
  <1>1. IInv => ListSettles
    <2> SUFFICES ASSUME IInv, Quiet, list # Shown(server), debt \intersect {"joined", "failed"} = {}
                 PROVE  \E m \in debt \intersect Mutations : Failed(m)
      BY DEF ListSettles
    <2>1. \A m \in Mutations : ~Open(m)
      BY DEF Quiet, Open, Applied
    <2>2. Reason
      BY <2>1 DEF IInv, ListExplained, Explained
    <2>3. PICK m \in Mutations : Owes(m)
      BY <2>2 DEF Reason, Quiet
    <2>4. update[m].stage = "settled" /\ update[m].reply # None /\ update[m].reply # "ok"
      BY <2>3 DEF Owes, Quiet, IInv, Replied
    <2>5. update[m].reply \in {"refused", "lost", "not found"}
      BY <2>4, UpdateTypes DEF IInv, Replies
    <2>6. QED BY <2>3, <2>5 DEF Owes, Failed
  <1>2. QED BY <1>1, Invariance, PTL

-----------------------------------------------------------------------------
(* Who applies a list. *)
Covering == \E m \in Mutations : update[m].stage = "cancelling" /\ update'[m].stage = "applied"

LEMMA FreshStep ==
  ASSUME IInv, Next, ListQuery \in fresh, ListQuery \notin fresh'
  PROVE  Covering
  <1>1. \A m \in Mutations : ~Rollback(m) /\ ~Confirm(m)
    <2> SUFFICES ASSUME NEW m \in Mutations, Applied(m), Unchanged(m) PROVE FALSE
      BY DEF Rollback, Confirm, Applied
    <2>1. update[m].count < count /\ update[m].count \in Nat /\ count \in Nat
      BY UpdateTypes, CacheTypes DEF IInv, Numbered
    <2>2. QED BY <2>1 DEF Unchanged
  <1>2. ~Hydrated
    BY DEF Hydrated, StillUnloaded, IInv, Loaded
  <1>3. \A e \in events : ~Synchronize(e)
    <2> SUFFICES ASSUME NEW e \in events, Synchronize(e) PROVE FALSE
      OBVIOUS
    <2>1. e.item # ListQuery
      BY ListQueryApart DEF IInv, Shapes
    <2>2. QED BY <2>1 DEF Synchronize
  <1>4. \A m \in Mutations :
          ~(Begin(m) \/ NotFound(m) \/ Accept(m) \/ Refuse(m) \/ Lose(m) \/ LeaveIt(m) \/ ConfirmDeletion(m))
    BY DEF Begin, NotFound, Accept, Refuse, Lose, LeaveIt, ConfirmDeletion, cache, history
  <1>5. /\ \A q \in Queries : ~Read(q) /\ ~FetchFails(q)
        /\ ~ListArrives /\ \A i \in Seeds : ~DetailArrives(i)
        /\ \A o \in Others, i \in Seeds : ~OthersChange(o, i)
        /\ ~Hydrate
    BY DEF Read, FetchFails, ListArrives, DetailArrives, OthersChange, Hydrate, cache, history
  <1>6. PICK m \in Mutations : Apply(m)
    BY <1>1, <1>2, <1>3, <1>4, <1>5 DEF Next
  <1>7. update[m].stage = "cancelling" /\ update'[m].stage = "applied"
    BY <1>6, UpdateTypes DEF Apply, IInv
  <1>8. QED BY <1>7 DEF Covering

(* rollbackOptimisticGroceryUpdate, confirmOptimisticGroceryUpdate and     *)
(* hydrateGroceryQueryCache: none of them ever writes over a list that     *)
(* came from the server after the one they know of.                        *)
THEOREM AFreshListStays == Spec => FreshListStays
  <1>1. IInv /\ [Next]_vars => [OnlyCoveredByAnUpdate(ListQuery)]_vars
    BY FreshStep DEF OnlyCoveredByAnUpdate, Covering
  <1>2. QED BY <1>1, Invariance, PTL DEF Spec, FreshListStays

=============================================================================
