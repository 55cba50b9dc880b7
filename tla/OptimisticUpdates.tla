-------------------------- MODULE OptimisticUpdates --------------------------
(***************************************************************************)
(* The grocery list a phone shows while its changes are on their way.      *)
(*                                                                         *)
(*   features/offline/optimisticGroceryUpdates.ts  Begin, Apply, Rollback, *)
(*                                                 Confirm                 *)
(*   features/offline/groceryCacheHydration.ts     Hydrate, Hydrated       *)
(*   features/grocery/realtimeSynchronization.ts   Synchronize             *)
(*                                                                         *)
(* Two kinds of queries are in TanStack Query's cache: the list, "items",  *)
(* and the details of items.  An action is what JavaScript runs between    *)
(* two awaits.  The server and the library are external: modelled as the   *)
(* phone sees them.  Whoever applies an update sends the request, then     *)
(* confirms it with the answer or rolls it back, as the tests do.          *)
(***************************************************************************)
EXTENDS Integers, FiniteSets, Functions

CONSTANTS
  Seeds,      \* items on the server at the start
  Mutations,  \* the phone's changes
  Others,     \* changes by other members
  Stories,    \* which changes there are, and what the phone has at the start
  None

VARIABLES
  story,    \* op and target of each change, or "none"; what the others do; is the
            \* list loaded; which details are shown; the SQLite copy
  server,   \* the rows: item -> the change that wrote it last
  todo,     \* changes others have not made yet
  events,   \* announced changes the phone has not heard of yet
  list,     \* the data of "items", or None
  count,    \* its dataUpdateCount
  details,  \* the data of each item's own query
  fetch,    \* the request under way for a query, and what it has read
  update,   \* the context of each of the phone's changes
  sent,     \* those whose request the server has yet to handle
  hydrating,
  fresh,    \* history: the queries whose data the server wrote last
  debt      \* history: why the list may be old: who dropped or spoilt a fetch
            \* of the list that nothing has started again

cache == <<list, count, details, fetch>>
history == <<fresh, debt>>
vars == <<story, server, todo, events, cache, update, sent, hydrating, history>>

Temp(m) == <<"temp", m>>  \* the id the phone gives an item it adds
Made(m) == <<"made", m>>  \* the id the server gives it

(* The keys of the queries: the list's, and for its detail the item's id. *)
ListQuery == <<"items">>
Queries == {ListQuery} \union Seeds

(* A row of the server is known by the change that wrote it last; what the *)
(* phone shows of it may be pending.                                       *)
Items == Seeds \union {Temp(m) : m \in Mutations} \union {Made(m) : m \in Mutations}
Writers == {"seed"} \union Mutations \union Others
Copies == [by : Writers, pending : BOOLEAN]
Lists == UNION {[S -> Copies] : S \in SUBSET Items}

Ops == {"none", "add", "edit", "delete"}
Replies == {"ok", "refused", "lost", "not found"}

ASSUME NoneAssumption == None \notin Replies \union Copies \union Lists

ASSUME SeedsAssumption == ListQuery \notin Seeds

ASSUME StoriesAssumption ==
  \A s \in Stories :
    /\ s.op \in [Mutations -> Ops]
    /\ \A m \in Mutations : s.target[m] \in Items
    /\ s.others \in Ops \ {"add"}
    /\ s.loaded \in BOOLEAN
    /\ s.open \subseteq Seeds
    /\ s.stored \in Lists \union {None}

Idle == [stage |-> "idle", answer |-> None]
NoUpdate == [stage |-> "idle", reply |-> None, previous |-> None, detail |-> None,
             ours |-> None, count |-> 0]

Item(m) == IF story.op[m] = "add" THEN Temp(m) ELSE story.target[m]
FromServer(by) == [by |-> by, pending |-> FALSE]
Shown(rows) == [i \in DOMAIN rows |-> FromServer(rows[i])]
Lookup(f, i) == IF i \in DOMAIN f THEN f[i] ELSE None
Without(f, i) == Restrict(f, DOMAIN f \ {i})

(* replaceItem, and the setQueryData or removeQueries of one detail. *)
Replace(f, i, new) ==
  IF new = None THEN Without(f, i)
  ELSE [j \in DOMAIN f \union {i} |-> IF j = i THEN new ELSE f[j]]

Failed(m) == update[m].reply \in {"refused", "lost", "not found"}

-----------------------------------------------------------------------------

Init ==
  /\ story \in Stories
  /\ server = [i \in Seeds |-> "seed"]
  /\ todo = IF story.others = "none" THEN {} ELSE Others
  /\ events = {}
  /\ list = IF story.loaded THEN Shown(server) ELSE None
  /\ count = IF story.loaded THEN 1 ELSE 0
  /\ details = Restrict(Shown(server), story.open)
  /\ fetch = [q \in Queries |-> IF q = ListQuery /\ ~story.loaded THEN [Idle EXCEPT !.stage = "started"] ELSE Idle]
  /\ update = [m \in Mutations |-> NoUpdate]
  /\ sent = {}
  /\ hydrating = IF story.loaded THEN "done" ELSE "no"
  /\ fresh = story.open \union (IF story.loaded THEN {ListQuery} ELSE {})
  /\ debt = {}

-----------------------------------------------------------------------------
(* TanStack Query and the server. *)

(* setQueryData of the list. *)
SetList(data) == list' = data /\ count' = count + 1

(* invalidateQueries cancels a fetch and starts another, except that the   *)
(* first fetch of a query is joined, though it may have read already.      *)
Joins == list = None /\ fetch[ListQuery].stage # "idle"

Read(q) ==
  /\ fetch[q].stage = "started"
  /\ fetch' = [fetch EXCEPT ![q] =
       [stage |-> "read", answer |-> IF q = ListQuery THEN Shown(server) ELSE Lookup(Shown(server), q)]]
  /\ UNCHANGED <<story, server, todo, events, list, count, details, update, sent, hydrating, history>>

ListArrives ==
  /\ fetch[ListQuery].stage = "read"
  /\ SetList(fetch[ListQuery].answer)
  /\ fetch' = [fetch EXCEPT ![ListQuery] = Idle]
  /\ fresh' = fresh \union {ListQuery}
  /\ UNCHANGED <<story, server, todo, events, details, update, sent, hydrating, debt>>

(* A 404 leaves the data as it was. *)
DetailArrives(i) ==
  LET found == fetch[i].answer
  IN /\ fetch[i].stage = "read"
     /\ details' = IF found = None THEN details ELSE Replace(details, i, found)
     /\ fresh' = IF found = None THEN fresh ELSE fresh \union {i}
     /\ fetch' = [fetch EXCEPT ![i] = Idle]
     /\ UNCHANGED <<story, server, todo, events, list, count, update, sent, hydrating, debt>>

FetchFails(q) ==
  /\ fetch[q].stage # "idle"
  /\ fetch' = [fetch EXCEPT ![q] = Idle]
  /\ debt' = IF q = ListQuery THEN debt \union {"failed"} ELSE debt
  /\ UNCHANGED <<story, server, todo, events, list, count, details, update, sent, hydrating, fresh>>

Announce(op, i, by) == events' = events \union {[op |-> op, item |-> i, by |-> by]}

OthersChange(o, i) ==
  /\ o \in todo
  /\ i \in DOMAIN server
  /\ server' = Replace(server, i, IF story.others = "delete" THEN None ELSE o)
  /\ todo' = todo \ {o}
  /\ Announce(story.others, i, o)
  /\ UNCHANGED <<story, cache, update, sent, hydrating, history>>

Answer(m, reply) ==
  update' = [update EXCEPT ![m].reply = IF @ = None THEN reply ELSE @]

Accept(m) ==
  LET row == IF story.op[m] = "add" THEN Made(m) ELSE Item(m)
  IN /\ m \in sent
     /\ story.op[m] = "add" \/ row \in DOMAIN server
     /\ server' = Replace(server, row, IF story.op[m] = "delete" THEN None ELSE m)
     /\ Announce(story.op[m], row, m)
     /\ Answer(m, "ok")
     /\ sent' = sent \ {m}
     /\ UNCHANGED <<story, todo, cache, hydrating, history>>

Refuse(m) ==
  /\ m \in sent
  /\ Answer(m, "refused")
  /\ sent' = sent \ {m}
  /\ UNCHANGED <<story, server, todo, events, cache, hydrating, history>>

(* The phone gives up waiting, before or after the server has handled it. *)
Lose(m) ==
  /\ update[m].stage = "applied" /\ update[m].reply \in {None, "ok"}
  /\ update' = [update EXCEPT ![m].reply = "lost"]
  /\ UNCHANGED <<story, server, todo, events, cache, sent, hydrating, history>>

-----------------------------------------------------------------------------
(* The phone's handlers. *)

(* cancelQueries of the list and of the item's detail. *)
Begin(m) ==
  /\ story.op[m] # "none"
  /\ update[m].stage = "idle"
  /\ update' = [update EXCEPT ![m].stage = "cancelling"]
  /\ fetch' = [q \in Queries |-> IF q \in {ListQuery, Item(m)} THEN Idle ELSE fetch[q]]
  /\ debt' = IF fetch[ListQuery].stage = "idle" THEN debt ELSE debt \union {m}
  /\ UNCHANGED <<story, server, todo, events, list, count, details, sent, hydrating, fresh>>

(* markPending of what buildOptimisticItem makes; nothing for a deletion. *)
OptimisticItem(m) == IF story.op[m] = "delete" THEN None ELSE [by |-> m, pending |-> TRUE]

PreviousList == IF list = None THEN << >> ELSE list

(* The item is looked for in the list, then in its own query. *)
Findable(m) == story.op[m] = "add" \/ Item(m) \in DOMAIN PreviousList \union DOMAIN details

Apply(m) ==
  LET i == Item(m)
      ours == Replace(PreviousList, i, OptimisticItem(m))
  IN /\ update[m].stage = "cancelling"
     /\ Findable(m)
     /\ SetList(ours)
     /\ details' = Replace(details, i, OptimisticItem(m))
     /\ fetch' = IF story.op[m] = "delete" /\ i \in Queries THEN [fetch EXCEPT ![i] = Idle] ELSE fetch
     /\ update' = [update EXCEPT ![m] =
          [stage |-> "applied", reply |-> None, previous |-> PreviousList,
           detail |-> Lookup(details, i), ours |-> ours, count |-> count + 1]]
     /\ sent' = sent \union {m}
     /\ fresh' = fresh \ {ListQuery, i}
     /\ debt' = IF list = None THEN debt \union {m} ELSE debt
     /\ UNCHANGED <<story, server, todo, events, hydrating>>

(* OptimisticGroceryItemNotFoundError: the fetch it cancelled is not resumed. *)
NotFound(m) ==
  /\ update[m].stage = "cancelling"
  /\ ~Findable(m)
  /\ update' = [update EXCEPT ![m].stage = "settled", ![m].reply = "not found"]
  /\ UNCHANGED <<story, server, todo, events, cache, sent, hydrating, history>>

(* Mutant of Unchanged: any list will do. *)
UnchangedUnchecked(m) == TRUE
(* What rollback and confirm check: the list is still the one apply wrote. *)
Unchanged(m) == count = update[m].count

(* The context is dropped, but for the reply. *)
Settle(m) == update' = [update EXCEPT ![m] = [NoUpdate EXCEPT !.stage = "settled", !.reply = update[m].reply]]

(* Rollback or confirmation returns false. *)
LeaveIt(m) ==
  /\ update[m].stage = "applied" /\ update[m].reply # None
  /\ ~Unchanged(m)
  /\ Settle(m)
  /\ debt' = IF ListQuery \in fresh THEN debt ELSE debt \union {m}
  /\ UNCHANGED <<story, server, todo, events, cache, sent, hydrating, fresh>>

Rollback(m) ==
  /\ update[m].stage = "applied" /\ update[m].reply \in {"refused", "lost"}
  /\ Unchanged(m)
  /\ Settle(m)
  /\ SetList(update[m].previous)
  /\ details' = Replace(details, Item(m), update[m].detail)
  /\ fetch' = IF update[m].detail = None /\ Item(m) \in Queries THEN [fetch EXCEPT ![Item(m)] = Idle] ELSE fetch
  /\ fresh' = fresh \ {ListQuery, Item(m)}
  /\ UNCHANGED <<story, server, todo, events, sent, hydrating, debt>>

ConfirmDeletion(m) ==
  /\ story.op[m] = "delete"
  /\ update[m].stage = "applied" /\ update[m].reply = "ok"
  /\ Unchanged(m)
  /\ Settle(m)
  /\ UNCHANGED <<story, server, todo, events, cache, sent, hydrating, history>>

(* The optimistic list with the server's item in the place of the phone's. *)
Confirmed(m) ==
  LET row == IF story.op[m] = "add" THEN Made(m) ELSE Item(m)
  IN Replace(Without(update[m].ours, Item(m)), row, FromServer(m))

Confirm(m) ==
  LET row == IF story.op[m] = "add" THEN Made(m) ELSE Item(m)
  IN /\ story.op[m] # "delete"
     /\ update[m].stage = "applied" /\ update[m].reply = "ok"
     /\ Unchanged(m)
     /\ Settle(m)
     /\ SetList(Confirmed(m))
     /\ details' = Replace(Without(details, Item(m)), row, FromServer(m))
     /\ fresh' = fresh \ {ListQuery, row}
     /\ UNCHANGED <<story, server, todo, events, fetch, sent, hydrating, debt>>

(* synchronizeGroceryRealtimeEvent: a deleted item's detail is removed, the *)
(* list is fetched again, and an edited item's detail if it is shown.       *)
Synchronize(e) ==
  /\ e \in events
  /\ events' = events \ {e}
  /\ debt' = IF Joins THEN debt \union {"joined"} ELSE {}
  /\ LET restarted == (IF Joins THEN {} ELSE {ListQuery})
                      \union (IF e.op = "edit" THEN {e.item} \intersect DOMAIN details ELSE {})
     IN fetch' = [q \in Queries |->
          IF q \in restarted THEN [Idle EXCEPT !.stage = "started"]
          ELSE IF e.op = "delete" /\ q = e.item THEN Idle ELSE fetch[q]]
  /\ details' = IF e.op = "delete" THEN Without(details, e.item) ELSE details
  /\ fresh' = IF e.op = "delete" THEN fresh \ {e.item} ELSE fresh
  /\ UNCHANGED <<story, server, todo, list, count, update, sent, hydrating>>

Hydrate ==
  /\ hydrating = "no"
  /\ hydrating' = IF list = None /\ story.stored # None THEN "reading" ELSE "done"
  /\ UNCHANGED <<story, server, todo, events, cache, update, sent, history>>

(* Mutant of StillUnloaded: only checked before. *)
StillUnloadedUnchecked == TRUE
(* Online data always wins: checked again after SQLite was read. *)
StillUnloaded == list = None

Hydrated ==
  /\ hydrating = "reading"
  /\ hydrating' = "done"
  /\ IF StillUnloaded THEN SetList(story.stored) /\ fresh' = fresh \ {ListQuery}
                      ELSE UNCHANGED <<list, count, fresh>>
  /\ UNCHANGED <<story, server, todo, events, details, fetch, update, sent, debt>>

Next ==
  \/ \E m \in Mutations :
       \/ Begin(m) \/ Apply(m) \/ NotFound(m)
       \/ Accept(m) \/ Refuse(m) \/ Lose(m)
       \/ LeaveIt(m) \/ Rollback(m) \/ ConfirmDeletion(m) \/ Confirm(m)
  \/ \E q \in Queries : Read(q) \/ FetchFails(q)
  \/ ListArrives
  \/ \E i \in Seeds : DetailArrives(i)
  \/ \E o \in Others, i \in Seeds : OthersChange(o, i)
  \/ \E e \in events : Synchronize(e)
  \/ Hydrate \/ Hydrated

Spec == Init /\ [][Next]_vars

-----------------------------------------------------------------------------

(* A list or an item the server has sent is only ever covered by a newer   *)
(* optimistic update: never by the rollback or the confirmation of an      *)
(* older one, nor by what SQLite had.                                      *)
OnlyCoveredByAnUpdate(q) ==
  q \in fresh \ fresh' =>
    \E m \in Mutations : update[m].stage = "cancelling" /\ update'[m].stage = "applied"

(* The list of queries after optimisticGroceryUpdates.ts:232 and           *)
(* groceryCacheHydration.ts:35: their guards are the only thing between an *)
(* answer of the server and a list from before it.                         *)
FreshListStays == [][OnlyCoveredByAnUpdate(ListQuery)]_vars

(* Once nothing is under way, the phone shows what the server has, or one  *)
(* of its failed updates had cancelled or mixed up a fetch that nothing    *)
(* has started again, or a fetch failed, or a first fetch had read before  *)
(* the event that joined it.                                               *)
Quiet ==
  /\ events = {} /\ sent = {}
  /\ fetch[ListQuery].stage = "idle"
  /\ hydrating # "reading"
  /\ \A m \in Mutations : update[m].stage \in {"idle", "settled"}

ListSettles ==
  Quiet => \/ list = Shown(server)
           \/ debt \intersect {"joined", "failed"} # {}
           \/ \E m \in debt \intersect Mutations : Failed(m)

=============================================================================
