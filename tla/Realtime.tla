------------------------------ MODULE Realtime ------------------------------
(* The realtime server and a phone together. *)
EXTENDS RealtimeServer, RealtimeClient

vars == <<story, log, members, expired, owner, down, wire, due, incidents, serverVars, clientVars>>

TypeOK == DataTypeOK /\ ServerTypeOK /\ ClientTypeOK

Init == DataInit /\ ServerInit /\ ClientInit

Next ==
  /\ \/ ServerNext /\ UNCHANGED clientVars
     \/ ClientNext /\ UNCHANGED serverVars
  /\ UNCHANGED story

Spec == Init /\ [][Next]_vars

-----------------------------------------------------------------------------
(* Properties. *)

(* The event n has still to be handled, on its way through Redis or on the *)
(* phone's socket, or the socket is about to be closed.                    *)
OnTheWay(n) ==
  \/ \E t \in Sockets : \E i \in DOMAIN inbox[t] : inbox[t][i] = EventNotice(n)
  \/ \E i \in DOMAIN wire[socket] : wire[socket][i] = EventMessage(n)
  \/ stage[socket] = "refusing" \/ \E t \in Sockets : task[t] = "lost"

Shows(q, n) == q \notin cached \/ fetch[q] # "idle" \/ view[q] >= n

Connected == socket # None /\ socket \notin down

(* What was published while the phone's socket was served is never lost    *)
(* silently: it is on its way, or the list shows it or is being refetched. *)
(* Reordering, gaps, resets and a lost subscription do not matter.         *)
(* The same holds of an item's details and the changes to it, from the     *)
(* number on that the tracker began with.                                  *)
PublishedIsShown ==
  Connected => \A n \in due :
    \/ OnTheWay(n)
    \/ /\ Shows(List, n)
       /\ log[n].kind = "change" /\ n >= base => Shows(log[n].item, n)

(* A phone that has reconnected shows everything once nothing is under way: *)
(* clients refresh when they connect or reconnect, and no events are missed *)
(* silently (README.md:153-154, 288-289).                                   *)
ReconnectedIsFresh ==
  /\ Connected /\ reconnecting /\ wire[socket] = <<>> /\ stage[socket] = "serving"
  /\ sub # None /\ task[sub] = "listening" /\ inbox[sub] = <<>>
  /\ unpublished = {}
  /\ \A q \in Queries : fetch[q] = "idle"
  => view[List] = Len(log)

=============================================================================
