--------------------------- MODULE RealtimeClient ---------------------------
(* The phone: useHouseholdRealtime with its HouseholdRealtimeClient, order *)
(* tracker and TanStack queries.  A query shows the activity up to some    *)
(* sequence number; its refetch reads the server and arrives later.  The   *)
(* hook is mounted by a screen that has loaded its queries.                *)
EXTENDS RealtimeData

VARIABLES
  foreground,    \* appIsActive
  socket,        \* the client's socket, or None
  timer,         \* whether a reconnectTimer is set
  enabled,       \* reconnectEnabled
  reconnecting,  \* isReconnect of the socket
  latest,        \* latestSequenceBySession, 0 when there is none
  base,          \* history: the sequence number the tracker began with
  cached,        \* queries that are in the cache
  fetch,         \* the refetch of each query
  view           \* what each query shows

clientVars == <<foreground, socket, timer, enabled, reconnecting, latest, base, cached, fetch,
                view>>

ClientTypeOK ==
  /\ foreground \in BOOLEAN /\ timer \in BOOLEAN /\ enabled \in BOOLEAN
  /\ reconnecting \in BOOLEAN
  /\ socket \in Sockets \union {None}
  /\ latest \in 0..MaxEvents /\ base \in 0..MaxEvents
  /\ cached \subseteq Queries
  /\ fetch \in [Queries -> {"idle", "sent", "failed"}]
  /\ view \in [Queries -> 0..MaxEvents]

ClientInit ==
  /\ foreground = FALSE
  /\ socket = None /\ timer = FALSE /\ enabled = FALSE /\ reconnecting = FALSE
  /\ latest = 0 /\ base = 0
  /\ cached = story.screen
  /\ fetch = [q \in Queries |-> "idle"]
  /\ view = [q \in Queries |-> 0]

-----------------------------------------------------------------------------
(* HouseholdRealtimeClient. *)

(* The sockets of S lose their handlers and are closed. *)
CloseByPhone(S) ==
  /\ down' = down \union S
  /\ wire' = [s \in Sockets |-> IF s \in S THEN <<>> ELSE wire[s]]

(* Mutant of Disconnect: a pending reconnection is not cancelled. *)
DisconnectSocketOnly ==
  /\ enabled' = FALSE /\ socket' = None /\ UNCHANGED timer
  /\ CloseByPhone({socket} \ {None})

Disconnect ==
  /\ enabled' = FALSE /\ timer' = FALSE /\ socket' = None
  /\ CloseByPhone({socket} \ {None})

(* A factory that throws is tried again later. *)
OpenSocket(isReconnect) ==
  /\ reconnecting' = isReconnect
  /\ due' = {}
  /\ \/ \E s \in Unused :
          /\ owner' = [owner EXCEPT ![s] = Me]
          /\ socket' = s /\ timer' = FALSE
          /\ UNCHANGED incidents
     \/ Incident("factory") /\ socket' = None /\ timer' = TRUE /\ UNCHANGED owner

(* connect() on a client that has neither a socket nor a timer. *)
Connect == enabled' = TRUE /\ OpenSocket(FALSE)

Timer ==
  /\ timer /\ enabled /\ socket = None
  /\ OpenSocket(TRUE)
  /\ UNCHANGED <<log, members, expired, down, wire, foreground, enabled, latest, base, cached,
                 fetch, view>>

-----------------------------------------------------------------------------
(* The tracker and the queries. *)

ResetTracker == latest' = 0 /\ base' = 0

(* invalidateQueries: a refetch under way is cancelled for a new one. *)
Refreshed(Q) == [q \in Queries |-> IF q \in Q \intersect cached THEN "sent" ELSE fetch[q]]
Refresh(Q) == fetch' = Refreshed(Q) /\ UNCHANGED cached

(* synchronizeGroceryRealtimeEvent *)
Synchronize(n) ==
  LET e == log[n]
  IN /\ cached' = IF e.kind = "delete" THEN cached \ {e.item} ELSE cached
     /\ fetch' = CASE e.kind = "delete" -> [Refreshed({List}) EXCEPT ![e.item] = "idle"]
                   [] e.kind = "change" -> Refreshed({List, e.item})
                   [] OTHER -> Refreshed({List})

(* Mutant of Accepted: the next expected number is remembered instead. *)
AcceptedExpectsNext(n) ==
  /\ latest = 0 \/ n = latest
  /\ latest' = n + 1
  /\ base' = IF latest = 0 THEN n ELSE base
  /\ Synchronize(n)

Accepted(n) ==
  /\ latest = 0 \/ n = latest + 1
  /\ latest' = n
  /\ base' = IF latest = 0 THEN n ELSE base
  /\ Synchronize(n)

(* A duplicate is not above the latest number either. *)
Stale(n) == latest > 0 /\ n <= latest /\ UNCHANGED <<latest, base, cached, fetch>>

(* Mutant of Gap: the event is synchronized like an expected one. *)
GapSynchronized(n) ==
  /\ latest > 0 /\ n > latest + 1
  /\ latest' = n
  /\ Synchronize(n)
  /\ UNCHANGED base

Gap(n) ==
  /\ latest > 0 /\ n > latest + 1
  /\ latest' = n
  /\ Refresh(Queries)
  /\ UNCHANGED base

-----------------------------------------------------------------------------
(* The callbacks of the socket. *)

NextMessage(type) ==
  /\ socket # None /\ wire[socket] # <<>> /\ Head(wire[socket]).type = type
  /\ wire' = [wire EXCEPT ![socket] = Tail(@)]

OnOpen ==
  /\ NextMessage("open")
  /\ \/ reconnecting /\ ResetTracker /\ Refresh(Queries)
     \/ ~reconnecting /\ UNCHANGED <<latest, base, cached, fetch>>
  /\ UNCHANGED <<log, members, expired, owner, down, due, incidents, foreground, socket, timer,
                 enabled, reconnecting, view>>

OnEvent ==
  /\ NextMessage("event")
  /\ LET n == Head(wire[socket]).seq IN Accepted(n) \/ Stale(n) \/ Gap(n)
  /\ UNCHANGED <<log, members, expired, owner, down, due, incidents, foreground, socket, timer,
                 enabled, reconnecting, view>>

Retryable(code) == code \notin {1000, 4401, 4404}

OnClose ==
  /\ NextMessage("close")
  /\ socket' = None
  /\ LET again == enabled /\ Retryable(Head(wire[socket]).code)
     IN timer' = again /\ enabled' = again
  /\ UNCHANGED <<log, members, expired, owner, down, due, incidents, foreground, reconnecting,
                 latest, base, cached, fetch, view>>

-----------------------------------------------------------------------------
(* The app, its token, and the REST API behind the queries. *)

Foreground ==
  /\ ~foreground
  /\ foreground' = TRUE
  /\ ResetTracker
  /\ Refresh(Queries)
  /\ Connect
  /\ UNCHANGED <<log, members, expired, down, wire, view>>

Background ==
  /\ foreground
  /\ foreground' = FALSE
  /\ Disconnect
  /\ UNCHANGED <<log, members, expired, owner, due, incidents, reconnecting, latest, base, cached,
                 fetch, view>>

(* The hook runs again with a new token, here only after the old one has   *)
(* expired: the old client is disconnected and a new one with a new        *)
(* tracker replaces it.                                                    *)
Remount ==
  /\ expired /\ expired' = FALSE
  /\ ResetTracker
  /\ CloseByPhone({socket} \ {None})
  /\ \/ foreground /\ Connect
     \/ ~foreground /\ UNCHANGED <<owner, due, incidents, socket, timer, enabled, reconnecting>>
  /\ UNCHANGED <<log, members, foreground, cached, fetch, view>>

Expire ==
  /\ ~expired /\ Incident("token")
  /\ expired' = TRUE
  /\ UNCHANGED <<log, members, owner, down, wire, due, clientVars>>

(* The server's reading and the arrival of the answer are one step: only   *)
(* the arrival changes what is shown, and it is ignored after a newer      *)
(* refetch, so nothing can come between them that matters.                 *)
Answer(q) ==
  /\ fetch[q] = "sent" /\ Me \in members
  /\ view' = [view EXCEPT ![q] = Len(log)]
  /\ fetch' = [fetch EXCEPT ![q] = "idle"]
  /\ UNCHANGED <<log, members, expired, owner, down, wire, due, incidents, foreground, socket, timer,
                 enabled, reconnecting, latest, base, cached>>

(* Failed after its retries, or refused: the query shows what it did. *)
Fails(q) ==
  /\ fetch[q] = "sent"
  /\ Incident("fetch") \/ (Me \notin members /\ UNCHANGED incidents)
  /\ fetch' = [fetch EXCEPT ![q] = "failed"]
  /\ UNCHANGED <<log, members, expired, owner, down, wire, due, foreground, socket, timer,
                 enabled, reconnecting, latest, base, cached, view>>

ClientNext ==
  \/ Timer \/ OnOpen \/ OnEvent \/ OnClose
  \/ Foreground \/ Background \/ Remount \/ Expire
  \/ \E q \in Queries : Answer(q) \/ Fails(q)

-----------------------------------------------------------------------------
(* Properties. *)

(* However foreground changes, timers, closes and token changes interleave, *)
(* the phone has at most one open socket, none in the background, and no    *)
(* reconnection pending beside a socket; and in the foreground it stops     *)
(* trying only when its user is no member any more or its token expired.    *)
OneConnection ==
  /\ \A s \in Sockets : owner[s] = Me /\ s \notin down => s = socket
  /\ socket # None => ~timer
  /\ IF foreground THEN socket # None \/ timer \/ Me \notin members \/ expired
     ELSE socket = None /\ ~timer

=============================================================================
