--------------------------- MODULE RealtimeServer ---------------------------
(* One backend's realtime side for one household: the handlers of its      *)
(* WebSockets (api/realtime.py), the registry of connections, the shared   *)
(* Redis subscription with its reference count, publication after a        *)
(* commit, and revocation.                                                 *)
(*                                                                         *)
(* Coroutines interleave where they really wait.  The asyncio locks of the *)
(* registry and the coordinator guard blocks that do not wait, so they are *)
(* never contended: a block is part of the step that runs it.              *)
EXTENDS RealtimeData

VARIABLES
  stage,        \* where the handler of each socket is
  awaited,      \* the subscription it waits for, or None
  connections,  \* the registry: sockets that receive the household's events
  sub,          \* the coordinator's subscription, named by the socket that started it
  refs,         \* its reference_count
  task,         \* where the task of each subscription is
  ready,        \* its ready_event
  inbox,        \* what Redis has delivered to it
  revoking,     \* progress of revoke_realtime_membership for each user
  unpublished   \* events committed whose publication is still to run

handlerVars == <<stage, awaited, connections>>
subscriptionVars == <<sub, refs, task, ready, inbox>>
publisherVars == <<revoking, unpublished>>
serverVars == <<handlerVars, subscriptionVars, publisherVars>>

Stages == {"free", "authenticated", "accepted", "waiting", "refusing", "serving", "stopping",
           "done"}
Tasks == {"none", "subscribing", "listening", "lost", "recovering", "cancelled", "done"}
Live == {"subscribing", "listening", "lost", "recovering"}

EventNotice(n) == [type |-> "event", seq |-> n]
RevokedNotice(u) == [type |-> "revoked", user |-> u]
Notices == {EventNotice(n) : n \in Sequences} \union {RevokedNotice(u) : u \in Users}

ServerTypeOK ==
  /\ stage \in [Sockets -> Stages]
  /\ awaited \in [Sockets -> Sockets \union {None}]
  /\ connections \subseteq Sockets
  /\ sub \in Sockets \union {None}
  /\ refs \in 0..Cardinality(Sockets)
  /\ task \in [Sockets -> Tasks]
  /\ ready \in [Sockets -> BOOLEAN]
  /\ inbox \in [Sockets -> Seq(Notices)]
  /\ revoking \in [Users -> {"no", "local", "publish", "done"}]
  /\ unpublished \subseteq Sequences

ServerInit ==
  /\ stage = [s \in Sockets |-> "free"]
  /\ awaited = [s \in Sockets |-> None]
  /\ connections = {}
  /\ sub = None
  /\ refs = 0
  /\ task = [s \in Sockets |-> "none"]
  /\ ready = [s \in Sockets |-> FALSE]
  /\ inbox = [s \in Sockets |-> <<>>]
  /\ revoking = [u \in Users |-> "no"]
  /\ unpublished = {}

-----------------------------------------------------------------------------
(* The handler of a socket. *)

Admit(s) ==
  /\ owner[s] = Me => ~expired
  /\ owner[s] \in members
  /\ stage' = [stage EXCEPT ![s] = "authenticated"]
  /\ UNCHANGED <<wire, down>>

(* _reject_connection: the socket is accepted to be closed with a reason. *)
Reject(s) ==
  LET unauthenticated == owner[s] = Me /\ expired
      code == IF unauthenticated THEN 4401 ELSE 4404
  IN /\ unauthenticated \/ owner[s] \notin members
     /\ stage' = [stage EXCEPT ![s] = "done"]
     /\ down' = down \union {s}
     /\ wire' = [wire EXCEPT ![s] = IF owner[s] = Me /\ s \notin down
                                    THEN Append(Append(@, Opened), Closed(code)) ELSE @]

Authenticate(s) ==
  /\ stage[s] = "free" /\ owner[s] # None
  /\ Admit(s) \/ Reject(s)
  /\ UNCHANGED <<log, members, expired, owner, due, incidents, awaited, connections,
                 subscriptionVars, publisherVars>>

Accept(s) ==
  /\ stage[s] = "authenticated"
  /\ stage' = [stage EXCEPT ![s] = "accepted"]
  /\ wire' = Sent({s}, Opened)
  /\ UNCHANGED <<log, members, expired, owner, down, due, incidents, awaited, connections,
                 subscriptionVars, publisherVars>>

(* accept() may raise when the client has already gone. *)
AcceptFails(s) ==
  /\ stage[s] = "authenticated" /\ s \in down
  /\ stage' = [stage EXCEPT ![s] = "done"]
  /\ UNCHANGED <<log, members, expired, owner, down, wire, due, incidents, awaited, connections,
                 subscriptionVars, publisherVars>>

Finished == {t \in Sockets : task[t] = "done"}

(* Mutant of StartSubscription: the references of the finished one are     *)
(* not kept.                                                               *)
StartAnew(s) ==
  /\ sub \in Finished \union {None}
  /\ sub' = s
  /\ refs' = 1
  /\ task' = [task EXCEPT ![s] = "subscribing"]
  /\ awaited' = [awaited EXCEPT ![s] = s]

(* acquire: a finished subscription is replaced and its references kept. *)
StartSubscription(s) ==
  /\ sub \in Finished \union {None}
  /\ sub' = s
  /\ refs' = refs + 1
  /\ task' = [task EXCEPT ![s] = "subscribing"]
  /\ awaited' = [awaited EXCEPT ![s] = s]

JoinSubscription(s) ==
  /\ sub \notin Finished \union {None}
  /\ refs' = refs + 1
  /\ awaited' = [awaited EXCEPT ![s] = sub]
  /\ UNCHANGED <<sub, task>>

Register(s) ==
  /\ stage[s] = "accepted"
  /\ stage' = [stage EXCEPT ![s] = "waiting"]
  /\ connections' = connections \union {s}
  /\ StartSubscription(s) \/ JoinSubscription(s)
  /\ UNCHANGED <<log, members, expired, owner, down, wire, due, incidents, ready, inbox,
                 publisherVars>>

(* Mutant of Release: the last reference leaves the task running. *)
ReleaseWithoutCancel(s) ==
  LET last == sub # None /\ refs <= 1
  IN /\ refs' = IF refs > 0 THEN refs - 1 ELSE 0
     /\ sub' = IF last THEN None ELSE sub
     /\ awaited' = [awaited EXCEPT ![s] = None]
     /\ UNCHANGED <<task, inbox>>

(* release, up to the wait for the task it cancels. *)
Release(s) ==
  LET last == sub # None /\ refs <= 1
  IN /\ refs' = IF refs > 0 THEN refs - 1 ELSE 0
     /\ sub' = IF last THEN None ELSE sub
     /\ task' = IF last /\ sub \notin Finished THEN [task EXCEPT ![sub] = "cancelled"] ELSE task
     /\ inbox' = IF last THEN [inbox EXCEPT ![sub] = <<>>] ELSE inbox
     /\ awaited' = [awaited EXCEPT ![s] = IF last THEN sub ELSE None]

Stopped(s) == awaited[s] \in Finished \union {None}

Serve(s) ==
  /\ stage[s] = "waiting" /\ ready[awaited[s]] /\ task[awaited[s]] # "done"
  /\ stage' = [stage EXCEPT ![s] = "serving"]
  /\ awaited' = [awaited EXCEPT ![s] = None]
  /\ UNCHANGED <<log, members, expired, owner, down, wire, due, incidents, connections,
                 subscriptionVars, publisherVars>>

StartFails(s) ==
  /\ stage[s] = "waiting" /\ task[awaited[s]] = "done"
  /\ stage' = [stage EXCEPT ![s] = "refusing"]
  /\ Release(s)
  /\ UNCHANGED <<log, members, expired, owner, down, wire, due, incidents, connections, ready,
                 publisherVars>>

(* Mutant of Refuse: it returns before the try whose finally unregisters. *)
RefuseAndReturn(s) ==
  /\ stage[s] = "refusing" /\ Stopped(s)
  /\ stage' = [stage EXCEPT ![s] = "done"]
  /\ awaited' = [awaited EXCEPT ![s] = None]
  /\ Close({s}, 1013)
  /\ UNCHANGED <<log, members, expired, owner, due, incidents, connections, subscriptionVars,
                 publisherVars>>

Refuse(s) ==
  /\ stage[s] = "refusing" /\ Stopped(s)
  /\ stage' = [stage EXCEPT ![s] = "stopping"]
  /\ awaited' = [awaited EXCEPT ![s] = None]
  /\ Close({s}, 1013)
  /\ UNCHANGED <<log, members, expired, owner, due, incidents, connections, subscriptionVars,
                 publisherVars>>

Leave(s) ==
  /\ stage[s] = "serving" /\ s \in down
  /\ stage' = [stage EXCEPT ![s] = "stopping"]
  /\ Release(s)
  /\ UNCHANGED <<log, members, expired, owner, down, wire, due, incidents, connections, ready,
                 publisherVars>>

Unregister(s) ==
  /\ stage[s] = "stopping" /\ Stopped(s)
  /\ stage' = [stage EXCEPT ![s] = "done"]
  /\ awaited' = [awaited EXCEPT ![s] = None]
  /\ connections' = connections \ {s}
  /\ UNCHANGED <<log, members, expired, owner, down, wire, due, incidents, subscriptionVars,
                 publisherVars>>

-----------------------------------------------------------------------------
(* The task of a subscription. *)

Subscribed(t) ==
  /\ task[t] = "subscribing"
  /\ task' = [task EXCEPT ![t] = "listening"]
  /\ ready' = [ready EXCEPT ![t] = TRUE]
  /\ UNCHANGED <<log, members, expired, owner, down, wire, due, incidents, handlerVars, sub, refs,
                 inbox, publisherVars>>

(* A first failure ends the task; a later one is recovered from. *)
SubscribeFails(t) ==
  /\ task[t] = "subscribing" /\ Incident("redis")
  /\ task' = [task EXCEPT ![t] = IF ready[t] THEN "lost" ELSE "done"]
  /\ UNCHANGED <<log, members, expired, owner, down, wire, due, handlerVars, sub, refs, ready,
                 inbox, publisherVars>>

(* The connection to Redis is lost with what it had not handed over. *)
Lose(t) ==
  /\ task[t] = "listening" /\ Incident("redis")
  /\ task' = [task EXCEPT ![t] = "lost"]
  /\ inbox' = [inbox EXCEPT ![t] = <<>>]
  /\ UNCHANGED <<log, members, expired, owner, down, wire, due, handlerVars, sub, refs, ready,
                 publisherVars>>

(* disconnect_household before the delay. *)
Recover(t) ==
  /\ task[t] = "lost"
  /\ task' = [task EXCEPT ![t] = "recovering"]
  /\ connections' = {}
  /\ Close(connections, 1013)
  /\ UNCHANGED <<log, members, expired, owner, due, incidents, stage, awaited, sub, refs, ready,
                 inbox, publisherVars>>

Resubscribe(t) ==
  /\ task[t] = "recovering"
  /\ task' = [task EXCEPT ![t] = "subscribing"]
  /\ UNCHANGED <<log, members, expired, owner, down, wire, due, incidents, handlerVars, sub, refs,
                 ready, inbox, publisherVars>>

Cancelled(t) ==
  /\ task[t] = "cancelled"
  /\ task' = [task EXCEPT ![t] = "done"]
  /\ UNCHANGED <<log, members, expired, owner, down, wire, due, incidents, handlerVars, sub, refs,
                 ready, inbox, publisherVars>>

(* A send to a socket that is down may fail, and then drops it. *)
Broadcast(n) ==
  /\ wire' = Sent(connections, EventMessage(n))
  /\ \E failed \in SUBSET (connections \intersect down) : connections' = connections \ failed
  /\ UNCHANGED down

UsersConnections(u) == {s \in connections : owner[s] = u}

DisconnectUser(u) ==
  /\ connections' = connections \ UsersConnections(u)
  /\ Close(UsersConnections(u), 4404)

Receive(t) ==
  /\ task[t] = "listening" /\ inbox[t] # <<>>
  /\ inbox' = [inbox EXCEPT ![t] = Tail(@)]
  /\ LET notice == Head(inbox[t])
     IN \/ notice.type = "event" /\ Broadcast(notice.seq)
        \/ notice.type = "revoked" /\ DisconnectUser(notice.user)
  /\ UNCHANGED <<log, members, expired, owner, due, incidents, stage, awaited, sub, refs, task,
                 ready, publisherVars>>

-----------------------------------------------------------------------------
(* What the API's handlers do after their commits, on this backend or on   *)
(* another, and the end of the process.                                    *)

Delivered(notice) ==
  [t \in Sockets |-> IF task[t] = "listening" THEN Append(inbox[t], notice) ELSE inbox[t]]

(* The next of the story's mutations; the items it deletes it leaves alone. *)
Commit ==
  /\ Len(log) < Len(story.script)
  /\ log' = Append(log, story.script[Len(log) + 1])
  /\ unpublished' = unpublished \union {Len(log) + 1}
  /\ UNCHANGED <<members, expired, owner, down, wire, due, incidents, handlerVars,
                 subscriptionVars, revoking>>

PhoneIsServed ==
  /\ \E s \in connections \ down : owner[s] = Me
  /\ \E t \in Sockets : task[t] = "listening"

Publish(n) ==
  /\ n \in unpublished
  /\ unpublished' = unpublished \ {n}
  /\ inbox' = Delivered(EventNotice(n))
  /\ due' = IF PhoneIsServed THEN due \union {n} ELSE due
  /\ UNCHANGED <<log, members, expired, owner, down, wire, incidents, handlerVars, sub, refs, task,
                 ready, revoking>>

(* try_publish_realtime_event: Redis fails, and the event is dropped. *)
PublishFails(n) ==
  /\ n \in unpublished /\ Incident("publish")
  /\ unpublished' = unpublished \ {n}
  /\ UNCHANGED <<log, members, expired, owner, down, wire, due, handlerVars, subscriptionVars,
                 revoking>>

(* A member leaves or is removed. *)
Remove(u) ==
  /\ u \in members /\ Incident("removal")
  /\ members' = members \ {u}
  /\ revoking' = [revoking EXCEPT ![u] = "local"]
  /\ UNCHANGED <<log, expired, owner, down, wire, due, handlerVars, subscriptionVars,
                 unpublished>>

RevokeLocally(u) ==
  /\ revoking[u] = "local"
  /\ revoking' = [revoking EXCEPT ![u] = "publish"]
  /\ DisconnectUser(u)
  /\ UNCHANGED <<log, members, expired, owner, due, incidents, stage, awaited, subscriptionVars,
                 unpublished>>

(* Best effort: the notice reaches Redis or is dropped. *)
PublishRevocation(u) ==
  /\ revoking[u] = "publish"
  /\ revoking' = [revoking EXCEPT ![u] = "done"]
  /\ \/ inbox' = Delivered(RevokedNotice(u)) /\ UNCHANGED incidents
     \/ Incident("publish") /\ UNCHANGED inbox
  /\ UNCHANGED <<log, members, expired, owner, down, wire, due, handlerVars, sub, refs, task,
                 ready, unpublished>>

(* The process ends, with shutdown or without, and starts again. *)
Restart ==
  /\ Incident("crash")
  /\ \E s \in Sockets : stage[s] \notin {"free", "done"}
  /\ stage' = [s \in Sockets |-> IF owner[s] = None THEN stage[s] ELSE "done"]
  /\ awaited' = [s \in Sockets |-> None]
  /\ connections' = {}
  /\ sub' = None /\ refs' = 0
  /\ task' = [t \in Sockets |-> IF task[t] = "none" THEN "none" ELSE "done"]
  /\ inbox' = [t \in Sockets |-> <<>>]
  /\ revoking' = [u \in Users |-> IF revoking[u] = "no" THEN "no" ELSE "done"]
  /\ unpublished' = {}
  /\ Break({s \in Sockets : owner[s] # None} \ down)
  /\ UNCHANGED <<log, members, expired, owner, due, ready>>

-----------------------------------------------------------------------------
(* The network, and the devices of other members. *)

Dial(s, u) ==
  /\ "guest" \in story.may
  /\ u # Me /\ s \in Unused
  /\ owner' = [owner EXCEPT ![s] = u]
  /\ UNCHANGED <<log, members, expired, down, wire, due, incidents, serverVars>>

HangUp(s) ==
  /\ owner[s] \notin {None, Me} /\ s \notin down
  /\ down' = down \union {s}
  /\ UNCHANGED <<log, members, expired, owner, wire, due, incidents, serverVars>>

Drop(s) ==
  /\ owner[s] = Me /\ s \notin down /\ Incident("network")
  /\ Break({s})
  /\ UNCHANGED <<log, members, expired, owner, due, serverVars>>

ServerNext ==
  \/ \E s \in Sockets :
       \/ Authenticate(s) \/ Accept(s) \/ AcceptFails(s) \/ Register(s) \/ Serve(s)
       \/ StartFails(s) \/ Refuse(s) \/ Leave(s) \/ Unregister(s)
       \/ Subscribed(s) \/ SubscribeFails(s) \/ Lose(s) \/ Recover(s) \/ Resubscribe(s)
       \/ Cancelled(s) \/ Receive(s) \/ HangUp(s) \/ Drop(s)
       \/ \E u \in Users : Dial(s, u)
  \/ \E u \in Users : Remove(u) \/ RevokeLocally(u) \/ PublishRevocation(u)
  \/ Commit
  \/ \E n \in Sequences : Publish(n) \/ PublishFails(n)
  \/ Restart

-----------------------------------------------------------------------------
(* Properties. *)

Holders == {s \in Sockets : stage[s] \in {"waiting", "serving"}}

(* reference_count counts the handlers that have acquired and not released, *)
(* also when a failed subscription is replaced while handlers still wait    *)
(* for it: none is cut off, and the last one to leave ends it.              *)
ReferencesCounted ==
  /\ refs = Cardinality(Holders)
  /\ Holders # {} => sub # None

(* Only the coordinator's subscription runs: none is left behind by a       *)
(* release or a replacement, and every handler that serves has a live one.  *)
NoStraySubscription ==
  /\ \A t \in Sockets : task[t] \in Live => t = sub
  /\ \A s \in Sockets : stage[s] = "serving" => sub # None /\ task[sub] \in Live

(* A socket that is served receives the household's events until it is      *)
(* closed, and a handler that has ended leaves nothing in the registry.     *)
RegistryFollowsHandlers ==
  /\ \A s \in Sockets : stage[s] = "serving" => s \in connections \union down
  /\ \A s \in connections : stage[s] \in {"waiting", "refusing", "serving", "stopping"}

=============================================================================
