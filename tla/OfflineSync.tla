----------------------------- MODULE OfflineSync -----------------------------
(***************************************************************************)
(* One phone's queue of offline grocery changes for one household, and how *)
(* it is replayed to the server.                                           *)
(*                                                                         *)
(*   features/offline/syncCoordinator.ts             HouseholdSyncCoordinator*)
(*   features/offline/groceryMutationReplayRunner.ts the runs              *)
(*   features/offline/serverReconciliation.ts        Decision, Refresh .. *)
(*   features/offline/localMutationQueueRepository.ts  queue               *)
(*   hooks/useHouseholdSyncLifecycle.ts              Foreground, Background*)
(*   hooks/useGroceryConflictReview.ts               Review, Keep ..       *)
(*                                                                         *)
(* JavaScript runs one callback at a time: an action is the code from one  *)
(* await to the next.  stop() does not interrupt a run that awaits a reply,*)
(* and the next start() may begin another, so runs overlap.                *)
(*                                                                         *)
(* The server is the grocery API of GroceryItems, reduced to what one phone*)
(* sees: a change is applied at most once and a repeated key is answered   *)
(* as a success.                                                           *)
(***************************************************************************)
EXTENDS Integers, FiniteSetsExt

CONSTANTS
  Mutations,    \* queued changes, numbered in the order of created_at
  Unbased,      \* those that lack the base version they need
  Reports,      \* what the connectivity monitor may say
  ReplayLimits, \* changes that a listing may be limited to, 1..100 in the code
  Runs,         \* replay runs in flight; their number bounds the model
  None

ASSUME MutationsAssumption == Mutations \subseteq Nat
ASSUME UnbasedAssumption == Unbased \subseteq Mutations
ASSUME ReportsAssumption == Reports \subseteq {"unknown", "offline", "online"}
ASSUME LimitsAssumption == ReplayLimits \subseteq Nat \ {0}
ASSUME NoneAssumption == None \notin Runs \union Mutations

VARIABLES
  queue,        \* pending_grocery_mutations: the state of each change
  reviewed,     \* history: the changes that were put under review
  applied,      \* changes the server has made
  refused,      \* changes the server has said it cannot make: 403, 404
  view,         \* changes in the grocery data the phone last fetched
  token,        \* is there an access token?
  active,       \* the coordinator's fields
  connectivity,
  status,
  syncRequested,
  syncPromise,  \* the run requestSync would return, or None
  checking,     \* start() awaits the connectivity and no event has come since
  runs,         \* each run: where it is, whether its generation is current,
                \* its changes, those it has not settled, the reply to the next
  conflicts,    \* the changes the review panel shows
  resolving     \* the change whose family version is being kept, or None

coordinator == <<active, connectivity, status, syncRequested, syncPromise, checking>>
panel == <<conflicts, resolving>>
server == <<applied, refused>>
rows == <<queue, reviewed>>
vars == <<rows, server, view, token, coordinator, runs, panel>>

Connectivity == {"unknown", "offline", "online"}
Statuses == {"stopped", "checking_connectivity", "waiting_for_connection", "idle", "syncing",
             "retry_waiting", "authentication_required", "requires_review", "error"}
Replies == {"ok", "missing", "forbidden", "conflict", "invalid", "temporary", "unauthorized", "lost"}
Stages == {"free", "list", "next", "sent", "decide", "refresh", "remove", "retry", "review",
           "reviewed", "orphan"}

Run == [stage   : Stages,
        current : BOOLEAN,
        batch   : SUBSET Mutations,
        left    : SUBSET Mutations,
        reply   : Replies \union {None}]

NoRun == [stage |-> "free", current |-> FALSE, batch |-> {}, left |-> {}, reply |-> None]

InState(state) == {m \in Mutations : queue[m] = state}

(* listPending, listRequiresReview: the oldest, up to the limit. *)
Listed(state, limit) ==
  {m \in InState(state) : Cardinality({k \in InState(state) : k <= m}) <= limit}

TypeOK ==
  /\ queue \in [Mutations -> {"new", "pending", "requires_review", "removed"}]
  /\ InState("requires_review") \subseteq reviewed
  /\ applied \subseteq Mutations /\ refused \subseteq Mutations
  /\ view \subseteq applied
  /\ token \in BOOLEAN
  /\ active \in BOOLEAN
  /\ connectivity \in Connectivity
  /\ status \in Statuses
  /\ syncRequested \in BOOLEAN
  /\ syncPromise \in Runs \union {None}
  /\ checking \in BOOLEAN
  /\ runs \in [Runs -> Run]
  /\ \A r \in Runs : runs[r].left \subseteq runs[r].batch
  /\ conflicts \subseteq Mutations
  /\ resolving \in Mutations \union {None}
  \* what is applied or refused, shown or removed was queued
  /\ \A m \in applied \union refused \union conflicts : queue[m] # "new"

Init ==
  /\ queue = [m \in Mutations |-> "new"]
  /\ reviewed = {}
  /\ applied = {} /\ refused = {} /\ view = {}
  /\ token \in BOOLEAN
  /\ active = FALSE
  /\ connectivity = "unknown"
  /\ status = "stopped"
  /\ syncRequested = FALSE
  /\ syncPromise = None
  /\ checking = FALSE
  /\ runs = [r \in Runs |-> NoRun]
  /\ conflicts = {}
  /\ resolving = None

-----------------------------------------------------------------------------
(* The queue. *)

(* enqueue: in the order of created_at. *)
Enqueue(m) ==
  /\ queue[m] = "new"
  /\ \A k \in Mutations : k < m => queue[k] # "new"
  /\ queue' = [queue EXCEPT ![m] = "pending"]
  /\ UNCHANGED <<reviewed, server, view, token, coordinator, runs, panel>>

(* The statements name the row by its id: without one they do nothing. *)
SetRow(m, state) == queue' = [queue EXCEPT ![m] = IF @ = "removed" THEN @ ELSE state]

-----------------------------------------------------------------------------
(* The coordinator. *)

Begin(r) == runs' = [runs EXCEPT ![r] = [NoRun EXCEPT !.stage = "list", !.current = TRUE]]

(* drainSyncRequests up to its first await. *)
Drain ==
  \E r \in Runs :
    /\ runs[r].stage = "free"
    /\ Begin(r)
    /\ syncPromise' = r
    /\ syncRequested' = FALSE
    /\ status' = "syncing"

(* requestSync of an active coordinator. *)
Request(online) ==
  IF ~online
  THEN status' = "waiting_for_connection" /\ UNCHANGED <<syncRequested, syncPromise, runs>>
  ELSE IF syncPromise # None
  THEN syncRequested' = TRUE /\ UNCHANGED <<syncPromise, runs>>
  ELSE Drain

RequestSync ==
  /\ active
  /\ Request(connectivity = "online")
  /\ (connectivity = "online" /\ syncPromise # None => UNCHANGED status)
  /\ UNCHANGED <<rows, server, view, token, active, connectivity, checking, panel>>

HandleConnectivity(c) ==
  /\ connectivity' = c
  /\ IF c # "online"
     THEN status' = "waiting_for_connection" /\ UNCHANGED <<syncRequested, syncPromise, runs>>
     ELSE IF connectivity = "online"
     THEN UNCHANGED <<status, syncRequested, syncPromise, runs>>
     ELSE /\ Request(TRUE)
          /\ (syncPromise # None => status' = "idle")

(* start, up to the await of the current status. *)
Start ==
  /\ ~active
  /\ active' = TRUE
  /\ connectivity' = "unknown"
  /\ status' = "checking_connectivity"
  /\ checking' = TRUE
  /\ UNCHANGED <<rows, server, view, token, syncRequested, syncPromise, runs, panel>>

(* The native listener: the pending check is out of date. *)
Event(c) ==
  /\ active
  /\ checking' = FALSE
  /\ HandleConnectivity(c)
  /\ UNCHANGED <<rows, server, view, token, active, panel>>

Checked(c) ==
  /\ active
  /\ checking
  /\ checking' = FALSE
  /\ HandleConnectivity(c)
  /\ UNCHANGED <<rows, server, view, token, active, panel>>

CheckFails ==
  /\ active
  /\ checking
  /\ checking' = FALSE
  /\ connectivity' = "unknown"
  /\ status' = "error"
  /\ UNCHANGED <<rows, server, view, token, active, syncRequested, syncPromise, runs, panel>>

(* stop: the runs in flight belong to an earlier generation from now on. *)
Stop ==
  /\ active
  /\ active' = FALSE
  /\ syncRequested' = FALSE
  /\ syncPromise' = None
  /\ connectivity' = "unknown"
  /\ status' = "stopped"
  /\ checking' = FALSE
  /\ runs' = [r \in Runs |-> [runs[r] EXCEPT !.current = FALSE]]
  /\ UNCHANGED <<rows, server, view, token, panel>>

-----------------------------------------------------------------------------
(* A run ends: what the coordinator makes of it. *)

(* Mutant of Leave: the promise is forgotten whichever it is. *)
LeaveForgetting(r) ==
  /\ runs' = [runs EXCEPT ![r] = NoRun]
  /\ syncPromise' = None

(* promise.finally: only the coordinator's own promise is forgotten. *)
Leave(r) ==
  /\ runs' = [runs EXCEPT ![r] = NoRun]
  /\ syncPromise' = IF syncPromise = r THEN None ELSE syncPromise

(* Mutant of Obsolete: isCurrent is not asked again after the run. *)
NeverObsolete(r) == FALSE

(* isCurrent: the coordinator was not stopped since the run began. *)
Obsolete(r) == ~runs[r].current

StatusFor(outcome) ==
  IF outcome \in {"synchronized", "nothing_to_sync"} THEN "idle" ELSE outcome

Blocking == {"retry_waiting", "authentication_required", "requires_review"}

(* The result arrives after stop(): it changes nothing. *)
EndObsolete(r) ==
  /\ Obsolete(r)
  /\ Leave(r)
  /\ UNCHANGED <<active, connectivity, status, syncRequested, checking>>

EndOffline(r) ==
  /\ ~Obsolete(r)
  /\ connectivity # "online"
  /\ status' = "waiting_for_connection"
  /\ Leave(r)
  /\ UNCHANGED <<active, connectivity, syncRequested, checking>>

EndOnline(r, outcome) ==
  /\ ~Obsolete(r)
  /\ connectivity = "online"
  /\ syncRequested' = FALSE
  /\ IF syncRequested /\ outcome \notin Blocking
     THEN Begin(r) /\ status' = "syncing" /\ UNCHANGED syncPromise
     ELSE Leave(r) /\ status' = StatusFor(outcome)
  /\ UNCHANGED <<active, connectivity, checking>>

End(r, outcome) == EndObsolete(r) \/ EndOffline(r) \/ EndOnline(r, outcome)

(* The runner throws: SQLite failed. *)
Throw(r) ==
  /\ runs[r].stage \in {"list", "remove", "retry", "review"}
  /\ Leave(r)
  /\ IF Obsolete(r)
     THEN UNCHANGED <<syncRequested, status>>
     ELSE /\ syncRequested' = FALSE
          /\ status' = IF connectivity = "online" THEN "error" ELSE "waiting_for_connection"
  /\ UNCHANGED <<rows, server, view, token, active, connectivity, checking, panel>>

-----------------------------------------------------------------------------
(* A run. *)

(* The batch is replayed in the order of created_at. *)
Current(r) == Min(runs[r].left)

Move(r, stage) == runs' = [runs EXCEPT ![r].stage = stage]

List(r) ==
  /\ runs[r].stage = "list"
  /\ IF InState("pending") = {}
     THEN End(r, "nothing_to_sync")
     ELSE /\ \E limit \in ReplayLimits :
               runs' = [runs EXCEPT ![r].stage = "next", ![r].batch = Listed("pending", limit),
                                    ![r].left = Listed("pending", limit)]
          /\ UNCHANGED coordinator
  /\ UNCHANGED <<rows, server, view, token, panel>>

(* Without a base version nothing is sent. *)
SendNext(r) ==
  /\ runs[r].stage = "next"
  /\ runs[r].left # {}
  /\ token
  /\ IF Current(r) \in Unbased
     THEN runs' = [runs EXCEPT ![r].stage = "decide", ![r].reply = "invalid"]
     ELSE Move(r, "sent")
  /\ UNCHANGED <<rows, server, view, token, coordinator, panel>>

FinishBatch(r) ==
  /\ runs[r].stage = "next"
  /\ runs[r].left = {}
  /\ End(r, "synchronized")
  /\ UNCHANGED <<rows, server, view, token, panel>>

PauseWithoutToken(r) ==
  /\ runs[r].stage = "next"
  /\ runs[r].left # {}
  /\ ~token
  /\ End(r, "authentication_required")
  /\ UNCHANGED <<rows, server, view, token, panel>>

Reply(r, reply) ==
  IF runs[r].stage = "orphan" THEN runs' = [runs EXCEPT ![r] = NoRun]
  ELSE runs' = [runs EXCEPT ![r].stage = "decide", ![r].reply = reply]

(* The server handles the request and its answer arrives or is lost; or it *)
(* refuses, fails or never gets it.  An orphan's sender is gone.           *)
Serve(r) ==
  /\ runs[r].stage \in {"sent", "orphan"}
  /\ \E reply \in {"ok", "lost"} : Reply(r, reply)
  /\ applied' = applied \union {Current(r)}
  /\ UNCHANGED <<rows, refused, view, token, coordinator, panel>>

Decline(r) ==
  /\ runs[r].stage \in {"sent", "orphan"}
  /\ \E reply \in {"missing", "forbidden", "temporary", "unauthorized", "lost"}
                  \union (IF Current(r) \in applied THEN {} ELSE {"conflict", "invalid"}) :
       /\ Reply(r, reply)
       /\ refused' = IF reply \in {"missing", "forbidden"}
                     THEN refused \union {Current(r)} ELSE refused
  /\ UNCHANGED <<rows, applied, view, token, coordinator, panel>>

(* decideServerReconciliation: what is acknowledged or discarded is        *)
(* refreshed first.                                                        *)
Decision(reply) ==
  IF reply = "ok" \/ reply \in {"missing", "forbidden"} THEN "refresh"
  ELSE IF reply \in {"lost", "temporary"} THEN "retry"
  ELSE IF reply = "unauthorized" THEN "pause"
  ELSE "review"

Decide(r) ==
  /\ runs[r].stage = "decide"
  /\ LET decision == Decision(runs[r].reply)
     IN  IF decision = "pause"
         THEN End(r, "authentication_required")
         ELSE /\ runs' = [runs EXCEPT ![r].stage = decision, ![r].reply = None]
              /\ UNCHANGED coordinator
  /\ UNCHANGED <<rows, server, view, token, panel>>

(* invalidateQueries: its promise is fulfilled when the fetch has ended,   *)
(* and when it has failed as well.                                         *)
Refetch == view' = applied \/ UNCHANGED view

(* Mutant of Refresh: the cache is given the phone's own change instead. *)
RefreshLocally(r) ==
  /\ runs[r].stage = "refresh"
  /\ view' = view \union {Current(r)}
  /\ Move(r, "remove")
  /\ UNCHANGED <<rows, server, token, coordinator, panel>>

Refresh(r) ==
  /\ runs[r].stage = "refresh"
  /\ Refetch
  /\ Move(r, "remove")
  /\ UNCHANGED <<rows, server, token, coordinator, panel>>

RemoveRow(r) ==
  /\ runs[r].stage = "remove"
  /\ SetRow(Current(r), "removed")
  /\ runs' = [runs EXCEPT ![r].stage = "next", ![r].left = @ \ {Current(r)}]
  /\ UNCHANGED <<reviewed, server, view, token, coordinator, panel>>

RecordRetry(r) ==
  /\ runs[r].stage = "retry"
  /\ SetRow(Current(r), "pending")
  /\ End(r, "retry_waiting")
  /\ UNCHANGED <<reviewed, server, view, token, panel>>

(* Mutant of RequireReview: the run goes on with later changes. *)
RequireReviewAndGoOn(r) ==
  /\ runs[r].stage = "review"
  /\ SetRow(Current(r), "requires_review")
  /\ reviewed' = reviewed \union (IF queue[Current(r)] = "removed" THEN {} ELSE {Current(r)})
  /\ runs' = [runs EXCEPT ![r].stage = "next", ![r].left = @ \ {Current(r)}]
  /\ UNCHANGED <<server, view, token, coordinator, panel>>

RequireReview(r) ==
  /\ runs[r].stage = "review"
  /\ SetRow(Current(r), "requires_review")
  /\ reviewed' = reviewed \union (IF queue[Current(r)] = "removed" THEN {} ELSE {Current(r)})
  /\ Move(r, "reviewed")
  /\ UNCHANGED <<server, view, token, coordinator, panel>>

FinishReview(r) ==
  /\ runs[r].stage = "reviewed"
  /\ Refetch
  /\ End(r, "requires_review")
  /\ UNCHANGED <<rows, server, token, panel>>

-----------------------------------------------------------------------------
(* The conflict review. *)

ListConflicts ==
  /\ \E limit \in ReplayLimits : conflicts' = Listed("requires_review", limit)
  /\ UNCHANGED <<rows, server, view, token, coordinator, runs, resolving>>

KeepFamilyVersion(m) ==
  /\ m \in conflicts
  /\ resolving = None
  /\ resolving' = m
  /\ UNCHANGED <<rows, server, view, token, coordinator, runs, conflicts>>

(* Mutant of Resolve: the row is deleted whatever its state. *)
ResolveAny ==
  /\ resolving # None
  /\ queue' = [queue EXCEPT ![resolving] = "removed"]
  /\ conflicts' = conflicts \ {resolving}
  /\ resolving' = None
  /\ Refetch
  /\ UNCHANGED <<reviewed, server, token, coordinator, runs>>

(* After the refresh; only a row still under review is deleted. *)
Resolve ==
  /\ resolving # None
  /\ queue' = [queue EXCEPT ![resolving] = IF @ = "requires_review" THEN "removed" ELSE @]
  /\ conflicts' = conflicts \ {resolving}
  /\ resolving' = None
  /\ Refetch
  /\ UNCHANGED <<reviewed, server, token, coordinator, runs>>

ResolveFails ==
  /\ resolving # None
  /\ resolving' = None
  /\ UNCHANGED <<rows, server, view, token, coordinator, runs, conflicts>>

-----------------------------------------------------------------------------
(* The user signs in or out; the operating system kills the app.  What it  *)
(* had sent may still arrive.                                              *)

ChangeToken ==
  /\ token' = ~token
  /\ UNCHANGED <<rows, server, view, coordinator, runs, panel>>

Kill ==
  /\ active' = FALSE
  /\ connectivity' = "unknown"
  /\ status' = "stopped"
  /\ syncRequested' = FALSE
  /\ syncPromise' = None
  /\ checking' = FALSE
  /\ runs' = [r \in Runs |-> IF runs[r].stage \in {"sent", "orphan"}
                             THEN [runs[r] EXCEPT !.stage = "orphan", !.current = FALSE]
                             ELSE NoRun]
  /\ view' = {}
  /\ conflicts' = {}
  /\ resolving' = None
  /\ UNCHANGED <<rows, server, token>>

Step(r) ==
  \/ List(r) \/ SendNext(r) \/ FinishBatch(r) \/ PauseWithoutToken(r)
  \/ Serve(r) \/ Decline(r) \/ Decide(r)
  \/ Refresh(r) \/ RemoveRow(r) \/ RecordRetry(r) \/ RequireReview(r) \/ FinishReview(r)
  \/ Throw(r)

Next ==
  \/ \E m \in Mutations : Enqueue(m) \/ KeepFamilyVersion(m)
  \/ RequestSync \/ Start \/ Stop \/ CheckFails
  \/ \E c \in Reports : Event(c) \/ Checked(c)
  \/ \E r \in Runs : Step(r)
  \/ ListConflicts \/ Resolve \/ ResolveFails
  \/ ChangeToken \/ Kill

Spec == Init /\ [][Next]_vars

-----------------------------------------------------------------------------
(* Properties. *)

(* The queue, seen without the runs, the connection and the coordinator, is *)
(* the one MutationQueue promises: order and loss are judged there, however  *)
(* runs overlap, answers are lost or the app is killed.                      *)
Queue == INSTANCE MutationQueue
           WITH queue <- queue, reviewed <- reviewed, applied <- applied, refused <- refused
ImplementsQueue == Queue!Spec

(* A run sends a change only when those before it in its reading of the    *)
(* queue have left the queue, whatever other runs do to them.              *)
RunsAreFifo ==
  \A r \in Runs : runs[r].stage \in {"sent", "decide"} =>
    \A m \in runs[r].batch \ runs[r].left : queue[m] = "removed"

(* Of the runs in flight at most one belongs to the coordinator's current  *)
(* generation, and it is the one requestSync knows of.                     *)
OneCurrentRun ==
  \A r \in Runs : runs[r].stage # "free" /\ runs[r].current => syncPromise = r

(* README, coordinator: "Stopping removes the connectivity listener and    *)
(* prevents late asynchronous results from changing state": a run begun    *)
(* before a stop changes nothing of the coordinator, started again or not. *)
ObsoleteRunsAreIgnored ==
  [][\A r \in Runs :
       (/\ runs[r].stage # "free" /\ ~runs[r].current
        /\ runs'[r] # runs[r]
        /\ active' = active)
         => UNCHANGED coordinator]_vars

=============================================================================
