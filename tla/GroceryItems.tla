---------------------------- MODULE GroceryItems ----------------------------
(***************************************************************************)
(* Grocery mutations of one shopping session of one household, as the      *)
(* backend runs them: every HTTP request is one PostgreSQL transaction at  *)
(* READ COMMITTED, and the rows it locks FOR UPDATE are what orders it     *)
(* against the others.                                                     *)
(*                                                                         *)
(*   api/grocery_items.py        Prepare, LoadReplay, Publish              *)
(*   services/grocery_items.py   LockMember .. LockAssignee, Verdict       *)
(*   repositories/grocery_items.py  Begin.., Stage, Commit, ReadBack,      *)
(*                               Refresh                                   *)
(*   services/shopping_sessions.py  the "finish" requests                  *)
(*                                                                         *)
(* A request evaluates its checks while it holds the session's row (Check),*)
(* computes what it will write (Stage) and installs it later (Commit); the *)
(* steps are separate so that nothing but the locks keeps what was checked *)
(* true when it is written.  The item's own row lock is not modelled: it is*)
(* taken under the session's lock by every writer, so it never waits.      *)
(***************************************************************************)
EXTENDS GroceryData, Sequences, FiniteSetsExt

VARIABLES
  items,       \* grocery_items of the session
  records,     \* grocery_mutation_idempotency by mutation_id
  events,      \* grocery_activity_events written since the model starts
  session,     \* the shopping session's status
  members,     \* users with a household_members row
  memberLock,  \* holder of each membership row's lock
  sessionLock, \* holder of the session row's lock
  req,         \* what each request asks
  pc,          \* where each request is
  staged,      \* what each request will write at its commit
  answer,      \* what each request's client was told
  feed         \* sequence numbers published to Redis, in publication order

db == <<items, records, events, session, members>>
vars == <<items, records, events, session, members, memberLock, sessionLock,
          req, pc, staged, answer, feed>>

Answers == {"ok", "replayed", "notFound", "conflict", "stale", "error", "lost"}
Stages  == {"idle", "prepare", "members", "assignee", "stage", "commit", "replay",
            "readback", "refresh", "publish", "done"}
Writes  == [item : Items, row : Rows, seq : Nat]

ASSUME NoneIsNoRecord == /\ None \notin Mutations
                         /\ None \notin Records
                         /\ None \notin Writes

TypeOK ==
  /\ items \in [Items -> Rows]
  /\ records \in [Keys -> Records \union {None}]
  /\ events \subseteq Events
  /\ session \in {"active", "completed"}
  /\ members \subseteq Users
  /\ memberLock \in [Users -> Requests \union {None}]
  /\ sessionLock \in Requests \union {None}
  /\ req \in [Requests -> Mutations \union {None}]
  /\ pc \in [Requests -> Stages]
  /\ staged \in [Requests -> Writes \union {None}]
  /\ answer \in [Requests -> Answers \union {None}]
  /\ feed \in Seq(Nat)
  /\ \A r \in Requests : pc[r] # "idle" => req[r] # None
  /\ \A r \in Requests :
       pc[r] \in {"refresh", "publish"} \/ (pc[r] = "commit" /\ req[r].op # "finish")
         => staged[r] # None

Init ==
  /\ items = SeedItems
  /\ records = [k \in Keys |-> None]
  /\ events = {}
  /\ session = "active"
  /\ members = Users
  /\ memberLock = [u \in Users |-> None]
  /\ sessionLock = None
  /\ req = [r \in Requests |-> None]
  /\ pc = [r \in Requests |-> "idle"]
  /\ staged = [r \in Requests |-> None]
  /\ answer = [r \in Requests |-> None]
  /\ feed = <<>>

-----------------------------------------------------------------------------
(* Ending a transaction. *)

Goto(r, stage) == pc' = [pc EXCEPT ![r] = stage]

(* Mutant of Release: the session's row stays locked. *)
ReleaseMembersOnly(r) ==
  /\ memberLock' = [u \in Users |-> IF memberLock[u] = r THEN None ELSE memberLock[u]]
  /\ sessionLock' = sessionLock

Release(r) ==
  /\ memberLock' = [u \in Users |-> IF memberLock[u] = r THEN None ELSE memberLock[u]]
  /\ sessionLock' = IF sessionLock = r THEN None ELSE sessionLock

Answer(r, a) ==
  /\ Release(r)
  /\ answer' = [answer EXCEPT ![r] = a]
  /\ staged' = [staged EXCEPT ![r] = None]
  /\ Goto(r, "done")
  /\ UNCHANGED <<items, records, events, session, members, req, feed>>

(* db.rollback() followed by a read without locks. *)
RollbackTo(r, stage) ==
  /\ Release(r)
  /\ Goto(r, stage)
  /\ UNCHANGED <<items, records, events, session, members, req, staged, answer, feed>>

-----------------------------------------------------------------------------
(* The clients.  A base version is one the client has read: the item's     *)
(* current one, or, when it sends an earlier change again, that change's.  *)

Bases(q) ==
  IF q.versioned
  THEN {items[q.item].version} \union
       {req[p].base : p \in {p \in Requests : pc[p] # "idle" /\ q.key # None
                                              /\ req[p].key = q.key
                                              /\ req[p].base # None}}
  ELSE {None}

Known(q) == q.item # None => items[q.item].status # "absent"

Submit(r) ==
  /\ pc[r] = "idle"
  /\ \E q \in Intents :
       /\ Known(q)
       /\ \E b \in Bases(q) :
            req' = [req EXCEPT ![r] =
                      [op |-> q.op, user |-> q.user, item |-> q.item, name |-> q.name,
                       assignee |-> q.assignee, key |-> q.key, base |-> b]]
       /\ Goto(r, IF q.key = None THEN "members" ELSE "prepare")
  /\ UNCHANGED <<items, records, events, session, members, memberLock, sessionLock,
                 staged, answer, feed>>

-----------------------------------------------------------------------------
(* api/grocery_items.py before the service: the record of the key is read  *)
(* without a lock.  A record, once committed, never changes, so reading it *)
(* and the membership in one step loses nothing.                           *)

(* Mutant of Recorded: a user's own earlier record is not found. *)
RecordedByAnother(r) ==
  req[r].key # None /\ records[req[r].key] # None
    /\ records[req[r].key].req.user # req[r].user

Recorded(r) == req[r].key # None /\ records[req[r].key] # None

SameRequest(r) == records[req[r].key].req = req[r]

ReplayAnswer(r) == IF SameRequest(r) THEN "replayed" ELSE "conflict"

Prepare(r) ==
  /\ pc[r] = "prepare"
  /\ \/ /\ ~Recorded(r)
        /\ Goto(r, "members")
        /\ UNCHANGED <<items, records, events, session, members, memberLock, sessionLock,
                       req, staged, answer, feed>>
     \/ /\ Recorded(r)
        /\ Answer(r, IF SameRequest(r) /\ req[r].user \notin members
                     THEN "notFound" ELSE ReplayAnswer(r))

-----------------------------------------------------------------------------
(* lock_for_users: SELECT ... ORDER BY user_id FOR UPDATE. *)

WantedRows(r) ==
  {req[r].user} \union
  (IF req[r].op = "add" /\ req[r].assignee # None THEN {req[r].assignee} ELSE {})

RowsToLock(r) == {u \in WantedRows(r) \intersect members : memberLock[u] # r}

LockMember(r) ==
  /\ pc[r] = "members"
  /\ \E u \in RowsToLock(r) :
       /\ \A v \in RowsToLock(r) : u <= v
       /\ memberLock[u] = None
       /\ memberLock' = [memberLock EXCEPT ![u] = r]
  /\ UNCHANGED <<items, records, events, session, members, sessionLock, req, pc,
                 staged, answer, feed>>

DenyMember(r) ==
  /\ pc[r] = "members"
  /\ RowsToLock(r) = {}
  /\ ~(WantedRows(r) \subseteq members)
  /\ Answer(r, "notFound")

-----------------------------------------------------------------------------
(* The service's checks, in its order, under the session's row lock. *)

Row(r) == items[req[r].item]

OnItem(r) == req[r].op \in ItemOps

(* Mutant of Stale: the base version is not compared. *)
NeverStale(r) == FALSE

Stale(r) == req[r].base # None /\ Row(r).version # req[r].base

Verdict(r) ==
  IF session # "active" THEN "conflict"
  ELSE IF ~OnItem(r) THEN "proceed"
  ELSE IF Row(r).status \notin {"pending", "completed"} THEN "notFound"
  ELSE IF Stale(r) THEN IF Recorded(r) THEN ReplayAnswer(r) ELSE "stale"
  ELSE IF req[r].op \in {"edit", "delete"} /\ Row(r).status # "pending" THEN "conflict"
  ELSE "proceed"

MayLockSession(r) ==
  /\ pc[r] = "members"
  /\ RowsToLock(r) = {}
  /\ WantedRows(r) \subseteq members
  /\ sessionLock = None

Refuse(r) ==
  /\ MayLockSession(r)
  /\ req[r].op # "finish"
  /\ Verdict(r) # "proceed"
  /\ Answer(r, Verdict(r))

(* Mutant of Check: the session is read without FOR UPDATE. *)
CheckUnlocked(r) ==
  /\ MayLockSession(r)
  /\ req[r].op # "finish"
  /\ Verdict(r) = "proceed"
  /\ Goto(r, IF req[r].op = "edit" /\ req[r].assignee # None THEN "assignee" ELSE "stage")
  /\ UNCHANGED <<items, records, events, session, members, memberLock, sessionLock, req,
                 staged, answer, feed>>

Check(r) ==
  /\ MayLockSession(r)
  /\ req[r].op # "finish"
  /\ Verdict(r) = "proceed"
  /\ sessionLock' = r
  /\ Goto(r, IF req[r].op = "edit" /\ req[r].assignee # None THEN "assignee" ELSE "stage")
  /\ UNCHANGED <<items, records, events, session, members, memberLock, req, staged,
                 answer, feed>>

(* An edit that assigns the item locks the assignee's membership last. *)

(* Mutant of LockAssignee: the assignee's membership is read, not locked.  *)
ReadAssignee(r) ==
  /\ pc[r] = "assignee"
  /\ req[r].assignee \in members
  /\ Goto(r, "stage")
  /\ UNCHANGED <<items, records, events, session, members, memberLock, sessionLock, req,
                 staged, answer, feed>>

LockAssignee(r) ==
  /\ pc[r] = "assignee"
  /\ req[r].assignee \in members
  /\ memberLock[req[r].assignee] \in {None, r}
  /\ memberLock' = [memberLock EXCEPT ![req[r].assignee] = r]
  /\ Goto(r, "stage")
  /\ UNCHANGED <<items, records, events, session, members, sessionLock, req, staged,
                 answer, feed>>

DenyAssignee(r) ==
  /\ pc[r] = "assignee"
  /\ req[r].assignee \notin members
  /\ Answer(r, "notFound")

-----------------------------------------------------------------------------
(* The repository: insert the key's record, check the name, change the row,*)
(* number the activity event, store the response.                          *)

NameAfter(r) == IF req[r].name # None THEN req[r].name ELSE Row(r).name

(* Mutant of NameTaken: reopening does not look for a pending namesake.    *)
NameTakenByAddOrEdit(r) ==
  /\ req[r].op \in {"add", "edit"}
  /\ \E j \in Items \ {req[r].item} : Pending(items, j) /\ items[j].name = NameAfter(r)

NameTaken(r) ==
  /\ req[r].op \in {"add", "edit", "reopen"}
  /\ \E j \in Items \ {req[r].item} : Pending(items, j) /\ items[j].name = NameAfter(r)

(* The conditional UPDATE of complete and reopen matches no row. *)
NoTransition(r) ==
  \/ req[r].op = "complete" /\ Row(r).status # "pending"
  \/ req[r].op = "reopen" /\ Row(r).status # "completed"

(* An edit that sets fields to the values they have emits no UPDATE.       *)
ChangesNothing(r) ==
  /\ {req[r].name, req[r].assignee} # {None}
  /\ req[r].name \in {None, Row(r).name}
  /\ req[r].assignee \in {None, Row(r).assignee}

RowAfter(r) ==
  IF req[r].op = "add"
  THEN [status |-> "pending", name |-> req[r].name, assignee |-> req[r].assignee,
        version |-> r]
  ELSE IF req[r].op = "edit"
  THEN [Row(r) EXCEPT !.name = NameAfter(r),
                      !.assignee = IF req[r].assignee # None THEN req[r].assignee ELSE @,
                      !.version = IF ChangesNothing(r) THEN @ ELSE r]
  ELSE IF req[r].op = "complete" THEN [Row(r) EXCEPT !.status = "completed", !.version = r]
  ELSE IF req[r].op = "reopen"   THEN [Row(r) EXCEPT !.status = "pending", !.version = r]
  ELSE [Row(r) EXCEPT !.status = "deleted"]

SequenceNumbers == {e.seq : e \in events}

NextSequence == Max(SequenceNumbers \union {SeedSeq}) + 1

(* begin() finds the key recorded by a transaction that has committed.     *)
BeginDuplicate(r) ==
  /\ pc[r] = "stage"
  /\ Recorded(r)
  /\ RollbackTo(r, "replay")

(* begin() flushes the edited row with the record; when both violate a     *)
(* unique index either may be the error PostgreSQL reports.                *)
RejectName(r) ==
  /\ pc[r] = "stage"
  /\ ~Recorded(r) \/ req[r].op = "edit"
  /\ NameTaken(r)
  /\ Answer(r, "conflict")

(* rowcount = 0: the rollback also drops the key's record.                 *)
FindNoTransition(r) ==
  /\ pc[r] = "stage"
  /\ ~Recorded(r)
  /\ ~NameTaken(r)
  /\ NoTransition(r)
  /\ RollbackTo(r, "readback")

(* Mutant of Target: an add keeps the id the client sent. *)
TargetOfClient(r) == {req[r].item}

Target(r) == IF req[r].op = "add" THEN {i \in Items : items[i].status = "absent"}
                                  ELSE {req[r].item}

Stage(r) ==
  /\ pc[r] = "stage"
  /\ ~Recorded(r)
  /\ ~NameTaken(r)
  /\ ~NoTransition(r)
  /\ \E i \in Target(r) :
       staged' = [staged EXCEPT ![r] = [item |-> i, row |-> RowAfter(r),
                                        seq |-> NextSequence]]
  /\ Goto(r, "commit")
  /\ UNCHANGED <<items, records, events, session, members, memberLock, sessionLock,
                 req, answer, feed>>

Commit(r) ==
  /\ pc[r] = "commit"
  /\ req[r].op # "finish"
  /\ items' = [items EXCEPT ![staged[r].item] = staged[r].row]
  /\ events' = events \union {[seq |-> staged[r].seq, item |-> staged[r].item,
                               req |-> req[r], by |-> r]}
  /\ records' = IF req[r].key = None THEN records
                ELSE [records EXCEPT ![req[r].key] = [req |-> req[r], by |-> r]]
  /\ Release(r)
  /\ IF req[r].op = "delete"
     THEN answer' = [answer EXCEPT ![r] = "ok"] /\ Goto(r, "publish")
     ELSE answer' = answer /\ Goto(r, "refresh")
  /\ UNCHANGED <<session, members, req, staged, feed>>

(* db.refresh(item) after the commit reads the row again, without locks: a *)
(* row deleted meanwhile is an error, and the event is not published.      *)
Refresh(r) ==
  /\ pc[r] = "refresh"
  /\ \/ /\ items[staged[r].item].status # "deleted"
        /\ answer' = [answer EXCEPT ![r] = "ok"]
        /\ Goto(r, "publish")
        /\ UNCHANGED <<items, records, events, session, members, memberLock, sessionLock,
                       req, staged, feed>>
     \/ /\ items[staged[r].item].status = "deleted"
        /\ Answer(r, "error")

(* _load_concurrent_replay *)
LoadReplay(r) ==
  /\ pc[r] = "replay"
  /\ Answer(r, ReplayAnswer(r))

(* After its rollback a complete or reopen without effect reads the row    *)
(* again, without locks; any other status is GroceryItemTransitionError.   *)
ReadBack(r) ==
  /\ pc[r] = "readback"
  /\ Answer(r, IF Row(r).status = (IF req[r].op = "complete" THEN "completed" ELSE "pending")
               THEN "ok" ELSE "error")

(* Mutant of Publish: the task runs again after it has published. *)
PublishAgain(r) ==
  /\ pc[r] = "publish"
  /\ feed' = Append(feed, staged[r].seq)
  /\ UNCHANGED <<items, records, events, session, members, memberLock, sessionLock, req,
                 pc, staged, answer>>

(* The background task; a Redis error is logged and the event dropped.     *)
Publish(r) ==
  /\ pc[r] = "publish"
  /\ feed' \in {Append(feed, staged[r].seq), feed}
  /\ staged' = [staged EXCEPT ![r] = None]
  /\ Goto(r, "done")
  /\ UNCHANGED <<items, records, events, session, members, memberLock, sessionLock, req,
                 answer>>

-----------------------------------------------------------------------------
(* complete_shopping_session: a conditional UPDATE waits for the session's *)
(* row lock; on a completed session it changes nothing and answers alike.  *)

(* Mutant of FinishSession: the update does not wait for the row's lock.   *)
FinishWithoutWaiting(r) ==
  /\ pc[r] = "members"
  /\ RowsToLock(r) = {}
  /\ WantedRows(r) \subseteq members
  /\ req[r].op = "finish"
  /\ Goto(r, "commit")
  /\ UNCHANGED <<items, records, events, session, members, memberLock, sessionLock, req,
                 staged, answer, feed>>

FinishSession(r) ==
  /\ MayLockSession(r)
  /\ req[r].op = "finish"
  /\ \/ /\ session = "active"
        /\ sessionLock' = r
        /\ Goto(r, "commit")
        /\ UNCHANGED <<items, records, events, session, members, memberLock, req, staged,
                       answer, feed>>
     \/ /\ session = "completed"
        /\ Answer(r, "ok")

CommitFinish(r) ==
  /\ pc[r] = "commit"
  /\ req[r].op = "finish"
  /\ session' = "completed"
  /\ Release(r)
  /\ answer' = [answer EXCEPT ![r] = "ok"]
  /\ Goto(r, "done")
  /\ UNCHANGED <<items, records, events, members, req, staged, feed>>

-----------------------------------------------------------------------------
(* The surroundings.  A membership row is deleted, by its user or by the   *)
(* owner, once no transaction holds its lock.                              *)

RemoveMember(u) ==
  /\ u \in members
  /\ memberLock[u] = None
  /\ members' = members \ {u}
  /\ UNCHANGED <<items, records, events, session, memberLock, sessionLock, req, pc,
                 staged, answer, feed>>

(* The holder of the lock that the transaction's next statement waits for. *)
Blocker(r) ==
  IF pc[r] = "members" /\ RowsToLock(r) # {} THEN memberLock[Min(RowsToLock(r))]
  ELSE IF pc[r] = "members" /\ WantedRows(r) \subseteq members THEN sessionLock
  ELSE IF pc[r] = "assignee" /\ memberLock[req[r].assignee] # r THEN memberLock[req[r].assignee]
  ELSE None

(* Each transaction waits for at most one other, so a set in which each one*)
(* waits for another and is waited for consists of cycles.                 *)
Deadlocked(r) ==
  \E S \in SUBSET Requests : /\ r \in S
                             /\ {Blocker(p) : p \in S} = S

(* PostgreSQL breaks a cycle by aborting one of its transactions. *)
DeadlockAbort(r) ==
  /\ pc[r] \in {"members", "assignee"}
  /\ Deadlocked(r)
  /\ Answer(r, "error")

(* The server or the connection dies: PostgreSQL rolls back what is not    *)
(* committed, and the client that has no answer never gets one.            *)
Crash(r) ==
  /\ pc[r] \notin {"idle", "done"}
  /\ Answer(r, IF answer[r] = None THEN "lost" ELSE answer[r])

-----------------------------------------------------------------------------
Handle(r) ==
  \/ Prepare(r) \/ LockMember(r) \/ DenyMember(r)
  \/ Refuse(r) \/ Check(r) \/ LockAssignee(r) \/ DenyAssignee(r)
  \/ BeginDuplicate(r) \/ RejectName(r) \/ FindNoTransition(r) \/ Stage(r)
  \/ Commit(r) \/ Refresh(r) \/ LoadReplay(r) \/ ReadBack(r) \/ Publish(r)
  \/ FinishSession(r) \/ CommitFinish(r)

Next ==
  \/ \E r \in Requests : Submit(r) \/ Handle(r) \/ DeadlockAbort(r) \/ Crash(r)
  \/ \E u \in Users : RemoveMember(u)

Spec == Init /\ [][Next]_vars

(* The server runs every request it has accepted, PostgreSQL grants a free *)
(* lock to a waiter and detects deadlocks.                                 *)
FairSpec == Spec /\ \A r \in Requests : /\ WF_vars(Handle(r))
                                        /\ WF_vars(DeadlockAbort(r))

-----------------------------------------------------------------------------
(* Properties. *)

(* Two pending items of a session never have the same name, whatever adds, *)
(* renames and reopens run at once (uq_grocery_items_session_pending_name  *)
(* is never what refuses a write).                                         *)
UniquePendingName == PendingNamesDiffer(items)

(* The session's activity is numbered without gap or repetition: each      *)
(* max + 1 read by _add_activity_event is still the next number when the   *)
(* event is committed.                                                     *)
ActivityNumbered ==
  /\ \A e, f \in events : e.seq = f.seq => e = f
  /\ SequenceNumbers = (SeedSeq + 1) .. (SeedSeq + Cardinality(events))

(* A key's mutation takes effect at most once, however often and however   *)
(* concurrently the request is sent, and the record, the row change and    *)
(* the event are committed together: a key has a record exactly when one   *)
(* event carries it, and both name the same request.                       *)
KeyAppliedAtMostOnce ==
  /\ \A e, f \in events : e.req.key # None /\ e.req.key = f.req.key => e = f
  /\ \A e \in events : e.req.key # None =>
                         records[e.req.key] = [req |-> e.req, by |-> e.by]
  /\ \A k \in Keys : records[k] # None => \E e \in events : e.req.key = k

(* Redis is told of committed events only, and of none twice: a replayed   *)
(* response or a refused mutation publishes nothing.                       *)
PublishedOnce ==
  /\ \A m, n \in DOMAIN feed : feed[m] = feed[n] => m = n
  /\ \A n \in DOMAIN feed : feed[n] \in SequenceNumbers

(* A finished session is history: a mutation that found it active has      *)
(* committed before it was finished, or never does.                        *)
FinishedIsFrozen ==
  [][session = "completed" => UNCHANGED <<items, records, events, session>>]_db

(* No lost update: a mutation sent with X-Base-Updated-At commits only on  *)
(* the row version its client had read.                                    *)
NoLostUpdate ==
  [][\A e \in events' \ events :
        e.req.base # None => items[e.item].version = e.req.base]_db

(* Who writes, and who is assigned, is a member at the moment the change   *)
(* commits, although membership was checked several statements before.     *)
WritersAreMembers ==
  [][\A e \in events' \ events :
        {e.req.user, e.req.assignee} \ {None} \subseteq members]_db

(* The committed tables change as the abstract ledger's do: a transaction  *)
(* shows in them at its commit, whole, and nowhere else.                   *)
Ledger == INSTANCE GroceryLedger
            WITH items <- items, records <- records, events <- events, session <- session
ImplementsLedger == Ledger!Spec

(* Every request the server accepts is answered: what deadlocks is broken, *)
(* and no lock is kept by a transaction that has ended.                    *)
EveryRequestAnswered ==
  \A r \in Requests : pc[r] # "idle" ~> pc[r] = "done" /\ answer[r] # None

=============================================================================
