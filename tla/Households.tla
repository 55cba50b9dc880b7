----------------------------- MODULE Households -----------------------------
(***************************************************************************)
(* One household: its memberships and their roles, its invitations, its    *)
(* name and its shopping sessions, as concurrent HTTP requests change them.*)
(* Every request is one PostgreSQL transaction at READ COMMITTED.          *)
(*                                                                         *)
(*   services/households.py          rename .. join                        *)
(*   services/shopping_sessions.py   start, finish                         *)
(*   services/users.py               deleteAccount                         *)
(*   repositories/household_members.py, household_invitations.py           *)
(*                                                                         *)
(* Invitations and sessions are named by the request that creates them.    *)
(* The row locks that are modelled are those of memberships, of invitations*)
(* being used and of the household; an insert into a table that refers to  *)
(* the household waits for a FOR UPDATE lock of its row, as its foreign key*)
(* makes it do.                                                            *)
(***************************************************************************)
EXTENDS Integers, FiniteSets, FiniteSetsExt

CONSTANTS
  Users,     \* user ids; an interval of numbers, lock_for_users orders them
  Requests,  \* HTTP requests
  Intents,   \* what clients may ask
  Roles,     \* each user's role when the model starts
  Seed,      \* the household's first invitation, session and memberships
  None

Ids == Requests \union {Seed}

LockedOps == {"rename", "transfer", "remove", "invite", "revoke", "start", "finish"}
FreeOps == {"leave", "deleteAccount", "join"}
OnUser == {"transfer", "remove"}

IntentType == [op : LockedOps \union FreeOps, user : Users, target : Users \union {None}]

Calls == [op     : LockedOps \union FreeOps,
          user   : Users,
          target : Users \union Ids \union {None}]

ASSUME UsersAssumption == Users \subseteq Nat /\ IsFiniteSet(Users)
ASSUME SentinelAssumption ==
  /\ Seed \notin Requests
  /\ None \notin Users \union Ids \union Calls
ASSUME RolesAssumption ==
  /\ Roles \in [Users -> {"none", "member", "owner"}]
  /\ \A u, v \in Users : Roles[u] = "owner" /\ Roles[v] = "owner" => u = v
ASSUME IntentAssumption ==
  /\ Intents \subseteq IntentType
  /\ \A q \in Intents : q.target # None <=> q.op \in OnUser

VARIABLES
  accounts,       \* users
  members,        \* household_members: each user's role and its row's id
  memberLock,     \* holder of each membership row's lock
  household,      \* the request that last changed the household's name
  householdLock,  \* holder of the household row's lock
  invitations,    \* household_invitations
  inviteLock,     \* holder of each invitation row's lock
  sessions,       \* status of each shopping session
  req, pc, answer,\* what each request asks, where it is, what it was told
  read            \* the membership rows each request has read

locks == <<memberLock, householdLock, inviteLock>>
db == <<accounts, members, household, invitations, sessions>>
vars == <<accounts, members, memberLock, household, householdLock, invitations, inviteLock,
          sessions, req, pc, answer, read>>

Membership == [role : {"none", "member", "owner"}, id : Ids \union {None}]
NoMember == [role |-> "none", id |-> None]
Rows == [Users -> Ids \union {None}]  \* membership rows by their users

InvitationStatus == {"absent", "active", "used", "revoked", "deleted"}
Invitation == [status  : InvitationStatus,
               by      : Users \union {None},
               usedBy  : Users \union {None},
               expired : BOOLEAN]

Answers == {"ok", "notFound", "forbidden", "conflict", "invalid", "error", "lost"}
Stages == {"idle", "members", "household", "commit", "revoke", "leave", "delete", "owns",
           "erase", "code", "consume", "admit", "refresh", "done"}

TypeOK ==
  /\ accounts \subseteq Users
  /\ members \in [Users -> Membership]
  /\ memberLock \in [Users -> Requests \union {None}]
  /\ household \in Ids
  /\ householdLock \in Requests \union {None}
  /\ invitations \in [Ids -> Invitation]
  /\ inviteLock \in [Ids -> Requests \union {None}]
  /\ sessions \in [Ids -> {"absent", "active", "completed"}]
  /\ req \in [Requests -> Calls \union {None}]
  /\ pc \in [Requests -> Stages]
  /\ answer \in [Requests -> Answers \union {None}]
  /\ read \in [Requests -> Rows]
  \* foreign keys: what belongs to an account is deleted with it
  /\ \A u \in Users \ accounts : members[u] = NoMember
  /\ \A i \in Ids : invitations[i].status \in {"active", "used", "revoked"}
                      => invitations[i].by \in accounts

Init ==
  /\ accounts = Users
  /\ members = [u \in Users |-> [role |-> Roles[u], id |-> IF Roles[u] = "none" THEN None ELSE Seed]]
  /\ memberLock = [u \in Users |-> None]
  /\ household = Seed
  /\ householdLock = None
  /\ \E u \in Users :
       invitations = [i \in Ids |->
                        [status |-> IF i = Seed THEN "active" ELSE "absent",
                         by |-> IF i = Seed THEN u ELSE None, usedBy |-> None,
                         expired |-> FALSE]]
  /\ inviteLock = [i \in Ids |-> None]
  /\ sessions = [s \in Ids |-> IF s = Seed THEN "completed" ELSE "absent"]
  /\ req = [r \in Requests |-> None]
  /\ pc = [r \in Requests |-> "idle"]
  /\ answer = [r \in Requests |-> None]
  /\ read = [r \in Requests |-> [u \in Users |-> None]]

-----------------------------------------------------------------------------
Goto(r, stage) == pc' = [pc EXCEPT ![r] = stage]

Role(u) == members[u].role

Free(lock, r) == IF lock = r THEN None ELSE lock

Release(r) ==
  /\ memberLock' = [u \in Users |-> Free(memberLock[u], r)]
  /\ householdLock' = Free(householdLock, r)
  /\ inviteLock' = [i \in Ids |-> Free(inviteLock[i], r)]

(* The transaction is over and the client is told a. *)
End(r, a) ==
  /\ Release(r)
  /\ answer' = [answer EXCEPT ![r] = a]
  /\ Goto(r, "done")
  /\ UNCHANGED <<req, read>>

Answer(r, a) == End(r, a) /\ UNCHANGED db

-----------------------------------------------------------------------------
(* An authenticated user asks.  Whom or what it names exists at that time. *)
(* lock_for_users is the first statement of the requests that use it: it   *)
(* finds the rows there are then, and will lock no row inserted later.     *)

Targets(q) ==
  IF q.op \in {"join", "revoke"} THEN {i \in Ids : invitations[i].status # "absent"}
  ELSE IF q.op = "finish" THEN {s \in Ids : sessions[s] # "absent"}
  ELSE {q.target}

Wanted(q) == {q.user} \union (IF q.op \in OnUser THEN {q.target} ELSE {})

Found(q) == [u \in Users |-> IF q.op \in LockedOps /\ u \in Wanted(q) THEN members[u].id ELSE None]

FirstStage(op) ==
  IF op = "leave" THEN "leave"
  ELSE IF op = "deleteAccount" THEN "owns"
  ELSE IF op = "join" THEN "code" ELSE "members"

Submit(r) ==
  /\ pc[r] = "idle"
  /\ \E q \in Intents :
       /\ q.user \in accounts
       /\ \E t \in Targets(q) :
            req' = [req EXCEPT ![r] = [op |-> q.op, user |-> q.user, target |-> t]]
       /\ read' = [read EXCEPT ![r] = Found(q)]
       /\ Goto(r, FirstStage(q.op))
  /\ UNCHANGED <<db, locks, answer>>

-----------------------------------------------------------------------------
(* lock_for_users: SELECT ... ORDER BY user_id FOR UPDATE.  A row that is  *)
(* deleted while the statement waits for it is passed over.                *)

WantedRows(r) == Wanted(req[r])

RowsToLock(r) ==
  {u \in WantedRows(r) : read[r][u] # None /\ members[u].id = read[r][u] /\ memberLock[u] # r}

(* Mutant of LockMember: the rows are locked in any order. *)
LockMemberUnordered(r) ==
  /\ pc[r] = "members"
  /\ \E u \in RowsToLock(r) :
       /\ memberLock[u] = None
       /\ memberLock' = [memberLock EXCEPT ![u] = r]
  /\ UNCHANGED <<db, householdLock, inviteLock, req, pc, answer, read>>

LockMember(r) ==
  /\ pc[r] = "members"
  /\ \E u \in RowsToLock(r) :
       /\ \A v \in RowsToLock(r) : u <= v
       /\ memberLock[u] = None
       /\ memberLock' = [memberLock EXCEPT ![u] = r]
  /\ UNCHANGED <<db, householdLock, inviteLock, req, pc, answer, read>>

(* The services' checks of the rows they have locked. *)
LockedRole(r, u) == IF memberLock[u] = r THEN Role(u) ELSE "none"

Verdict(r) ==
  LET user == req[r].user  target == req[r].target  op == req[r].op
  IN  IF LockedRole(r, user) = "none" THEN "notFound"
      ELSE IF op \in {"invite", "start", "finish"} THEN "proceed"
      ELSE IF Role(user) # "owner" THEN "forbidden"
      ELSE IF op = "transfer" /\ target = user THEN "conflict"
      ELSE IF op \in OnUser /\ LockedRole(r, target) = "none" THEN "notFound"
      ELSE IF op \in OnUser /\ Role(target) = "owner" THEN "conflict"
      ELSE "proceed"

NextStage(op) ==
  IF op = "start" THEN "household" ELSE IF op = "revoke" THEN "revoke" ELSE "commit"

(* Mutant of Check: the locks are released once the checks are made. *)
CheckAndRelease(r) ==
  /\ pc[r] = "members"
  /\ RowsToLock(r) = {}
  /\ Verdict(r) = "proceed"
  /\ Goto(r, NextStage(req[r].op))
  /\ Release(r)
  /\ UNCHANGED <<db, req, answer, read>>

Check(r) ==
  /\ pc[r] = "members"
  /\ RowsToLock(r) = {}
  /\ Verdict(r) = "proceed"
  /\ Goto(r, NextStage(req[r].op))
  /\ UNCHANGED <<db, locks, req, answer, read>>

Refuse(r) ==
  /\ pc[r] = "members"
  /\ RowsToLock(r) = {}
  /\ Verdict(r) # "proceed"
  /\ Answer(r, Verdict(r))

-----------------------------------------------------------------------------
(* Writes, under the memberships' locks. *)

At(r, stage, op) == pc[r] = stage /\ req[r].op = op

Rename(r) ==
  /\ At(r, "commit", "rename")
  /\ householdLock = None
  /\ household' = r
  /\ End(r, "ok")
  /\ UNCHANGED <<accounts, members, invitations, sessions>>

Transfer(r) ==
  /\ At(r, "commit", "transfer")
  /\ members' = [members EXCEPT ![req[r].user].role = "member",
                                ![req[r].target].role = "owner"]
  /\ End(r, "ok")
  /\ UNCHANGED <<accounts, household, invitations, sessions>>

Remove(r) ==
  /\ At(r, "commit", "remove")
  /\ members' = [members EXCEPT ![req[r].target] = NoMember]
  /\ End(r, "ok")
  /\ UNCHANGED <<accounts, household, invitations, sessions>>

Invite(r) ==
  /\ At(r, "commit", "invite")
  /\ householdLock = None
  /\ invitations' = [invitations EXCEPT ![r].status = "active", ![r].by = req[r].user]
  /\ Release(r)
  /\ Goto(r, "refresh")
  /\ UNCHANGED <<accounts, members, household, sessions, req, answer, read>>

(* A conditional UPDATE: it waits for a join that is using the invitation. *)
Usable(i) == invitations[i].status = "active"

Revoke(r) ==
  /\ pc[r] = "revoke"
  /\ inviteLock[req[r].target] = None
  /\ IF Usable(req[r].target) /\ ~invitations[req[r].target].expired
     THEN /\ invitations' = [invitations EXCEPT ![req[r].target].status = "revoked"]
          /\ Release(r)
          /\ Goto(r, "refresh")
          /\ UNCHANGED <<accounts, members, household, sessions, req, answer, read>>
     ELSE Answer(r, "notFound")

(* Mutant of LockHousehold: the row is read without FOR UPDATE. *)
ReadHousehold(r) ==
  /\ pc[r] = "household"
  /\ ~\E s \in Ids : sessions[s] = "active"
  /\ Goto(r, "commit")
  /\ UNCHANGED <<db, locks, req, answer, read>>

LockHousehold(r) ==
  /\ pc[r] = "household"
  /\ householdLock = None
  /\ IF \E s \in Ids : sessions[s] = "active"
     THEN Answer(r, "conflict")
     ELSE /\ householdLock' = r
          /\ Goto(r, "commit")
          /\ UNCHANGED <<db, memberLock, inviteLock, req, answer, read>>

Start(r) ==
  /\ At(r, "commit", "start")
  /\ sessions' = [sessions EXCEPT ![r] = "active"]
  /\ End(r, "ok")
  /\ UNCHANGED <<accounts, members, household, invitations>>

(* A conditional UPDATE; a session that is completed already answers alike.*)
Finish(r) ==
  /\ At(r, "commit", "finish")
  /\ sessions' = [sessions EXCEPT ![req[r].target] = "completed"]
  /\ End(r, "ok")
  /\ UNCHANGED <<accounts, members, household, invitations>>

-----------------------------------------------------------------------------
(* Leaving, and deleting an account, check a role without locking its row. *)

ReadMembership(r) ==
  /\ pc[r] = "leave"
  /\ IF Role(req[r].user) = "member"
     THEN /\ read' = [read EXCEPT ![r][req[r].user] = members[req[r].user].id]
          /\ Goto(r, "delete")
          /\ UNCHANGED <<db, locks, req, answer>>
     ELSE Answer(r, IF Role(req[r].user) = "none" THEN "notFound" ELSE "conflict")

(* DELETE by the row's id waits for its lock; nothing else is checked, and *)
(* a row that is gone is no error.                                         *)
Leave(r) ==
  /\ pc[r] = "delete"
  /\ memberLock[req[r].user] = None \/ members[req[r].user].id # read[r][req[r].user]
  /\ members' = IF members[req[r].user].id = read[r][req[r].user]
                THEN [members EXCEPT ![req[r].user] = NoMember] ELSE members
  /\ End(r, "ok")
  /\ UNCHANGED <<accounts, household, invitations, sessions>>

CheckOwns(r) ==
  /\ pc[r] = "owns"
  /\ IF Role(req[r].user) = "owner"
     THEN Answer(r, "conflict")
     ELSE Goto(r, "erase") /\ UNCHANGED <<db, locks, req, answer, read>>

(* Mutant of EraseInvitations: the user's invitations are left. *)
KeepInvitations(u) == invitations

EraseInvitations(u) ==
  [i \in Ids |-> IF invitations[i].by = u
                 THEN [invitations[i] EXCEPT !.status = "deleted"]
                 ELSE IF invitations[i].usedBy = u
                      THEN [invitations[i] EXCEPT !.usedBy = None]
                      ELSE invitations[i]]

(* The deletion of a user cascades to its membership and invitations; it   *)
(* waits for whoever has locked one of these rows, and for a join of the   *)
(* same user, whose update of used_by_user_id refers to the account.       *)
Erase(r) ==
  /\ pc[r] = "erase"
  /\ memberLock[req[r].user] = None
  /\ \A s \in Requests : pc[s] = "admit" => req[s].user # req[r].user
  /\ \A i \in Ids : req[r].user \in {invitations[i].by, invitations[i].usedBy} => inviteLock[i] = None
  /\ accounts' = accounts \ {req[r].user}
  /\ members' = [members EXCEPT ![req[r].user] = NoMember]
  /\ invitations' = EraseInvitations(req[r].user)
  /\ End(r, "ok")
  /\ UNCHANGED <<household, sessions>>

-----------------------------------------------------------------------------
(* Joining.  Both lookups come first, without locks; the write checks again*)
(* what they found.  Expiry is compared with the time of the first lookup, *)
(* so it is not checked again.                                             *)

FindCode(r) ==
  /\ pc[r] = "code"
  /\ IF ~Usable(req[r].target) \/ invitations[req[r].target].expired
     THEN Answer(r, "invalid")
     ELSE IF Role(req[r].user) # "none"
     THEN Answer(r, "conflict")
     ELSE Goto(r, "consume") /\ UNCHANGED <<db, locks, req, answer, read>>

(* Mutant of Consume: the UPDATE names the invitation by its id only. *)
ConsumeAny(r) ==
  /\ pc[r] = "consume"
  /\ req[r].user \in accounts
  /\ inviteLock[req[r].target] = None
  /\ inviteLock' = [inviteLock EXCEPT ![req[r].target] = r]
  /\ Goto(r, "admit")
  /\ UNCHANGED <<db, memberLock, householdLock, req, answer, read>>

Consume(r) ==
  /\ pc[r] = "consume"
  /\ inviteLock[req[r].target] = None
  /\ IF ~Usable(req[r].target) THEN Answer(r, "invalid")
     ELSE IF req[r].user \notin accounts THEN Answer(r, "error")
     ELSE /\ inviteLock' = [inviteLock EXCEPT ![req[r].target] = r]
          /\ Goto(r, "admit")
          /\ UNCHANGED <<db, memberLock, householdLock, req, answer, read>>

(* The insert and the invitation's update commit together or, when the     *)
(* user is a member already, not at all.                                   *)
Admit(r) ==
  /\ pc[r] = "admit"
  /\ householdLock = None
  /\ IF Role(req[r].user) = "none"
     THEN /\ members' = [members EXCEPT ![req[r].user] = [role |-> "member", id |-> r]]
          /\ invitations' = [invitations EXCEPT ![req[r].target].status = "used",
                                                ![req[r].target].usedBy = req[r].user]
          /\ Release(r)
          /\ Goto(r, "refresh")
          /\ UNCHANGED <<accounts, household, sessions, req, answer, read>>
     ELSE Answer(r, "conflict")

(* The rows just committed are read again, without locks: one deleted      *)
(* meanwhile is an error.                                                  *)
Refresh(r) ==
  /\ pc[r] = "refresh"
  /\ LET invitation == IF req[r].op = "invite" THEN r ELSE req[r].target
         gone == \/ invitations[invitation].status = "deleted"
                 \/ req[r].op = "join" /\ members[req[r].user].id # r
     IN  Answer(r, IF gone THEN "error" ELSE "ok")

-----------------------------------------------------------------------------
(* Whose lock the next statement of r has to wait for. *)

WaitsFor(r, q) ==
  LET user == req[r].user  target == req[r].target
  IN  \/ /\ pc[r] = "members"
         /\ \E u \in RowsToLock(r) : memberLock[u] = q /\ \A v \in RowsToLock(r) : u <= v
      \/ pc[r] \in {"household", "admit"} /\ householdLock = q
      \/ pc[r] = "commit" /\ req[r].op \in {"rename", "invite"} /\ householdLock = q
      \/ pc[r] \in {"revoke", "consume"} /\ inviteLock[target] = q
      \/ pc[r] = "delete" /\ members[user].id = read[r][user] /\ memberLock[user] = q
      \/ /\ pc[r] = "erase"
         /\ \/ memberLock[user] = q
            \/ pc[q] = "admit" /\ req[q].user = user
            \/ \E i \in Ids : inviteLock[i] = q /\ user \in {invitations[i].by, invitations[i].usedBy}

-----------------------------------------------------------------------------
(* Time passes; the server or a connection dies. *)

Expire(i) ==
  /\ invitations[i].status = "active"
  /\ ~invitations[i].expired
  /\ invitations' = [invitations EXCEPT ![i].expired = TRUE]
  /\ UNCHANGED <<accounts, members, household, sessions, locks, req, pc, answer, read>>

Crash(r) ==
  /\ pc[r] \notin {"idle", "done"}
  /\ Answer(r, "lost")

Handle(r) ==
  \/ LockMember(r) \/ Check(r) \/ Refuse(r)
  \/ Rename(r) \/ Transfer(r) \/ Remove(r) \/ Invite(r) \/ Revoke(r)
  \/ LockHousehold(r) \/ Start(r) \/ Finish(r)
  \/ ReadMembership(r) \/ Leave(r) \/ CheckOwns(r) \/ Erase(r)
  \/ FindCode(r) \/ Consume(r) \/ Admit(r) \/ Refresh(r)

Next ==
  \/ \E r \in Requests : Submit(r) \/ Handle(r) \/ Crash(r)
  \/ \E i \in Ids : Expire(i)

Spec == Init /\ [][Next]_vars

-----------------------------------------------------------------------------
(* Properties. *)

(* A household never has two owners, nor two active sessions, whatever     *)
(* transfers, removals, joins and starts run at once.  README, shopping    *)
(* sessions: the services "prevent more than one active session per        *)
(* household"; no index does.                                              *)
OneOwnerOneSession ==
  /\ \A u, v \in Users : Role(u) = "owner" /\ Role(v) = "owner" => u = v
  /\ \A s, t \in Ids : sessions[s] = "active" /\ sessions[t] = "active" => s = t

(* Every admission uses up an invitation of its own that was neither used  *)
(* nor revoked until then, in one transaction.                             *)
JoinsConsumeInvitations ==
  [][\A u \in Users : members'[u].id \notin {None, members[u].id} =>
       \E i \in Ids : /\ Usable(i)
                      /\ invitations'[i].status = "used"
                      /\ invitations'[i].usedBy = u]_db

(* What only owners may do is done by a user who is the owner when it      *)
(* commits, and never to the owner: renaming, removing, revoking and       *)
(* handing over.  Invitations and sessions are created by users who are    *)
(* members at the time of the commit.                                      *)
CommitsAreAuthorized ==
  [][\A r \in Requests :
       /\ (/\ pc[r] \in {"commit", "revoke"} /\ pc'[r] # pc[r] /\ db' # db
           /\ req[r].op \in {"rename", "transfer", "remove", "revoke"})
            => /\ Role(req[r].user) = "owner"
               /\ (req[r].op \in OnUser => Role(req[r].target) = "member")
       /\ (\/ invitations[r].status = "absent" /\ invitations'[r].status # "absent"
           \/ sessions[r] = "absent" /\ sessions'[r] # "absent")
            => Role(req[r].user) # "none"]_vars

(* The committed tables change as the ledger's do: every change shows at   *)
(* its commit, whole, and is then allowed to the user who asked for it.    *)
Ledger == INSTANCE HouseholdLedger
            WITH Users <- Users, Ids <- Ids, Roles <- Roles, Seed <- Seed, None <- None,
                 accounts <- accounts, name <- household, sessions <- sessions,
                 role <- [u \in Users |-> Role(u)],
                 invitations <- [i \in Ids |-> [status |-> invitations[i].status,
                                                by |-> invitations[i].by,
                                                usedBy |-> invitations[i].usedBy]]
ImplementsLedger == Ledger!Spec

(* Every request the server accepts can be answered: the order in which    *)
(* memberships, the household and invitations are locked has no cycle, and *)
(* nobody waits for a request that has ended.  PostgreSQL's detector has   *)
(* nothing to do here.                                                     *)
NobodyWaitsForEver ==
  /\ \A r, q \in Requests : WaitsFor(r, q) => pc[q] # "done"
  /\ ~\E S \in SUBSET Requests :
       S # {} /\ \A r \in S : \E q \in S : WaitsFor(r, q)

(* README, households: "Owners must transfer ownership before leaving so a *)
(* household cannot be left without an owner."                             *)
HouseholdHasOwner == \E u \in Users : Role(u) = "owner"

=============================================================================
