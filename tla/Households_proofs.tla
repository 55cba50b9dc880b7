-------------------------- MODULE Households_proofs --------------------------
(***************************************************************************)
(* Proofs about Households, for any number of users, requests and intents. *)
(*                                                                         *)
(* The locks carry the argument.  A request that has passed its checks     *)
(* holds the rows they were made on, so they are still true at its commit  *)
(* (Authorized); a request that starts a session holds the household, so   *)
(* none is active (Exclusive); one that admits a member holds an invitation*)
(* that is still active (Claimed).  None of these is inductive alone: who  *)
(* holds what must be known as well (Locks), and which statements a request*)
(* of each kind runs (Asked).                                              *)
(***************************************************************************)
EXTENDS Households, FiniteSetTheorems, WellFoundedInduction, TLAPS

OnIds == {"join", "revoke", "finish"}

(* Which statements a request runs, and what it names. *)
StageOf(stage, op) ==
  \/ stage \in {"idle", "done"}
  \/ stage = "members" /\ op \in LockedOps
  \/ stage = "household" /\ op = "start"
  \/ stage = "commit" /\ op \in LockedOps \ {"revoke"}
  \/ stage = "revoke" /\ op = "revoke"
  \/ stage \in {"leave", "delete"} /\ op = "leave"
  \/ stage \in {"owns", "erase"} /\ op = "deleteAccount"
  \/ stage \in {"code", "consume", "admit"} /\ op = "join"
  \/ stage = "refresh" /\ op \in {"invite", "revoke", "join"}

AskedOf(r) ==
  /\ req[r] \in Calls
  /\ StageOf(pc[r], req[r].op)
  /\ req[r].op \in OnUser => req[r].target \in Users
  /\ req[r].op \in OnIds => req[r].target \in Ids
  /\ req[r].op \in {"join", "revoke"} => invitations[req[r].target].status # "absent"
  /\ req[r].op = "finish" => sessions[req[r].target] # "absent"

Asked == \A r \in Requests : pc[r] # "idle" => AskedOf(r)

(* An invitation or a session is named by the request that creates it. *)
Named ==
  \A r \in Requests :
    /\ invitations[r].status # "absent" => pc[r] \in {"refresh", "done"}
    /\ sessions[r] # "absent" => pc[r] = "done"

(* One that does not exist yet refers to nobody. *)
Fresh == \A i \in Ids : invitations[i].status = "absent" => invitations[i].by = None

Locks ==
  /\ \A u \in Users : memberLock[u] # None =>
       /\ pc[memberLock[u]] \in {"members", "household", "commit", "revoke"}
       /\ u \in WantedRows(memberLock[u])
       /\ Role(u) # "none"
  /\ householdLock # None => At(householdLock, "commit", "start")
  /\ \A i \in Ids : inviteLock[i] # None =>
       pc[inviteLock[i]] = "admit" /\ req[inviteLock[i]].target = i

(* A membership is a row, named by a join that is over; so a row that a    *)
(* statement has read and that is gone never comes back.                   *)
Over == {"refresh", "done"}

Rowed ==
  /\ \A u \in Users : members[u].id = None <=> Role(u) = "none"
  /\ \A u \in Users : members[u].id \in Requests => pc[members[u].id] \in Over
  /\ \A r \in Requests, u \in Users : read[r][u] \in Requests => pc[read[r][u]] \in Over

(* The rows that lock_for_users has still to lock follow those it has.     *)
InOrder ==
  \A r \in Requests : pc[r] = "members" =>
    \A u \in RowsToLock(r), v \in Users : memberLock[v] = r => v < u

OneOwner == \A u, v \in Users : Role(u) = "owner" /\ Role(v) = "owner" => u = v

OneSession == \A s, t \in Ids : sessions[s] = "active" /\ sessions[t] = "active" => s = t

(* What was checked under a lock is true as long as the lock is held. *)
AuthorizedOf(r) ==
  /\ \A u \in WantedRows(r) : memberLock[u] = r
  /\ Role(req[r].user) # "none"
  /\ req[r].op \in {"rename", "transfer", "remove", "revoke"} => Role(req[r].user) = "owner"
  /\ req[r].op \in OnUser => Role(req[r].target) = "member"

Authorized == \A r \in Requests : pc[r] \in {"household", "commit", "revoke"} => AuthorizedOf(r)

Exclusive ==
  \A r \in Requests : At(r, "commit", "start") =>
    householdLock = r /\ \A s \in Ids : sessions[s] # "active"

ClaimedOf(r) ==
  /\ inviteLock[req[r].target] = r
  /\ Usable(req[r].target)
  /\ req[r].user \in accounts

Claimed == \A r \in Requests : pc[r] = "admit" => ClaimedOf(r)

IInv ==
  /\ TypeOK /\ Asked /\ Named /\ Fresh /\ Rowed /\ Locks /\ InOrder
  /\ OneOwner /\ OneSession /\ Authorized /\ Exclusive /\ Claimed

-----------------------------------------------------------------------------
(* The end of a transaction gives back what the request held, and nothing  *)
(* that another request holds.                                             *)

LEMMA ReleaseType ==
  ASSUME TypeOK, NEW r \in Requests, Release(r)
  PROVE  /\ memberLock' \in [Users -> Requests \union {None}]
         /\ householdLock' \in Requests \union {None}
         /\ inviteLock' \in [Ids -> Requests \union {None}]
  BY DEF TypeOK, Release, Free

LEMMA AnswerType ==
  ASSUME TypeOK, NEW r \in Requests, NEW a \in Answers, Answer(r, a)
  PROVE  TypeOK'
  <1>1. /\ memberLock' \in [Users -> Requests \union {None}]
        /\ householdLock' \in Requests \union {None}
        /\ inviteLock' \in [Ids -> Requests \union {None}]
    BY ReleaseType DEF Answer, End
  <1>2. QED
    BY <1>1 DEF TypeOK, Answer, End, Goto, db, Stages

LEMMA GotoType ==
  ASSUME TypeOK, NEW r \in Requests, NEW stage \in Stages, Goto(r, stage),
         UNCHANGED <<db, locks, req, answer, read>>
  PROVE  TypeOK'
  BY DEF TypeOK, Goto, db, locks

(* The rows that a request names. *)
LEMMA WantedUsers ==
  ASSUME NEW r \in Requests, AskedOf(r)
  PROVE  /\ WantedRows(r) \subseteq Users
         /\ req[r].user \in Users /\ req[r].user \in WantedRows(r)
         /\ req[r].op \in OnUser => req[r].target \in Users /\ req[r].target \in WantedRows(r)
         /\ \A u \in WantedRows(r) : u = req[r].user \/ (req[r].op \in OnUser /\ u = req[r].target)
  <1>1. req[r].user \in Users
    BY DEF AskedOf, Calls
  <1>2. CASE req[r].op \in OnUser
    <2>1. WantedRows(r) = {req[r].user, req[r].target} /\ req[r].target \in Users
      BY <1>2 DEF WantedRows, Wanted, AskedOf
    <2>2. QED BY <1>1, <1>2, <2>1
  <1>3. CASE req[r].op \notin OnUser
    <2>1. WantedRows(r) = {req[r].user}
      BY <1>3 DEF WantedRows, Wanted
    <2>2. QED BY <1>1, <1>3, <2>1
  <1>4. QED BY <1>2, <1>3

LEMMA LocksEnd ==
  ASSUME TypeOK, Locks, NEW r \in Requests, NEW stage, Release(r), Goto(r, stage),
         UNCHANGED req,
         \A u \in Users : memberLock[u] \notin {None, r} => members'[u].role # "none"
  PROVE  Locks'
  BY SentinelAssumption
     DEF TypeOK, Locks, Release, Free, Goto, Role, At, WantedRows, Ids

LEMMA LocksMove ==
  ASSUME TypeOK, Locks, NEW r \in Requests, NEW stage, Goto(r, stage),
         UNCHANGED <<members, memberLock, householdLock, inviteLock, req>>,
         pc[r] \notin {"members", "household", "commit", "revoke", "admit"}
  PROVE  Locks'
  BY SentinelAssumption DEF TypeOK, Locks, Goto, Role, At, WantedRows, Ids

(* Only the stage and the request of r change, r keeps or gives back its   *)
(* locks, and no role changes in a row that another request has locked.    *)
LEMMA AuthorizedFrame ==
  ASSUME TypeOK, Asked, Authorized, NEW r \in Requests,
         \A s \in Requests \ {r} : pc'[s] = pc[s] /\ req'[s] = req[s],
         \A u \in Users : memberLock[u] \notin {r, None} =>
           memberLock'[u] = memberLock[u] /\ members'[u].role = members[u].role,
         pc'[r] \in {"household", "commit", "revoke"} => AuthorizedOf(r)'
  PROVE  Authorized'
  <1> SUFFICES ASSUME NEW s \in Requests, pc'[s] \in {"household", "commit", "revoke"}
               PROVE  AuthorizedOf(s)'
    BY DEF Authorized
  <1>1. CASE s = r
    BY <1>1
  <1>2. CASE s # r
    <2>1. pc'[s] = pc[s] /\ req'[s] = req[s] /\ AuthorizedOf(s) /\ AskedOf(s)
      BY <1>2 DEF Authorized, Asked
    <2>2. /\ req[s].user \in Users
          /\ req[s].op \in OnUser => req[s].target \in Users
          /\ WantedRows(s) \subseteq Users
          /\ WantedRows(s)' = WantedRows(s)
      BY <2>1, WantedUsers DEF WantedRows
    <2>3. \A u \in WantedRows(s) : memberLock'[u] = s /\ members'[u].role = members[u].role
      BY <1>2, <2>1, <2>2, SentinelAssumption DEF AuthorizedOf, Ids
    <2>4. /\ Role(req[s].user)' = Role(req[s].user)
          /\ req[s].op \in OnUser => Role(req[s].target)' = Role(req[s].target)
      BY <2>1, <2>3, WantedUsers DEF Role
    <2>5. QED
      BY <2>1, <2>2, <2>3, <2>4 DEF AuthorizedOf
  <1>3. QED BY <1>1, <1>2

LEMMA InvitationType ==
  ASSUME NEW v \in Invitation, NEW s \in InvitationStatus, NEW u \in Users \union {None}
  PROVE  /\ [v EXCEPT !.status = s] \in Invitation
         /\ [v EXCEPT !.status = s, !.by = u] \in Invitation
  BY DEF Invitation

LEMMA ExpiredType == \A v \in Invitation : [v EXCEPT !.expired = TRUE] \in Invitation
  BY DEF Invitation

(* No statement takes an invitation back to one that does not exist. *)
LEMMA StatusStep ==
  ASSUME TypeOK, NEW i \in Ids, NEW s \in InvitationStatus,
         invitations' = [invitations EXCEPT ![i].status = s]
  PROVE  \A j \in Ids : invitations'[j].status = IF j = i THEN s ELSE invitations[j].status
  BY DEF TypeOK, Invitation

LEMMA ClaimedFrame ==
  ASSUME TypeOK, Asked, Claimed, NEW r \in Requests,
         \A s \in Requests \ {r} : pc'[s] = pc[s] /\ req'[s] = req[s],
         \A i \in Ids : inviteLock[i] \notin {r, None} =>
           /\ inviteLock'[i] = inviteLock[i]
           /\ Usable(i) => Usable(i)',
         \A s \in Requests \ {r} : pc[s] = "admit" => req[s].user \in accounts',
         pc'[r] = "admit" => ClaimedOf(r)'
  PROVE  Claimed'
  <1> SUFFICES ASSUME NEW s \in Requests, pc'[s] = "admit", s # r
               PROVE  ClaimedOf(s)'
    BY DEF Claimed
  <1>1. pc'[s] = pc[s] /\ req'[s] = req[s] /\ ClaimedOf(s) /\ AskedOf(s)
    BY DEF Claimed, Asked
  <1>2. req[s].target \in Ids
    BY <1>1 DEF AskedOf, StageOf, OnIds
  <1>3. inviteLock[req[s].target] = s /\ s # None
    BY <1>1, SentinelAssumption DEF ClaimedOf, Ids
  <1>4. QED
    BY <1>1, <1>2, <1>3 DEF ClaimedOf, Usable

-----------------------------------------------------------------------------
LEMMA TypeStep ==
  ASSUME TypeOK, Asked, Named, Locks, Authorized, Claimed, [Next]_vars
  PROVE  TypeOK'
  <1> USE DEF Stages, Answers
  <1>1. ASSUME NEW r \in Requests, Submit(r) PROVE TypeOK'
    <2>1. PICK q \in Intents : \E t \in Targets(q) :
               /\ req' = [req EXCEPT ![r] = [op |-> q.op, user |-> q.user, target |-> t]]
               /\ Goto(r, FirstStage(q.op))
      BY <1>1 DEF Submit
    <2>2. PICK t \in Targets(q) :
            req' = [req EXCEPT ![r] = [op |-> q.op, user |-> q.user, target |-> t]]
      BY <2>1
    <2>3. q \in IntentType
      BY IntentAssumption
    <2>4. [op |-> q.op, user |-> q.user, target |-> t] \in Calls
      BY <2>3 DEF Targets, Calls, IntentType
    <2>5. FirstStage(q.op) \in Stages
      BY DEF FirstStage
    <2>6. read' \in [Requests -> Rows]
      <3>1. \A p \in Intents : Found(p) \in Rows
        BY DEF Found, Rows, TypeOK, Membership
      <3>2. QED BY <1>1, <3>1 DEF Submit, TypeOK
    <2>7. QED
      BY <1>1, <2>1, <2>2, <2>4, <2>5, <2>6 DEF Submit, TypeOK, Goto, db, locks
  <1>2. ASSUME NEW r \in Requests, LockMember(r) PROVE TypeOK'
    BY <1>2 DEF LockMember, TypeOK, db
  <1>3. ASSUME NEW r \in Requests, Check(r) PROVE TypeOK'
    BY <1>3, GotoType DEF Check, NextStage
  <1>4. ASSUME NEW r \in Requests, Refuse(r) PROVE TypeOK'
    <2>1. Verdict(r) \in Answers
      BY <1>4 DEF Refuse, Verdict, LockedRole
    <2>2. QED BY <1>4, <2>1, AnswerType DEF Refuse
  <1>5. ASSUME NEW r \in Requests, Rename(r) PROVE TypeOK'
    BY <1>5, ReleaseType DEF Rename, End, Goto, TypeOK, Ids
  <1>6. ASSUME NEW r \in Requests, Transfer(r) PROVE TypeOK'
    <2>1. AskedOf(r) /\ AuthorizedOf(r) /\ req[r].op = "transfer"
      BY <1>6 DEF Transfer, At, Asked, Authorized
    <2>2. /\ req[r].user \in Users /\ req[r].target \in Users
          /\ Role(req[r].user) = "owner" /\ Role(req[r].target) = "member"
      BY <2>1 DEF AskedOf, AuthorizedOf, Calls, OnUser
    <2>3. req[r].user \in accounts /\ req[r].target \in accounts
      BY <2>2 DEF TypeOK, Role, NoMember
    <2>4. members' \in [Users -> Membership]
      BY <1>6, <2>2 DEF Transfer, TypeOK, Membership
    <2>5. \A u \in Users \ accounts : members'[u] = NoMember
      BY <1>6, <2>2, <2>3 DEF Transfer, TypeOK
    <2>6. QED
      BY <1>6, <2>4, <2>5, ReleaseType DEF Transfer, End, Goto, TypeOK
  <1>7. ASSUME NEW r \in Requests, Remove(r) PROVE TypeOK'
    <2>1. members' \in [Users -> Membership] /\ \A u \in Users \ accounts : members'[u] = NoMember
      BY <1>7 DEF Remove, TypeOK, Membership, NoMember
    <2>2. QED
      BY <1>7, <2>1, ReleaseType DEF Remove, End, Goto, TypeOK
  <1>8. ASSUME NEW r \in Requests, Invite(r) PROVE TypeOK'
    <2>1. AskedOf(r) /\ AuthorizedOf(r)
      BY <1>8 DEF Invite, At, Asked, Authorized
    <2>2. req[r].user \in Users /\ Role(req[r].user) # "none"
      BY <2>1 DEF AskedOf, AuthorizedOf, Calls
    <2>3. req[r].user \in accounts
      BY <2>2 DEF TypeOK, Role, NoMember
    <2>4. invitations' \in [Ids -> Invitation]
      BY <1>8, <2>2, InvitationType DEF Invite, TypeOK, InvitationStatus
    <2>5. \A i \in Ids : invitations'[i].status \in {"active", "used", "revoked"} =>
            invitations'[i].by \in accounts
      BY <1>8, <2>3 DEF Invite, TypeOK, Invitation
    <2>6. QED
      BY <1>8, <2>4, <2>5, ReleaseType DEF Invite, Goto, TypeOK
  <1>9. ASSUME NEW r \in Requests, Revoke(r) PROVE TypeOK'
    <2>1. CASE UNCHANGED invitations
      <3>1. CASE Answer(r, "notFound")
        BY <3>1, AnswerType
      <3>2. CASE Release(r) /\ Goto(r, "refresh") /\ UNCHANGED <<req, answer, read>>
        BY <1>9, <2>1, <3>2, ReleaseType DEF Revoke, Goto, TypeOK, Answer, End, db
      <3>3. QED BY <1>9, <3>1, <3>2 DEF Revoke
    <2>2. CASE /\ Usable(req[r].target)
               /\ invitations' = [invitations EXCEPT ![req[r].target].status = "revoked"]
               /\ Release(r) /\ Goto(r, "refresh")
               /\ UNCHANGED <<accounts, members, household, sessions, req, answer, read>>
      <3>1. invitations' \in [Ids -> Invitation]
        BY <2>2, InvitationType DEF TypeOK, InvitationStatus
      <3>2. \A i \in Ids : invitations'[i].status \in {"active", "used", "revoked"} =>
              invitations'[i].by \in accounts
        BY <2>2 DEF TypeOK, Invitation, Usable
      <3>3. QED
        BY <2>2, <3>1, <3>2, ReleaseType DEF Goto, TypeOK
    <2>3. QED BY <1>9, <2>1, <2>2 DEF Revoke, Answer, db
  <1>10. ASSUME NEW r \in Requests, LockHousehold(r) PROVE TypeOK'
    <2>1. CASE Answer(r, "conflict")
      BY <2>1, AnswerType
    <2>2. CASE /\ householdLock' = r /\ Goto(r, "commit")
               /\ UNCHANGED <<db, memberLock, inviteLock, req, answer, read>>
      BY <2>2 DEF Goto, TypeOK, db
    <2>3. QED BY <1>10, <2>1, <2>2 DEF LockHousehold
  <1>11. ASSUME NEW r \in Requests, Start(r) PROVE TypeOK'
    BY <1>11, ReleaseType DEF Start, End, Goto, TypeOK
  <1>12. ASSUME NEW r \in Requests, Finish(r) PROVE TypeOK'
    BY <1>12, ReleaseType DEF Finish, End, Goto, TypeOK
  <1>13. ASSUME NEW r \in Requests, ReadMembership(r) PROVE TypeOK'
    <2>1. req[r] \in Calls
      BY <1>13 DEF ReadMembership, Asked, AskedOf
    <2>2. members[req[r].user].id \in Ids \union {None}
      BY <2>1 DEF TypeOK, Membership, Calls
    <2>3. CASE Role(req[r].user) = "member"
      <3>1. [read[r] EXCEPT ![req[r].user] = members[req[r].user].id] \in Rows
        BY <2>2 DEF TypeOK, Rows
      <3>2. read' = [read EXCEPT ![r] = [read[r] EXCEPT ![req[r].user] = members[req[r].user].id]]
        BY <1>13, <2>3 DEF ReadMembership, TypeOK
      <3>3. QED
        BY <1>13, <2>3, <3>1, <3>2 DEF ReadMembership, Goto, TypeOK, db, locks
    <2>4. CASE Role(req[r].user) # "member"
      BY <1>13, <2>4, AnswerType DEF ReadMembership
    <2>5. QED BY <2>3, <2>4
  <1>14. ASSUME NEW r \in Requests, Leave(r) PROVE TypeOK'
    <2>1. members' \in [Users -> Membership] /\ \A u \in Users \ accounts : members'[u] = NoMember
      BY <1>14 DEF Leave, TypeOK, Membership, NoMember
    <2>2. QED
      BY <1>14, <2>1, ReleaseType DEF Leave, End, Goto, TypeOK
  <1>15. ASSUME NEW r \in Requests, CheckOwns(r) PROVE TypeOK'
    <2>1. CASE Answer(r, "conflict")
      BY <2>1, AnswerType
    <2>2. CASE Goto(r, "erase") /\ UNCHANGED <<db, locks, req, answer, read>>
      BY <2>2, GotoType
    <2>3. QED BY <1>15, <2>1, <2>2 DEF CheckOwns
  <1>16. ASSUME NEW r \in Requests, Erase(r) PROVE TypeOK'
    <2>1. members' \in [Users -> Membership] /\ \A u \in Users \ accounts' : members'[u] = NoMember
      BY <1>16 DEF Erase, TypeOK, Membership, NoMember
    <2>2. invitations' \in [Ids -> Invitation]
      BY <1>16 DEF Erase, EraseInvitations, TypeOK, Invitation, InvitationStatus
    <2>3. \A i \in Ids : invitations'[i].status \in {"active", "used", "revoked"} =>
            invitations'[i].by \in accounts'
      BY <1>16 DEF Erase, EraseInvitations, TypeOK, Invitation
    <2>4. QED
      BY <1>16, <2>1, <2>2, <2>3, ReleaseType DEF Erase, End, Goto, TypeOK
  <1>17. ASSUME NEW r \in Requests, FindCode(r) PROVE TypeOK'
    <2>1. CASE Answer(r, "invalid") \/ Answer(r, "conflict")
      BY <2>1, AnswerType
    <2>2. CASE Goto(r, "consume") /\ UNCHANGED <<db, locks, req, answer, read>>
      BY <2>2, GotoType
    <2>3. QED BY <1>17, <2>1, <2>2 DEF FindCode
  <1>18. ASSUME NEW r \in Requests, Consume(r) PROVE TypeOK'
    <2>1. CASE Answer(r, "invalid") \/ Answer(r, "error")
      BY <2>1, AnswerType
    <2>2. CASE /\ inviteLock' = [inviteLock EXCEPT ![req[r].target] = r] /\ Goto(r, "admit")
               /\ UNCHANGED <<db, memberLock, householdLock, req, answer, read>>
      BY <2>2 DEF Goto, TypeOK, db
    <2>3. QED BY <1>18, <2>1, <2>2 DEF Consume
  <1>19. ASSUME NEW r \in Requests, Admit(r) PROVE TypeOK'
    <2>1. CASE Answer(r, "conflict")
      BY <2>1, AnswerType
    <2>2. CASE Role(req[r].user) = "none"
      <3>1. AskedOf(r) /\ req[r].op = "join" /\ req[r].user \in accounts /\ Usable(req[r].target)
        BY <1>19 DEF Admit, Asked, AskedOf, StageOf, Claimed, ClaimedOf
      <3>2. req[r].user \in Users /\ req[r].target \in Ids
        BY <3>1 DEF AskedOf, OnIds, Calls
      <3>3. members' \in [Users -> Membership]
        BY <1>19, <2>2, <3>2 DEF Admit, TypeOK, Membership, Ids
      <3>4. \A u \in Users \ accounts : members'[u] = NoMember
        BY <1>19, <2>2, <3>1, <3>2 DEF Admit, TypeOK
      <3>5. invitations' \in [Ids -> Invitation]
        <4>1. invitations' = [invitations EXCEPT ![req[r].target].status = "used",
                                                 ![req[r].target].usedBy = req[r].user]
          BY <1>19, <2>2 DEF Admit
        <4>2. invitations \in [Ids -> Invitation]
          BY DEF TypeOK
        <4>3. QED BY ONLY <3>2, <4>1, <4>2 DEF Invitation, InvitationStatus
      <3>6. \A i \in Ids : invitations'[i].status \in {"active", "used", "revoked"} =>
              invitations'[i].by \in accounts
        <4>1. req[r].target \in Ids /\ invitations[req[r].target].status = "active"
          BY <3>1, <3>2 DEF Usable
        <4>2. invitations[req[r].target].by \in accounts
          BY <4>1 DEF TypeOK
        <4>3. /\ invitations'[req[r].target].by = invitations[req[r].target].by
              /\ \A i \in Ids \ {req[r].target} : invitations'[i] = invitations[i]
          <5>1. invitations' = [invitations EXCEPT ![req[r].target].status = "used",
                                                   ![req[r].target].usedBy = req[r].user]
            BY <1>19, <2>2 DEF Admit
          <5>2. invitations \in [Ids -> Invitation]
            BY DEF TypeOK
          <5>3. QED BY ONLY <3>2, <5>1, <5>2 DEF Invitation
        <4>4. accounts' = accounts
          BY <1>19, <2>2 DEF Admit
        <4>5. \A i \in Ids : invitations[i].status \in {"active", "used", "revoked"} =>
                invitations[i].by \in accounts
          BY DEF TypeOK
        <4>6. QED BY <4>2, <4>3, <4>4, <4>5
      <3>7. QED
        BY <1>19, <2>2, <3>3, <3>4, <3>5, <3>6, ReleaseType DEF Admit, Goto, TypeOK
    <2>3. QED BY <1>19, <2>1, <2>2 DEF Admit
  <1>20. ASSUME NEW r \in Requests, Refresh(r) PROVE TypeOK'
    BY <1>20, AnswerType DEF Refresh
  <1>21. ASSUME NEW r \in Requests, Crash(r) PROVE TypeOK'
    BY <1>21, AnswerType DEF Crash
  <1>22. ASSUME NEW i \in Ids, Expire(i) PROVE TypeOK'
    <2>1. invitations' \in [Ids -> Invitation]
      BY <1>22, ExpiredType DEF Expire, TypeOK
    <2>2. \A j \in Ids : invitations'[j].status \in {"active", "used", "revoked"} =>
            invitations'[j].by \in accounts
      BY <1>22 DEF Expire, TypeOK, Invitation
    <2>3. QED BY <1>22, <2>1, <2>2 DEF Expire, TypeOK, locks
  <1>23. CASE UNCHANGED vars
    BY <1>23 DEF vars, TypeOK
  <1>24. QED
    BY <1>1, <1>2, <1>3, <1>4, <1>5, <1>6, <1>7, <1>8, <1>9, <1>10, <1>11, <1>12, <1>13, <1>14,
       <1>15, <1>16, <1>17, <1>18, <1>19, <1>20, <1>21, <1>22, <1>23 DEF Next, Handle

LEMMA AdmitAsked ==
  ASSUME TypeOK, Asked, NEW r \in Requests, Admit(r)
  PROVE  Asked'
  <1>1. req[r].op = "join" /\ req' = req /\ sessions' = sessions
    BY DEF Admit, Answer, End, db, Asked, AskedOf, StageOf
  <1>2. PICK stage \in {"refresh", "done"} : Goto(r, stage)
    BY DEF Admit, Answer, End
  <1>3. \A i \in Ids : invitations[i].status # "absent" => invitations'[i].status # "absent"
    <2>1. CASE UNCHANGED invitations
      BY <2>1
    <2>2. CASE invitations' = [invitations EXCEPT ![req[r].target].status = "used",
                                                  ![req[r].target].usedBy = req[r].user]
      BY <2>2 DEF TypeOK, Invitation
    <2>3. QED BY <2>1, <2>2 DEF Admit, Answer, db
  <1>4. \A q \in Requests : pc'[q] # "idle" => pc[q] # "idle"
    BY <1>2 DEF Goto, TypeOK, Admit
  <1>5. \A q \in Requests : pc[q] # "idle" => StageOf(pc'[q], req[q].op)
    BY <1>1, <1>2 DEF Goto, TypeOK, Admit, Asked, AskedOf, StageOf
  <1>6. QED BY <1>1, <1>3, <1>4, <1>5 DEF Asked, AskedOf, OnIds

LEMMA AskedStep ==
  ASSUME TypeOK, Asked, [Next]_vars
  PROVE  Asked'
  <1> USE SentinelAssumption, IntentAssumption DEF End, Answer, Release, Free, Goto, locks, db,
     Role, TypeOK, Ids, Membership, NoMember, Invitation, InvitationStatus, Stages, Answers, Asked,
     AskedOf, StageOf, LockedOps, FreeOps, OnUser, OnIds, Calls, IntentType
  <1>1. ASSUME NEW r \in Requests, Submit(r) PROVE Asked'
    <2>1. PICK q \in Intents :
            /\ \E t \in Targets(q) :
                 req' = [req EXCEPT ![r] = [op |-> q.op, user |-> q.user, target |-> t]]
            /\ pc' = [pc EXCEPT ![r] = FirstStage(q.op)]
      BY <1>1 DEF Submit
    <2>2. q \in IntentType
      BY SentinelAssumption, IntentAssumption
    <2>3. PICK t \in Targets(q) :
            req' = [req EXCEPT ![r] = [op |-> q.op, user |-> q.user, target |-> t]]
      BY <2>1
    <2>4. /\ req'[r] = [op |-> q.op, user |-> q.user, target |-> t]
          /\ pc'[r] = FirstStage(q.op)
      BY <2>1, <2>3
    <2>5. /\ invitations' = invitations
          /\ sessions' = sessions
      BY <1>1 DEF Submit
    <2>6. AskedOf(r)'
      <3>1. req'[r] \in Calls
        BY <2>2, <2>4 DEF Targets
      <3>2. StageOf(pc'[r], q.op)
        BY <2>2, <2>4 DEF FirstStage
      <3>3. QED BY <2>2, <2>4, <2>5, <3>1, <3>2 DEF Targets
    <2>7. ASSUME NEW s \in Requests \ {r}, pc'[s] # "idle" PROVE AskedOf(s)'
      <3>1. pc'[s] = pc[s] /\ req'[s] = req[s]
        BY <2>1, <2>3
      <3>2. QED BY <2>5, <2>7, <3>1
    <2>8. QED BY <2>6, <2>7
  <1>2. ASSUME NEW r \in Requests, LockMember(r) PROVE Asked'
    BY <1>2 DEF LockMember, RowsToLock, WantedRows, Wanted
  <1>3. ASSUME NEW r \in Requests, Check(r) PROVE Asked'
    <2>1. pc[r] = "members" /\ AskedOf(r) /\ UNCHANGED <<req, invitations, sessions>>
      BY <1>3 DEF Check
    <2>2. pc' = [pc EXCEPT ![r] = NextStage(req[r].op)]
      BY <1>3 DEF Check
    <2>3. StageOf(pc'[r], req[r].op)
      BY <2>1, <2>2 DEF NextStage
    <2>4. AskedOf(r)'
      BY <2>1, <2>3
    <2>5. ASSUME NEW s \in Requests \ {r}, pc'[s] # "idle" PROVE AskedOf(s)'
      <3>1. pc'[s] = pc[s] /\ req'[s] = req[s]
        BY <2>1, <2>2
      <3>2. QED BY <2>1, <2>5, <3>1
    <2>6. QED BY <2>4, <2>5
  <1>4. ASSUME NEW r \in Requests, Refuse(r) PROVE Asked'
    BY <1>4 DEF Refuse, Verdict, LockedRole
  <1>5. ASSUME NEW r \in Requests, Rename(r) PROVE Asked'
    BY <1>5 DEF Rename, At
  <1>6. ASSUME NEW r \in Requests, Transfer(r) PROVE Asked'
    BY <1>6 DEF Transfer, At
  <1>7. ASSUME NEW r \in Requests, Remove(r) PROVE Asked'
    BY <1>7 DEF Remove, At
  <1>8. ASSUME NEW r \in Requests, Invite(r) PROVE Asked'
    BY <1>8 DEF Invite, At
  <1>9. ASSUME NEW r \in Requests, Revoke(r) PROVE Asked'
    <2>1. \A i \in Ids : invitations'[i].status = "absent" => invitations[i].status = "absent"
      BY <1>9, StatusStep DEF Revoke, Usable
    <2>2. QED BY <1>9, <2>1 DEF Revoke, Usable
  <1>10. ASSUME NEW r \in Requests, LockHousehold(r) PROVE Asked'
    BY <1>10 DEF LockHousehold
  <1>11. ASSUME NEW r \in Requests, Start(r) PROVE Asked'
    BY <1>11 DEF Start, At
  <1>12. ASSUME NEW r \in Requests, Finish(r) PROVE Asked'
    BY <1>12 DEF Finish, At
  <1>13. ASSUME NEW r \in Requests, ReadMembership(r) PROVE Asked'
    BY <1>13 DEF ReadMembership
  <1>14. ASSUME NEW r \in Requests, Leave(r) PROVE Asked'
    BY <1>14 DEF Leave
  <1>15. ASSUME NEW r \in Requests, CheckOwns(r) PROVE Asked'
    BY <1>15, SMTT(30) DEF CheckOwns
  <1>16. ASSUME NEW r \in Requests, Erase(r) PROVE Asked'
    BY <1>16 DEF Erase, EraseInvitations
  <1>17. ASSUME NEW r \in Requests, FindCode(r) PROVE Asked'
    <2>1. UNCHANGED <<req, invitations, sessions>> /\ pc[r] = "code" /\ AskedOf(r)
      BY <1>17 DEF FindCode
    <2>2. pc' = [pc EXCEPT ![r] = "consume"] \/ pc' = [pc EXCEPT ![r] = "done"]
      BY <1>17 DEF FindCode
    <2>3. AskedOf(r)'
      BY <2>1, <2>2
    <2>4. ASSUME NEW s \in Requests \ {r}, pc'[s] # "idle" PROVE AskedOf(s)'
      <3>1. pc'[s] = pc[s] /\ req'[s] = req[s]
        BY <2>1, <2>2
      <3>2. QED BY <2>1, <2>4, <3>1
    <2>5. QED BY <2>3, <2>4
  <1>18. ASSUME NEW r \in Requests, Consume(r) PROVE Asked'
    BY <1>18, SMTT(30) DEF Consume, Usable
  <1>19. ASSUME NEW r \in Requests, Admit(r) PROVE Asked'
    BY <1>19, AdmitAsked
  <1>20. ASSUME NEW r \in Requests, Refresh(r) PROVE Asked'
    BY <1>20 DEF Refresh
  <1>21. ASSUME NEW r \in Requests, Crash(r) PROVE Asked'
    BY <1>21 DEF Crash
  <1>22. ASSUME NEW i \in Ids, Expire(i) PROVE Asked'
    BY <1>22 DEF Expire
  <1>23. CASE UNCHANGED vars
    BY <1>23 DEF vars
  <1>24. QED
    BY <1>1, <1>2, <1>3, <1>4, <1>5, <1>6, <1>7, <1>8, <1>9, <1>10, <1>11, <1>12, <1>13, <1>14,
       <1>15, <1>16, <1>17, <1>18, <1>19, <1>20, <1>21, <1>22, <1>23 DEF Next, Handle

LEMMA NamedStep ==
  ASSUME TypeOK, Asked, Named, Fresh, [Next]_vars
  PROVE  Named'
  <1> USE SentinelAssumption DEF End, Answer, Release, Free, Goto, locks, db, Role, TypeOK, Ids,
     Membership, NoMember, Invitation, InvitationStatus, Stages, Answers, Asked, AskedOf, StageOf,
     LockedOps, FreeOps, OnUser, OnIds, Named
  <1>1. ASSUME NEW r \in Requests, Submit(r) PROVE Named'
    BY <1>1 DEF Submit, Targets, FirstStage
  <1>2. ASSUME NEW r \in Requests, LockMember(r) PROVE Named'
    BY <1>2 DEF LockMember, RowsToLock, WantedRows, Wanted
  <1>3. ASSUME NEW r \in Requests, Check(r) PROVE Named'
    BY <1>3 DEF Check, Verdict, LockedRole, NextStage, RowsToLock, WantedRows, Wanted
  <1>4. ASSUME NEW r \in Requests, Refuse(r) PROVE Named'
    BY <1>4 DEF Refuse, Verdict, LockedRole
  <1>5. ASSUME NEW r \in Requests, Rename(r) PROVE Named'
    BY <1>5 DEF Rename, At
  <1>6. ASSUME NEW r \in Requests, Transfer(r) PROVE Named'
    BY <1>6 DEF Transfer, At
  <1>7. ASSUME NEW r \in Requests, Remove(r) PROVE Named'
    BY <1>7 DEF Remove, At
  <1>8. ASSUME NEW r \in Requests, Invite(r) PROVE Named'
    BY <1>8 DEF Invite, At
  <1>9. ASSUME NEW r \in Requests, Revoke(r) PROVE Named'
    <2>1. \A s \in Requests : invitations'[s].status # "absent" => invitations[s].status # "absent"
      <3>1. CASE UNCHANGED invitations
        BY <3>1
      <3>2. CASE /\ Usable(req[r].target)
                 /\ invitations' = [invitations EXCEPT ![req[r].target].status = "revoked"]
        BY <1>9, <3>2, StatusStep DEF Revoke, Usable
      <3>3. QED BY <1>9, <3>1, <3>2 DEF Revoke
    <2>2. QED BY <1>9, <2>1 DEF Revoke, Usable
  <1>10. ASSUME NEW r \in Requests, LockHousehold(r) PROVE Named'
    BY <1>10 DEF LockHousehold
  <1>11. ASSUME NEW r \in Requests, Start(r) PROVE Named'
    BY <1>11 DEF Start, At
  <1>12. ASSUME NEW r \in Requests, Finish(r) PROVE Named'
    BY <1>12 DEF Finish, At
  <1>13. ASSUME NEW r \in Requests, ReadMembership(r) PROVE Named'
    BY <1>13 DEF ReadMembership
  <1>14. ASSUME NEW r \in Requests, Leave(r) PROVE Named'
    BY <1>14 DEF Leave
  <1>15. ASSUME NEW r \in Requests, CheckOwns(r) PROVE Named'
    BY <1>15 DEF CheckOwns
  <1>16. ASSUME NEW r \in Requests, Erase(r) PROVE Named'
    <2>1. \A s \in Requests : invitations'[s].status # "absent" => invitations[s].status # "absent"
      <3>1. \A i \in Ids : \/ invitations'[i] = invitations[i]
                         \/ invitations[i].by = req[r].user
                         \/ invitations'[i] = [invitations[i] EXCEPT !.usedBy = None]
        BY <1>16 DEF Erase, EraseInvitations
      <3>2. \A i \in Ids : invitations[i].status = "absent" => invitations[i].by # req[r].user
        BY <1>16, SentinelAssumption DEF Erase, Fresh, Ids, Calls
      <3>3. \A i \in Ids : [invitations[i] EXCEPT !.usedBy = None].status = invitations[i].status
        BY DEF Invitation
      <3>4. QED BY ONLY <3>1, <3>2, <3>3 DEF Ids
    <2>2. QED BY <1>16, <2>1 DEF Erase
  <1>17. ASSUME NEW r \in Requests, FindCode(r) PROVE Named'
    BY <1>17 DEF FindCode, Usable
  <1>18. ASSUME NEW r \in Requests, Consume(r) PROVE Named'
    BY <1>18 DEF Consume, Usable
  <1>19. ASSUME NEW r \in Requests, Admit(r) PROVE Named'
    <2>1. \A s \in Requests : invitations'[s].status # "absent" => invitations[s].status # "absent"
      BY <1>19 DEF Admit
    <2>2. QED BY <1>19, <2>1 DEF Admit
  <1>20. ASSUME NEW r \in Requests, Refresh(r) PROVE Named'
    BY <1>20 DEF Refresh
  <1>21. ASSUME NEW r \in Requests, Crash(r) PROVE Named'
    BY <1>21 DEF Crash
  <1>22. ASSUME NEW i \in Ids, Expire(i) PROVE Named'
    BY <1>22 DEF Expire
  <1>23. CASE UNCHANGED vars
    BY <1>23 DEF vars
  <1>24. QED
    BY <1>1, <1>2, <1>3, <1>4, <1>5, <1>6, <1>7, <1>8, <1>9, <1>10, <1>11, <1>12, <1>13, <1>14,
       <1>15, <1>16, <1>17, <1>18, <1>19, <1>20, <1>21, <1>22, <1>23 DEF Next, Handle

LEMMA LocksStep ==
  ASSUME TypeOK, Asked, Rowed, Locks, Authorized, [Next]_vars
  PROVE  Locks'
  <1> USE SentinelAssumption DEF End, Answer, Release, Free, Goto, locks, db, Role, TypeOK, Ids,
     Membership, NoMember, Invitation, InvitationStatus, Stages, Answers, Asked, AskedOf, StageOf,
     LockedOps, FreeOps, OnUser, OnIds, Locks, Authorized, AuthorizedOf, WantedRows, At
  <1>1. ASSUME NEW r \in Requests, Submit(r) PROVE Locks'
    BY <1>1 DEF Submit, Targets, FirstStage
  <1>2. ASSUME NEW r \in Requests, LockMember(r) PROVE Locks'
    <2>1. PICK u \in RowsToLock(r) : memberLock' = [memberLock EXCEPT ![u] = r]
      BY <1>2 DEF LockMember
    <2>2. u \in WantedRows(r) /\ u \in Users /\ pc[r] = "members" /\ Role(u) # "none"
      BY <1>2, <2>1, WantedUsers DEF LockMember, RowsToLock, Rowed
    <2>3. QED BY <1>2, <2>1, <2>2 DEF LockMember
  <1>3. ASSUME NEW r \in Requests, Check(r) PROVE Locks'
    BY <1>3 DEF Check, Verdict, LockedRole, NextStage, RowsToLock, WantedRows, Wanted
  <1>4. ASSUME NEW r \in Requests, Refuse(r) PROVE Locks'
    BY <1>4 DEF Refuse, Verdict, LockedRole
  <1>5. ASSUME NEW r \in Requests, Rename(r) PROVE Locks'
    BY <1>5 DEF Rename, At
  <1>6. ASSUME NEW r \in Requests, Transfer(r) PROVE Locks'
    <2>1. \A u \in Users : memberLock[u] \notin {None, r} => members'[u].role # "none"
      BY <1>6 DEF Transfer
    <2>2. QED BY <1>6, <2>1, LocksEnd DEF Transfer
  <1>7. ASSUME NEW r \in Requests, Remove(r) PROVE Locks'
    <2>1. AskedOf(r) /\ AuthorizedOf(r) /\ req[r].op = "remove"
      BY <1>7 DEF Remove
    <2>2. memberLock[req[r].target] = r /\ req[r].target \in Users
      BY <2>1, WantedUsers
    <2>3. \A u \in Users : memberLock[u] \notin {None, r} => members'[u].role # "none"
      BY <1>7, <2>2 DEF Remove
    <2>4. QED BY <1>7, <2>3, LocksEnd DEF Remove
  <1>8. ASSUME NEW r \in Requests, Invite(r) PROVE Locks'
    BY <1>8 DEF Invite, At
  <1>9. ASSUME NEW r \in Requests, Revoke(r) PROVE Locks'
    BY <1>9 DEF Revoke, Usable
  <1>10. ASSUME NEW r \in Requests, LockHousehold(r) PROVE Locks'
    <2>1. CASE \E q \in Ids : sessions[q] = "active"
      BY <1>10, <2>1, LocksEnd DEF LockHousehold
    <2>2. CASE ~\E q \in Ids : sessions[q] = "active"
      <3>1. /\ householdLock' = r /\ Goto(r, "commit") /\ pc[r] = "household" /\ req[r].op = "start"
            /\ UNCHANGED <<members, memberLock, inviteLock, req>>
        BY <1>10, <2>2 DEF LockHousehold
      <3>2. householdLock = None
        BY <1>10 DEF LockHousehold
      <3>3. QED BY <3>1, <3>2
    <2>3. QED BY <2>1, <2>2
  <1>11. ASSUME NEW r \in Requests, Start(r) PROVE Locks'
    BY <1>11 DEF Start, At
  <1>12. ASSUME NEW r \in Requests, Finish(r) PROVE Locks'
    BY <1>12 DEF Finish, At
  <1>13. ASSUME NEW r \in Requests, ReadMembership(r) PROVE Locks'
    <2>1. CASE Role(req[r].user) = "member"
      <3>1. /\ r \in Requests /\ Goto(r, "delete") /\ pc[r] = "leave"
            /\ UNCHANGED <<members, memberLock, householdLock, inviteLock, req>>
        BY <1>13, <2>1 DEF ReadMembership
      <3>2. pc[r] \notin {"members", "household", "commit", "revoke", "admit"}
        BY <3>1
      <3>3. QED BY ONLY <3>1, <3>2, LocksMove, TypeOK, Locks
    <2>2. CASE Role(req[r].user) # "member"
      BY <1>13, <2>2, LocksEnd DEF ReadMembership
    <2>3. QED BY <2>1, <2>2
  <1>14. ASSUME NEW r \in Requests, Leave(r) PROVE Locks'
    BY <1>14 DEF Leave
  <1>15. ASSUME NEW r \in Requests, CheckOwns(r) PROVE Locks'
    <2>1. CASE Role(req[r].user) = "owner"
      BY <1>15, <2>1 DEF CheckOwns
    <2>2. CASE ~(Role(req[r].user) = "owner")
      BY <1>15, <2>2, LocksMove DEF CheckOwns
    <2>3. QED BY <2>1, <2>2
  <1>16. ASSUME NEW r \in Requests, Erase(r) PROVE Locks'
    BY <1>16 DEF Erase, EraseInvitations
  <1>17. ASSUME NEW r \in Requests, FindCode(r) PROVE Locks'
    BY <1>17 DEF FindCode, Usable
  <1>18. ASSUME NEW r \in Requests, Consume(r) PROVE Locks'
    <2>1. CASE Answer(r, "invalid") \/ Answer(r, "error")
      BY <1>18, <2>1 DEF Consume
    <2>2. CASE /\ inviteLock' = [inviteLock EXCEPT ![req[r].target] = r] /\ Goto(r, "admit")
               /\ UNCHANGED <<db, memberLock, householdLock, req, answer, read>>
      BY <1>18, <2>2 DEF Consume
    <2>3. QED BY <1>18, <2>1, <2>2 DEF Consume
  <1>19. ASSUME NEW r \in Requests, Admit(r) PROVE Locks'
    BY <1>19 DEF Admit
  <1>20. ASSUME NEW r \in Requests, Refresh(r) PROVE Locks'
    BY <1>20 DEF Refresh
  <1>21. ASSUME NEW r \in Requests, Crash(r) PROVE Locks'
    BY <1>21 DEF Crash
  <1>22. ASSUME NEW i \in Ids, Expire(i) PROVE Locks'
    BY <1>22 DEF Expire
  <1>23. CASE UNCHANGED vars
    BY <1>23 DEF vars
  <1>24. QED
    BY <1>1, <1>2, <1>3, <1>4, <1>5, <1>6, <1>7, <1>8, <1>9, <1>10, <1>11, <1>12, <1>13, <1>14,
       <1>15, <1>16, <1>17, <1>18, <1>19, <1>20, <1>21, <1>22, <1>23 DEF Next, Handle

(* What a request does to the rows, and that it does nothing to the others'*)
(* locks and stages.                                                       *)
Alone(r) ==
  /\ \A s \in Requests \ {r} : pc'[s] = pc[s] /\ req'[s] = req[s] /\ read'[s] = read[s]
  /\ \A s \in Requests \ {r}, u \in Users : memberLock'[u] = s <=> memberLock[u] = s
  /\ pc[r] \in Over => pc'[r] \in Over
  /\ pc'[r] = "members" => Submit(r) \/ LockMember(r)

RowsKept(r) ==
  /\ \A u \in Users : \/ members'[u].id \in {members[u].id, None}
                      \/ pc[r] = "admit" /\ pc'[r] \in Over /\ members'[u].id = r
  /\ \A u \in Users : members'[u].id = None <=> members'[u].role = "none"
  /\ \A u \in Users : read'[r][u] \in {read[r][u], members[u].id, None}

LEMMA EndAlone ==
  ASSUME TypeOK, NEW r \in Requests, NEW a, End(r, a)
  PROVE  Alone(r) /\ pc'[r] = "done" /\ read' = read
  BY SentinelAssumption DEF TypeOK, End, Release, Free, Goto, Alone, Over, Ids

LEMMA CommitAlone ==
  ASSUME TypeOK, NEW r \in Requests, Release(r), Goto(r, "refresh"), UNCHANGED <<req, read>>
  PROVE  Alone(r) /\ pc'[r] = "refresh"
  BY SentinelAssumption DEF TypeOK, Release, Free, Goto, Alone, Over, Ids

LEMMA MoveAlone ==
  ASSUME TypeOK, NEW r \in Requests, NEW stage, Goto(r, stage), pc[r] \notin Over, stage # "members",
         UNCHANGED <<memberLock, req>>, \A s \in Requests \ {r} : read'[s] = read[s]
  PROVE  Alone(r)
  BY DEF TypeOK, Goto, Alone

LEMMA SameRows ==
  ASSUME Rowed, NEW r \in Requests, UNCHANGED <<members, read>>
  PROVE  RowsKept(r)
  BY DEF Rowed, RowsKept, Role

LEMMA HandleShape ==
  ASSUME TypeOK, Asked, Rowed, Authorized, NEW r \in Requests, Submit(r) \/ Handle(r) \/ Crash(r)
  PROVE  Alone(r) /\ RowsKept(r)
  <1> USE DEF Over
  <1>1. CASE Submit(r)
    <2>1. PICK q \in Intents : /\ read' = [read EXCEPT ![r] = Found(q)]
                               /\ Goto(r, FirstStage(q.op))
      BY <1>1 DEF Submit
    <2>2. Alone(r)
      BY <1>1, <2>1 DEF Submit, Alone, Goto, TypeOK, locks
    <2>3. \A u \in Users : read'[r][u] \in {members[u].id, None}
      BY <2>1 DEF Found, TypeOK
    <2>4. RowsKept(r)
      BY <1>1, <2>3 DEF Submit, RowsKept, Rowed, Role, db
    <2>5. QED BY <2>2, <2>4
  <1>2. CASE LockMember(r)
    <2>1. Alone(r)
      <3>1. PICK u \in Users : memberLock[u] = None /\ memberLock' = [memberLock EXCEPT ![u] = r]
        BY <1>2, WantedUsers DEF LockMember, RowsToLock, Asked
      <3>2. \A s \in Requests \ {r}, v \in Users : memberLock'[v] = s <=> memberLock[v] = s
        BY <3>1, SentinelAssumption DEF TypeOK, Ids
      <3>3. QED BY <1>2, <3>2 DEF LockMember, Alone
    <2>2. QED BY <1>2, <2>1, SameRows DEF LockMember, db
  <1>3. CASE Check(r)
    BY <1>3, MoveAlone, SameRows DEF Check, NextStage, db, locks
  <1>4. CASE Refuse(r)
    BY <1>4, EndAlone, SameRows DEF Refuse, Answer, db
  <1>5. CASE Rename(r)
    BY <1>5, EndAlone, SameRows DEF Rename, Answer, db
  <1>6. CASE Transfer(r)
    <2>1. AskedOf(r) /\ AuthorizedOf(r) /\ req[r].op = "transfer"
      BY <1>6 DEF Transfer, At, Asked, Authorized
    <2>2. /\ req[r].user \in Users /\ req[r].target \in Users
          /\ Role(req[r].user) = "owner" /\ Role(req[r].target) = "member"
      BY <2>1, WantedUsers DEF AuthorizedOf, OnUser
    <2>3. \A u \in Users : /\ members'[u].id = members[u].id
                           /\ members'[u].role = "none" <=> members[u].role = "none"
      BY <1>6, <2>2 DEF Transfer, TypeOK, Membership, Role
    <2>4. Alone(r) /\ read' = read
      BY <1>6, EndAlone DEF Transfer
    <2>5. RowsKept(r)
      BY <2>3, <2>4 DEF RowsKept, Rowed, Role
    <2>6. QED BY <2>4, <2>5
  <1>7. CASE Remove(r)
    <2>1. \A u \in Users : members'[u] \in {members[u], NoMember}
      BY <1>7 DEF Remove, TypeOK
    <2>2. QED BY <1>7, <2>1, EndAlone DEF Remove, RowsKept, Rowed, Role, NoMember
  <1>8. CASE Invite(r)
    BY <1>8, CommitAlone, SameRows DEF Invite
  <1>9. CASE Revoke(r)
    BY <1>9, CommitAlone, EndAlone, SameRows DEF Revoke, Answer, db
  <1>10. CASE LockHousehold(r)
    <2>1. CASE \E q \in Ids : sessions[q] = "active"
      BY <1>10, <2>1, EndAlone, SameRows DEF LockHousehold, Answer, db
    <2>2. CASE ~\E q \in Ids : sessions[q] = "active"
      BY <1>10, <2>2, MoveAlone, SameRows DEF LockHousehold, db
    <2>3. QED BY <2>1, <2>2
  <1>11. CASE Start(r)
    BY <1>11, EndAlone, SameRows DEF Start, Answer, db
  <1>12. CASE Finish(r)
    BY <1>12, EndAlone, SameRows DEF Finish, Answer, db
  <1>13. CASE ReadMembership(r)
    <2>1. CASE Role(req[r].user) = "member"
      <3>1. Alone(r)
        BY <1>13, <2>1, MoveAlone DEF ReadMembership, TypeOK, locks
      <3>2. \A u \in Users : read'[r][u] \in {read[r][u], members[u].id}
        BY <1>13, <2>1 DEF ReadMembership, TypeOK, Rows
      <3>3. QED BY <1>13, <2>1, <3>1, <3>2 DEF ReadMembership, RowsKept, Rowed, Role, db
    <2>2. CASE Role(req[r].user) # "member"
      BY <1>13, <2>2, EndAlone, SameRows DEF ReadMembership, Answer, db
    <2>3. QED BY <2>1, <2>2
  <1>14. CASE Leave(r)
    <2>1. \A u \in Users : members'[u] \in {members[u], NoMember}
      BY <1>14 DEF Leave, TypeOK
    <2>2. QED BY <1>14, <2>1, EndAlone DEF Leave, RowsKept, Rowed, Role, NoMember
  <1>15. CASE CheckOwns(r)
    <2>1. CASE Role(req[r].user) # "owner"
      BY <1>15, <2>1, MoveAlone, SameRows DEF CheckOwns, db, locks
    <2>2. CASE ~(Role(req[r].user) # "owner")
      BY <1>15, <2>2, EndAlone, SameRows DEF CheckOwns, Answer, db
    <2>3. QED BY <2>1, <2>2
  <1>16. CASE Erase(r)
    <2>1. \A u \in Users : members'[u] \in {members[u], NoMember}
      BY <1>16 DEF Erase, TypeOK
    <2>2. QED BY <1>16, <2>1, EndAlone DEF Erase, RowsKept, Rowed, Role, NoMember
  <1>17. CASE FindCode(r)
    BY <1>17, MoveAlone, EndAlone, SameRows DEF FindCode, Answer, db, locks
  <1>18. CASE Consume(r)
    BY <1>18, MoveAlone, EndAlone, SameRows DEF Consume, Answer, db
  <1>19. CASE Admit(r)
    <2>1. CASE Role(req[r].user) = "none"
      <3>1. Alone(r) /\ pc[r] = "admit" /\ pc'[r] = "refresh" /\ read' = read
        BY <1>19, <2>1, CommitAlone DEF Admit
      <3>2. \A u \in Users : members'[u] \in {members[u], [role |-> "member", id |-> r]}
        BY <1>19, <2>1 DEF Admit, TypeOK
      <3>3. QED BY <3>1, <3>2, SentinelAssumption DEF RowsKept, Rowed, Role, Ids
    <2>2. CASE Role(req[r].user) # "none"
      BY <1>19, <2>2, EndAlone, SameRows DEF Admit, Answer, db
    <2>3. QED BY <2>1, <2>2
  <1>20. CASE Refresh(r)
    BY <1>20, EndAlone, SameRows DEF Refresh, Answer, db
  <1>21. CASE Crash(r)
    BY <1>21, EndAlone, SameRows DEF Crash, Answer, db
  <1>22. QED
    BY <1>1, <1>2, <1>3, <1>4, <1>5, <1>6, <1>7, <1>8, <1>9, <1>10, <1>11, <1>12, <1>13, <1>14, <1>15, <1>16, <1>17, <1>18, <1>19, <1>20, <1>21 DEF Handle

LEMMA RowedStep ==
  ASSUME TypeOK, Asked, Rowed, Authorized, [Next]_vars
  PROVE  Rowed'
  <1>1. ASSUME NEW r \in Requests, Submit(r) \/ Handle(r) \/ Crash(r)
        PROVE  Rowed'
    <2>1. Alone(r) /\ RowsKept(r)
      BY <1>1, HandleShape
    <2>2. \A s \in Requests : pc[s] \in Over => pc'[s] \in Over
      BY <2>1 DEF Alone
    <2>3. \A u \in Users : members'[u].id \in Requests => pc'[members'[u].id] \in Over
      BY <2>1, <2>2, SentinelAssumption DEF RowsKept, Rowed, Ids
    <2>4. \A s \in Requests, u \in Users : read'[s][u] \in Requests => pc'[read'[s][u]] \in Over
      <3> SUFFICES ASSUME NEW s \in Requests, NEW u \in Users, read'[s][u] \in Requests
                   PROVE  pc'[read'[s][u]] \in Over
        OBVIOUS
      <3>1. read'[s][u] \in {read[s][u], members[u].id, None}
        BY <2>1 DEF Alone, RowsKept
      <3>2. QED BY <2>2, <3>1, SentinelAssumption DEF Rowed, Ids
    <2>5. QED BY <2>1, <2>3, <2>4 DEF Rowed, RowsKept, Role
  <1>2. ASSUME NEW i \in Ids, Expire(i) PROVE Rowed'
    BY <1>2 DEF Expire, Rowed, Role
  <1>3. CASE UNCHANGED vars
    BY <1>3 DEF vars, Rowed, Role
  <1>4. QED BY <1>1, <1>2, <1>3 DEF Next

(* What a statement has still to lock only shrinks, from below.            *)
LEMMA InOrderStep ==
  ASSUME TypeOK, Asked, Rowed, Locks, InOrder, Authorized, [Next]_vars
  PROVE  InOrder'
  <1>1. ASSUME NEW r \in Requests, Submit(r) \/ Handle(r) \/ Crash(r),
               NEW s \in Requests, s # r, pc'[s] = "members",
               NEW u \in RowsToLock(s)', NEW v \in Users, memberLock'[v] = s
        PROVE  v < u
    <2>1. Alone(r) /\ RowsKept(r)
      BY <1>1, HandleShape
    <2>2. /\ pc[s] = "members" /\ memberLock[v] = s /\ AskedOf(s)
          /\ req'[s] = req[s] /\ read'[s] = read[s]
      BY <1>1, <2>1 DEF Alone, Asked
    <2>3. /\ u \in WantedRows(s) /\ u \in Users
          /\ read[s][u] # None /\ members'[u].id = read[s][u] /\ memberLock'[u] # s
      BY <1>1, <2>2, WantedUsers DEF RowsToLock, WantedRows
    <2>4. members[u].id = read[s][u]
      BY <2>1, <2>3, SentinelAssumption DEF RowsKept, Rowed, Over, Ids
    <2>5. u \in RowsToLock(s)
      BY <1>1, <2>1, <2>3, <2>4 DEF RowsToLock, Alone
    <2>6. QED BY <2>2, <2>5 DEF InOrder
  <1>2. ASSUME NEW r \in Requests, Submit(r) \/ Handle(r) \/ Crash(r), pc'[r] = "members",
               NEW u \in RowsToLock(r)', NEW v \in Users, memberLock'[v] = r
        PROVE  v < u
    <2>1. Submit(r) \/ LockMember(r)
      BY <1>2, HandleShape DEF Alone
    <2>2. CASE Submit(r)
      <3>1. memberLock[v] = r /\ pc[r] = "idle"
        BY <1>2, <2>2 DEF Submit, locks
      <3>2. QED BY <3>1, SentinelAssumption DEF Locks, Ids
    <2>3. CASE LockMember(r)
      <3>1. PICK w \in RowsToLock(r) : /\ \A x \in RowsToLock(r) : w <= x
                                       /\ memberLock' = [memberLock EXCEPT ![w] = r]
        BY <2>3 DEF LockMember
      <3>2. AskedOf(r) /\ WantedRows(r) \subseteq Users
        BY <2>3, WantedUsers DEF LockMember, Asked
      <3>3. w \in Users /\ w \in Nat
        BY <3>1, <3>2, UsersAssumption DEF RowsToLock
      <3>4. u \in RowsToLock(r) /\ u # w /\ u \in Nat
        BY <1>2, <2>3, <3>1, <3>2, <3>3, UsersAssumption
           DEF RowsToLock, WantedRows, LockMember, db, TypeOK
      <3>5. CASE v = w
        BY <3>1, <3>3, <3>4, <3>5
      <3>6. CASE v # w
        <4>1. memberLock[v] = r /\ pc[r] = "members"
          BY <1>2, <2>3, <3>1, <3>6 DEF LockMember, TypeOK
        <4>2. QED BY <3>4, <4>1 DEF InOrder
      <3>7. QED BY <3>5, <3>6
    <2>4. QED BY <2>1, <2>2, <2>3
  <1>3. ASSUME NEW r \in Requests, Submit(r) \/ Handle(r) \/ Crash(r) PROVE InOrder'
    <2> SUFFICES ASSUME NEW s \in Requests, pc'[s] = "members",
                        NEW u \in RowsToLock(s)', NEW v \in Users, memberLock'[v] = s
                 PROVE  v < u
      BY DEF InOrder
    <2>1. QED BY <1>1, <1>2, <1>3
  <1>4. ASSUME NEW i \in Ids, Expire(i) PROVE InOrder'
    BY <1>4 DEF Expire, InOrder, RowsToLock, WantedRows, locks
  <1>5. CASE UNCHANGED vars
    BY <1>5 DEF vars, InOrder, RowsToLock, WantedRows
  <1>6. QED BY <1>3, <1>4, <1>5 DEF Next

LEMMA OwnerStep ==
  ASSUME TypeOK, Asked, Authorized, OneOwner, [Next]_vars
  PROVE  OneOwner'
  <1> USE SentinelAssumption DEF End, Answer, Release, Free, Goto, locks, db, Role, TypeOK, Ids,
     Membership, NoMember, Invitation, InvitationStatus, Stages, Answers, Asked, AskedOf, StageOf,
     LockedOps, FreeOps, OnUser, OnIds, OneOwner, Authorized, AuthorizedOf
  <1>1. ASSUME NEW r \in Requests, Submit(r) PROVE OneOwner'
    BY <1>1 DEF Submit, Targets, FirstStage
  <1>2. ASSUME NEW r \in Requests, LockMember(r) PROVE OneOwner'
    BY <1>2 DEF LockMember, RowsToLock, WantedRows, Wanted
  <1>3. ASSUME NEW r \in Requests, Check(r) PROVE OneOwner'
    BY <1>3 DEF Check, Verdict, LockedRole, NextStage, RowsToLock, WantedRows, Wanted
  <1>4. ASSUME NEW r \in Requests, Refuse(r) PROVE OneOwner'
    BY <1>4 DEF Refuse, Verdict, LockedRole
  <1>5. ASSUME NEW r \in Requests, Rename(r) PROVE OneOwner'
    BY <1>5 DEF Rename, At
  <1>6. ASSUME NEW r \in Requests, Transfer(r) PROVE OneOwner'
    <2>1. /\ req[r].user \in Users /\ req[r].target \in Users
          /\ Role(req[r].user) = "owner" /\ Role(req[r].target) = "member"
      BY <1>6 DEF Transfer, At, Calls
    <2>2. \A u \in Users : members'[u].role = IF u = req[r].target THEN "owner"
                                             ELSE IF u = req[r].user THEN "member" ELSE members[u].role
      BY <1>6, <2>1 DEF Transfer
    <2>3. QED BY <2>1, <2>2
  <1>7. ASSUME NEW r \in Requests, Remove(r) PROVE OneOwner'
    BY <1>7 DEF Remove, At
  <1>8. ASSUME NEW r \in Requests, Invite(r) PROVE OneOwner'
    BY <1>8 DEF Invite, At
  <1>9. ASSUME NEW r \in Requests, Revoke(r) PROVE OneOwner'
    BY <1>9 DEF Revoke, Usable
  <1>10. ASSUME NEW r \in Requests, LockHousehold(r) PROVE OneOwner'
    BY <1>10 DEF LockHousehold
  <1>11. ASSUME NEW r \in Requests, Start(r) PROVE OneOwner'
    BY <1>11 DEF Start, At
  <1>12. ASSUME NEW r \in Requests, Finish(r) PROVE OneOwner'
    BY <1>12 DEF Finish, At
  <1>13. ASSUME NEW r \in Requests, ReadMembership(r) PROVE OneOwner'
    BY <1>13 DEF ReadMembership
  <1>14. ASSUME NEW r \in Requests, Leave(r) PROVE OneOwner'
    BY <1>14 DEF Leave
  <1>15. ASSUME NEW r \in Requests, CheckOwns(r) PROVE OneOwner'
    BY <1>15 DEF CheckOwns
  <1>16. ASSUME NEW r \in Requests, Erase(r) PROVE OneOwner'
    BY <1>16 DEF Erase, EraseInvitations
  <1>17. ASSUME NEW r \in Requests, FindCode(r) PROVE OneOwner'
    BY <1>17 DEF FindCode, Usable
  <1>18. ASSUME NEW r \in Requests, Consume(r) PROVE OneOwner'
    BY <1>18 DEF Consume, Usable
  <1>19. ASSUME NEW r \in Requests, Admit(r) PROVE OneOwner'
    <2>1. \A u \in Users : members'[u].role = "owner" => members[u].role = "owner"
      <3>1. CASE Role(req[r].user) = "none"
        <4>1. members' = [members EXCEPT ![req[r].user] = [role |-> "member", id |-> r]]
          BY <1>19, <3>1 DEF Admit
        <4>2. QED BY <4>1
      <3>2. CASE UNCHANGED members
        BY <3>2
      <3>3. QED BY <1>19, <3>1, <3>2 DEF Admit
    <2>2. QED BY <2>1
  <1>20. ASSUME NEW r \in Requests, Refresh(r) PROVE OneOwner'
    BY <1>20 DEF Refresh
  <1>21. ASSUME NEW r \in Requests, Crash(r) PROVE OneOwner'
    BY <1>21 DEF Crash
  <1>22. ASSUME NEW i \in Ids, Expire(i) PROVE OneOwner'
    BY <1>22 DEF Expire
  <1>23. CASE UNCHANGED vars
    BY <1>23 DEF vars
  <1>24. QED
    BY <1>1, <1>2, <1>3, <1>4, <1>5, <1>6, <1>7, <1>8, <1>9, <1>10, <1>11, <1>12, <1>13, <1>14,
       <1>15, <1>16, <1>17, <1>18, <1>19, <1>20, <1>21, <1>22, <1>23 DEF Next, Handle

LEMMA SessionStep ==
  ASSUME TypeOK, Asked, Exclusive, OneSession, [Next]_vars
  PROVE  OneSession'
  <1> USE SentinelAssumption DEF End, Answer, Release, Free, Goto, locks, db, Role, TypeOK, Ids,
     Membership, NoMember, Invitation, InvitationStatus, Stages, Answers, Asked, AskedOf, StageOf,
     LockedOps, FreeOps, OnUser, OnIds, OneSession, Exclusive, At
  <1>1. ASSUME NEW r \in Requests, Submit(r) PROVE OneSession'
    BY <1>1 DEF Submit, Targets, FirstStage
  <1>2. ASSUME NEW r \in Requests, LockMember(r) PROVE OneSession'
    BY <1>2 DEF LockMember, RowsToLock, WantedRows, Wanted
  <1>3. ASSUME NEW r \in Requests, Check(r) PROVE OneSession'
    BY <1>3 DEF Check, Verdict, LockedRole, NextStage, RowsToLock, WantedRows, Wanted
  <1>4. ASSUME NEW r \in Requests, Refuse(r) PROVE OneSession'
    BY <1>4 DEF Refuse, Verdict, LockedRole
  <1>5. ASSUME NEW r \in Requests, Rename(r) PROVE OneSession'
    BY <1>5 DEF Rename, At
  <1>6. ASSUME NEW r \in Requests, Transfer(r) PROVE OneSession'
    BY <1>6 DEF Transfer, At
  <1>7. ASSUME NEW r \in Requests, Remove(r) PROVE OneSession'
    BY <1>7 DEF Remove, At
  <1>8. ASSUME NEW r \in Requests, Invite(r) PROVE OneSession'
    BY <1>8 DEF Invite, At
  <1>9. ASSUME NEW r \in Requests, Revoke(r) PROVE OneSession'
    BY <1>9 DEF Revoke, Usable
  <1>10. ASSUME NEW r \in Requests, LockHousehold(r) PROVE OneSession'
    BY <1>10 DEF LockHousehold
  <1>11. ASSUME NEW r \in Requests, Start(r) PROVE OneSession'
    BY <1>11 DEF Start, At
  <1>12. ASSUME NEW r \in Requests, Finish(r) PROVE OneSession'
    BY <1>12 DEF Finish, At
  <1>13. ASSUME NEW r \in Requests, ReadMembership(r) PROVE OneSession'
    BY <1>13 DEF ReadMembership
  <1>14. ASSUME NEW r \in Requests, Leave(r) PROVE OneSession'
    BY <1>14 DEF Leave
  <1>15. ASSUME NEW r \in Requests, CheckOwns(r) PROVE OneSession'
    BY <1>15 DEF CheckOwns
  <1>16. ASSUME NEW r \in Requests, Erase(r) PROVE OneSession'
    BY <1>16 DEF Erase, EraseInvitations
  <1>17. ASSUME NEW r \in Requests, FindCode(r) PROVE OneSession'
    BY <1>17 DEF FindCode, Usable
  <1>18. ASSUME NEW r \in Requests, Consume(r) PROVE OneSession'
    BY <1>18 DEF Consume, Usable
  <1>19. ASSUME NEW r \in Requests, Admit(r) PROVE OneSession'
    BY <1>19 DEF Admit
  <1>20. ASSUME NEW r \in Requests, Refresh(r) PROVE OneSession'
    BY <1>20 DEF Refresh
  <1>21. ASSUME NEW r \in Requests, Crash(r) PROVE OneSession'
    BY <1>21 DEF Crash
  <1>22. ASSUME NEW i \in Ids, Expire(i) PROVE OneSession'
    BY <1>22 DEF Expire
  <1>23. CASE UNCHANGED vars
    BY <1>23 DEF vars
  <1>24. QED
    BY <1>1, <1>2, <1>3, <1>4, <1>5, <1>6, <1>7, <1>8, <1>9, <1>10, <1>11, <1>12, <1>13, <1>14,
       <1>15, <1>16, <1>17, <1>18, <1>19, <1>20, <1>21, <1>22, <1>23 DEF Next, Handle

LEMMA AuthorizedStep ==
  ASSUME TypeOK, Asked, Locks, OneOwner, Authorized, [Next]_vars
  PROVE  Authorized'
  <1> USE SentinelAssumption DEF End, Answer, Release, Free, Goto, locks, db, Role, TypeOK
  <1>1. ASSUME NEW r \in Requests, Submit(r) PROVE Authorized'
    <2>1. \A s \in Requests \ {r} : pc'[s] = pc[s] /\ req'[s] = req[s]
      BY <1>1 DEF Submit
    <2>2. \A u \in Users : memberLock[u] \notin {r, None} =>
            memberLock'[u] = memberLock[u] /\ members'[u].role = members[u].role
      BY <1>1 DEF Submit
    <2>3. pc'[r] \in {"household", "commit", "revoke"} => AuthorizedOf(r)'
      BY <1>1 DEF Submit, FirstStage
    <2>4. QED BY <2>1, <2>2, <2>3, AuthorizedFrame
  <1>2. ASSUME NEW r \in Requests, LockMember(r) PROVE Authorized'
    <2>1. \A s \in Requests \ {r} : pc'[s] = pc[s] /\ req'[s] = req[s]
      BY <1>2 DEF LockMember
    <2>2. \A u \in Users : memberLock[u] \notin {r, None} =>
            memberLock'[u] = memberLock[u] /\ members'[u].role = members[u].role
      BY <1>2 DEF LockMember
    <2>3. pc'[r] \in {"household", "commit", "revoke"} => AuthorizedOf(r)'
      BY <1>2 DEF LockMember, AuthorizedOf
    <2>4. QED BY <2>1, <2>2, <2>3, AuthorizedFrame
  <1>3. ASSUME NEW r \in Requests, Check(r) PROVE Authorized'
    <2>1. /\ req[r] \in Calls /\ req[r].op \in LockedOps
          /\ req[r].op \in OnUser => req[r].target \in Users
      BY <1>3 DEF Check, Asked, AskedOf, StageOf
    <2>2. \A u \in WantedRows(r) : u \in Users
      BY <1>3, WantedUsers DEF Check, Asked
    <2>3. /\ Role(req[r].user) # "none"
          /\ req[r].op \in {"rename", "transfer", "remove", "revoke"} => Role(req[r].user) = "owner"
          /\ req[r].op \in OnUser => Role(req[r].target) \notin {"none", "owner"}
      BY <1>3, <2>1 DEF Check, Verdict, LockedRole, LockedOps, OnUser
    <2>4. req[r].op \in OnUser => Role(req[r].target) = "member"
      BY <2>1, <2>3 DEF Membership
    <2>5. \A u \in WantedRows(r) : memberLock[u] = r
      <3>1. /\ memberLock[req[r].user] = r
            /\ req[r].op \in OnUser => memberLock[req[r].target] = r
        BY <1>3, <2>1 DEF Check, Verdict, LockedRole, LockedOps, OnUser
      <3>2. QED BY <1>3, <3>1, WantedUsers DEF Check, Asked
    <2>6. AuthorizedOf(r)'
      BY <1>3, <2>3, <2>4, <2>5 DEF Check, AuthorizedOf, WantedRows
    <2>7. QED
      BY <1>3, <2>6, AuthorizedFrame DEF Check
  <1>4. ASSUME NEW r \in Requests, Refuse(r) PROVE Authorized'
    <2>1. \A s \in Requests \ {r} : pc'[s] = pc[s] /\ req'[s] = req[s]
      BY <1>4 DEF Refuse
    <2>2. \A u \in Users : memberLock[u] \notin {r, None} =>
            memberLock'[u] = memberLock[u] /\ members'[u].role = members[u].role
      BY <1>4 DEF Refuse
    <2>3. pc'[r] \in {"household", "commit", "revoke"} => AuthorizedOf(r)'
      BY <1>4 DEF Refuse
    <2>4. QED BY <2>1, <2>2, <2>3, AuthorizedFrame
  <1>5. ASSUME NEW r \in Requests, Rename(r) PROVE Authorized'
    <2>1. \A s \in Requests \ {r} : pc'[s] = pc[s] /\ req'[s] = req[s]
      BY <1>5 DEF Rename
    <2>2. \A u \in Users : memberLock[u] \notin {r, None} =>
            memberLock'[u] = memberLock[u] /\ members'[u].role = members[u].role
      BY <1>5 DEF Rename
    <2>3. pc'[r] \in {"household", "commit", "revoke"} => AuthorizedOf(r)'
      BY <1>5 DEF Rename
    <2>4. QED BY <2>1, <2>2, <2>3, AuthorizedFrame
  <1>6. ASSUME NEW r \in Requests, Transfer(r) PROVE Authorized'
    <2>1. \A s \in Requests \ {r} : pc'[s] = pc[s] /\ req'[s] = req[s]
      BY <1>6 DEF Transfer
    <2>2. \A u \in Users : memberLock[u] \notin {r, None} =>
            memberLock'[u] = memberLock[u] /\ members'[u].role = members[u].role
      <3>1. AskedOf(r) /\ AuthorizedOf(r) /\ req[r].op \in OnUser
        BY <1>6 DEF Transfer, Asked, Authorized, At, OnUser
      <3>2. memberLock[req[r].user] = r /\ memberLock[req[r].target] = r
        BY <3>1, WantedUsers DEF AuthorizedOf
      <3>3. QED BY <1>6, <3>1, <3>2, WantedUsers DEF Transfer
    <2>3. pc'[r] \in {"household", "commit", "revoke"} => AuthorizedOf(r)'
      BY <1>6 DEF Transfer
    <2>4. QED BY <2>1, <2>2, <2>3, AuthorizedFrame
  <1>7. ASSUME NEW r \in Requests, Remove(r) PROVE Authorized'
    <2>1. \A s \in Requests \ {r} : pc'[s] = pc[s] /\ req'[s] = req[s]
      BY <1>7 DEF Remove
    <2>2. \A u \in Users : memberLock[u] \notin {r, None} =>
            memberLock'[u] = memberLock[u] /\ members'[u].role = members[u].role
      <3>1. AskedOf(r) /\ AuthorizedOf(r) /\ req[r].op \in OnUser
        BY <1>7 DEF Remove, Asked, Authorized, At, OnUser
      <3>2. memberLock[req[r].user] = r /\ memberLock[req[r].target] = r
        BY <3>1, WantedUsers DEF AuthorizedOf
      <3>3. QED BY <1>7, <3>1, <3>2, WantedUsers DEF Remove
    <2>3. pc'[r] \in {"household", "commit", "revoke"} => AuthorizedOf(r)'
      BY <1>7 DEF Remove
    <2>4. QED BY <2>1, <2>2, <2>3, AuthorizedFrame
  <1>8. ASSUME NEW r \in Requests, Invite(r) PROVE Authorized'
    <2>1. \A s \in Requests \ {r} : pc'[s] = pc[s] /\ req'[s] = req[s]
      BY <1>8 DEF Invite
    <2>2. \A u \in Users : memberLock[u] \notin {r, None} =>
            memberLock'[u] = memberLock[u] /\ members'[u].role = members[u].role
      BY <1>8 DEF Invite
    <2>3. pc'[r] \in {"household", "commit", "revoke"} => AuthorizedOf(r)'
      BY <1>8 DEF Invite
    <2>4. QED BY <2>1, <2>2, <2>3, AuthorizedFrame
  <1>9. ASSUME NEW r \in Requests, Revoke(r) PROVE Authorized'
    <2>1. \A s \in Requests \ {r} : pc'[s] = pc[s] /\ req'[s] = req[s]
      BY <1>9 DEF Revoke
    <2>2. \A u \in Users : memberLock[u] \notin {r, None} =>
            memberLock'[u] = memberLock[u] /\ members'[u].role = members[u].role
      BY <1>9 DEF Revoke
    <2>3. pc'[r] \in {"household", "commit", "revoke"} => AuthorizedOf(r)'
      BY <1>9 DEF Revoke
    <2>4. QED BY <2>1, <2>2, <2>3, AuthorizedFrame
  <1>10. ASSUME NEW r \in Requests, LockHousehold(r) PROVE Authorized'
    <2>1. \A s \in Requests \ {r} : pc'[s] = pc[s] /\ req'[s] = req[s]
      BY <1>10 DEF LockHousehold
    <2>2. \A u \in Users : memberLock[u] \notin {r, None} =>
            memberLock'[u] = memberLock[u] /\ members'[u].role = members[u].role
      BY <1>10 DEF LockHousehold
    <2>3. pc'[r] \in {"household", "commit", "revoke"} => AuthorizedOf(r)'
      BY <1>10 DEF LockHousehold, Authorized, AuthorizedOf, WantedRows
    <2>4. QED BY <2>1, <2>2, <2>3, AuthorizedFrame
  <1>11. ASSUME NEW r \in Requests, Start(r) PROVE Authorized'
    <2>1. \A s \in Requests \ {r} : pc'[s] = pc[s] /\ req'[s] = req[s]
      BY <1>11 DEF Start
    <2>2. \A u \in Users : memberLock[u] \notin {r, None} =>
            memberLock'[u] = memberLock[u] /\ members'[u].role = members[u].role
      BY <1>11 DEF Start
    <2>3. pc'[r] \in {"household", "commit", "revoke"} => AuthorizedOf(r)'
      BY <1>11 DEF Start
    <2>4. QED BY <2>1, <2>2, <2>3, AuthorizedFrame
  <1>12. ASSUME NEW r \in Requests, Finish(r) PROVE Authorized'
    <2>1. \A s \in Requests \ {r} : pc'[s] = pc[s] /\ req'[s] = req[s]
      BY <1>12 DEF Finish
    <2>2. \A u \in Users : memberLock[u] \notin {r, None} =>
            memberLock'[u] = memberLock[u] /\ members'[u].role = members[u].role
      BY <1>12 DEF Finish
    <2>3. pc'[r] \in {"household", "commit", "revoke"} => AuthorizedOf(r)'
      BY <1>12 DEF Finish
    <2>4. QED BY <2>1, <2>2, <2>3, AuthorizedFrame
  <1>13. ASSUME NEW r \in Requests, ReadMembership(r) PROVE Authorized'
    <2>1. \A s \in Requests \ {r} : pc'[s] = pc[s] /\ req'[s] = req[s]
      BY <1>13 DEF ReadMembership
    <2>2. \A u \in Users : memberLock[u] \notin {r, None} =>
            memberLock'[u] = memberLock[u] /\ members'[u].role = members[u].role
      BY <1>13 DEF ReadMembership
    <2>3. pc'[r] \in {"household", "commit", "revoke"} => AuthorizedOf(r)'
      BY <1>13 DEF ReadMembership
    <2>4. QED BY <2>1, <2>2, <2>3, AuthorizedFrame
  <1>14. ASSUME NEW r \in Requests, Leave(r) PROVE Authorized'
    <2>1. \A s \in Requests \ {r} : pc'[s] = pc[s] /\ req'[s] = req[s]
      BY <1>14 DEF Leave
    <2>2. \A u \in Users : memberLock[u] \notin {r, None} =>
            memberLock'[u] = memberLock[u] /\ members'[u].role = members[u].role
      BY <1>14 DEF Leave
    <2>3. pc'[r] \in {"household", "commit", "revoke"} => AuthorizedOf(r)'
      BY <1>14 DEF Leave
    <2>4. QED BY <2>1, <2>2, <2>3, AuthorizedFrame
  <1>15. ASSUME NEW r \in Requests, CheckOwns(r) PROVE Authorized'
    <2>1. \A s \in Requests \ {r} : pc'[s] = pc[s] /\ req'[s] = req[s]
      BY <1>15 DEF CheckOwns
    <2>2. \A u \in Users : memberLock[u] \notin {r, None} =>
            memberLock'[u] = memberLock[u] /\ members'[u].role = members[u].role
      BY <1>15 DEF CheckOwns
    <2>3. pc'[r] \in {"household", "commit", "revoke"} => AuthorizedOf(r)'
      BY <1>15 DEF CheckOwns
    <2>4. QED BY <2>1, <2>2, <2>3, AuthorizedFrame
  <1>16. ASSUME NEW r \in Requests, Erase(r) PROVE Authorized'
    <2>1. \A s \in Requests \ {r} : pc'[s] = pc[s] /\ req'[s] = req[s]
      BY <1>16 DEF Erase
    <2>2. \A u \in Users : memberLock[u] \notin {r, None} =>
            memberLock'[u] = memberLock[u] /\ members'[u].role = members[u].role
      BY <1>16 DEF Erase
    <2>3. pc'[r] \in {"household", "commit", "revoke"} => AuthorizedOf(r)'
      BY <1>16 DEF Erase
    <2>4. QED BY <2>1, <2>2, <2>3, AuthorizedFrame
  <1>17. ASSUME NEW r \in Requests, FindCode(r) PROVE Authorized'
    <2>1. \A s \in Requests \ {r} : pc'[s] = pc[s] /\ req'[s] = req[s]
      BY <1>17 DEF FindCode
    <2>2. \A u \in Users : memberLock[u] \notin {r, None} =>
            memberLock'[u] = memberLock[u] /\ members'[u].role = members[u].role
      BY <1>17 DEF FindCode
    <2>3. pc'[r] \in {"household", "commit", "revoke"} => AuthorizedOf(r)'
      BY <1>17 DEF FindCode
    <2>4. QED BY <2>1, <2>2, <2>3, AuthorizedFrame
  <1>18. ASSUME NEW r \in Requests, Consume(r) PROVE Authorized'
    <2>1. \A s \in Requests \ {r} : pc'[s] = pc[s] /\ req'[s] = req[s]
      BY <1>18 DEF Consume
    <2>2. \A u \in Users : memberLock[u] \notin {r, None} =>
            memberLock'[u] = memberLock[u] /\ members'[u].role = members[u].role
      BY <1>18 DEF Consume
    <2>3. pc'[r] \in {"household", "commit", "revoke"} => AuthorizedOf(r)'
      BY <1>18 DEF Consume
    <2>4. QED BY <2>1, <2>2, <2>3, AuthorizedFrame
  <1>19. ASSUME NEW r \in Requests, Admit(r) PROVE Authorized'
    <2>1. \A s \in Requests \ {r} : pc'[s] = pc[s] /\ req'[s] = req[s]
      BY <1>19 DEF Admit
    <2>2. \A u \in Users : memberLock[u] \notin {r, None} =>
            memberLock'[u] = memberLock[u] /\ members'[u].role = members[u].role
      BY <1>19 DEF Admit, Locks
    <2>3. pc'[r] \in {"household", "commit", "revoke"} => AuthorizedOf(r)'
      BY <1>19 DEF Admit
    <2>4. QED BY <2>1, <2>2, <2>3, AuthorizedFrame
  <1>20. ASSUME NEW r \in Requests, Refresh(r) PROVE Authorized'
    <2>1. \A s \in Requests \ {r} : pc'[s] = pc[s] /\ req'[s] = req[s]
      BY <1>20 DEF Refresh
    <2>2. \A u \in Users : memberLock[u] \notin {r, None} =>
            memberLock'[u] = memberLock[u] /\ members'[u].role = members[u].role
      BY <1>20 DEF Refresh
    <2>3. pc'[r] \in {"household", "commit", "revoke"} => AuthorizedOf(r)'
      BY <1>20 DEF Refresh
    <2>4. QED BY <2>1, <2>2, <2>3, AuthorizedFrame
  <1>21. ASSUME NEW r \in Requests, Crash(r) PROVE Authorized'
    <2>1. \A s \in Requests \ {r} : pc'[s] = pc[s] /\ req'[s] = req[s]
      BY <1>21 DEF Crash
    <2>2. \A u \in Users : memberLock[u] \notin {r, None} =>
            memberLock'[u] = memberLock[u] /\ members'[u].role = members[u].role
      BY <1>21 DEF Crash
    <2>3. pc'[r] \in {"household", "commit", "revoke"} => AuthorizedOf(r)'
      BY <1>21 DEF Crash
    <2>4. QED BY <2>1, <2>2, <2>3, AuthorizedFrame
  <1>22. ASSUME NEW i \in Ids, Expire(i) PROVE Authorized'
    BY <1>22 DEF Expire, Authorized, AuthorizedOf, WantedRows
  <1>23. CASE UNCHANGED vars
    BY <1>23 DEF vars, Authorized, AuthorizedOf, WantedRows
  <1>24. QED
    BY <1>1, <1>2, <1>3, <1>4, <1>5, <1>6, <1>7, <1>8, <1>9, <1>10, <1>11, <1>12, <1>13, <1>14,
       <1>15, <1>16, <1>17, <1>18, <1>19, <1>20, <1>21, <1>22, <1>23 DEF Next, Handle

LEMMA ExclusiveStep ==
  ASSUME TypeOK, Asked, Named, Locks, Exclusive, [Next]_vars
  PROVE  Exclusive'
  <1> USE SentinelAssumption DEF End, Answer, Release, Free, Goto, locks, db, Role, TypeOK, Ids,
     Membership, NoMember, Invitation, InvitationStatus, Stages, Answers, Asked, AskedOf, StageOf,
     LockedOps, FreeOps, OnUser, OnIds, Locks, Exclusive, At
  <1>1. ASSUME NEW r \in Requests, Submit(r) PROVE Exclusive'
    BY <1>1 DEF Submit, Targets, FirstStage
  <1>2. ASSUME NEW r \in Requests, LockMember(r) PROVE Exclusive'
    BY <1>2 DEF LockMember, RowsToLock, WantedRows, Wanted
  <1>3. ASSUME NEW r \in Requests, Check(r) PROVE Exclusive'
    BY <1>3 DEF Check, Verdict, LockedRole, NextStage, RowsToLock, WantedRows, Wanted
  <1>4. ASSUME NEW r \in Requests, Refuse(r) PROVE Exclusive'
    BY <1>4 DEF Refuse, Verdict, LockedRole
  <1>5. ASSUME NEW r \in Requests, Rename(r) PROVE Exclusive'
    BY <1>5 DEF Rename, At
  <1>6. ASSUME NEW r \in Requests, Transfer(r) PROVE Exclusive'
    BY <1>6 DEF Transfer, At
  <1>7. ASSUME NEW r \in Requests, Remove(r) PROVE Exclusive'
    BY <1>7 DEF Remove, At
  <1>8. ASSUME NEW r \in Requests, Invite(r) PROVE Exclusive'
    BY <1>8 DEF Invite, At
  <1>9. ASSUME NEW r \in Requests, Revoke(r) PROVE Exclusive'
    BY <1>9 DEF Revoke, Usable
  <1>10. ASSUME NEW r \in Requests, LockHousehold(r) PROVE Exclusive'
    BY <1>10 DEF LockHousehold
  <1>11. ASSUME NEW r \in Requests, Start(r) PROVE Exclusive'
    BY <1>11 DEF Start, At
  <1>12. ASSUME NEW r \in Requests, Finish(r) PROVE Exclusive'
    BY <1>12 DEF Finish, At
  <1>13. ASSUME NEW r \in Requests, ReadMembership(r) PROVE Exclusive'
    BY <1>13 DEF ReadMembership
  <1>14. ASSUME NEW r \in Requests, Leave(r) PROVE Exclusive'
    BY <1>14 DEF Leave
  <1>15. ASSUME NEW r \in Requests, CheckOwns(r) PROVE Exclusive'
    BY <1>15 DEF CheckOwns
  <1>16. ASSUME NEW r \in Requests, Erase(r) PROVE Exclusive'
    BY <1>16 DEF Erase, EraseInvitations
  <1>17. ASSUME NEW r \in Requests, FindCode(r) PROVE Exclusive'
    BY <1>17 DEF FindCode, Usable
  <1>18. ASSUME NEW r \in Requests, Consume(r) PROVE Exclusive'
    BY <1>18 DEF Consume, Usable
  <1>19. ASSUME NEW r \in Requests, Admit(r) PROVE Exclusive'
    BY <1>19 DEF Admit
  <1>20. ASSUME NEW r \in Requests, Refresh(r) PROVE Exclusive'
    BY <1>20 DEF Refresh
  <1>21. ASSUME NEW r \in Requests, Crash(r) PROVE Exclusive'
    BY <1>21 DEF Crash
  <1>22. ASSUME NEW i \in Ids, Expire(i) PROVE Exclusive'
    BY <1>22 DEF Expire
  <1>23. CASE UNCHANGED vars
    BY <1>23 DEF vars
  <1>24. QED
    BY <1>1, <1>2, <1>3, <1>4, <1>5, <1>6, <1>7, <1>8, <1>9, <1>10, <1>11, <1>12, <1>13, <1>14,
       <1>15, <1>16, <1>17, <1>18, <1>19, <1>20, <1>21, <1>22, <1>23 DEF Next, Handle

LEMMA FreshStep ==
  ASSUME TypeOK, Fresh, [Next]_vars
  PROVE  Fresh'
  <1> USE SentinelAssumption DEF End, Answer, Release, Free, Goto, locks, db, Role, TypeOK, Ids,
     Fresh
  <1>1. ASSUME NEW r \in Requests, Submit(r) PROVE Fresh'
    BY <1>1 DEF Submit, Targets, FirstStage
  <1>2. ASSUME NEW r \in Requests, LockMember(r) PROVE Fresh'
    BY <1>2 DEF LockMember, RowsToLock, WantedRows, Wanted
  <1>3. ASSUME NEW r \in Requests, Check(r) PROVE Fresh'
    BY <1>3 DEF Check, Verdict, LockedRole, NextStage, RowsToLock, WantedRows, Wanted
  <1>4. ASSUME NEW r \in Requests, Refuse(r) PROVE Fresh'
    BY <1>4 DEF Refuse, Verdict, LockedRole
  <1>5. ASSUME NEW r \in Requests, Rename(r) PROVE Fresh'
    BY <1>5 DEF Rename, At
  <1>6. ASSUME NEW r \in Requests, Transfer(r) PROVE Fresh'
    BY <1>6 DEF Transfer, At
  <1>7. ASSUME NEW r \in Requests, Remove(r) PROVE Fresh'
    BY <1>7 DEF Remove, At
  <1>8. ASSUME NEW r \in Requests, Invite(r) PROVE Fresh'
    <2>1. \A i \in Ids : invitations'[i].status = "absent" => invitations'[i] = invitations[i]
      BY <1>8 DEF Invite, Invitation
    <2>2. QED BY <2>1
  <1>9. ASSUME NEW r \in Requests, Revoke(r) PROVE Fresh'
    <2>1. \A i \in Ids : /\ invitations'[i].by = invitations[i].by
                         /\ invitations'[i].status = "absent" => invitations[i].status = "absent"
      BY <1>9 DEF Revoke, Usable, Invitation
    <2>2. QED BY <2>1
  <1>10. ASSUME NEW r \in Requests, LockHousehold(r) PROVE Fresh'
    BY <1>10 DEF LockHousehold
  <1>11. ASSUME NEW r \in Requests, Start(r) PROVE Fresh'
    BY <1>11 DEF Start, At
  <1>12. ASSUME NEW r \in Requests, Finish(r) PROVE Fresh'
    BY <1>12 DEF Finish, At
  <1>13. ASSUME NEW r \in Requests, ReadMembership(r) PROVE Fresh'
    BY <1>13 DEF ReadMembership
  <1>14. ASSUME NEW r \in Requests, Leave(r) PROVE Fresh'
    BY <1>14 DEF Leave
  <1>15. ASSUME NEW r \in Requests, CheckOwns(r) PROVE Fresh'
    BY <1>15 DEF CheckOwns
  <1>16. ASSUME NEW r \in Requests, Erase(r) PROVE Fresh'
    <2>1. \A i \in Ids : invitations'[i].by = invitations[i].by
      BY <1>16 DEF Erase, EraseInvitations, Invitation
    <2>2. \A i \in Ids : invitations'[i].status = "absent" => invitations[i].status = "absent"
      BY <1>16 DEF Erase, EraseInvitations, Invitation
    <2>3. QED BY <2>1, <2>2
  <1>17. ASSUME NEW r \in Requests, FindCode(r) PROVE Fresh'
    BY <1>17 DEF FindCode, Usable
  <1>18. ASSUME NEW r \in Requests, Consume(r) PROVE Fresh'
    BY <1>18 DEF Consume, Usable
  <1>19. ASSUME NEW r \in Requests, Admit(r) PROVE Fresh'
    <2>1. \A i \in Ids : invitations'[i].status = "absent" => invitations'[i] = invitations[i]
      BY <1>19 DEF Admit, Invitation
    <2>2. QED BY <2>1
  <1>20. ASSUME NEW r \in Requests, Refresh(r) PROVE Fresh'
    BY <1>20 DEF Refresh
  <1>21. ASSUME NEW r \in Requests, Crash(r) PROVE Fresh'
    BY <1>21 DEF Crash
  <1>22. ASSUME NEW i \in Ids, Expire(i) PROVE Fresh'
    BY <1>22 DEF Expire
  <1>23. CASE UNCHANGED vars
    BY <1>23 DEF vars
  <1>24. QED
    BY <1>1, <1>2, <1>3, <1>4, <1>5, <1>6, <1>7, <1>8, <1>9, <1>10, <1>11, <1>12, <1>13, <1>14,
       <1>15, <1>16, <1>17, <1>18, <1>19, <1>20, <1>21, <1>22, <1>23 DEF Next, Handle

LEMMA ClaimedStep ==
  ASSUME TypeOK, Asked, Locks, Claimed, [Next]_vars
  PROVE  Claimed'
  <1> USE SentinelAssumption DEF End, Answer, Release, Free, Goto, locks, db, Role, TypeOK
  <1>1. ASSUME NEW r \in Requests, Submit(r) PROVE Claimed'
    <2>1. \A s \in Requests \ {r} : pc'[s] = pc[s] /\ req'[s] = req[s]
      BY <1>1 DEF Submit
    <2>2. \A i \in Ids : inviteLock[i] \notin {r, None} =>
            /\ inviteLock'[i] = inviteLock[i]
            /\ Usable(i) => Usable(i)'
      BY <1>1 DEF Submit, Usable
    <2>3. \A s \in Requests \ {r} : pc[s] = "admit" => req[s].user \in accounts'
      BY <1>1 DEF Submit, Claimed, ClaimedOf
    <2>4. pc'[r] = "admit" => ClaimedOf(r)'
      BY <1>1 DEF Submit, FirstStage
    <2>5. QED BY <2>1, <2>2, <2>3, <2>4, ClaimedFrame
  <1>2. ASSUME NEW r \in Requests, LockMember(r) PROVE Claimed'
    <2>1. \A s \in Requests \ {r} : pc'[s] = pc[s] /\ req'[s] = req[s]
      BY <1>2 DEF LockMember
    <2>2. \A i \in Ids : inviteLock[i] \notin {r, None} =>
            /\ inviteLock'[i] = inviteLock[i]
            /\ Usable(i) => Usable(i)'
      BY <1>2 DEF LockMember, Usable
    <2>3. \A s \in Requests \ {r} : pc[s] = "admit" => req[s].user \in accounts'
      BY <1>2 DEF LockMember, Claimed, ClaimedOf
    <2>4. pc'[r] = "admit" => ClaimedOf(r)'
      BY <1>2 DEF LockMember
    <2>5. QED BY <2>1, <2>2, <2>3, <2>4, ClaimedFrame
  <1>3. ASSUME NEW r \in Requests, Check(r) PROVE Claimed'
    <2>1. \A s \in Requests \ {r} : pc'[s] = pc[s] /\ req'[s] = req[s]
      BY <1>3 DEF Check
    <2>2. \A i \in Ids : inviteLock[i] \notin {r, None} =>
            /\ inviteLock'[i] = inviteLock[i]
            /\ Usable(i) => Usable(i)'
      BY <1>3 DEF Check, Usable
    <2>3. \A s \in Requests \ {r} : pc[s] = "admit" => req[s].user \in accounts'
      BY <1>3 DEF Check, Claimed, ClaimedOf
    <2>4. pc'[r] = "admit" => ClaimedOf(r)'
      BY <1>3 DEF Check, NextStage
    <2>5. QED BY <2>1, <2>2, <2>3, <2>4, ClaimedFrame
  <1>4. ASSUME NEW r \in Requests, Refuse(r) PROVE Claimed'
    <2>1. \A s \in Requests \ {r} : pc'[s] = pc[s] /\ req'[s] = req[s]
      BY <1>4 DEF Refuse
    <2>2. \A i \in Ids : inviteLock[i] \notin {r, None} =>
            /\ inviteLock'[i] = inviteLock[i]
            /\ Usable(i) => Usable(i)'
      BY <1>4 DEF Refuse, Usable
    <2>3. \A s \in Requests \ {r} : pc[s] = "admit" => req[s].user \in accounts'
      BY <1>4 DEF Refuse, Claimed, ClaimedOf
    <2>4. pc'[r] = "admit" => ClaimedOf(r)'
      BY <1>4 DEF Refuse
    <2>5. QED BY <2>1, <2>2, <2>3, <2>4, ClaimedFrame
  <1>5. ASSUME NEW r \in Requests, Rename(r) PROVE Claimed'
    <2>1. \A s \in Requests \ {r} : pc'[s] = pc[s] /\ req'[s] = req[s]
      BY <1>5 DEF Rename
    <2>2. \A i \in Ids : inviteLock[i] \notin {r, None} =>
            /\ inviteLock'[i] = inviteLock[i]
            /\ Usable(i) => Usable(i)'
      BY <1>5 DEF Rename, Usable
    <2>3. \A s \in Requests \ {r} : pc[s] = "admit" => req[s].user \in accounts'
      BY <1>5 DEF Rename, Claimed, ClaimedOf
    <2>4. pc'[r] = "admit" => ClaimedOf(r)'
      BY <1>5 DEF Rename
    <2>5. QED BY <2>1, <2>2, <2>3, <2>4, ClaimedFrame
  <1>6. ASSUME NEW r \in Requests, Transfer(r) PROVE Claimed'
    <2>1. \A s \in Requests \ {r} : pc'[s] = pc[s] /\ req'[s] = req[s]
      BY <1>6 DEF Transfer
    <2>2. \A i \in Ids : inviteLock[i] \notin {r, None} =>
            /\ inviteLock'[i] = inviteLock[i]
            /\ Usable(i) => Usable(i)'
      BY <1>6 DEF Transfer, Usable
    <2>3. \A s \in Requests \ {r} : pc[s] = "admit" => req[s].user \in accounts'
      BY <1>6 DEF Transfer, Claimed, ClaimedOf
    <2>4. pc'[r] = "admit" => ClaimedOf(r)'
      BY <1>6 DEF Transfer
    <2>5. QED BY <2>1, <2>2, <2>3, <2>4, ClaimedFrame
  <1>7. ASSUME NEW r \in Requests, Remove(r) PROVE Claimed'
    <2>1. \A s \in Requests \ {r} : pc'[s] = pc[s] /\ req'[s] = req[s]
      BY <1>7 DEF Remove
    <2>2. \A i \in Ids : inviteLock[i] \notin {r, None} =>
            /\ inviteLock'[i] = inviteLock[i]
            /\ Usable(i) => Usable(i)'
      BY <1>7 DEF Remove, Usable
    <2>3. \A s \in Requests \ {r} : pc[s] = "admit" => req[s].user \in accounts'
      BY <1>7 DEF Remove, Claimed, ClaimedOf
    <2>4. pc'[r] = "admit" => ClaimedOf(r)'
      BY <1>7 DEF Remove
    <2>5. QED BY <2>1, <2>2, <2>3, <2>4, ClaimedFrame
  <1>8. ASSUME NEW r \in Requests, Invite(r) PROVE Claimed'
    <2>1. \A s \in Requests \ {r} : pc'[s] = pc[s] /\ req'[s] = req[s]
      BY <1>8 DEF Invite
    <2>2. \A i \in Ids : inviteLock[i] \notin {r, None} =>
            /\ inviteLock'[i] = inviteLock[i]
            /\ Usable(i) => Usable(i)'
      BY <1>8 DEF Invite, Usable, Invitation
    <2>3. \A s \in Requests \ {r} : pc[s] = "admit" => req[s].user \in accounts'
      BY <1>8 DEF Invite, Claimed, ClaimedOf
    <2>4. pc'[r] = "admit" => ClaimedOf(r)'
      BY <1>8 DEF Invite
    <2>5. QED BY <2>1, <2>2, <2>3, <2>4, ClaimedFrame
  <1>9. ASSUME NEW r \in Requests, Revoke(r) PROVE Claimed'
    <2>1. \A s \in Requests \ {r} : pc'[s] = pc[s] /\ req'[s] = req[s]
      BY <1>9 DEF Revoke
    <2>2. \A i \in Ids : inviteLock[i] \notin {r, None} =>
            /\ inviteLock'[i] = inviteLock[i]
            /\ Usable(i) => Usable(i)'
      <3>1. CASE UNCHANGED invitations
        BY <1>9, <3>1 DEF Revoke, Usable
      <3>2. CASE /\ Usable(req[r].target) /\ req[r].target \in Ids
                 /\ invitations' = [invitations EXCEPT ![req[r].target].status = "revoked"]
        BY <1>9, <3>2, StatusStep DEF Revoke, Usable
      <3>3. QED BY <1>9, <3>1, <3>2 DEF Revoke, Asked, AskedOf, StageOf, OnIds
    <2>3. \A s \in Requests \ {r} : pc[s] = "admit" => req[s].user \in accounts'
      BY <1>9 DEF Revoke, Claimed, ClaimedOf
    <2>4. pc'[r] = "admit" => ClaimedOf(r)'
      BY <1>9 DEF Revoke
    <2>5. QED BY <2>1, <2>2, <2>3, <2>4, ClaimedFrame
  <1>10. ASSUME NEW r \in Requests, LockHousehold(r) PROVE Claimed'
    <2>1. \A s \in Requests \ {r} : pc'[s] = pc[s] /\ req'[s] = req[s]
      BY <1>10 DEF LockHousehold
    <2>2. \A i \in Ids : inviteLock[i] \notin {r, None} =>
            /\ inviteLock'[i] = inviteLock[i]
            /\ Usable(i) => Usable(i)'
      BY <1>10 DEF LockHousehold, Usable
    <2>3. \A s \in Requests \ {r} : pc[s] = "admit" => req[s].user \in accounts'
      BY <1>10 DEF LockHousehold, Claimed, ClaimedOf
    <2>4. pc'[r] = "admit" => ClaimedOf(r)'
      BY <1>10 DEF LockHousehold
    <2>5. QED BY <2>1, <2>2, <2>3, <2>4, ClaimedFrame
  <1>11. ASSUME NEW r \in Requests, Start(r) PROVE Claimed'
    <2>1. \A s \in Requests \ {r} : pc'[s] = pc[s] /\ req'[s] = req[s]
      BY <1>11 DEF Start
    <2>2. \A i \in Ids : inviteLock[i] \notin {r, None} =>
            /\ inviteLock'[i] = inviteLock[i]
            /\ Usable(i) => Usable(i)'
      BY <1>11 DEF Start, Usable
    <2>3. \A s \in Requests \ {r} : pc[s] = "admit" => req[s].user \in accounts'
      BY <1>11 DEF Start, Claimed, ClaimedOf
    <2>4. pc'[r] = "admit" => ClaimedOf(r)'
      BY <1>11 DEF Start
    <2>5. QED BY <2>1, <2>2, <2>3, <2>4, ClaimedFrame
  <1>12. ASSUME NEW r \in Requests, Finish(r) PROVE Claimed'
    <2>1. \A s \in Requests \ {r} : pc'[s] = pc[s] /\ req'[s] = req[s]
      BY <1>12 DEF Finish
    <2>2. \A i \in Ids : inviteLock[i] \notin {r, None} =>
            /\ inviteLock'[i] = inviteLock[i]
            /\ Usable(i) => Usable(i)'
      BY <1>12 DEF Finish, Usable
    <2>3. \A s \in Requests \ {r} : pc[s] = "admit" => req[s].user \in accounts'
      BY <1>12 DEF Finish, Claimed, ClaimedOf
    <2>4. pc'[r] = "admit" => ClaimedOf(r)'
      BY <1>12 DEF Finish
    <2>5. QED BY <2>1, <2>2, <2>3, <2>4, ClaimedFrame
  <1>13. ASSUME NEW r \in Requests, ReadMembership(r) PROVE Claimed'
    <2>1. \A s \in Requests \ {r} : pc'[s] = pc[s] /\ req'[s] = req[s]
      BY <1>13 DEF ReadMembership
    <2>2. \A i \in Ids : inviteLock[i] \notin {r, None} =>
            /\ inviteLock'[i] = inviteLock[i]
            /\ Usable(i) => Usable(i)'
      BY <1>13 DEF ReadMembership, Usable
    <2>3. \A s \in Requests \ {r} : pc[s] = "admit" => req[s].user \in accounts'
      BY <1>13 DEF ReadMembership, Claimed, ClaimedOf
    <2>4. pc'[r] = "admit" => ClaimedOf(r)'
      BY <1>13 DEF ReadMembership
    <2>5. QED BY <2>1, <2>2, <2>3, <2>4, ClaimedFrame
  <1>14. ASSUME NEW r \in Requests, Leave(r) PROVE Claimed'
    <2>1. \A s \in Requests \ {r} : pc'[s] = pc[s] /\ req'[s] = req[s]
      BY <1>14 DEF Leave
    <2>2. \A i \in Ids : inviteLock[i] \notin {r, None} =>
            /\ inviteLock'[i] = inviteLock[i]
            /\ Usable(i) => Usable(i)'
      BY <1>14 DEF Leave, Usable
    <2>3. \A s \in Requests \ {r} : pc[s] = "admit" => req[s].user \in accounts'
      BY <1>14 DEF Leave, Claimed, ClaimedOf
    <2>4. pc'[r] = "admit" => ClaimedOf(r)'
      BY <1>14 DEF Leave
    <2>5. QED BY <2>1, <2>2, <2>3, <2>4, ClaimedFrame
  <1>15. ASSUME NEW r \in Requests, CheckOwns(r) PROVE Claimed'
    <2>1. \A s \in Requests \ {r} : pc'[s] = pc[s] /\ req'[s] = req[s]
      BY <1>15 DEF CheckOwns
    <2>2. \A i \in Ids : inviteLock[i] \notin {r, None} =>
            /\ inviteLock'[i] = inviteLock[i]
            /\ Usable(i) => Usable(i)'
      BY <1>15 DEF CheckOwns, Usable
    <2>3. \A s \in Requests \ {r} : pc[s] = "admit" => req[s].user \in accounts'
      BY <1>15 DEF CheckOwns, Claimed, ClaimedOf
    <2>4. pc'[r] = "admit" => ClaimedOf(r)'
      BY <1>15 DEF CheckOwns
    <2>5. QED BY <2>1, <2>2, <2>3, <2>4, ClaimedFrame
  <1>16. ASSUME NEW r \in Requests, Erase(r) PROVE Claimed'
    <2>1. \A s \in Requests \ {r} : pc'[s] = pc[s] /\ req'[s] = req[s]
      BY <1>16 DEF Erase
    <2>2. \A i \in Ids : inviteLock[i] \notin {r, None} =>
            /\ inviteLock'[i] = inviteLock[i]
            /\ Usable(i) => Usable(i)'
      BY <1>16 DEF Erase, Usable, EraseInvitations
    <2>3. \A s \in Requests \ {r} : pc[s] = "admit" => req[s].user \in accounts'
      BY <1>16 DEF Erase, Claimed, ClaimedOf
    <2>4. pc'[r] = "admit" => ClaimedOf(r)'
      BY <1>16 DEF Erase
    <2>5. QED BY <2>1, <2>2, <2>3, <2>4, ClaimedFrame
  <1>17. ASSUME NEW r \in Requests, FindCode(r) PROVE Claimed'
    <2>1. \A s \in Requests \ {r} : pc'[s] = pc[s] /\ req'[s] = req[s]
      BY <1>17 DEF FindCode
    <2>2. \A i \in Ids : inviteLock[i] \notin {r, None} =>
            /\ inviteLock'[i] = inviteLock[i]
            /\ Usable(i) => Usable(i)'
      BY <1>17 DEF FindCode, Usable
    <2>3. \A s \in Requests \ {r} : pc[s] = "admit" => req[s].user \in accounts'
      BY <1>17 DEF FindCode, Claimed, ClaimedOf
    <2>4. pc'[r] = "admit" => ClaimedOf(r)'
      BY <1>17 DEF FindCode
    <2>5. QED BY <2>1, <2>2, <2>3, <2>4, ClaimedFrame
  <1>18. ASSUME NEW r \in Requests, Consume(r) PROVE Claimed'
    <2>1. \A s \in Requests \ {r} : pc'[s] = pc[s] /\ req'[s] = req[s]
      BY <1>18 DEF Consume
    <2>2. \A i \in Ids : inviteLock[i] \notin {r, None} =>
            /\ inviteLock'[i] = inviteLock[i]
            /\ Usable(i) => Usable(i)'
      BY <1>18 DEF Consume, Usable
    <2>3. \A s \in Requests \ {r} : pc[s] = "admit" => req[s].user \in accounts'
      BY <1>18 DEF Consume, Claimed, ClaimedOf
    <2>4. pc'[r] = "admit" => ClaimedOf(r)'
      BY <1>18 DEF Consume, ClaimedOf, Usable, Asked, AskedOf, StageOf, OnIds
    <2>5. QED BY <2>1, <2>2, <2>3, <2>4, ClaimedFrame
  <1>19. ASSUME NEW r \in Requests, Admit(r) PROVE Claimed'
    <2>1. \A s \in Requests \ {r} : pc'[s] = pc[s] /\ req'[s] = req[s]
      BY <1>19 DEF Admit
    <2>2. \A i \in Ids : inviteLock[i] \notin {r, None} =>
            /\ inviteLock'[i] = inviteLock[i]
            /\ Usable(i) => Usable(i)'
      BY <1>19 DEF Admit, Usable, Asked, AskedOf, StageOf, Claimed, ClaimedOf, OnIds
    <2>3. \A s \in Requests \ {r} : pc[s] = "admit" => req[s].user \in accounts'
      BY <1>19 DEF Admit, Claimed, ClaimedOf
    <2>4. pc'[r] = "admit" => ClaimedOf(r)'
      BY <1>19 DEF Admit
    <2>5. QED BY <2>1, <2>2, <2>3, <2>4, ClaimedFrame
  <1>20. ASSUME NEW r \in Requests, Refresh(r) PROVE Claimed'
    <2>1. \A s \in Requests \ {r} : pc'[s] = pc[s] /\ req'[s] = req[s]
      BY <1>20 DEF Refresh
    <2>2. \A i \in Ids : inviteLock[i] \notin {r, None} =>
            /\ inviteLock'[i] = inviteLock[i]
            /\ Usable(i) => Usable(i)'
      BY <1>20 DEF Refresh, Usable
    <2>3. \A s \in Requests \ {r} : pc[s] = "admit" => req[s].user \in accounts'
      BY <1>20 DEF Refresh, Claimed, ClaimedOf
    <2>4. pc'[r] = "admit" => ClaimedOf(r)'
      BY <1>20 DEF Refresh
    <2>5. QED BY <2>1, <2>2, <2>3, <2>4, ClaimedFrame
  <1>21. ASSUME NEW r \in Requests, Crash(r) PROVE Claimed'
    <2>1. \A s \in Requests \ {r} : pc'[s] = pc[s] /\ req'[s] = req[s]
      BY <1>21 DEF Crash
    <2>2. \A i \in Ids : inviteLock[i] \notin {r, None} =>
            /\ inviteLock'[i] = inviteLock[i]
            /\ Usable(i) => Usable(i)'
      BY <1>21 DEF Crash, Usable
    <2>3. \A s \in Requests \ {r} : pc[s] = "admit" => req[s].user \in accounts'
      BY <1>21 DEF Crash, Claimed, ClaimedOf
    <2>4. pc'[r] = "admit" => ClaimedOf(r)'
      BY <1>21 DEF Crash
    <2>5. QED BY <2>1, <2>2, <2>3, <2>4, ClaimedFrame
  <1>22. ASSUME NEW i \in Ids, Expire(i) PROVE Claimed'
    BY <1>22 DEF Expire, Claimed, ClaimedOf, Usable, Invitation
  <1>23. CASE UNCHANGED vars
    BY <1>23 DEF vars, Claimed, ClaimedOf, Usable
  <1>24. QED
    BY <1>1, <1>2, <1>3, <1>4, <1>5, <1>6, <1>7, <1>8, <1>9, <1>10, <1>11, <1>12, <1>13, <1>14,
       <1>15, <1>16, <1>17, <1>18, <1>19, <1>20, <1>21, <1>22, <1>23 DEF Next, Handle

-----------------------------------------------------------------------------
(* Nobody waits for ever.  The requests that hold something and wait are   *)
(* ordered: by kind, and within lock_for_users by the row waited for.      *)

LEMMA LastOfUsers ==
  ASSUME NEW T, T \subseteq Users, T # {}
  PROVE  \E m \in T : \A t \in T : t <= m
  <1> DEFINE Above(t) == {x \in T : t < x}
             All == {Above(t) : t \in T}
  <1>1. T \subseteq Nat /\ IsFiniteSet(T)
    BY UsersAssumption, FS_Subset
  <1>2. IsWellFoundedOn(StrictSubsetOrdering(T), SUBSET T)
    BY <1>1, FS_StrictSubsetOrderingWellFounded, FS_FiniteSubsetsOfFinite
  <1>3. All \subseteq SUBSET T /\ All # {}
    OBVIOUS
  <1> HIDE DEF All
  <1>4. PICK A \in All : \A B \in All : ~(<<B, A>> \in StrictSubsetOrdering(T))
    BY <1>2, <1>3, WFMin
  <1>5. PICK m \in T : A = Above(m)
    BY <1>4 DEF All
  <1>6. \A t \in T : ~(m < t)
    <2> SUFFICES ASSUME NEW t \in T, m < t PROVE FALSE
      OBVIOUS
    <2>1. m \in Nat /\ t \in Nat
      BY <1>1
    <2>2. Above(t) \subseteq A /\ t \in A /\ t \notin Above(t)
      <3>1. \A x \in T : x \in Nat /\ (t < x => m < x) /\ ~(t < t)
        BY <1>1, <2>1
      <3>2. QED BY <1>5, <3>1
    <2>3. Above(t) \in All /\ A \in SUBSET T /\ Above(t) \in SUBSET T
      BY <1>3, <1>4 DEF All
    <2>4. <<Above(t), A>> \in StrictSubsetOrdering(T)
      BY <2>2, <2>3 DEF StrictSubsetOrdering
    <2>5. QED BY <1>4, <2>3, <2>4
  <1>7. QED BY <1>1, <1>6

Locking == {"members", "household", "commit", "revoke"}

(* The row whose lock r waits for in lock_for_users.                       *)
FirstToLock(r, u) == u \in RowsToLock(r) /\ \A v \in RowsToLock(r) : u <= v

LEMMA HolderOf ==
  ASSUME IInv, NEW q \in Requests
  PROVE  /\ \A u \in Users : memberLock[u] = q => pc[q] \in Locking
         /\ householdLock = q => At(q, "commit", "start")
         /\ \A i \in Ids : inviteLock[i] = q => pc[q] = "admit"
  BY SentinelAssumption DEF IInv, Locks, Locking, Ids

LEMMA Waiting ==
  ASSUME IInv, NEW r \in Requests, NEW q \in Requests, WaitsFor(r, q)
  PROVE  /\ pc[q] \in Locking \union {"admit"}
         /\ pc[r] = "members" => \E u \in Users : FirstToLock(r, u) /\ memberLock[u] = q
         /\ pc[r] \in {"household", "admit", "commit"} =>
              ~At(r, "commit", "start") /\ At(q, "commit", "start")
         /\ pc[r] \in {"revoke", "consume"} => pc[q] = "admit"
  <1>1. AskedOf(r) /\ pc[r] # "idle"
    BY DEF WaitsFor, IInv, Asked
  <1>2. req[r].user \in Users /\ WantedRows(r) \subseteq Users
    BY <1>1, WantedUsers
  <1>3. pc[r] \in {"revoke", "consume"} => req[r].target \in Ids
    BY <1>1 DEF AskedOf, StageOf, OnIds
  <1>4. CASE pc[r] = "members"
    <2>1. PICK u \in RowsToLock(r) : memberLock[u] = q /\ \A v \in RowsToLock(r) : u <= v
      BY <1>4 DEF WaitsFor
    <2>2. u \in Users /\ FirstToLock(r, u)
      BY <1>2, <2>1 DEF RowsToLock, FirstToLock
    <2>3. QED BY <1>4, <2>1, <2>2, HolderOf
  <1>5. CASE pc[r] \in {"household", "admit", "commit"}
    <2>1. householdLock = q /\ ~At(r, "commit", "start")
      BY <1>5 DEF WaitsFor, At
    <2>2. At(q, "commit", "start")
      BY <2>1, HolderOf
    <2>3. QED BY <1>5, <2>1, <2>2 DEF At, Locking
  <1>6. CASE pc[r] \in {"revoke", "consume"}
    BY <1>3, <1>6, HolderOf DEF WaitsFor
  <1>7. CASE pc[r] \in {"delete", "erase"}
    BY <1>2, <1>7, HolderOf DEF WaitsFor
  <1>8. QED BY <1>4, <1>5, <1>6, <1>7 DEF WaitsFor

LEMMA NoCircle ==
  ASSUME IInv, NEW S \in SUBSET Requests, S # {},
         \A r \in S : \E q \in S : WaitsFor(r, q)
  PROVE  FALSE
  <1>1. \A r \in S : ~At(r, "commit", "start")
    BY Waiting DEF At
  <1>2. \A r \in S : pc[r] \notin {"household", "admit", "commit"}
    BY <1>1, Waiting
  <1>3. \A r \in S : pc[r] # "revoke"
    BY <1>2, Waiting
  <1>4. \A r \in S : pc[r] \in Locking \union {"admit"} => pc[r] = "members"
    BY <1>2, <1>3 DEF Locking
  <1> DEFINE T == {u \in Users : \E r \in S : pc[r] = "members" /\ FirstToLock(r, u)}
  <1>5. \A r \in S : pc[r] = "members" =>
          \E u \in T, q \in S : FirstToLock(r, u) /\ memberLock[u] = q /\ pc[q] = "members"
    <2> SUFFICES ASSUME NEW r \in S, pc[r] = "members"
                 PROVE  \E u \in T, q \in S :
                          FirstToLock(r, u) /\ memberLock[u] = q /\ pc[q] = "members"
      OBVIOUS
    <2>1. PICK q \in S : WaitsFor(r, q)
      OBVIOUS
    <2>2. PICK u \in Users : FirstToLock(r, u) /\ memberLock[u] = q
      BY <2>1, Waiting
    <2>3. pc[q] = "members"
      BY <1>4, <2>1, Waiting
    <2>4. QED BY <2>2, <2>3
  <1>6. T # {} /\ T \subseteq Users
    <2>1. PICK r \in S, q \in S : WaitsFor(r, q)
      OBVIOUS
    <2>2. pc[q] = "members"
      BY <1>4, <2>1, Waiting
    <2>3. QED BY <1>5, <2>2
  <1>7. PICK m \in T : \A t \in T : t <= m
    BY <1>6, LastOfUsers
  <1>8. PICK r \in S : pc[r] = "members" /\ FirstToLock(r, m)
    BY <1>7
  <1>9. PICK q \in S : memberLock[m] = q /\ pc[q] = "members"
    <2>1. PICK u \in T, q \in S : FirstToLock(r, u) /\ memberLock[u] = q /\ pc[q] = "members"
      BY <1>5, <1>8
    <2>2. u <= m /\ m <= u /\ u \in Nat /\ m \in Nat
      BY <1>7, <1>8, <2>1, UsersAssumption DEF FirstToLock
    <2>3. QED BY <2>1, <2>2
  <1>10. PICK w \in T : FirstToLock(q, w)
    BY <1>5, <1>9
  <1>11. m < w
    BY <1>7, <1>9, <1>10 DEF IInv, InOrder, FirstToLock
  <1>12. QED
    BY <1>7, <1>10, <1>11, UsersAssumption

LEMMA Initially == Init => IInv
  <1> SUFFICES ASSUME Init
               PROVE  IInv
    OBVIOUS
  <1> USE SentinelAssumption, RolesAssumption DEF Init, Ids
  <1>1. TypeOK
    <2>1. PICK u \in Users :
            invitations = [i \in Ids |->
              [status |-> IF i = Seed THEN "active" ELSE "absent",
               by |-> IF i = Seed THEN u ELSE None, usedBy |-> None, expired |-> FALSE]]
      BY DEF Init
    <2>2. invitations \in [Ids -> Invitation]
      BY <2>1, Zenon DEF Invitation, InvitationStatus
    <2>3. \A i \in Ids : invitations[i].status \in {"active", "used", "revoked"}
                           => invitations[i].by \in accounts
      BY <2>1
    <2>4. members \in [Users -> Membership]
      BY DEF Membership
    <2>5. read \in [Requests -> Rows]
      BY DEF Rows
    <2>6. /\ accounts \subseteq Users /\ \A v \in Users \ accounts : members[v] = NoMember
          /\ req \in [Requests -> Calls \union {None}]
          /\ pc \in [Requests -> Stages] /\ answer \in [Requests -> Answers \union {None}]
      BY DEF Stages
    <2>7. QED
      BY <2>2, <2>3, <2>4, <2>5, <2>6 DEF TypeOK
  <1>2. Asked /\ Named /\ Fresh /\ Locks
    BY DEF Asked, Named, Fresh, Locks
  <1>6. Rowed /\ InOrder
    BY DEF Rowed, Role, InOrder
  <1>3. OneOwner /\ OneSession
    BY DEF OneOwner, OneSession, Role
  <1>4. Authorized /\ Exclusive /\ Claimed
    BY DEF Authorized, Exclusive, Claimed, At
  <1>5. QED BY <1>1, <1>2, <1>3, <1>4, <1>6 DEF IInv

LEMMA Inductive == IInv /\ [Next]_vars => IInv'
  BY TypeStep, AskedStep, NamedStep, FreshStep, RowedStep, LocksStep, InOrderStep, OwnerStep, SessionStep,
     AuthorizedStep, ExclusiveStep, ClaimedStep
     DEF IInv

LEMMA Invariance == Spec => []IInv
  BY Initially, Inductive, PTL DEF Spec

(* Every request the server accepts can be answered: locks are taken in an *)
(* order, and nobody waits for a request that has ended, so PostgreSQL's   *)
(* deadlock detector has nothing to do in households.py and                *)
(* shopping_sessions.py.                                                   *)
THEOREM NobodyIsStuck == Spec => []NobodyWaitsForEver
  <1>1. IInv => NobodyWaitsForEver
    <2> SUFFICES ASSUME IInv PROVE NobodyWaitsForEver
      OBVIOUS
    <2>1. \A r, q \in Requests : WaitsFor(r, q) => pc[q] # "done"
      BY Waiting DEF Locking
    <2>2. ~\E S \in SUBSET Requests : S # {} /\ \A r \in S : \E q \in S : WaitsFor(r, q)
      BY NoCircle
    <2>3. QED BY <2>1, <2>2 DEF NobodyWaitsForEver
  <1>2. QED BY <1>1, Invariance, PTL

(* Besides types: what belongs to a deleted account is deleted with it.    *)
THEOREM TypeCorrect == Spec => []TypeOK
  <1>1. IInv => TypeOK
    BY DEF IInv
  <1>2. QED
    BY <1>1, Invariance, PTL

(* However transfers, removals, joins, leaves, deletions and starts        *)
(* overlap, there are never two owners nor two active sessions.            *)
THEOREM AtMostOneOwnerAndSession == Spec => []OneOwnerOneSession
  <1>1. IInv => OneOwnerOneSession
    BY DEF IInv, OneOwner, OneSession, OneOwnerOneSession
  <1>2. QED
    BY <1>1, Invariance, PTL

-----------------------------------------------------------------------------
(* Only an admission gives a user a new membership row; it uses up the     *)
(* invitation that it holds since Consume found it active.                 *)
LEMMA JoinStep ==
  ASSUME IInv, [Next]_vars, NEW u \in Users, members'[u].id \notin {None, members[u].id}
  PROVE  \E i \in Ids : /\ Usable(i)
                        /\ invitations'[i].status = "used"
                        /\ invitations'[i].usedBy = u
  <1> USE SentinelAssumption DEF IInv, TypeOK
  <1>1. CASE \E r \in Requests : Admit(r)
    <2>1. PICK r \in Requests : Admit(r)
      BY <1>1
    <2>2. AskedOf(r) /\ ClaimedOf(r) /\ req[r].op = "join"
      BY <2>1 DEF Admit, Asked, Claimed, AskedOf, StageOf
    <2>3. req[r].user \in Users /\ req[r].target \in Ids
      BY <2>2 DEF AskedOf, OnIds, Calls
    <2>4. /\ members' = [members EXCEPT ![req[r].user] = [role |-> "member", id |-> r]]
          /\ invitations' = [invitations EXCEPT ![req[r].target].status = "used",
                                                ![req[r].target].usedBy = req[r].user]
      BY <2>1 DEF Admit, Answer, db
    <2>5. u = req[r].user
      BY <2>3, <2>4
    <2>6. /\ invitations'[req[r].target].status = "used"
          /\ invitations'[req[r].target].usedBy = u
      BY <2>3, <2>4, <2>5 DEF Invitation
    <2>7. QED BY <2>2, <2>3, <2>6 DEF ClaimedOf
  <1>2. CASE \E r \in Requests : Transfer(r)
    BY <1>2 DEF Transfer, Membership
  <1>3. CASE \E r \in Requests : Remove(r) \/ Leave(r) \/ Erase(r)
    BY <1>3 DEF Remove, Leave, Erase, NoMember, Membership
  <1>4. CASE UNCHANGED members
    BY <1>4
  <1>5. QED
    BY <1>1, <1>2, <1>3, <1>4, Zenon
       DEF Next, Handle, vars, Submit, LockMember, Check, Refuse, Rename, Invite, Revoke, LockHousehold,
           Start, Finish, ReadMembership, CheckOwns, FindCode, Consume, Refresh, Crash, Expire,
           Answer, db

(* join_household: a membership that was not there is inserted in the       *)
(* transaction that sets used_at of an invitation usable until then.       *)
THEOREM JoinsUseUpInvitations == Spec => JoinsConsumeInvitations
  <1>1. IInv /\ [Next]_vars =>
          [\A u \in Users : members'[u].id \notin {None, members[u].id} =>
             \E i \in Ids : /\ Usable(i)
                            /\ invitations'[i].status = "used"
                            /\ invitations'[i].usedBy = u]_db
    BY JoinStep
  <1>2. QED
    BY <1>1, Invariance, PTL DEF Spec, JoinsConsumeInvitations

-----------------------------------------------------------------------------
(* A commit is authorized by what is true when it happens, not only when   *)
(* it was checked.                                                         *)
LEMMA CommitStep ==
  ASSUME IInv, [Next]_vars, NEW r \in Requests,
         pc[r] \in {"commit", "revoke"}, req[r].op \in {"rename", "transfer", "remove", "revoke"}
  PROVE  /\ Role(req[r].user) = "owner"
         /\ req[r].op \in OnUser => Role(req[r].target) = "member"
  BY DEF IInv, Authorized, AuthorizedOf

LEMMA CreationStep ==
  ASSUME IInv, [Next]_vars, NEW r \in Requests,
         \/ invitations[r].status = "absent" /\ invitations'[r].status # "absent"
         \/ sessions[r] = "absent" /\ sessions'[r] # "absent"
  PROVE  Role(req[r].user) # "none"
  <1> USE SentinelAssumption DEF IInv, TypeOK, Ids
  <1>1. CASE \E s \in Requests : Invite(s) \/ Start(s)
    <2>1. PICK s \in Requests : Invite(s) \/ Start(s)
      BY <1>1
    <2>2. s = r
      BY <2>1 DEF Invite, Start, Invitation
    <2>3. QED
      BY <2>1, <2>2 DEF Invite, Start, At, Authorized, AuthorizedOf
  <1>2. CASE \E s \in Requests : Finish(s)
    BY <1>2 DEF Finish, At, Asked, AskedOf, OnIds
  <1>3. CASE \E s \in Requests : Revoke(s)
    <2>1. PICK s \in Requests : Revoke(s)
      BY <1>3
    <2>2. AskedOf(s) /\ req[s].op = "revoke" /\ req[s].target \in Ids
      BY <2>1 DEF Revoke, Asked, AskedOf, StageOf, OnIds
    <2>3. QED
      BY <2>1, <2>2, StatusStep DEF Revoke, AskedOf, Answer, db, Usable, InvitationStatus
  <1>4. CASE \E s \in Requests : Admit(s)
    <2>1. PICK s \in Requests : Admit(s)
      BY <1>4
    <2>2. Usable(req[s].target) /\ req[s].target \in Ids
      BY <2>1 DEF Admit, Claimed, ClaimedOf, Asked, AskedOf, StageOf, OnIds
    <2>3. QED
      BY <2>1, <2>2 DEF Admit, Answer, db, Usable, Invitation
  <1>5. CASE \E s \in Requests : Erase(s)
    <2>1. PICK s \in Requests : Erase(s)
      BY <1>5
    <2>2. req[s].user \in Users
      BY <2>1 DEF Erase, Asked, AskedOf, Calls
    <2>3. \A i \in Ids : invitations[i].status = "absent" => invitations'[i].status = "absent"
      <3>1. \A i \in Ids : \/ invitations'[i] = invitations[i]
                           \/ invitations[i].by = req[s].user
                           \/ invitations'[i] = [invitations[i] EXCEPT !.usedBy = None]
        BY <2>1 DEF Erase, EraseInvitations
      <3>2. \A i \in Ids : invitations[i].status = "absent" => invitations[i].by # req[s].user
        BY <2>2 DEF Fresh
      <3>3. \A i \in Ids : [invitations[i] EXCEPT !.usedBy = None].status = invitations[i].status
        BY DEF Invitation
      <3>4. QED BY <3>1, <3>2, <3>3
    <2>4. QED BY <2>1, <2>3 DEF Erase
  <1>6. CASE \E i \in Ids : Expire(i)
    BY <1>6 DEF Expire, Invitation
  <1>7. CASE UNCHANGED <<invitations, sessions>>
    BY <1>7
  <1>8. QED
    BY <1>1, <1>2, <1>3, <1>4, <1>5, <1>6, <1>7, Zenon
       DEF Next, Handle, vars, Submit, LockMember, Check, Refuse, Rename, Transfer, Remove,
           LockHousehold, ReadMembership, Leave, CheckOwns, FindCode, Consume, Refresh, Crash,
           Answer, db

(* _require_owner and the checks before an invitation or a session: the     *)
(* role that was read statements earlier is still the user's at the commit.*)
THEOREM CommitsAuthorized == Spec => CommitsAreAuthorized
  <1>1. IInv /\ [Next]_vars =>
          [\A r \in Requests :
             /\ (/\ pc[r] \in {"commit", "revoke"} /\ pc'[r] # pc[r] /\ db' # db
                 /\ req[r].op \in {"rename", "transfer", "remove", "revoke"})
                  => /\ Role(req[r].user) = "owner"
                     /\ (req[r].op \in OnUser => Role(req[r].target) = "member")
             /\ (\/ invitations[r].status = "absent" /\ invitations'[r].status # "absent"
                 \/ sessions[r] = "absent" /\ sessions'[r] # "absent")
                  => Role(req[r].user) # "none"]_vars
    BY CommitStep, CreationStep
  <1>2. QED
    BY <1>1, Invariance, PTL DEF Spec, CommitsAreAuthorized

-----------------------------------------------------------------------------
(* Households implements HouseholdLedger: a commit is a step of the ledger *)
(* that the requester's role allows, everything else is a stutter.         *)

(* An invitation as the ledger has it. *)
Shown(i) ==
  [status |-> invitations[i].status, by |-> invitations[i].by, usedBy |-> invitations[i].usedBy]

LEMMA Shows ==
  ASSUME NEW S, S \subseteq Ids, \A i \in Ids \ S : invitations'[i] = invitations[i]
  PROVE  \A i \in Ids \ S : Shown(i)' = Shown(i)
  BY DEF Shown

LEMMA LedgerStutters ==
  ASSUME UNCHANGED db
  PROVE  UNCHANGED Ledger!vars
  <1>1. UNCHANGED <<accounts, members, household, invitations, sessions>>
    BY DEF db
  <1>2. \A u \in Users : Role(u)' = Role(u)
    BY <1>1 DEF Role
  <1>3. QED BY <1>1, <1>2 DEF Ledger!vars

LEMMA Renames ==
  ASSUME IInv, NEW r \in Requests, Rename(r)
  PROVE  Ledger!Next
  <1>1. AskedOf(r) /\ AuthorizedOf(r) /\ req[r].op = "rename"
    BY DEF IInv, Asked, Authorized, Rename, At
  <1>2. req[r].user \in Users /\ Role(req[r].user) = "owner" /\ r \in Ids
    BY <1>1, WantedUsers DEF AuthorizedOf, Ids
  <1>3. \A u \in Users : Role(u)' = Role(u)
    BY DEF Role, Rename
  <1>4. Ledger!Rename(req[r].user, r)
    BY <1>2, <1>3 DEF Ledger!Rename, Ledger!Owner, Rename
  <1>5. QED BY <1>2, <1>4 DEF Ledger!Next

LEMMA Transfers ==
  ASSUME IInv, NEW r \in Requests, Transfer(r)
  PROVE  Ledger!Next
  <1>1. TypeOK /\ AskedOf(r) /\ AuthorizedOf(r) /\ req[r].op = "transfer"
    BY DEF IInv, Asked, Authorized, Transfer, At
  <1>2. PICK u \in Users, v \in Users : u = req[r].user /\ v = req[r].target
    BY <1>1, WantedUsers DEF OnUser
  <1>3. Role(u) = "owner" /\ Role(v) = "member" /\ u # v
    BY <1>1, <1>2 DEF AuthorizedOf, OnUser
  <1>4. \A w \in Users : Role(w)' = IF w = v THEN "owner" ELSE IF w = u THEN "member" ELSE Role(w)
    <2>1. members' = [members EXCEPT ![u].role = "member", ![v].role = "owner"]
      BY <1>2 DEF Transfer
    <2>2. members \in [Users -> Membership] /\ members[u] \in Membership /\ members[v] \in Membership
      BY <1>1 DEF TypeOK
    <2>3. \A w \in Users : members'[w] = IF w = v THEN [members[v] EXCEPT !.role = "owner"]
                                         ELSE IF w = u THEN [members[u] EXCEPT !.role = "member"]
                                         ELSE members[w]
      BY <1>3, <2>1, <2>2
    <2>4. QED BY <2>2, <2>3 DEF Role, Membership
  <1>5. UNCHANGED <<accounts, household, invitations, sessions>>
    BY DEF Transfer
  <1>6. Ledger!Transfer(u, v)
    BY <1>3, <1>4, <1>5 DEF Ledger!Transfer, Ledger!Owner
  <1>7. QED BY <1>6 DEF Ledger!Next

LEMMA Removes ==
  ASSUME IInv, NEW r \in Requests, Remove(r)
  PROVE  Ledger!Next
  <1>1. TypeOK /\ AskedOf(r) /\ AuthorizedOf(r) /\ req[r].op = "remove"
    BY DEF IInv, Asked, Authorized, Remove, At
  <1>2. PICK u \in Users, v \in Users : u = req[r].user /\ v = req[r].target
    BY <1>1, WantedUsers DEF OnUser
  <1>3. Role(u) = "owner" /\ Role(v) = "member"
    BY <1>1, <1>2 DEF AuthorizedOf, OnUser
  <1>4. \A w \in Users : Role(w)' = IF w = v THEN "none" ELSE Role(w)
    BY <1>1, <1>2 DEF TypeOK, Remove, Role, NoMember
  <1>5. UNCHANGED <<accounts, household, invitations, sessions>>
    BY DEF Remove
  <1>6. Ledger!Remove(u, v)
    BY <1>3, <1>4, <1>5 DEF Ledger!Remove, Ledger!Owner
  <1>7. QED BY <1>6 DEF Ledger!Next

LEMMA Invites ==
  ASSUME IInv, NEW r \in Requests, Invite(r)
  PROVE  Ledger!Next
  <1>1. TypeOK /\ AskedOf(r) /\ AuthorizedOf(r) /\ Named /\ pc[r] = "commit"
    BY DEF IInv, Asked, Authorized, Invite, At
  <1>2. PICK u \in Users : u = req[r].user
    BY <1>1, WantedUsers
  <1>3. r \in Ids /\ Role(u) # "none" /\ invitations[r].status = "absent"
    BY <1>1, <1>2 DEF AuthorizedOf, Named, Ids
  <1>4. \A w \in Users : Role(w)' = Role(w)
    BY DEF Role, Invite
  <1>5. \A i \in Ids : Shown(i)' = IF i = r THEN [Shown(i) EXCEPT !.status = "active", !.by = u]
                                   ELSE Shown(i)
    <2>1. invitations \in [Ids -> Invitation] /\ invitations[r] \in Invitation
      BY <1>1, <1>3 DEF TypeOK
    <2>2. invitations' = [invitations EXCEPT ![r].status = "active", ![r].by = u]
      BY <1>2 DEF Invite
    <2>3. /\ invitations'[r] = [invitations[r] EXCEPT !.status = "active", !.by = u]
          /\ \A i \in Ids \ {r} : invitations'[i] = invitations[i]
      BY <1>3, <2>1, <2>2
    <2>4. /\ invitations'[r].status = "active" /\ invitations'[r].by = u
          /\ invitations'[r].usedBy = invitations[r].usedBy
      BY <2>1, <2>3 DEF Invitation
    <2>5. QED BY <2>3, <2>4 DEF Shown
  <1>6. UNCHANGED <<accounts, household, sessions>>
    BY DEF Invite
  <1>7. Ledger!Invite(u, r)
    BY <1>3, <1>4, <1>5, <1>6 DEF Ledger!Invite, Ledger!Member, Shown
  <1>8. QED BY <1>3, <1>7 DEF Ledger!Next

LEMMA Revokes ==
  ASSUME IInv, NEW r \in Requests, Revoke(r)
  PROVE  [Ledger!Next]_(Ledger!vars)
  <1>1. TypeOK /\ AskedOf(r) /\ AuthorizedOf(r) /\ req[r].op = "revoke" /\ pc[r] = "revoke"
    BY DEF IInv, Asked, AskedOf, StageOf, Authorized, Revoke
  <1>2. PICK u \in Users : u = req[r].user
    BY <1>1, WantedUsers
  <1>3. PICK t \in Ids : t = req[r].target
    BY <1>1 DEF AskedOf, OnIds
  <1>4. Role(u) = "owner"
    BY <1>1, <1>2 DEF AuthorizedOf
  <1>5. CASE ~(Usable(t) /\ ~invitations[t].expired)
    <2>1. UNCHANGED db
      BY <1>3, <1>5 DEF Revoke, Answer
    <2>2. QED BY <2>1, LedgerStutters
  <1>6. CASE Usable(t) /\ ~invitations[t].expired
    <2>1. /\ invitations' = [invitations EXCEPT ![t].status = "revoked"]
          /\ UNCHANGED <<accounts, members, household, sessions>>
      BY <1>3, <1>6 DEF Revoke
    <2>2. \A w \in Users : Role(w)' = Role(w)
      BY <2>1 DEF Role
    <2>3. \A i \in Ids : Shown(i)' = IF i = t THEN [Shown(i) EXCEPT !.status = "revoked"] ELSE Shown(i)
      <3>1. invitations \in [Ids -> Invitation] /\ invitations[t] \in Invitation
        BY <1>1 DEF TypeOK
      <3>2. /\ invitations'[t] = [invitations[t] EXCEPT !.status = "revoked"]
            /\ \A i \in Ids \ {t} : invitations'[i] = invitations[i]
        BY <2>1, <3>1
      <3>3. /\ invitations'[t].status = "revoked" /\ invitations'[t].by = invitations[t].by
            /\ invitations'[t].usedBy = invitations[t].usedBy
        BY <3>1, <3>2 DEF Invitation
      <3>4. QED BY <3>2, <3>3 DEF Shown
    <2>4. Ledger!Revoke(u, t)
      BY <1>4, <1>6, <2>1, <2>2, <2>3 DEF Ledger!Revoke, Ledger!Owner, Shown, Usable
    <2>5. QED BY <2>4 DEF Ledger!Next
  <1>7. QED BY <1>5, <1>6

LEMMA Starts ==
  ASSUME IInv, NEW r \in Requests, Start(r)
  PROVE  Ledger!Next
  <1>1. /\ TypeOK /\ AskedOf(r) /\ AuthorizedOf(r) /\ Named /\ pc[r] = "commit"
        /\ \A s \in Ids : sessions[s] # "active"
    BY DEF IInv, Asked, Authorized, Exclusive, Start, At
  <1>2. PICK u \in Users : u = req[r].user
    BY <1>1, WantedUsers
  <1>3. r \in Ids /\ Role(u) # "none" /\ sessions[r] = "absent"
    BY <1>1, <1>2 DEF AuthorizedOf, Named, Ids
  <1>4. \A w \in Users : Role(w)' = Role(w)
    BY DEF Role, Start
  <1>5. Ledger!Start(u, r)
    BY <1>1, <1>3, <1>4 DEF Ledger!Start, Ledger!Member, Start
  <1>6. QED BY <1>3, <1>5 DEF Ledger!Next

LEMMA Finishes ==
  ASSUME IInv, NEW r \in Requests, Finish(r)
  PROVE  [Ledger!Next]_(Ledger!vars)
  <1>1. TypeOK /\ AskedOf(r) /\ AuthorizedOf(r) /\ req[r].op = "finish"
    BY DEF IInv, Asked, Authorized, Finish, At
  <1>2. PICK u \in Users : u = req[r].user
    BY <1>1, WantedUsers
  <1>3. PICK t \in Ids : t = req[r].target
    BY <1>1 DEF AskedOf, OnIds
  <1>4. /\ Role(u) # "none" /\ sessions[t] \in {"active", "completed"}
        /\ sessions' = [sessions EXCEPT ![t] = "completed"]
        /\ UNCHANGED <<accounts, members, household, invitations>>
    BY <1>1, <1>2, <1>3 DEF AuthorizedOf, AskedOf, TypeOK, Finish
  <1>5. \A w \in Users : Role(w)' = Role(w)
    BY <1>4 DEF Role
  <1>6. CASE sessions[t] = "active"
    <2>1. Ledger!Finish(u, t)
      BY <1>4, <1>5, <1>6 DEF Ledger!Finish, Ledger!Member
    <2>2. QED BY <2>1 DEF Ledger!Next
  <1>7. CASE sessions[t] = "completed"
    <2>1. UNCHANGED db
      BY <1>1, <1>4, <1>7 DEF db, TypeOK
    <2>2. QED BY <2>1, LedgerStutters
  <1>8. QED BY <1>4, <1>6, <1>7

LEMMA Leaves ==
  ASSUME IInv, NEW r \in Requests, Leave(r)
  PROVE  [Ledger!Next]_(Ledger!vars)
  <1>1. TypeOK /\ AskedOf(r)
    BY DEF IInv, Asked, Leave
  <1>2. PICK u \in Users : u = req[r].user
    BY <1>1, WantedUsers
  <1>3. UNCHANGED <<accounts, household, invitations, sessions>>
    BY DEF Leave
  <1>4. CASE members[u].id # read[r][u]
    <2>1. UNCHANGED db
      BY <1>2, <1>3, <1>4 DEF Leave, db
    <2>2. QED BY <2>1, LedgerStutters
  <1>5. CASE members[u].id = read[r][u]
    <2>1. \A w \in Users : Role(w)' = IF w = u THEN "none" ELSE Role(w)
      BY <1>1, <1>2, <1>5 DEF TypeOK, Leave, Role, NoMember
    <2>2. CASE Role(u) # "none"
      <3>1. Ledger!Leave(u)
        BY <1>3, <2>1, <2>2 DEF Ledger!Leave, Ledger!Member
      <3>2. QED BY <3>1 DEF Ledger!Next
    <2>3. CASE Role(u) = "none"
      <3>1. \A w \in Users : Role(w)' = Role(w)
        BY <2>1, <2>3
      <3>2. QED BY <1>3, <3>1 DEF Ledger!vars
    <2>4. QED BY <2>2, <2>3
  <1>6. QED BY <1>4, <1>5

LEMMA Erases ==
  ASSUME IInv, NEW r \in Requests, Erase(r)
  PROVE  Ledger!Next
  <1>1. TypeOK /\ AskedOf(r)
    BY DEF IInv, Asked, Erase
  <1>2. PICK u \in Users : u = req[r].user
    BY <1>1, WantedUsers
  <1>3. \A w \in Users : Role(w)' = IF w = u THEN "none" ELSE Role(w)
    BY <1>1, <1>2 DEF TypeOK, Erase, Role, NoMember
  <1>4. /\ accounts' = accounts \ {u} /\ invitations' = EraseInvitations(u)
        /\ UNCHANGED <<household, sessions>>
    BY <1>2 DEF Erase
  <1>5. \A i \in Ids : Shown(i)' = IF Shown(i).by = u THEN [Shown(i) EXCEPT !.status = "deleted"]
                                   ELSE IF Shown(i).usedBy = u THEN [Shown(i) EXCEPT !.usedBy = None]
                                   ELSE Shown(i)
    <2> SUFFICES ASSUME NEW i \in Ids
                 PROVE  Shown(i)' = IF Shown(i).by = u THEN [Shown(i) EXCEPT !.status = "deleted"]
                                    ELSE IF Shown(i).usedBy = u THEN [Shown(i) EXCEPT !.usedBy = None]
                                    ELSE Shown(i)
      OBVIOUS
    <2>1. invitations[i] \in Invitation
      BY <1>1 DEF TypeOK
    <2>2. invitations'[i] = IF invitations[i].by = u THEN [invitations[i] EXCEPT !.status = "deleted"]
                            ELSE IF invitations[i].usedBy = u
                                 THEN [invitations[i] EXCEPT !.usedBy = None] ELSE invitations[i]
      BY <1>4 DEF EraseInvitations
    <2>3. CASE invitations[i].by = u
      <3>1. /\ invitations'[i].status = "deleted" /\ invitations'[i].by = invitations[i].by
            /\ invitations'[i].usedBy = invitations[i].usedBy
        BY <2>1, <2>2, <2>3 DEF Invitation
      <3>2. QED BY <2>3, <3>1 DEF Shown
    <2>4. CASE invitations[i].by # u /\ invitations[i].usedBy = u
      <3>1. /\ invitations'[i].status = invitations[i].status /\ invitations'[i].by = invitations[i].by
            /\ invitations'[i].usedBy = None
        BY <2>1, <2>2, <2>4 DEF Invitation
      <3>2. QED BY <2>4, <3>1 DEF Shown
    <2>5. CASE invitations[i].by # u /\ invitations[i].usedBy # u
      BY <2>2, <2>5 DEF Shown
    <2>6. QED BY <2>3, <2>4, <2>5
  <1>6. Ledger!DeleteAccount(u)
    BY <1>3, <1>4, <1>5 DEF Ledger!DeleteAccount, Shown
  <1>7. QED BY <1>6 DEF Ledger!Next

LEMMA Joins ==
  ASSUME IInv, NEW r \in Requests, Admit(r)
  PROVE  [Ledger!Next]_(Ledger!vars)
  <1>1. TypeOK /\ AskedOf(r) /\ ClaimedOf(r) /\ req[r].op = "join"
    BY DEF IInv, Asked, AskedOf, StageOf, Claimed, Admit
  <1>2. PICK u \in Users : u = req[r].user
    BY <1>1, WantedUsers
  <1>3. PICK t \in Ids : t = req[r].target
    BY <1>1 DEF AskedOf, OnIds
  <1>4. u \in accounts /\ invitations[t].status = "active"
    BY <1>1, <1>2, <1>3 DEF ClaimedOf, Usable
  <1>5. CASE Role(u) # "none"
    <2>1. UNCHANGED db
      BY <1>2, <1>5 DEF Admit, Answer
    <2>2. QED BY <2>1, LedgerStutters
  <1>6. CASE Role(u) = "none"
    <2>1. /\ members' = [members EXCEPT ![u] = [role |-> "member", id |-> r]]
          /\ invitations' = [invitations EXCEPT ![t].status = "used", ![t].usedBy = u]
          /\ UNCHANGED <<accounts, household, sessions>>
      BY <1>2, <1>3, <1>6 DEF Admit
    <2>2. \A w \in Users : Role(w)' = IF w = u THEN "member" ELSE Role(w)
      BY <1>1, <2>1 DEF TypeOK, Role
    <2>3. \A i \in Ids : Shown(i)' = IF i = t THEN [Shown(i) EXCEPT !.status = "used", !.usedBy = u]
                                     ELSE Shown(i)
      <3>1. invitations \in [Ids -> Invitation] /\ invitations[t] \in Invitation
        BY <1>1 DEF TypeOK
      <3>2. /\ invitations'[t] = [invitations[t] EXCEPT !.status = "used", !.usedBy = u]
            /\ \A i \in Ids \ {t} : invitations'[i] = invitations[i]
        BY <2>1, <3>1
      <3>3. /\ invitations'[t].status = "used" /\ invitations'[t].by = invitations[t].by
            /\ invitations'[t].usedBy = u
        BY <3>1, <3>2 DEF Invitation
      <3>4. QED BY <3>2, <3>3 DEF Shown
    <2>4. Ledger!Join(u, t)
      BY <1>4, <1>6, <2>1, <2>2, <2>3 DEF Ledger!Join, Ledger!Member, Shown
    <2>5. QED BY <2>4 DEF Ledger!Next
  <1>7. QED BY <1>5, <1>6

LEMMA ExpiryIsNotShown ==
  ASSUME TypeOK, NEW i \in Ids, Expire(i)
  PROVE  UNCHANGED Ledger!vars
  <1>1. invitations \in [Ids -> Invitation] /\ invitations[i] \in Invitation
    BY DEF TypeOK
  <1>2. /\ invitations'[i] = [invitations[i] EXCEPT !.expired = TRUE]
        /\ \A j \in Ids \ {i} : invitations'[j] = invitations[j]
    BY <1>1 DEF Expire
  <1>3. /\ invitations'[i].status = invitations[i].status /\ invitations'[i].by = invitations[i].by
        /\ invitations'[i].usedBy = invitations[i].usedBy
    BY <1>1, <1>2 DEF Invitation
  <1>4. \A j \in Ids : Shown(j)' = Shown(j)
    BY <1>2, <1>3 DEF Shown
  <1>5. UNCHANGED <<accounts, members, household, sessions>>
    BY DEF Expire
  <1>6. \A u \in Users : Role(u)' = Role(u)
    BY <1>5 DEF Role
  <1>7. QED BY <1>4, <1>5, <1>6 DEF Ledger!vars, Shown

(* The requests to the household endpoints implement the ledger: whatever  *)
(* they read early, wait for or lose to a crash, what they commit is one   *)
(* change at a time, whole, by a user whose role allows it at that moment. *)
THEOREM LedgerIsImplemented == Spec => ImplementsLedger
  <1>1. Init => Ledger!Init
    <2> SUFFICES ASSUME Init PROVE Ledger!Init
      OBVIOUS
    <2>1. accounts = Users /\ household = Seed
          /\ sessions = [s \in Ids |-> IF s = Seed THEN "completed" ELSE "absent"]
      BY DEF Init
    <2>2. \A u \in Users : Role(u) = Roles[u]
      BY DEF Init, Role
    <2>3. [u \in Users |-> Role(u)] = Roles
      BY <2>2, RolesAssumption
    <2>4. PICK u \in Users :
            invitations = [i \in Ids |-> [status |-> IF i = Seed THEN "active" ELSE "absent",
                                          by |-> IF i = Seed THEN u ELSE None, usedBy |-> None,
                                          expired |-> FALSE]]
      BY DEF Init
    <2>5. \A i \in Ids : /\ invitations[i].status = IF i = Seed THEN "active" ELSE "absent"
                         /\ invitations[i].by = IF i = Seed THEN u ELSE None
                         /\ invitations[i].usedBy = None
      BY <2>4
    <2>6. QED BY <2>1, <2>3, <2>5 DEF Ledger!Init
  <1>2. ASSUME IInv, [Next]_vars
        PROVE  [Ledger!Next]_(Ledger!vars)
    <2>1. ASSUME NEW r \in Requests, Submit(r) \/ Crash(r) \/ LockMember(r) \/ Check(r) \/ Refuse(r)
                                     \/ LockHousehold(r) \/ ReadMembership(r) \/ CheckOwns(r)
                                     \/ FindCode(r) \/ Consume(r) \/ Refresh(r)
          PROVE  UNCHANGED db
      BY <2>1 DEF Submit, Crash, LockMember, Check, Refuse, LockHousehold, ReadMembership, CheckOwns,
                  FindCode, Consume, Refresh, Answer
    <2>2. ASSUME NEW r \in Requests, Rename(r) \/ Transfer(r) \/ Remove(r) \/ Invite(r) \/ Start(r) \/ Erase(r)
          PROVE  Ledger!Next
      BY <1>2, <2>2, Renames, Transfers, Removes, Invites, Starts, Erases
    <2>3. ASSUME NEW r \in Requests, Revoke(r) \/ Finish(r) \/ Leave(r) \/ Admit(r)
          PROVE  [Ledger!Next]_(Ledger!vars)
      BY <1>2, <2>3, Revokes, Finishes, Leaves, Joins
    <2>4. ASSUME NEW i \in Ids, Expire(i)
          PROVE  UNCHANGED Ledger!vars
      BY <1>2, <2>4, ExpiryIsNotShown DEF IInv
    <2>5. ASSUME UNCHANGED vars
          PROVE  UNCHANGED db
      BY <2>5 DEF vars, db
    <2>6. QED BY <1>2, <2>1, <2>2, <2>3, <2>4, <2>5, LedgerStutters DEF Next, Handle
  <1>3. QED BY <1>1, <1>2, Invariance, PTL DEF Spec, ImplementsLedger, Ledger!Spec

=============================================================================
