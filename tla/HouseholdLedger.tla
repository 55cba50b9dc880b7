--------------------------- MODULE HouseholdLedger ---------------------------
(***************************************************************************)
(* What the household endpoints promise, without transactions, locks or    *)
(* stale reads: one change at a time, by a user whose role allows it at    *)
(* that moment.  Only that an owner cannot leave is not promised.          *)
(***************************************************************************)
CONSTANTS
  Users,
  Ids,           \* of invitations, sessions and names of the household
  Roles, Seed, None

VARIABLES
  accounts,
  role,          \* user -> "none", "member" or "owner"
  name,          \* of the household
  invitations,   \* id -> status, by, usedBy
  sessions       \* id -> status

vars == <<accounts, role, name, invitations, sessions>>

Init ==
  /\ accounts = Users
  /\ role = Roles
  /\ name = Seed
  /\ \E u \in Users :
       invitations = [i \in Ids |-> [status |-> IF i = Seed THEN "active" ELSE "absent",
                                     by |-> IF i = Seed THEN u ELSE None, usedBy |-> None]]
  /\ sessions = [s \in Ids |-> IF s = Seed THEN "completed" ELSE "absent"]

Owner(u) == role[u] = "owner"
Member(u) == role[u] # "none"

Rename(u, n) ==
  /\ Owner(u)
  /\ name' = n
  /\ UNCHANGED <<accounts, role, invitations, sessions>>

Transfer(u, v) ==
  /\ Owner(u) /\ role[v] = "member"
  /\ role' = [role EXCEPT ![u] = "member", ![v] = "owner"]
  /\ UNCHANGED <<accounts, name, invitations, sessions>>

Remove(u, v) ==
  /\ Owner(u) /\ role[v] = "member"
  /\ role' = [role EXCEPT ![v] = "none"]
  /\ UNCHANGED <<accounts, name, invitations, sessions>>

Leave(u) ==
  /\ Member(u)
  /\ role' = [role EXCEPT ![u] = "none"]
  /\ UNCHANGED <<accounts, name, invitations, sessions>>

Invite(u, i) ==
  /\ Member(u)
  /\ invitations[i].status = "absent"
  /\ invitations' = [invitations EXCEPT ![i].status = "active", ![i].by = u]
  /\ UNCHANGED <<accounts, role, name, sessions>>

Revoke(u, i) ==
  /\ Owner(u)
  /\ invitations[i].status = "active"
  /\ invitations' = [invitations EXCEPT ![i].status = "revoked"]
  /\ UNCHANGED <<accounts, role, name, sessions>>

(* An invitation is used up once, by a user who is no member yet. *)
Join(u, i) ==
  /\ u \in accounts /\ ~Member(u)
  /\ invitations[i].status = "active"
  /\ role' = [role EXCEPT ![u] = "member"]
  /\ invitations' = [invitations EXCEPT ![i].status = "used", ![i].usedBy = u]
  /\ UNCHANGED <<accounts, name, sessions>>

Start(u, s) ==
  /\ Member(u)
  /\ sessions[s] = "absent" /\ \A t \in Ids : sessions[t] # "active"
  /\ sessions' = [sessions EXCEPT ![s] = "active"]
  /\ UNCHANGED <<accounts, role, name, invitations>>

Finish(u, s) ==
  /\ Member(u)
  /\ sessions[s] = "active"
  /\ sessions' = [sessions EXCEPT ![s] = "completed"]
  /\ UNCHANGED <<accounts, role, name, invitations>>

(* The end of an account takes its membership and its invitations along. *)
DeleteAccount(u) ==
  /\ accounts' = accounts \ {u}
  /\ role' = [role EXCEPT ![u] = "none"]
  /\ invitations' = [i \in Ids |->
       LET row == invitations[i]
       IN  IF row.by = u THEN [row EXCEPT !.status = "deleted"]
           ELSE IF row.usedBy = u THEN [row EXCEPT !.usedBy = None] ELSE row]
  /\ UNCHANGED <<name, sessions>>

Next ==
  \/ \E u \in Users, i \in Ids :
       \/ Rename(u, i) \/ Invite(u, i) \/ Revoke(u, i) \/ Join(u, i)
       \/ Start(u, i) \/ Finish(u, i)
  \/ \E u, v \in Users : Transfer(u, v) \/ Remove(u, v)
  \/ \E u \in Users : Leave(u) \/ DeleteAccount(u)

Spec == Init /\ [][Next]_vars

=============================================================================
