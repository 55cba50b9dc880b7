---------------------------- MODULE AuthSessions ----------------------------
(***************************************************************************)
(* Accounts and refresh tokens.                                            *)
(*                                                                         *)
(*   services/auth.py                 register, login, refresh, logout     *)
(*   repositories/auth_sessions.py    create, rotate, revoke               *)
(*   services/users.py                delete_user_account                  *)
(*   repositories/users.py            create, delete                       *)
(*                                                                         *)
(* refresh and logout look the token up without a lock; what decides is    *)
(* the conditional UPDATE that consumes it.  A rotation inserts the new    *)
(* token in the transaction that consumed the old one.                     *)
(***************************************************************************)
EXTENDS AccountData

(* Tokens and accounts that their clients have been given. *)
Known == SeedAccounts \union {r \in Requests : answer[r] = "ok"}

-----------------------------------------------------------------------------
(* register *)

EmailTaken(email) == \E u \in accounts : EmailOf(u) = email

FindEmail(r) ==
  /\ pc[r] = "idle" /\ Op(r) = "register"
  /\ IF EmailTaken(intent[r].email) THEN Answer(r, "taken") ELSE Go(r, "create")
  /\ UNCHANGED <<intent, tables, phoneVars>>

(* The unique index decides; it waits for the deletion of an equal key. *)
CreateUser(r) ==
  /\ pc[r] = "create"
  /\ ~\E u \in accounts : EmailOf(u) = intent[r].email /\ BeingDeleted(u)
  /\ IF EmailTaken(intent[r].email)
     THEN Answer(r, "taken") /\ UNCHANGED accounts
     ELSE accounts' = accounts \union {r} /\ Committed(r)
  /\ UNCHANGED <<intent, sessions, devices, phoneVars>>

-----------------------------------------------------------------------------
(* login *)

FindUser(r) ==
  /\ pc[r] = "idle" /\ Op(r) = "login"
  /\ \/ \E u \in accounts : EmailOf(u) = intent[r].email /\ GoHaving(r, "insert", u)
     \/ ~EmailTaken(intent[r].email) /\ Answer(r, "unauthorized")
  /\ UNCHANGED <<intent, tables, phoneVars>>

NewSession(u, root) == [user |-> u, root |-> root, active |-> TRUE, expired |-> FALSE]

(* Mutant of CreateSession: auth_sessions.user_id is no foreign key. *)
CreateSessionUnchecked(r) ==
  /\ pc[r] = "insert"
  /\ sessions' = [sessions EXCEPT ![r] = NewSession(seen[r], r)]
  /\ Committed(r)
  /\ UNCHANGED <<intent, accounts, devices, phoneVars>>

(* The account may be gone by now: the foreign key refuses the row.        *)
CreateSession(r) ==
  /\ pc[r] = "insert"
  /\ ~BeingDeleted(seen[r])
  /\ IF seen[r] \in accounts
     THEN sessions' = [sessions EXCEPT ![r] = NewSession(seen[r], r)] /\ Committed(r)
     ELSE Answer(r, "error") /\ UNCHANGED sessions
  /\ UNCHANGED <<intent, accounts, devices, phoneVars>>

-----------------------------------------------------------------------------
(* refresh and logout *)

Usable(row) == row # None /\ row.active /\ ~row.expired

(* The time of the request is taken before the token is read: one that     *)
(* expires later is still accepted.                                        *)
FindToRotate(r) ==
  /\ pc[r] = "idle" /\ Op(r) = "refresh"
  /\ intent[r].token \in Known
  /\ LET row == sessions[intent[r].token]
     IN  IF Usable(row) /\ row.user \in accounts
         THEN GoHaving(r, "refresh", row) ELSE Answer(r, "unauthorized")
  /\ UNCHANGED <<intent, tables, phoneVars>>

FindToRevoke(r) ==
  /\ pc[r] = "idle" /\ Op(r) = "logout"
  /\ intent[r].token \in Known
  /\ IF Usable(sessions[intent[r].token]) THEN Go(r, "logout") ELSE Answer(r, "unauthorized")
  /\ UNCHANGED <<intent, tables, phoneVars>>

(* Mutant of StillActive: the UPDATE names the row by its id only. *)
StillThere(r) == sessions[intent[r].token] # None

(* WHERE id = .. AND revoked_at IS NULL, once the row's lock is free. *)
StillActive(r) ==
  /\ sessions[intent[r].token] # None
  /\ sessions[intent[r].token].active

Revoked(token) == [sessions EXCEPT ![token].active = FALSE]

Revoke(r) ==
  /\ pc[r] = "logout"
  /\ ~LockedByOther(r, SessionRow(intent[r].token))
  /\ IF StillActive(r)
     THEN sessions' = Revoked(intent[r].token) /\ Committed(r)
     ELSE Answer(r, "unauthorized") /\ UNCHANGED sessions
  /\ UNCHANGED <<intent, accounts, devices, phoneVars>>

(* Mutant of Rotate: the token is read again instead of updated. *)
RotateUnlocked(r) ==
  /\ pc[r] = "refresh"
  /\ IF StillActive(r) THEN Go(r, "replace") ELSE Answer(r, "unauthorized")
  /\ UNCHANGED <<intent, tables, phoneVars>>

Rotate(r) ==
  /\ pc[r] = "refresh"
  /\ ~LockedByOther(r, SessionRow(intent[r].token))
  /\ IF StillActive(r)
     THEN /\ held' = [held EXCEPT ![r] = {SessionRow(intent[r].token)}]
          /\ pc' = [pc EXCEPT ![r] = "replace"]
          /\ UNCHANGED <<seen, answer>>
     ELSE Answer(r, "unauthorized")
  /\ UNCHANGED <<intent, tables, phoneVars>>

(* The account cannot be gone: its deletion waits for the row r holds. *)
Replace(r) ==
  /\ pc[r] = "replace"
  /\ ~BeingDeleted(seen[r].user)
  /\ sessions' = [Revoked(intent[r].token) EXCEPT ![r] = NewSession(seen[r].user, seen[r].root)]
  /\ Committed(r)
  /\ UNCHANGED <<intent, accounts, devices, phoneVars>>

-----------------------------------------------------------------------------
(* db.refresh after the commit: the row may be gone again. *)

NewRowIsThere(r) ==
  IF Op(r) = "register" THEN r \in accounts
  ELSE IF Op(r) = "logout" THEN sessions[intent[r].token] # None
  ELSE IF Op(r) = "enable" THEN \E d \in Ids : devices[d] # None /\ seen[r].target = d
  ELSE sessions[r] # None

Readback(r) ==
  /\ pc[r] = "readback"
  /\ Answer(r, IF NewRowIsThere(r) THEN "ok" ELSE "error")
  /\ UNCHANGED <<intent, tables, phoneVars>>

-----------------------------------------------------------------------------
(* The account is deleted: its memberships (module Households), sessions   *)
(* and devices that the ORM has loaded one by one, then the user; what     *)
(* came since goes with it by ON DELETE CASCADE.                           *)

(* A wrong password, or the owner of a household. *)
RefuseDelete(r) ==
  /\ pc[r] = "idle" /\ Op(r) = "delete"
  /\ intent[r].user \in Known
  /\ Answer(r, IF Authenticated(r) THEN "refused" ELSE "unauthorized")
  /\ UNCHANGED <<intent, tables, phoneVars>>

LoadUser(r) ==
  /\ pc[r] = "idle" /\ Op(r) = "delete"
  /\ intent[r].user \in Known
  /\ Authenticated(r)
  /\ GoHaving(r, "erase", RowsOf(intent[r].user))
  /\ UNCHANGED <<intent, tables, phoneVars>>

ToErase(r) ==
  IF pc[r] = "erase" THEN seen[r] \ held[r]
  ELSE IF pc[r] = "cascade" THEN RowsOf(intent[r].user) \ held[r]
  ELSE {}

(* A row is deleted by its id, whoever has it by now. *)
EraseRow(r) ==
  \E row \in ToErase(r) :
    /\ ~LockedByOther(r, row)
    /\ held' = [held EXCEPT ![r] = @ \union {row}]
    /\ UNCHANGED <<intent, tables, pc, seen, answer, phoneVars>>

EraseUser(r) ==
  /\ pc[r] = "erase"
  /\ ToErase(r) = {}
  /\ ~BeingDeleted(intent[r].user)
  /\ Go(r, "cascade")
  /\ UNCHANGED <<intent, tables, phoneVars>>

CommitDelete(r) ==
  /\ pc[r] = "cascade"
  /\ ToErase(r) = {}
  /\ accounts' = accounts \ {intent[r].user}
  /\ sessions' = [s \in Ids |-> IF SessionRow(s) \in held[r] THEN None ELSE sessions[s]]
  /\ devices' = [d \in Ids |-> IF DeviceRow(d) \in held[r] THEN None ELSE devices[d]]
  /\ Answer(r, "ok")
  /\ UNCHANGED <<intent, phoneVars>>

-----------------------------------------------------------------------------
(* Time passes, for a token that a request presents. *)
Expire(s) ==
  /\ \E r \in Requests : Op(r) \in {"refresh", "logout"} /\ intent[r].token = s
  /\ s \in SeedAccounts /\ sessions[s] # None
  /\ ~sessions[s].expired
  /\ sessions' = [sessions EXCEPT ![s].expired = TRUE]
  /\ UNCHANGED <<intent, accounts, devices, pc, seen, held, answer, phoneVars>>

AuthStep(r) ==
  \/ FindEmail(r) \/ CreateUser(r)
  \/ FindUser(r) \/ CreateSession(r)
  \/ FindToRotate(r) \/ FindToRevoke(r) \/ Revoke(r) \/ Rotate(r) \/ Replace(r)
  \/ Readback(r)
  \/ RefuseDelete(r) \/ LoadUser(r) \/ EraseRow(r) \/ EraseUser(r) \/ CommitDelete(r)

=============================================================================
