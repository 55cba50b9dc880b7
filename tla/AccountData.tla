----------------------------- MODULE AccountData -----------------------------
(***************************************************************************)
(* The tables behind an account, and the requests on them:                 *)
(*                                                                         *)
(*   models/user.py          accounts                                      *)
(*   models/auth_session.py  sessions: one row per refresh token           *)
(*   models/push_device.py   devices: who gets the notifications of a phone*)
(*                                                                         *)
(* Every request is one transaction at READ COMMITTED.  A row is named by  *)
(* the request that inserts it; the rows there are at the start are named  *)
(* by their account.  A refresh token is named by its session's row.       *)
(***************************************************************************)
EXTENDS Integers, FiniteSets

CONSTANTS
  SeedAccounts,  \* the accounts at the start; each is also its own e-mail
  Requests,
  Stories,       \* what is asked for, and which devices and phones there are
  Phones,
  None

Ids == SeedAccounts \union Requests

Replies == {"ok", "taken", "unauthorized", "refused", "denied", "none", "conflict", "error", "lost"}

Session == [user : Ids, root : Ids, active : BOOLEAN, expired : BOOLEAN]

Device == [user : Ids, inst : Ids, push : {"t1", "t2"}, active : BOOLEAN]

ASSUME RequestsAssumption == SeedAccounts \intersect Requests = {}
ASSUME NoneAssumption ==
  None \notin Ids \union Phones \union Replies \union Session \union Device

(* A request about a device comes from a phone; the devices there are      *)
(* belong to accounts, and no two phones share an installation id.         *)
ASSUME StoriesAssumption ==
  \A story \in Stories :
    /\ \A r \in Requests : story.intent[r].op \in {"enable", "disable"} =>
         story.intent[r].phone \in Phones
    /\ \A r \in Requests : story.intent[r].op = "enable" => story.intent[r].push \in {"t1", "t2"}
    /\ \A u \in SeedAccounts : story.devices[u] # None =>
         story.devices[u] \in Device /\ story.devices[u].user \in SeedAccounts
    /\ story.stored \in [Phones -> SeedAccounts \union {None}]
    /\ \A p, q \in Phones : story.stored[p] = story.stored[q] /\ story.stored[p] # None => p = q

VARIABLES
  intent,    \* what each request asks for
  accounts,  \* the users there are
  sessions,  \* by token: its row, or None
  devices,   \* by row: it, or None
  pc,        \* where each request is
  seen,      \* what it has read
  held,      \* the rows it has locked
  answer,    \* what its client is told: "lost" when nothing
  stored,    \* by phone: the installation id in its SecureStore
  pending,   \* by phone: the request that is creating the id, or None
  inst       \* by request: the installation it names

tables == <<accounts, sessions, devices>>
phoneVars == <<stored, pending, inst>>
vars == <<intent, tables, pc, seen, held, answer, phoneVars>>

Op(r) == intent[r].op

EmailOf(u) == IF u \in SeedAccounts THEN u ELSE intent[u].email

(* Rows as the lock manager names them. *)
SessionRow(s) == <<"session", s>>
DeviceRow(d) == <<"device", d>>

RowsOf(u) ==
  {SessionRow(s) : s \in {s \in Ids : sessions[s] # None /\ sessions[s].user = u}}
    \union {DeviceRow(d) : d \in {d \in Ids : devices[d] # None /\ devices[d].user = u}}

Init ==
  /\ accounts = SeedAccounts
  /\ sessions = [s \in Ids |-> IF s \in SeedAccounts
                   THEN [user |-> s, root |-> s, active |-> TRUE, expired |-> FALSE] ELSE None]
  /\ \E story \in Stories :
       /\ intent = story.intent
       /\ devices = [d \in Ids |-> IF d \in SeedAccounts THEN story.devices[d] ELSE None]
       /\ stored = story.stored
  /\ pc = [r \in Requests |-> "idle"]
  /\ seen = [r \in Requests |-> None]
  /\ held = [r \in Requests |-> {}]
  /\ answer = [r \in Requests |-> None]
  /\ pending = [p \in Phones |-> None]
  /\ inst = [r \in Requests |-> None]

-----------------------------------------------------------------------------
(* The end of a request frees its locks. *)

(* Mutant of Answer: an error does not roll the transaction back. *)
AnswerHolding(r, reply) ==
  /\ answer' = [answer EXCEPT ![r] = reply]
  /\ pc' = [pc EXCEPT ![r] = "done"]
  /\ UNCHANGED <<held, seen>>

Answer(r, reply) ==
  /\ answer' = [answer EXCEPT ![r] = reply]
  /\ pc' = [pc EXCEPT ![r] = "done"]
  /\ held' = [held EXCEPT ![r] = {}]
  /\ UNCHANGED seen

Go(r, stage) ==
  /\ pc' = [pc EXCEPT ![r] = stage]
  /\ UNCHANGED <<seen, held, answer>>

GoHaving(r, stage, what) ==
  /\ pc' = [pc EXCEPT ![r] = stage]
  /\ seen' = [seen EXCEPT ![r] = what]
  /\ UNCHANGED <<held, answer>>

(* The commit frees the locks; the answer follows a read of the new row. *)
Committed(r) ==
  /\ pc' = [pc EXCEPT ![r] = "readback"]
  /\ held' = [held EXCEPT ![r] = {}]
  /\ UNCHANGED <<seen, answer>>

LockedByOther(r, row) == \E q \in Requests \ {r} : row \in held[q]

(* get_current_user: the access token names an account that there still is.*)
Authenticated(r) == intent[r].user \in accounts

(* The deletion of u holds u's row: who refers to u by a foreign key waits.*)
BeingDeleted(u) == \E q \in Requests : pc[q] = "cascade" /\ intent[q].user = u

=============================================================================
