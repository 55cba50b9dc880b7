--------------------------- MODULE Accounts_proofs ---------------------------
(***************************************************************************)
(* Proofs about Accounts, for any number of requests, accounts and phones: *)
(* what a request has read stays true enough until it writes.              *)
(*                                                                         *)
(* Three facts carry the rest.  Locks: no two requests hold one row, and a *)
(* rotation holds the row of a token that is still active (Locks).  Origin:*)
(* a login's name is on no session before the login has inserted its own,  *)
(* so what descends from one login is one chain of tokens (Roots).  Phones:*)
(* the request that creates an installation id is the one its phone knows  *)
(* of, and nothing is stored before it is done (Creation).                 *)
(***************************************************************************)
EXTENDS Accounts, TLAPS

Stages == OnServer \union {"idle", "join", "lookup", "store", "done"}

(* The values; of seen and held only that they have one for each request.  *)
Shapes ==
  /\ accounts \subseteq Ids
  /\ sessions \in [Ids -> Session \union {None}]
  /\ devices \in [Ids -> Device \union {None}]
  /\ stored \in [Phones -> Ids \union {None}]
  /\ pending \in [Phones -> Requests \union {None}]
  /\ inst \in [Requests -> Ids \union {None}]
  /\ pc \in [Requests -> Stages]
  /\ answer \in [Requests -> Replies \union {None}]
  /\ DOMAIN seen = Requests /\ DOMAIN held = Requests

(* What a request asks for says which stages it can be in. *)
OpsAt(stage) ==
  CASE stage = "create" -> {"register"}
    [] stage = "insert" -> {"login"}
    [] stage \in {"refresh", "replace"} -> {"refresh"}
    [] stage = "logout" -> {"logout"}
    [] stage \in {"erase", "cascade"} -> {"delete"}
    [] stage \in {"join", "lookup", "store", "owner", "drop", "write"} -> {"enable"}
    [] stage = "off" -> {"disable"}
    [] stage = "api" -> {"enable", "disable"}
    [] stage = "readback" -> {"register", "login", "refresh", "logout", "enable"}
    [] OTHER -> {}

Asked ==
  \A r \in Requests :
    /\ Op(r) \in {"enable", "disable"} => PhoneOf(r) \in Phones
    /\ Op(r) = "enable" => intent[r].push \in {"t1", "t2"}
    /\ pc[r] \notin {"idle", "done"} => Op(r) \in OpsAt(pc[r])

Answered == \A r \in Requests : answer[r] = None <=> pc[r] # "done"

(* The token has been revoked by r: it is about to say so, or it has. *)
LoggedOut(r) == Op(r) = "logout" /\ (pc[r] = "readback" \/ answer[r] = "ok")

Tokens ==
  \A r \in Requests :
    /\ pc[r] = "insert" => seen[r] \in Ids
    /\ pc[r] \in {"logout", "refresh", "replace"} \/ LoggedOut(r) => intent[r].token \in Known
    /\ pc[r] \in {"refresh", "replace"} =>
         /\ seen[r] \in Session
         /\ sessions[intent[r].token] # None =>
              /\ sessions[intent[r].token].user = seen[r].user
              /\ sessions[intent[r].token].root = seen[r].root

Targets ==
  \A r \in Requests :
    /\ pc[r] = "owner" => seen[r].device \in Ids \union {None}
    /\ pc[r] \in {"drop", "write", "off"} => seen[r].target \in Ids
    /\ pc[r] = "off" => seen[r].row # None
    /\ pc[r] \in {"api", "owner", "drop", "write", "off"} => inst[r] # None

Locks ==
  /\ \A q, r \in Requests : q # r => held[q] \intersect held[r] = {}
  /\ \A r \in Requests : held[r] # {} => pc[r] \in {"replace", "erase", "cascade", "write"}

Rotating ==
  \A r \in Requests : pc[r] = "replace" =>
    /\ SessionRow(intent[r].token) \in held[r]
    /\ sessions[intent[r].token] # None
    /\ sessions[intent[r].token].active

Roots ==
  \A s \in Ids : sessions[s] # None /\ sessions[s].root \in Requests =>
    Op(sessions[s].root) = "login" /\ pc[sessions[s].root] \in {"readback", "done"}

(* Two sessions of one login. *)
Related(s, t) ==
  sessions[s] # None /\ sessions[t] # None /\ sessions[s].root = sessions[t].root

OneActive == \A s, t \in Ids : s # t /\ Related(s, t) /\ sessions[s].active => ~sessions[t].active

LogoutEnds ==
  \A r \in Requests : LoggedOut(r) =>
    \A s \in Ids : Related(s, intent[r].token) => ~sessions[s].active

Creation ==
  /\ \A p, q \in Phones : p # q /\ stored[p] # None => stored[p] # stored[q]
  /\ \A p \in Phones : stored[p] \in Requests => PhoneOf(stored[p]) = p
  /\ \A p \in Phones : pending[p] # None =>
       PhoneOf(pending[p]) = p /\ pc[pending[p]] \in {"lookup", "store"}
  /\ \A r \in Requests : pc[r] \in {"lookup", "store"} => pending[PhoneOf(r)] = r
  /\ \A r \in Requests : pc[r] = "store" => stored[PhoneOf(r)] = None

(* A rotation's or a login's row is there only once it has committed. *)
Named == \A s \in Requests : sessions[s] # None => pc[s] \in {"readback", "done"}

SameUser == \A s, t \in Ids : Related(s, t) => sessions[s].user = sessions[t].user

(* The rows that a deletion has loaded or locked. *)
Doomed(r) ==
  IF pc[r] = "erase" THEN held[r] \union seen[r] ELSE IF pc[r] = "cascade" THEN held[r] ELSE {}

(* They are the account's, or gone; nobody inserts them again. *)
Erasing ==
  \A r \in Requests : \A s \in Ids : SessionRow(s) \in Doomed(r) =>
    /\ s \in Requests => pc[s] \in {"readback", "done"}
    /\ sessions[s] # None => sessions[s].user = intent[r].user

IInv ==
  /\ Shapes /\ Asked /\ Answered /\ Tokens /\ Targets
  /\ Locks /\ Rotating
  /\ Roots /\ OneActive /\ LogoutEnds
  /\ NothingOfTheDeleted
  /\ Creation /\ OneInstallationId
  /\ Named /\ SameUser /\ Erasing

-----------------------------------------------------------------------------
LEMMA Names == Requests \subseteq Ids /\ SeedAccounts \subseteq Ids /\ None \notin Ids
  BY NoneAssumption DEF Ids

(* A request that is under way names no token that a client knows. *)
LEMMA NotYetKnown ==
  ASSUME Answered, NEW r \in Requests, pc[r] # "done"
  PROVE  r \notin Known /\ Known \subseteq Ids
  BY RequestsAssumption, NoneAssumption DEF Answered, Known, Ids, Replies

(* Nobody waits for anything when done or idle. *)

LEMMA AbortStage ==
  ASSUME NEW r \in Requests, DeadlockAbort(r)
  PROVE  pc[r] \in {"create", "insert", "logout", "refresh", "replace", "erase", "cascade",
                    "drop", "write", "off"}
  BY DEF DeadlockAbort, Deadlocked, WaitsFor, ToErase

(* A step that neither begins nor ends the creation of an installation id. *)
LEMMA CreationFrame ==
  ASSUME Shapes, Creation, UNCHANGED <<intent, stored, pending>>,
         \A q \in Requests : \/ pc'[q] = pc[q]
                             \/ pc[q] \notin {"lookup", "store"} /\ pc'[q] \notin {"lookup", "store"}
  PROVE  Creation'
  BY NoneAssumption DEF Creation, PhoneOf, Shapes

-----------------------------------------------------------------------------
LEMMA AnsweredStep ==
  ASSUME Shapes, Answered, [Next]_vars
  PROVE  Answered'
  <1> USE NoneAssumption DEF Answered, Shapes, Replies, Answer, Go, GoHaving, Committed, tables,
     phoneVars
  <1>1. ASSUME NEW r \in Requests, FindEmail(r) PROVE Answered'
    BY <1>1 DEF FindEmail
  <1>2. ASSUME NEW r \in Requests, CreateUser(r) PROVE Answered'
    BY <1>2 DEF CreateUser
  <1>3. ASSUME NEW r \in Requests, FindUser(r) PROVE Answered'
    BY <1>3 DEF FindUser
  <1>4. ASSUME NEW r \in Requests, CreateSession(r) PROVE Answered'
    BY <1>4 DEF CreateSession
  <1>5. ASSUME NEW r \in Requests, FindToRotate(r) PROVE Answered'
    BY <1>5 DEF FindToRotate
  <1>6. ASSUME NEW r \in Requests, FindToRevoke(r) PROVE Answered'
    BY <1>6 DEF FindToRevoke
  <1>7. ASSUME NEW r \in Requests, Revoke(r) PROVE Answered'
    BY <1>7 DEF Revoke, Revoked
  <1>8. ASSUME NEW r \in Requests, Rotate(r) PROVE Answered'
    BY <1>8 DEF Rotate
  <1>9. ASSUME NEW r \in Requests, Replace(r) PROVE Answered'
    BY <1>9 DEF Replace, Revoked
  <1>10. ASSUME NEW r \in Requests, Readback(r) PROVE Answered'
    BY <1>10 DEF Readback
  <1>11. ASSUME NEW r \in Requests, RefuseDelete(r) PROVE Answered'
    BY <1>11 DEF RefuseDelete
  <1>12. ASSUME NEW r \in Requests, LoadUser(r) PROVE Answered'
    BY <1>12 DEF LoadUser
  <1>13. ASSUME NEW r \in Requests, EraseRow(r) PROVE Answered'
    BY <1>13 DEF EraseRow, ToErase
  <1>14. ASSUME NEW r \in Requests, EraseUser(r) PROVE Answered'
    BY <1>14 DEF EraseUser
  <1>15. ASSUME NEW r \in Requests, CommitDelete(r) PROVE Answered'
    BY <1>15 DEF CommitDelete, ToErase
  <1>16. ASSUME NEW r \in Requests, DenyPermission(r) PROVE Answered'
    BY <1>16 DEF DenyPermission
  <1>17. ASSUME NEW r \in Requests, GetOrCreate(r) PROVE Answered'
    BY <1>17 DEF GetOrCreate
  <1>18. ASSUME NEW r \in Requests, LookUpId(r) PROVE Answered'
    BY <1>18 DEF LookUpId, Resolve, Waiters
  <1>19. ASSUME NEW r \in Requests, StoreId(r) PROVE Answered'
    BY <1>19 DEF StoreId, Resolve, Waiters
  <1>20. ASSUME NEW r \in Requests, StoreFails(r) PROVE Answered'
    BY <1>20 DEF StoreFails, Waiters
  <1>21. ASSUME NEW r \in Requests, GetExisting(r) PROVE Answered'
    BY <1>21 DEF GetExisting
  <1>22. ASSUME NEW r \in Requests, Unauthorized(r) PROVE Answered'
    BY <1>22 DEF Unauthorized
  <1>23. ASSUME NEW r \in Requests, FindDevice(r) PROVE Answered'
    BY <1>23 DEF FindDevice
  <1>24. ASSUME NEW r \in Requests, FindTokenOwner(r) PROVE Answered'
    BY <1>24 DEF FindTokenOwner
  <1>25. ASSUME NEW r \in Requests, DropOwner(r) PROVE Answered'
    BY <1>25 DEF DropOwner
  <1>26. ASSUME NEW r \in Requests, WriteDevice(r) PROVE Answered'
    BY <1>26 DEF WriteDevice
  <1>27. ASSUME NEW r \in Requests, FindOwnDevice(r) PROVE Answered'
    BY <1>27 DEF FindOwnDevice
  <1>28. ASSUME NEW r \in Requests, SwitchOff(r) PROVE Answered'
    BY <1>28 DEF SwitchOff
  <1>29. ASSUME NEW r \in Requests, DeadlockAbort(r) PROVE Answered'
    <2>1. pc[r] \notin {"idle", "join", "lookup", "store", "readback", "api", "owner", "done"}
      BY <1>29, AbortStage
    <2>2. QED BY <1>29, <2>1 DEF DeadlockAbort
  <1>30. ASSUME NEW r \in Requests, Crash(r) PROVE Answered'
    BY <1>30 DEF Crash, OnServer
  <1>31. ASSUME NEW s \in Ids, Expire(s) PROVE Answered'
    BY <1>31 DEF Expire
  <1>32. CASE UNCHANGED vars
    BY <1>32 DEF vars
  <1>33. QED
    BY <1>1, <1>2, <1>3, <1>4, <1>5, <1>6, <1>7, <1>8, <1>9, <1>10, <1>11, <1>12, <1>13, <1>14,
       <1>15, <1>16, <1>17, <1>18, <1>19, <1>20, <1>21, <1>22, <1>23, <1>24, <1>25, <1>26, <1>27,
       <1>28, <1>29, <1>30, <1>31, <1>32 DEF Next, Handle, AuthStep, PushStep

LEMMA AskedStep ==
  ASSUME Shapes, Asked, [Next]_vars
  PROVE  Asked'
  <1> USE DEF Asked, Shapes, OpsAt, Op, PhoneOf, Answer, Go, GoHaving, Committed, tables, phoneVars
  <1>1. ASSUME NEW r \in Requests, FindEmail(r) PROVE Asked'
    BY <1>1 DEF FindEmail
  <1>2. ASSUME NEW r \in Requests, CreateUser(r) PROVE Asked'
    BY <1>2 DEF CreateUser
  <1>3. ASSUME NEW r \in Requests, FindUser(r) PROVE Asked'
    BY <1>3 DEF FindUser
  <1>4. ASSUME NEW r \in Requests, CreateSession(r) PROVE Asked'
    BY <1>4 DEF CreateSession
  <1>5. ASSUME NEW r \in Requests, FindToRotate(r) PROVE Asked'
    BY <1>5 DEF FindToRotate
  <1>6. ASSUME NEW r \in Requests, FindToRevoke(r) PROVE Asked'
    BY <1>6 DEF FindToRevoke
  <1>7. ASSUME NEW r \in Requests, Revoke(r) PROVE Asked'
    BY <1>7 DEF Revoke, Revoked
  <1>8. ASSUME NEW r \in Requests, Rotate(r) PROVE Asked'
    BY <1>8 DEF Rotate
  <1>9. ASSUME NEW r \in Requests, Replace(r) PROVE Asked'
    BY <1>9 DEF Replace, Revoked
  <1>10. ASSUME NEW r \in Requests, Readback(r) PROVE Asked'
    BY <1>10 DEF Readback
  <1>11. ASSUME NEW r \in Requests, RefuseDelete(r) PROVE Asked'
    BY <1>11 DEF RefuseDelete
  <1>12. ASSUME NEW r \in Requests, LoadUser(r) PROVE Asked'
    BY <1>12 DEF LoadUser
  <1>13. ASSUME NEW r \in Requests, EraseRow(r) PROVE Asked'
    BY <1>13 DEF EraseRow, ToErase
  <1>14. ASSUME NEW r \in Requests, EraseUser(r) PROVE Asked'
    BY <1>14 DEF EraseUser
  <1>15. ASSUME NEW r \in Requests, CommitDelete(r) PROVE Asked'
    BY <1>15 DEF CommitDelete
  <1>16. ASSUME NEW r \in Requests, DenyPermission(r) PROVE Asked'
    BY <1>16 DEF DenyPermission
  <1>17. ASSUME NEW r \in Requests, GetOrCreate(r) PROVE Asked'
    BY <1>17 DEF GetOrCreate
  <1>18. ASSUME NEW r \in Requests, LookUpId(r) PROVE Asked'
    BY <1>18 DEF LookUpId, Resolve, Waiters
  <1>19. ASSUME NEW r \in Requests, StoreId(r) PROVE Asked'
    BY <1>19 DEF StoreId, Resolve, Waiters
  <1>20. ASSUME NEW r \in Requests, StoreFails(r) PROVE Asked'
    BY <1>20 DEF StoreFails, Waiters
  <1>21. ASSUME NEW r \in Requests, GetExisting(r) PROVE Asked'
    BY <1>21 DEF GetExisting
  <1>22. ASSUME NEW r \in Requests, Unauthorized(r) PROVE Asked'
    BY <1>22 DEF Unauthorized
  <1>23. ASSUME NEW r \in Requests, FindDevice(r) PROVE Asked'
    BY <1>23 DEF FindDevice
  <1>24. ASSUME NEW r \in Requests, FindTokenOwner(r) PROVE Asked'
    BY <1>24 DEF FindTokenOwner
  <1>25. ASSUME NEW r \in Requests, DropOwner(r) PROVE Asked'
    BY <1>25 DEF DropOwner
  <1>26. ASSUME NEW r \in Requests, WriteDevice(r) PROVE Asked'
    BY <1>26 DEF WriteDevice
  <1>27. ASSUME NEW r \in Requests, FindOwnDevice(r) PROVE Asked'
    BY <1>27 DEF FindOwnDevice
  <1>28. ASSUME NEW r \in Requests, SwitchOff(r) PROVE Asked'
    BY <1>28 DEF SwitchOff
  <1>29. ASSUME NEW r \in Requests, DeadlockAbort(r) PROVE Asked'
    <2>1. pc[r] \notin {"idle", "join", "lookup", "store", "readback", "api", "owner", "done"}
      BY <1>29, AbortStage
    <2>2. QED BY <1>29, <2>1 DEF DeadlockAbort
  <1>30. ASSUME NEW r \in Requests, Crash(r) PROVE Asked'
    BY <1>30 DEF Crash, OnServer
  <1>31. ASSUME NEW s \in Ids, Expire(s) PROVE Asked'
    BY <1>31 DEF Expire
  <1>32. CASE UNCHANGED vars
    BY <1>32 DEF vars
  <1>33. QED
    BY <1>1, <1>2, <1>3, <1>4, <1>5, <1>6, <1>7, <1>8, <1>9, <1>10, <1>11, <1>12, <1>13, <1>14,
       <1>15, <1>16, <1>17, <1>18, <1>19, <1>20, <1>21, <1>22, <1>23, <1>24, <1>25, <1>26, <1>27,
       <1>28, <1>29, <1>30, <1>31, <1>32 DEF Next, Handle, AuthStep, PushStep

LEMMA CreationStep ==
  ASSUME Shapes, Asked, Creation, [Next]_vars
  PROVE  Creation'
  <1> USE NoneAssumption, RequestsAssumption DEF Shapes, PhoneOf, Answer, Go, GoHaving, Committed,
     tables, phoneVars
  <1>1. ASSUME NEW r \in Requests, FindEmail(r) PROVE Creation'
    <2>1. UNCHANGED <<intent, stored, pending>>
      BY <1>1 DEF FindEmail
    <2>2. \A q \in Requests : \/ pc'[q] = pc[q]
                              \/ /\ pc[q] \notin {"lookup", "store"}
                                 /\ pc'[q] \notin {"lookup", "store"}
      BY <1>1 DEF FindEmail
    <2>3. QED BY ONLY <2>1, <2>2, Shapes, Creation, CreationFrame
  <1>2. ASSUME NEW r \in Requests, CreateUser(r) PROVE Creation'
    <2>1. UNCHANGED <<intent, stored, pending>>
      BY <1>2 DEF CreateUser
    <2>2. \A q \in Requests : \/ pc'[q] = pc[q]
                              \/ /\ pc[q] \notin {"lookup", "store"}
                                 /\ pc'[q] \notin {"lookup", "store"}
      BY <1>2 DEF CreateUser
    <2>3. QED BY ONLY <2>1, <2>2, Shapes, Creation, CreationFrame
  <1>3. ASSUME NEW r \in Requests, FindUser(r) PROVE Creation'
    <2>1. UNCHANGED <<intent, stored, pending>>
      BY <1>3 DEF FindUser
    <2>2. \A q \in Requests : \/ pc'[q] = pc[q]
                              \/ /\ pc[q] \notin {"lookup", "store"}
                                 /\ pc'[q] \notin {"lookup", "store"}
      BY <1>3 DEF FindUser
    <2>3. QED BY ONLY <2>1, <2>2, Shapes, Creation, CreationFrame
  <1>4. ASSUME NEW r \in Requests, CreateSession(r) PROVE Creation'
    <2>1. UNCHANGED <<intent, stored, pending>>
      BY <1>4 DEF CreateSession
    <2>2. \A q \in Requests : \/ pc'[q] = pc[q]
                              \/ /\ pc[q] \notin {"lookup", "store"}
                                 /\ pc'[q] \notin {"lookup", "store"}
      BY <1>4 DEF CreateSession
    <2>3. QED BY ONLY <2>1, <2>2, Shapes, Creation, CreationFrame
  <1>5. ASSUME NEW r \in Requests, FindToRotate(r) PROVE Creation'
    <2>1. UNCHANGED <<intent, stored, pending>>
      BY <1>5 DEF FindToRotate
    <2>2. \A q \in Requests : \/ pc'[q] = pc[q]
                              \/ /\ pc[q] \notin {"lookup", "store"}
                                 /\ pc'[q] \notin {"lookup", "store"}
      BY <1>5 DEF FindToRotate
    <2>3. QED BY ONLY <2>1, <2>2, Shapes, Creation, CreationFrame
  <1>6. ASSUME NEW r \in Requests, FindToRevoke(r) PROVE Creation'
    <2>1. UNCHANGED <<intent, stored, pending>>
      BY <1>6 DEF FindToRevoke
    <2>2. \A q \in Requests : \/ pc'[q] = pc[q]
                              \/ /\ pc[q] \notin {"lookup", "store"}
                                 /\ pc'[q] \notin {"lookup", "store"}
      BY <1>6 DEF FindToRevoke
    <2>3. QED BY ONLY <2>1, <2>2, Shapes, Creation, CreationFrame
  <1>7. ASSUME NEW r \in Requests, Revoke(r) PROVE Creation'
    <2>1. UNCHANGED <<intent, stored, pending>>
      BY <1>7 DEF Revoke, Revoked
    <2>2. \A q \in Requests : \/ pc'[q] = pc[q]
                              \/ /\ pc[q] \notin {"lookup", "store"}
                                 /\ pc'[q] \notin {"lookup", "store"}
      BY <1>7 DEF Revoke, Revoked
    <2>3. QED BY ONLY <2>1, <2>2, Shapes, Creation, CreationFrame
  <1>8. ASSUME NEW r \in Requests, Rotate(r) PROVE Creation'
    <2>1. UNCHANGED <<intent, stored, pending>>
      BY <1>8 DEF Rotate
    <2>2. \A q \in Requests : \/ pc'[q] = pc[q]
                              \/ /\ pc[q] \notin {"lookup", "store"}
                                 /\ pc'[q] \notin {"lookup", "store"}
      BY <1>8 DEF Rotate
    <2>3. QED BY ONLY <2>1, <2>2, Shapes, Creation, CreationFrame
  <1>9. ASSUME NEW r \in Requests, Replace(r) PROVE Creation'
    <2>1. UNCHANGED <<intent, stored, pending>>
      BY <1>9 DEF Replace, Revoked
    <2>2. \A q \in Requests : \/ pc'[q] = pc[q]
                              \/ /\ pc[q] \notin {"lookup", "store"}
                                 /\ pc'[q] \notin {"lookup", "store"}
      BY <1>9 DEF Replace, Revoked
    <2>3. QED BY ONLY <2>1, <2>2, Shapes, Creation, CreationFrame
  <1>10. ASSUME NEW r \in Requests, Readback(r) PROVE Creation'
    <2>1. UNCHANGED <<intent, stored, pending>>
      BY <1>10 DEF Readback
    <2>2. \A q \in Requests : \/ pc'[q] = pc[q]
                              \/ /\ pc[q] \notin {"lookup", "store"}
                                 /\ pc'[q] \notin {"lookup", "store"}
      BY <1>10 DEF Readback
    <2>3. QED BY ONLY <2>1, <2>2, Shapes, Creation, CreationFrame
  <1>11. ASSUME NEW r \in Requests, RefuseDelete(r) PROVE Creation'
    <2>1. UNCHANGED <<intent, stored, pending>>
      BY <1>11 DEF RefuseDelete
    <2>2. \A q \in Requests : \/ pc'[q] = pc[q]
                              \/ /\ pc[q] \notin {"lookup", "store"}
                                 /\ pc'[q] \notin {"lookup", "store"}
      BY <1>11 DEF RefuseDelete
    <2>3. QED BY ONLY <2>1, <2>2, Shapes, Creation, CreationFrame
  <1>12. ASSUME NEW r \in Requests, LoadUser(r) PROVE Creation'
    <2>1. UNCHANGED <<intent, stored, pending>>
      BY <1>12 DEF LoadUser
    <2>2. \A q \in Requests : \/ pc'[q] = pc[q]
                              \/ /\ pc[q] \notin {"lookup", "store"}
                                 /\ pc'[q] \notin {"lookup", "store"}
      BY <1>12 DEF LoadUser
    <2>3. QED BY ONLY <2>1, <2>2, Shapes, Creation, CreationFrame
  <1>13. ASSUME NEW r \in Requests, EraseRow(r) PROVE Creation'
    <2>1. UNCHANGED <<intent, stored, pending>>
      BY <1>13 DEF EraseRow, ToErase
    <2>2. \A q \in Requests : \/ pc'[q] = pc[q]
                              \/ /\ pc[q] \notin {"lookup", "store"}
                                 /\ pc'[q] \notin {"lookup", "store"}
      BY <1>13 DEF EraseRow, ToErase
    <2>3. QED BY ONLY <2>1, <2>2, Shapes, Creation, CreationFrame
  <1>14. ASSUME NEW r \in Requests, EraseUser(r) PROVE Creation'
    <2>1. UNCHANGED <<intent, stored, pending>>
      BY <1>14 DEF EraseUser
    <2>2. \A q \in Requests : \/ pc'[q] = pc[q]
                              \/ /\ pc[q] \notin {"lookup", "store"}
                                 /\ pc'[q] \notin {"lookup", "store"}
      BY <1>14 DEF EraseUser
    <2>3. QED BY ONLY <2>1, <2>2, Shapes, Creation, CreationFrame
  <1>15. ASSUME NEW r \in Requests, CommitDelete(r) PROVE Creation'
    <2>1. UNCHANGED <<intent, stored, pending>>
      BY <1>15 DEF CommitDelete
    <2>2. \A q \in Requests : \/ pc'[q] = pc[q]
                              \/ /\ pc[q] \notin {"lookup", "store"}
                                 /\ pc'[q] \notin {"lookup", "store"}
      BY <1>15 DEF CommitDelete
    <2>3. QED BY ONLY <2>1, <2>2, Shapes, Creation, CreationFrame
  <1>16. ASSUME NEW r \in Requests, DenyPermission(r) PROVE Creation'
    <2>1. UNCHANGED <<intent, stored, pending>>
      BY <1>16 DEF DenyPermission
    <2>2. \A q \in Requests : \/ pc'[q] = pc[q]
                              \/ /\ pc[q] \notin {"lookup", "store"}
                                 /\ pc'[q] \notin {"lookup", "store"}
      BY <1>16 DEF DenyPermission
    <2>3. QED BY ONLY <2>1, <2>2, Shapes, Creation, CreationFrame
  <1>17. ASSUME NEW r \in Requests, GetOrCreate(r) PROVE Creation'
    <2>1. Op(r) = "enable" /\ PhoneOf(r) \in Phones /\ pc[r] = "idle"
      BY <1>17 DEF GetOrCreate, Asked
    <2>2. CASE JoinPending(r)
      <3>1. UNCHANGED <<intent, stored, pending>>
        BY <1>17, <2>2 DEF GetOrCreate
      <3>2. \A q \in Requests : \/ pc'[q] = pc[q]
                                \/ /\ pc[q] \notin {"lookup", "store"}
                                   /\ pc'[q] \notin {"lookup", "store"}
        BY <1>17, <2>2 DEF GetOrCreate
      <3>3. QED BY ONLY <3>1, <3>2, Shapes, Creation, CreationFrame
    <2>3. CASE ~JoinPending(r)
      <3>1. /\ pc' = [pc EXCEPT ![r] = "lookup"] /\ pending' = [pending EXCEPT ![PhoneOf(r)] = r]
            /\ pending[PhoneOf(r)] = None /\ UNCHANGED <<intent, stored>>
        BY <1>17, <2>3 DEF GetOrCreate, JoinPending
      <3>2. \A q \in Requests : PhoneOf(q)' = PhoneOf(q)
        BY <3>1
      <3>3. \A p \in Phones : \/ p = PhoneOf(r) /\ pending'[p] = r
                              \/ p # PhoneOf(r) /\ pending'[p] = pending[p] /\ pending[p] # r
        BY <2>1, <3>1, Names DEF Creation
      <3>4. \A q \in Requests \ {r} : pc'[q] = pc[q]
        BY <3>1
      <3>5. \A q \in Requests \ {r} : pc[q] \in {"lookup", "store"} => PhoneOf(q) # PhoneOf(r)
        BY <3>1, Names DEF Creation
      <3>6. QED BY <2>1, <3>1, <3>2, <3>3, <3>4, <3>5 DEF Creation, Asked
    <2>4. QED BY <2>2, <2>3
  <1>18. ASSUME NEW r \in Requests, LookUpId(r) PROVE Creation'
    BY <1>18 DEF LookUpId, Resolve, Waiters, PhoneOf, Creation, Asked, Op, OpsAt
  <1>19. ASSUME NEW r \in Requests, StoreId(r) PROVE Creation'
    BY <1>19 DEF StoreId, Resolve, Waiters, PhoneOf, Creation, Asked, Op, OpsAt
  <1>20. ASSUME NEW r \in Requests, StoreFails(r) PROVE Creation'
    BY <1>20 DEF StoreFails, Waiters, PhoneOf, Creation, Asked, Op, OpsAt
  <1>21. ASSUME NEW r \in Requests, GetExisting(r) PROVE Creation'
    <2>1. UNCHANGED <<intent, stored, pending>>
      BY <1>21 DEF GetExisting
    <2>2. \A q \in Requests : \/ pc'[q] = pc[q]
                              \/ /\ pc[q] \notin {"lookup", "store"}
                                 /\ pc'[q] \notin {"lookup", "store"}
      BY <1>21 DEF GetExisting
    <2>3. QED BY ONLY <2>1, <2>2, Shapes, Creation, CreationFrame
  <1>22. ASSUME NEW r \in Requests, Unauthorized(r) PROVE Creation'
    <2>1. UNCHANGED <<intent, stored, pending>>
      BY <1>22 DEF Unauthorized
    <2>2. \A q \in Requests : \/ pc'[q] = pc[q]
                              \/ /\ pc[q] \notin {"lookup", "store"}
                                 /\ pc'[q] \notin {"lookup", "store"}
      BY <1>22 DEF Unauthorized
    <2>3. QED BY ONLY <2>1, <2>2, Shapes, Creation, CreationFrame
  <1>23. ASSUME NEW r \in Requests, FindDevice(r) PROVE Creation'
    <2>1. UNCHANGED <<intent, stored, pending>>
      BY <1>23 DEF FindDevice
    <2>2. \A q \in Requests : \/ pc'[q] = pc[q]
                              \/ /\ pc[q] \notin {"lookup", "store"}
                                 /\ pc'[q] \notin {"lookup", "store"}
      BY <1>23 DEF FindDevice
    <2>3. QED BY ONLY <2>1, <2>2, Shapes, Creation, CreationFrame
  <1>24. ASSUME NEW r \in Requests, FindTokenOwner(r) PROVE Creation'
    <2>1. UNCHANGED <<intent, stored, pending>>
      BY <1>24 DEF FindTokenOwner
    <2>2. \A q \in Requests : \/ pc'[q] = pc[q]
                              \/ /\ pc[q] \notin {"lookup", "store"}
                                 /\ pc'[q] \notin {"lookup", "store"}
      BY <1>24 DEF FindTokenOwner
    <2>3. QED BY ONLY <2>1, <2>2, Shapes, Creation, CreationFrame
  <1>25. ASSUME NEW r \in Requests, DropOwner(r) PROVE Creation'
    <2>1. UNCHANGED <<intent, stored, pending>>
      BY <1>25 DEF DropOwner
    <2>2. \A q \in Requests : \/ pc'[q] = pc[q]
                              \/ /\ pc[q] \notin {"lookup", "store"}
                                 /\ pc'[q] \notin {"lookup", "store"}
      BY <1>25 DEF DropOwner
    <2>3. QED BY ONLY <2>1, <2>2, Shapes, Creation, CreationFrame
  <1>26. ASSUME NEW r \in Requests, WriteDevice(r) PROVE Creation'
    <2>1. UNCHANGED <<intent, stored, pending>>
      BY <1>26 DEF WriteDevice
    <2>2. \A q \in Requests : \/ pc'[q] = pc[q]
                              \/ /\ pc[q] \notin {"lookup", "store"}
                                 /\ pc'[q] \notin {"lookup", "store"}
      BY <1>26 DEF WriteDevice
    <2>3. QED BY ONLY <2>1, <2>2, Shapes, Creation, CreationFrame
  <1>27. ASSUME NEW r \in Requests, FindOwnDevice(r) PROVE Creation'
    <2>1. UNCHANGED <<intent, stored, pending>>
      BY <1>27 DEF FindOwnDevice
    <2>2. \A q \in Requests : \/ pc'[q] = pc[q]
                              \/ /\ pc[q] \notin {"lookup", "store"}
                                 /\ pc'[q] \notin {"lookup", "store"}
      BY <1>27 DEF FindOwnDevice
    <2>3. QED BY ONLY <2>1, <2>2, Shapes, Creation, CreationFrame
  <1>28. ASSUME NEW r \in Requests, SwitchOff(r) PROVE Creation'
    <2>1. UNCHANGED <<intent, stored, pending>>
      BY <1>28 DEF SwitchOff
    <2>2. \A q \in Requests : \/ pc'[q] = pc[q]
                              \/ /\ pc[q] \notin {"lookup", "store"}
                                 /\ pc'[q] \notin {"lookup", "store"}
      BY <1>28 DEF SwitchOff
    <2>3. QED BY ONLY <2>1, <2>2, Shapes, Creation, CreationFrame
  <1>29. ASSUME NEW r \in Requests, DeadlockAbort(r) PROVE Creation'
    <2>1. UNCHANGED <<intent, stored, pending>>
      BY <1>29 DEF DeadlockAbort
    <2>2. \A q \in Requests : \/ pc'[q] = pc[q]
                              \/ /\ pc[q] \notin {"lookup", "store"}
                                 /\ pc'[q] \notin {"lookup", "store"}
      BY <1>29, AbortStage DEF DeadlockAbort
    <2>3. QED BY ONLY <2>1, <2>2, Shapes, Creation, CreationFrame
  <1>30. ASSUME NEW r \in Requests, Crash(r) PROVE Creation'
    <2>1. UNCHANGED <<intent, stored, pending>>
      BY <1>30 DEF Crash, OnServer
    <2>2. \A q \in Requests : \/ pc'[q] = pc[q]
                              \/ /\ pc[q] \notin {"lookup", "store"}
                                 /\ pc'[q] \notin {"lookup", "store"}
      BY <1>30 DEF Crash, OnServer
    <2>3. QED BY ONLY <2>1, <2>2, Shapes, Creation, CreationFrame
  <1>31. ASSUME NEW s \in Ids, Expire(s) PROVE Creation'
    <2>1. UNCHANGED <<intent, stored, pending>>
      BY <1>31 DEF Expire
    <2>2. \A q \in Requests : \/ pc'[q] = pc[q]
                              \/ /\ pc[q] \notin {"lookup", "store"}
                                 /\ pc'[q] \notin {"lookup", "store"}
      BY <1>31 DEF Expire
    <2>3. QED BY ONLY <2>1, <2>2, Shapes, Creation, CreationFrame
  <1>32. CASE UNCHANGED vars
    BY <1>32 DEF vars, Creation
  <1>33. QED
    BY <1>1, <1>2, <1>3, <1>4, <1>5, <1>6, <1>7, <1>8, <1>9, <1>10, <1>11, <1>12, <1>13, <1>14,
       <1>15, <1>16, <1>17, <1>18, <1>19, <1>20, <1>21, <1>22, <1>23, <1>24, <1>25, <1>26, <1>27,
       <1>28, <1>29, <1>30, <1>31, <1>32 DEF Next, Handle, AuthStep, PushStep

LEMMA LocksStep ==
  ASSUME Shapes, Locks, [Next]_vars
  PROVE  Locks'
  <1> USE Names DEF Shapes, LockedByOther, Locks, Answer, Go, GoHaving, Committed, tables, phoneVars
  <1>1. ASSUME NEW r \in Requests, FindEmail(r) PROVE Locks'
    BY <1>1 DEF FindEmail
  <1>2. ASSUME NEW r \in Requests, CreateUser(r) PROVE Locks'
    BY <1>2 DEF CreateUser
  <1>3. ASSUME NEW r \in Requests, FindUser(r) PROVE Locks'
    BY <1>3 DEF FindUser
  <1>4. ASSUME NEW r \in Requests, CreateSession(r) PROVE Locks'
    BY <1>4 DEF CreateSession
  <1>5. ASSUME NEW r \in Requests, FindToRotate(r) PROVE Locks'
    BY <1>5 DEF FindToRotate
  <1>6. ASSUME NEW r \in Requests, FindToRevoke(r) PROVE Locks'
    BY <1>6 DEF FindToRevoke
  <1>7. ASSUME NEW r \in Requests, Revoke(r) PROVE Locks'
    BY <1>7 DEF Revoke, Revoked
  <1>8. ASSUME NEW r \in Requests, Rotate(r) PROVE Locks'
    BY <1>8 DEF Rotate
  <1>9. ASSUME NEW r \in Requests, Replace(r) PROVE Locks'
    BY <1>9 DEF Replace, Revoked
  <1>10. ASSUME NEW r \in Requests, Readback(r) PROVE Locks'
    BY <1>10 DEF Readback
  <1>11. ASSUME NEW r \in Requests, RefuseDelete(r) PROVE Locks'
    BY <1>11 DEF RefuseDelete
  <1>12. ASSUME NEW r \in Requests, LoadUser(r) PROVE Locks'
    BY <1>12 DEF LoadUser
  <1>13. ASSUME NEW r \in Requests, EraseRow(r) PROVE Locks'
    BY <1>13 DEF EraseRow, ToErase
  <1>14. ASSUME NEW r \in Requests, EraseUser(r) PROVE Locks'
    BY <1>14 DEF EraseUser
  <1>15. ASSUME NEW r \in Requests, CommitDelete(r) PROVE Locks'
    BY <1>15 DEF CommitDelete
  <1>16. ASSUME NEW r \in Requests, DenyPermission(r) PROVE Locks'
    BY <1>16 DEF DenyPermission
  <1>17. ASSUME NEW r \in Requests, GetOrCreate(r) PROVE Locks'
    BY <1>17 DEF GetOrCreate
  <1>18. ASSUME NEW r \in Requests, LookUpId(r) PROVE Locks'
    BY <1>18 DEF LookUpId, Resolve, Waiters
  <1>19. ASSUME NEW r \in Requests, StoreId(r) PROVE Locks'
    BY <1>19 DEF StoreId, Resolve, Waiters
  <1>20. ASSUME NEW r \in Requests, StoreFails(r) PROVE Locks'
    BY <1>20 DEF StoreFails, Waiters
  <1>21. ASSUME NEW r \in Requests, GetExisting(r) PROVE Locks'
    BY <1>21 DEF GetExisting
  <1>22. ASSUME NEW r \in Requests, Unauthorized(r) PROVE Locks'
    BY <1>22 DEF Unauthorized
  <1>23. ASSUME NEW r \in Requests, FindDevice(r) PROVE Locks'
    BY <1>23 DEF FindDevice
  <1>24. ASSUME NEW r \in Requests, FindTokenOwner(r) PROVE Locks'
    BY <1>24 DEF FindTokenOwner
  <1>25. ASSUME NEW r \in Requests, DropOwner(r) PROVE Locks'
    BY <1>25 DEF DropOwner, DeviceRow
  <1>26. ASSUME NEW r \in Requests, WriteDevice(r) PROVE Locks'
    BY <1>26 DEF WriteDevice
  <1>27. ASSUME NEW r \in Requests, FindOwnDevice(r) PROVE Locks'
    BY <1>27 DEF FindOwnDevice
  <1>28. ASSUME NEW r \in Requests, SwitchOff(r) PROVE Locks'
    BY <1>28 DEF SwitchOff
  <1>29. ASSUME NEW r \in Requests, DeadlockAbort(r) PROVE Locks'
    BY <1>29 DEF DeadlockAbort
  <1>30. ASSUME NEW r \in Requests, Crash(r) PROVE Locks'
    BY <1>30 DEF Crash, OnServer
  <1>31. ASSUME NEW s \in Ids, Expire(s) PROVE Locks'
    BY <1>31 DEF Expire
  <1>32. CASE UNCHANGED vars
    BY <1>32 DEF vars
  <1>33. QED
    BY <1>1, <1>2, <1>3, <1>4, <1>5, <1>6, <1>7, <1>8, <1>9, <1>10, <1>11, <1>12, <1>13, <1>14,
       <1>15, <1>16, <1>17, <1>18, <1>19, <1>20, <1>21, <1>22, <1>23, <1>24, <1>25, <1>26, <1>27,
       <1>28, <1>29, <1>30, <1>31, <1>32 DEF Next, Handle, AuthStep, PushStep

LEMMA RotatingStep ==
  ASSUME Shapes, Answered, Tokens, Locks, Rotating, [Next]_vars
  PROVE  Rotating'
  <1> USE Names DEF Shapes, Answer, Go, GoHaving, Committed, tables, phoneVars
  <1>1. ASSUME NEW r \in Requests, FindEmail(r) PROVE Rotating'
    BY <1>1 DEF FindEmail, Rotating
  <1>2. ASSUME NEW r \in Requests, CreateUser(r) PROVE Rotating'
    BY <1>2 DEF CreateUser, Rotating
  <1>3. ASSUME NEW r \in Requests, FindUser(r) PROVE Rotating'
    BY <1>3 DEF FindUser, Rotating
  <1>4. ASSUME NEW r \in Requests, CreateSession(r) PROVE Rotating'
    <2>1. SUFFICES ASSUME NEW q \in Requests, pc'[q] = "replace"
                   PROVE  (/\ SessionRow(intent[q].token) \in held[q]
                           /\ sessions[intent[q].token] # None
                           /\ sessions[intent[q].token].active)'
      BY DEF Rotating
    <2>0. pc \in [Requests -> Stages] /\ DOMAIN held = Requests
      OBVIOUS
    <2>2. pc[q] = "replace" /\ q # r /\ UNCHANGED <<intent, held[q]>>
      BY ONLY <1>4, <2>0, <2>1 DEF CreateSession, Answer, Committed
    <2>3. /\ SessionRow(intent[q].token) \in held[q] /\ sessions[intent[q].token] # None
          /\ sessions[intent[q].token].active /\ intent[q].token \in Known
      BY <2>2 DEF Rotating, Tokens
    <2>4. r \notin Known /\ Known \subseteq Ids
      BY <1>4, NotYetKnown DEF CreateSession
    <2>5. sessions'[intent[q].token] = sessions[intent[q].token]
      BY <1>4, <2>3, <2>4 DEF CreateSession
    <2>6. QED BY <2>2, <2>3, <2>5
  <1>5. ASSUME NEW r \in Requests, FindToRotate(r) PROVE Rotating'
    BY <1>5 DEF FindToRotate, Rotating
  <1>6. ASSUME NEW r \in Requests, FindToRevoke(r) PROVE Rotating'
    BY <1>6 DEF FindToRevoke, Rotating
  <1>7. ASSUME NEW r \in Requests, Revoke(r) PROVE Rotating'
    <2>1. SUFFICES ASSUME NEW q \in Requests, pc'[q] = "replace"
                   PROVE  (/\ SessionRow(intent[q].token) \in held[q]
                           /\ sessions[intent[q].token] # None
                           /\ sessions[intent[q].token].active)'
      BY DEF Rotating
    <2>0. pc \in [Requests -> Stages] /\ DOMAIN held = Requests
      OBVIOUS
    <2>2. pc[q] = "replace" /\ q # r /\ UNCHANGED <<intent, held[q]>>
      BY ONLY <1>7, <2>0, <2>1 DEF Revoke, Answer, Committed
    <2>3. /\ SessionRow(intent[q].token) \in held[q] /\ sessions[intent[q].token] # None
          /\ sessions[intent[q].token].active /\ intent[q].token \in Known
      BY <2>2 DEF Rotating, Tokens
    <2>4. r \notin Known /\ Known \subseteq Ids
      BY <1>7, NotYetKnown DEF Revoke
    <2>a. intent[q].token # intent[r].token
      BY <1>7, <2>2, <2>3 DEF Revoke, LockedByOther
    <2>5. sessions'[intent[q].token] = sessions[intent[q].token]
      BY <1>7, <2>3, <2>4, <2>a DEF Revoke, Revoked
    <2>6. QED BY <2>2, <2>3, <2>5
  <1>8. ASSUME NEW r \in Requests, Rotate(r) PROVE Rotating'
    BY <1>8 DEF Rotate, Rotating, StillActive
  <1>9. ASSUME NEW r \in Requests, Replace(r) PROVE Rotating'
    <2>1. SUFFICES ASSUME NEW q \in Requests, pc'[q] = "replace"
                   PROVE  (/\ SessionRow(intent[q].token) \in held[q]
                           /\ sessions[intent[q].token] # None
                           /\ sessions[intent[q].token].active)'
      BY DEF Rotating
    <2>0. pc \in [Requests -> Stages] /\ DOMAIN held = Requests
      OBVIOUS
    <2>2. pc[q] = "replace" /\ q # r /\ UNCHANGED <<intent, held[q]>>
      BY ONLY <1>9, <2>0, <2>1 DEF Replace, Answer, Committed
    <2>3. /\ SessionRow(intent[q].token) \in held[q] /\ sessions[intent[q].token] # None
          /\ sessions[intent[q].token].active /\ intent[q].token \in Known
      BY <2>2 DEF Rotating, Tokens
    <2>4. r \notin Known /\ Known \subseteq Ids
      BY <1>9, NotYetKnown DEF Replace
    <2>a. intent[q].token # intent[r].token
      <3>1. SessionRow(intent[r].token) \in held[r]
        BY <1>9 DEF Replace, Rotating
      <3>2. QED BY <2>2, <2>3, <3>1 DEF Locks
    <2>5. sessions'[intent[q].token] = sessions[intent[q].token]
      BY <1>9, <2>3, <2>4, <2>a DEF Replace, Revoked
    <2>6. QED BY <2>2, <2>3, <2>5
  <1>10. ASSUME NEW r \in Requests, Readback(r) PROVE Rotating'
    BY <1>10 DEF Readback, Rotating
  <1>11. ASSUME NEW r \in Requests, RefuseDelete(r) PROVE Rotating'
    BY <1>11 DEF RefuseDelete, Rotating
  <1>12. ASSUME NEW r \in Requests, LoadUser(r) PROVE Rotating'
    BY <1>12 DEF LoadUser, Rotating
  <1>13. ASSUME NEW r \in Requests, EraseRow(r) PROVE Rotating'
    BY <1>13 DEF EraseRow, ToErase, Rotating
  <1>14. ASSUME NEW r \in Requests, EraseUser(r) PROVE Rotating'
    BY <1>14 DEF EraseUser, Rotating
  <1>15. ASSUME NEW r \in Requests, CommitDelete(r) PROVE Rotating'
    <2>1. SUFFICES ASSUME NEW q \in Requests, pc'[q] = "replace"
                   PROVE  (/\ SessionRow(intent[q].token) \in held[q]
                           /\ sessions[intent[q].token] # None
                           /\ sessions[intent[q].token].active)'
      BY DEF Rotating
    <2>0. pc \in [Requests -> Stages] /\ DOMAIN held = Requests
      OBVIOUS
    <2>2. pc[q] = "replace" /\ q # r /\ UNCHANGED <<intent, held[q]>>
      BY ONLY <1>15, <2>0, <2>1 DEF CommitDelete, Answer, Committed
    <2>3. /\ SessionRow(intent[q].token) \in held[q] /\ sessions[intent[q].token] # None
          /\ sessions[intent[q].token].active /\ intent[q].token \in Known
      BY <2>2 DEF Rotating, Tokens
    <2>4. r \notin Known /\ Known \subseteq Ids
      BY <1>15, NotYetKnown DEF CommitDelete
    <2>a. SessionRow(intent[q].token) \notin held[r]
      BY <2>2, <2>3 DEF Locks
    <2>5. sessions'[intent[q].token] = sessions[intent[q].token]
      BY <1>15, <2>3, <2>4, <2>a DEF CommitDelete
    <2>6. QED BY <2>2, <2>3, <2>5
  <1>16. ASSUME NEW r \in Requests, DenyPermission(r) PROVE Rotating'
    BY <1>16 DEF DenyPermission, Rotating
  <1>17. ASSUME NEW r \in Requests, GetOrCreate(r) PROVE Rotating'
    BY <1>17 DEF GetOrCreate, Rotating
  <1>18. ASSUME NEW r \in Requests, LookUpId(r) PROVE Rotating'
    BY <1>18 DEF LookUpId, Resolve, Waiters, Rotating
  <1>19. ASSUME NEW r \in Requests, StoreId(r) PROVE Rotating'
    BY <1>19 DEF StoreId, Resolve, Waiters, Rotating
  <1>20. ASSUME NEW r \in Requests, StoreFails(r) PROVE Rotating'
    BY <1>20 DEF StoreFails, Waiters, Rotating
  <1>21. ASSUME NEW r \in Requests, GetExisting(r) PROVE Rotating'
    BY <1>21 DEF GetExisting, Rotating
  <1>22. ASSUME NEW r \in Requests, Unauthorized(r) PROVE Rotating'
    BY <1>22 DEF Unauthorized, Rotating
  <1>23. ASSUME NEW r \in Requests, FindDevice(r) PROVE Rotating'
    BY <1>23 DEF FindDevice, Rotating
  <1>24. ASSUME NEW r \in Requests, FindTokenOwner(r) PROVE Rotating'
    BY <1>24 DEF FindTokenOwner, Rotating
  <1>25. ASSUME NEW r \in Requests, DropOwner(r) PROVE Rotating'
    BY <1>25 DEF DropOwner, Rotating
  <1>26. ASSUME NEW r \in Requests, WriteDevice(r) PROVE Rotating'
    BY <1>26 DEF WriteDevice, Rotating
  <1>27. ASSUME NEW r \in Requests, FindOwnDevice(r) PROVE Rotating'
    BY <1>27 DEF FindOwnDevice, Rotating
  <1>28. ASSUME NEW r \in Requests, SwitchOff(r) PROVE Rotating'
    BY <1>28 DEF SwitchOff, Rotating
  <1>29. ASSUME NEW r \in Requests, DeadlockAbort(r) PROVE Rotating'
    BY <1>29 DEF DeadlockAbort, Rotating
  <1>30. ASSUME NEW r \in Requests, Crash(r) PROVE Rotating'
    BY <1>30 DEF Crash, OnServer, Rotating
  <1>31. ASSUME NEW s \in Ids, Expire(s) PROVE Rotating'
    <2>1. \A t \in Ids : \/ sessions'[t] = sessions[t]
                         \/ /\ sessions[t] # None
                            /\ sessions'[t] = [sessions[t] EXCEPT !.expired = TRUE]
      BY <1>31 DEF Expire
    <2>2. \A t \in Ids : sessions[t] # None => sessions'[t] # None /\ sessions'[t].active = sessions[t].active
      <3>1. SUFFICES ASSUME NEW t \in Ids, sessions[t] # None, sessions'[t] # sessions[t]
                     PROVE  sessions'[t] # None /\ sessions'[t].active = sessions[t].active
        BY Zenon
      <3>2. sessions[t] \in Session
        BY <3>1
      <3>3. sessions'[t] = [sessions[t] EXCEPT !.expired = TRUE]
        BY <2>1, <3>1
      <3>4. sessions'[t] \in Session /\ sessions'[t].active = sessions[t].active
        BY ONLY <3>2, <3>3 DEF Session
      <3>5. QED BY <3>4, NoneAssumption
    <2>3. QED BY <1>31, <2>2, NotYetKnown DEF Expire, Rotating, Tokens
  <1>32. CASE UNCHANGED vars
    BY <1>32 DEF vars, Rotating
  <1>33. QED
    BY <1>1, <1>2, <1>3, <1>4, <1>5, <1>6, <1>7, <1>8, <1>9, <1>10, <1>11, <1>12, <1>13, <1>14,
       <1>15, <1>16, <1>17, <1>18, <1>19, <1>20, <1>21, <1>22, <1>23, <1>24, <1>25, <1>26, <1>27,
       <1>28, <1>29, <1>30, <1>31, <1>32 DEF Next, Handle, AuthStep, PushStep

-----------------------------------------------------------------------------
(* What a step does to the requests and to the sessions. *)

GoesForward ==
  /\ UNCHANGED intent
  /\ \A q \in Requests : /\ pc[q] \in {"readback", "done"} => pc'[q] \in {"readback", "done"}
                         /\ answer[q] = "ok" => answer'[q] = "ok"

LEMMA ForwardStep ==
  ASSUME Shapes, Answered, [Next]_vars
  PROVE  GoesForward
  <1> USE NoneAssumption DEF GoesForward, Answer, Go, GoHaving, Committed, tables, phoneVars
  <1>1. ASSUME NEW r \in Requests, FindEmail(r) PROVE GoesForward
    BY <1>1 DEF FindEmail, Answered, Shapes, Replies
  <1>2. ASSUME NEW r \in Requests, CreateUser(r) PROVE GoesForward
    BY <1>2 DEF CreateUser, Answered, Shapes, Replies
  <1>3. ASSUME NEW r \in Requests, FindUser(r) PROVE GoesForward
    BY <1>3 DEF FindUser, Answered, Shapes, Replies
  <1>4. ASSUME NEW r \in Requests, CreateSession(r) PROVE GoesForward
    BY <1>4 DEF CreateSession, Answered, Shapes, Replies
  <1>5. ASSUME NEW r \in Requests, FindToRotate(r) PROVE GoesForward
    BY <1>5 DEF FindToRotate, Answered, Shapes, Replies
  <1>6. ASSUME NEW r \in Requests, FindToRevoke(r) PROVE GoesForward
    BY <1>6 DEF FindToRevoke, Answered, Shapes, Replies
  <1>7. ASSUME NEW r \in Requests, Revoke(r) PROVE GoesForward
    BY <1>7 DEF Revoke, Revoked, Answered, Shapes, Replies
  <1>8. ASSUME NEW r \in Requests, Rotate(r) PROVE GoesForward
    BY <1>8 DEF Rotate, Answered, Shapes, Replies
  <1>9. ASSUME NEW r \in Requests, Replace(r) PROVE GoesForward
    BY <1>9 DEF Replace, Revoked, Answered, Shapes, Replies
  <1>10. ASSUME NEW r \in Requests, Readback(r) PROVE GoesForward
    BY <1>10 DEF Readback, Answered, Shapes, Replies
  <1>11. ASSUME NEW r \in Requests, RefuseDelete(r) PROVE GoesForward
    BY <1>11 DEF RefuseDelete, Answered, Shapes, Replies
  <1>12. ASSUME NEW r \in Requests, LoadUser(r) PROVE GoesForward
    BY <1>12 DEF LoadUser, Answered, Shapes, Replies
  <1>13. ASSUME NEW r \in Requests, EraseRow(r) PROVE GoesForward
    BY <1>13 DEF EraseRow, ToErase, Shapes
  <1>14. ASSUME NEW r \in Requests, EraseUser(r) PROVE GoesForward
    BY <1>14 DEF EraseUser, Answered, Shapes, Replies
  <1>15. ASSUME NEW r \in Requests, CommitDelete(r) PROVE GoesForward
    BY <1>15 DEF CommitDelete, ToErase, Answered, Shapes, Replies
  <1>16. ASSUME NEW r \in Requests, DenyPermission(r) PROVE GoesForward
    BY <1>16 DEF DenyPermission, Answered, Shapes, Replies
  <1>17. ASSUME NEW r \in Requests, GetOrCreate(r) PROVE GoesForward
    BY <1>17 DEF GetOrCreate, Answered, Shapes, Replies
  <1>18. ASSUME NEW r \in Requests, LookUpId(r) PROVE GoesForward
    BY <1>18 DEF LookUpId, Resolve, Waiters, Answered, Shapes, Replies
  <1>19. ASSUME NEW r \in Requests, StoreId(r) PROVE GoesForward
    BY <1>19 DEF StoreId, Resolve, Waiters, Answered, Shapes, Replies
  <1>20. ASSUME NEW r \in Requests, StoreFails(r) PROVE GoesForward
    BY <1>20 DEF StoreFails, Waiters, Answered, Shapes, Replies
  <1>21. ASSUME NEW r \in Requests, GetExisting(r) PROVE GoesForward
    BY <1>21 DEF GetExisting, Answered, Shapes, Replies
  <1>22. ASSUME NEW r \in Requests, Unauthorized(r) PROVE GoesForward
    BY <1>22 DEF Unauthorized, Answered, Shapes, Replies
  <1>23. ASSUME NEW r \in Requests, FindDevice(r) PROVE GoesForward
    BY <1>23 DEF FindDevice, Answered, Shapes, Replies
  <1>24. ASSUME NEW r \in Requests, FindTokenOwner(r) PROVE GoesForward
    BY <1>24 DEF FindTokenOwner, Answered, Shapes, Replies
  <1>25. ASSUME NEW r \in Requests, DropOwner(r) PROVE GoesForward
    BY <1>25 DEF DropOwner, Answered, Shapes, Replies
  <1>26. ASSUME NEW r \in Requests, WriteDevice(r) PROVE GoesForward
    BY <1>26 DEF WriteDevice, Answered, Shapes, Replies
  <1>27. ASSUME NEW r \in Requests, FindOwnDevice(r) PROVE GoesForward
    BY <1>27 DEF FindOwnDevice, Answered, Shapes, Replies
  <1>28. ASSUME NEW r \in Requests, SwitchOff(r) PROVE GoesForward
    BY <1>28 DEF SwitchOff, Answered, Shapes, Replies
  <1>29. ASSUME NEW r \in Requests, DeadlockAbort(r) PROVE GoesForward
    <2>1. pc[r] \notin {"readback", "done"}
      BY <1>29, AbortStage
    <2>2. answer[r] # "ok"
      BY <2>1 DEF Answered, Replies
    <2>3. QED BY <1>29, <2>1, <2>2 DEF DeadlockAbort
  <1>30. ASSUME NEW r \in Requests, Crash(r) PROVE GoesForward
    BY <1>30 DEF Crash, OnServer, Answered, Shapes, Replies
  <1>31. ASSUME NEW s \in Ids, Expire(s) PROVE GoesForward
    BY <1>31 DEF Expire
  <1>32. CASE UNCHANGED vars
    BY <1>32 DEF vars
  <1>33. QED
    BY <1>1, <1>2, <1>3, <1>4, <1>5, <1>6, <1>7, <1>8, <1>9, <1>10, <1>11, <1>12, <1>13, <1>14,
       <1>15, <1>16, <1>17, <1>18, <1>19, <1>20, <1>21, <1>22, <1>23, <1>24, <1>25, <1>26, <1>27,
       <1>28, <1>29, <1>30, <1>31, <1>32 DEF Next, Handle, AuthStep, PushStep

(* Nothing is inserted and nothing becomes usable. *)
WearsAt(t) ==
  sessions'[t] # None =>
    /\ sessions[t] # None
    /\ sessions'[t].user = sessions[t].user /\ sessions'[t].root = sessions[t].root
    /\ sessions'[t].active => sessions[t].active

Wears == \A t \in Ids : WearsAt(t)

Created(r) ==
  /\ pc[r] = "insert" /\ pc'[r] = "readback" /\ seen[r] \in accounts /\ UNCHANGED accounts
  /\ sessions' = [sessions EXCEPT ![r] = NewSession(seen[r], r)]

SessionsMove == Wears \/ \E r \in Requests : Created(r) \/ Replace(r)

LEMMA Deactivated ==
  ASSUME Shapes, NEW t \in Ids, sessions[t] # None,
         sessions' = [sessions EXCEPT ![t].active = FALSE]
  PROVE  Wears /\ ~sessions'[t].active
  <1>1. sessions \in [Ids -> Session \union {None}]
    BY DEF Shapes
  <1>2. sessions[t] \in Session /\ sessions'[t] = [sessions[t] EXCEPT !.active = FALSE]
    BY <1>1
  <1>3. /\ sessions'[t].user = sessions[t].user /\ sessions'[t].root = sessions[t].root
        /\ sessions'[t].active = FALSE
    BY <1>2 DEF Session
  <1>4. \A s \in Ids \ {t} : sessions'[s] = sessions[s]
    BY <1>1
  <1>5. QED BY <1>3, <1>4 DEF Wears, WearsAt

LEMMA SessionsStep ==
  ASSUME Shapes, Answered, Tokens, [Next]_vars
  PROVE  SessionsMove
  <1> USE DEF SessionsMove, Answer, Go, GoHaving, Committed, tables, phoneVars
  <1>1. ASSUME NEW r \in Requests, FindEmail(r) PROVE SessionsMove
    <2>1. UNCHANGED sessions
      BY <1>1 DEF FindEmail
    <2>2. QED BY <2>1 DEF Wears, WearsAt
  <1>2. ASSUME NEW r \in Requests, CreateUser(r) PROVE SessionsMove
    <2>1. UNCHANGED sessions
      BY <1>2 DEF CreateUser
    <2>2. QED BY <2>1 DEF Wears, WearsAt
  <1>3. ASSUME NEW r \in Requests, FindUser(r) PROVE SessionsMove
    <2>1. UNCHANGED sessions
      BY <1>3 DEF FindUser
    <2>2. QED BY <2>1 DEF Wears, WearsAt
  <1>4. ASSUME NEW r \in Requests, CreateSession(r) PROVE SessionsMove
    <2>1. CASE seen[r] \in accounts
      <3>1. Created(r)
        BY <1>4, <2>1 DEF CreateSession, Created, Shapes
      <3>2. QED BY <3>1
    <2>2. CASE seen[r] \notin accounts
      BY <1>4, <2>2 DEF CreateSession, Wears, WearsAt
    <2>3. QED BY <2>1, <2>2
  <1>5. ASSUME NEW r \in Requests, FindToRotate(r) PROVE SessionsMove
    <2>1. UNCHANGED sessions
      BY <1>5 DEF FindToRotate
    <2>2. QED BY <2>1 DEF Wears, WearsAt
  <1>6. ASSUME NEW r \in Requests, FindToRevoke(r) PROVE SessionsMove
    <2>1. UNCHANGED sessions
      BY <1>6 DEF FindToRevoke
    <2>2. QED BY <2>1 DEF Wears, WearsAt
  <1>7. ASSUME NEW r \in Requests, Revoke(r) PROVE SessionsMove
    <2>1. CASE StillActive(r)
      <3>1. sessions' = [sessions EXCEPT ![intent[r].token].active = FALSE]
        BY <1>7, <2>1 DEF Revoke, Revoked
      <3>2. intent[r].token \in Ids /\ sessions[intent[r].token] # None
        BY <1>7, <2>1, NotYetKnown DEF Revoke, StillActive, Tokens
      <3>3. Wears
        BY <3>1, <3>2, Deactivated
      <3>4. QED BY <3>3
    <2>2. CASE ~StillActive(r)
      BY <1>7, <2>2 DEF Revoke, Wears, WearsAt
    <2>3. QED BY <2>1, <2>2
  <1>8. ASSUME NEW r \in Requests, Rotate(r) PROVE SessionsMove
    <2>1. UNCHANGED sessions
      BY <1>8 DEF Rotate
    <2>2. QED BY <2>1 DEF Wears, WearsAt
  <1>9. ASSUME NEW r \in Requests, Replace(r) PROVE SessionsMove
    BY <1>9
  <1>10. ASSUME NEW r \in Requests, Readback(r) PROVE SessionsMove
    <2>1. UNCHANGED sessions
      BY <1>10 DEF Readback
    <2>2. QED BY <2>1 DEF Wears, WearsAt
  <1>11. ASSUME NEW r \in Requests, RefuseDelete(r) PROVE SessionsMove
    <2>1. UNCHANGED sessions
      BY <1>11 DEF RefuseDelete
    <2>2. QED BY <2>1 DEF Wears, WearsAt
  <1>12. ASSUME NEW r \in Requests, LoadUser(r) PROVE SessionsMove
    <2>1. UNCHANGED sessions
      BY <1>12 DEF LoadUser
    <2>2. QED BY <2>1 DEF Wears, WearsAt
  <1>13. ASSUME NEW r \in Requests, EraseRow(r) PROVE SessionsMove
    <2>1. UNCHANGED sessions
      BY <1>13 DEF EraseRow, ToErase
    <2>2. QED BY <2>1 DEF Wears, WearsAt
  <1>14. ASSUME NEW r \in Requests, EraseUser(r) PROVE SessionsMove
    <2>1. UNCHANGED sessions
      BY <1>14 DEF EraseUser
    <2>2. QED BY <2>1 DEF Wears, WearsAt
  <1>15. ASSUME NEW r \in Requests, CommitDelete(r) PROVE SessionsMove
    BY <1>15 DEF CommitDelete, Wears, WearsAt
  <1>16. ASSUME NEW r \in Requests, DenyPermission(r) PROVE SessionsMove
    <2>1. UNCHANGED sessions
      BY <1>16 DEF DenyPermission
    <2>2. QED BY <2>1 DEF Wears, WearsAt
  <1>17. ASSUME NEW r \in Requests, GetOrCreate(r) PROVE SessionsMove
    <2>1. UNCHANGED sessions
      BY <1>17 DEF GetOrCreate
    <2>2. QED BY <2>1 DEF Wears, WearsAt
  <1>18. ASSUME NEW r \in Requests, LookUpId(r) PROVE SessionsMove
    <2>1. UNCHANGED sessions
      BY <1>18 DEF LookUpId, Resolve, Waiters
    <2>2. QED BY <2>1 DEF Wears, WearsAt
  <1>19. ASSUME NEW r \in Requests, StoreId(r) PROVE SessionsMove
    <2>1. UNCHANGED sessions
      BY <1>19 DEF StoreId, Resolve, Waiters
    <2>2. QED BY <2>1 DEF Wears, WearsAt
  <1>20. ASSUME NEW r \in Requests, StoreFails(r) PROVE SessionsMove
    <2>1. UNCHANGED sessions
      BY <1>20 DEF StoreFails, Waiters
    <2>2. QED BY <2>1 DEF Wears, WearsAt
  <1>21. ASSUME NEW r \in Requests, GetExisting(r) PROVE SessionsMove
    <2>1. UNCHANGED sessions
      BY <1>21 DEF GetExisting
    <2>2. QED BY <2>1 DEF Wears, WearsAt
  <1>22. ASSUME NEW r \in Requests, Unauthorized(r) PROVE SessionsMove
    <2>1. UNCHANGED sessions
      BY <1>22 DEF Unauthorized
    <2>2. QED BY <2>1 DEF Wears, WearsAt
  <1>23. ASSUME NEW r \in Requests, FindDevice(r) PROVE SessionsMove
    <2>1. UNCHANGED sessions
      BY <1>23 DEF FindDevice
    <2>2. QED BY <2>1 DEF Wears, WearsAt
  <1>24. ASSUME NEW r \in Requests, FindTokenOwner(r) PROVE SessionsMove
    <2>1. UNCHANGED sessions
      BY <1>24 DEF FindTokenOwner
    <2>2. QED BY <2>1 DEF Wears, WearsAt
  <1>25. ASSUME NEW r \in Requests, DropOwner(r) PROVE SessionsMove
    <2>1. UNCHANGED sessions
      BY <1>25 DEF DropOwner
    <2>2. QED BY <2>1 DEF Wears, WearsAt
  <1>26. ASSUME NEW r \in Requests, WriteDevice(r) PROVE SessionsMove
    <2>1. UNCHANGED sessions
      BY <1>26 DEF WriteDevice
    <2>2. QED BY <2>1 DEF Wears, WearsAt
  <1>27. ASSUME NEW r \in Requests, FindOwnDevice(r) PROVE SessionsMove
    <2>1. UNCHANGED sessions
      BY <1>27 DEF FindOwnDevice
    <2>2. QED BY <2>1 DEF Wears, WearsAt
  <1>28. ASSUME NEW r \in Requests, SwitchOff(r) PROVE SessionsMove
    <2>1. UNCHANGED sessions
      BY <1>28 DEF SwitchOff
    <2>2. QED BY <2>1 DEF Wears, WearsAt
  <1>29. ASSUME NEW r \in Requests, DeadlockAbort(r) PROVE SessionsMove
    <2>1. UNCHANGED sessions
      BY <1>29 DEF DeadlockAbort
    <2>2. QED BY <2>1 DEF Wears, WearsAt
  <1>30. ASSUME NEW r \in Requests, Crash(r) PROVE SessionsMove
    <2>1. UNCHANGED sessions
      BY <1>30 DEF Crash
    <2>2. QED BY <2>1 DEF Wears, WearsAt
  <1>31. ASSUME NEW s \in Ids, Expire(s) PROVE SessionsMove
    <2>1. sessions[s] \in Session /\ sessions \in [Ids -> Session \union {None}]
      BY <1>31 DEF Expire, Shapes
    <2>2. sessions' = [sessions EXCEPT ![s] = [sessions[s] EXCEPT !.expired = TRUE]]
      BY <1>31 DEF Expire
    <2>3. sessions'[s] = [sessions[s] EXCEPT !.expired = TRUE]
      BY <2>1, <2>2
    <2>4. /\ sessions'[s].user = sessions[s].user /\ sessions'[s].root = sessions[s].root
          /\ sessions'[s].active = sessions[s].active
      BY <2>1, <2>3 DEF Session
    <2>5. \A t \in Ids \ {s} : sessions'[t] = sessions[t]
      BY <2>1, <2>2
    <2>6. Wears
      BY <1>31, <2>4, <2>5 DEF Expire, Wears, WearsAt
    <2>7. QED BY <2>6
  <1>32. CASE UNCHANGED vars
    BY <1>32 DEF vars, Wears, WearsAt
  <1>33. QED
    BY <1>1, <1>2, <1>3, <1>4, <1>5, <1>6, <1>7, <1>8, <1>9, <1>10, <1>11, <1>12, <1>13, <1>14,
       <1>15, <1>16, <1>17, <1>18, <1>19, <1>20, <1>21, <1>22, <1>23, <1>24, <1>25, <1>26, <1>27,
       <1>28, <1>29, <1>30, <1>31, <1>32 DEF Next, Handle, AuthStep, PushStep

(* What a request has found of a token or an account is known, and so is    *)
(* the token it has revoked.                                               *)
TokensRead ==
  \A q \in Requests :
    /\ pc'[q] = "insert" => \/ pc[q] = "insert" /\ seen'[q] = seen[q]
                            \/ seen'[q] \in accounts
    /\ pc'[q] \in {"refresh", "replace"} =>
         \/ pc[q] \in {"refresh", "replace"} /\ seen'[q] = seen[q]
         \/ /\ intent[q].token \in Known /\ UNCHANGED sessions
            /\ seen'[q] = sessions[intent[q].token] /\ seen'[q] # None
    /\ pc'[q] = "logout" => pc[q] = "logout" \/ intent[q].token \in Known

RevokedNow(q) ==
  /\ pc[q] = "logout" /\ StillActive(q)
  /\ sessions' = [sessions EXCEPT ![intent[q].token].active = FALSE]

Revokes == \A q \in Requests : LoggedOut(q)' => LoggedOut(q) \/ RevokedNow(q)

LEMMA TokensReadStep ==
  ASSUME Shapes, [Next]_vars
  PROVE  TokensRead
  <1> USE DEF Shapes, Answer, Go, GoHaving, Committed, tables, phoneVars
  <1>1. ASSUME NEW r \in Requests, FindEmail(r) PROVE TokensRead
    BY <1>1 DEF FindEmail, TokensRead
  <1>2. ASSUME NEW r \in Requests, CreateUser(r) PROVE TokensRead
    BY <1>2 DEF CreateUser, TokensRead
  <1>3. ASSUME NEW r \in Requests, FindUser(r) PROVE TokensRead
    BY <1>3 DEF FindUser, TokensRead
  <1>4. ASSUME NEW r \in Requests, CreateSession(r) PROVE TokensRead
    BY <1>4 DEF CreateSession, TokensRead
  <1>5. ASSUME NEW r \in Requests, FindToRotate(r) PROVE TokensRead
    BY <1>5 DEF FindToRotate, TokensRead, Usable
  <1>6. ASSUME NEW r \in Requests, FindToRevoke(r) PROVE TokensRead
    BY <1>6 DEF FindToRevoke, TokensRead
  <1>7. ASSUME NEW r \in Requests, Revoke(r) PROVE TokensRead
    BY <1>7 DEF Revoke, Revoked, TokensRead
  <1>8. ASSUME NEW r \in Requests, Rotate(r) PROVE TokensRead
    BY <1>8 DEF Rotate, TokensRead
  <1>9. ASSUME NEW r \in Requests, Replace(r) PROVE TokensRead
    BY <1>9 DEF Replace, Revoked, TokensRead
  <1>10. ASSUME NEW r \in Requests, Readback(r) PROVE TokensRead
    BY <1>10 DEF Readback, TokensRead
  <1>11. ASSUME NEW r \in Requests, RefuseDelete(r) PROVE TokensRead
    BY <1>11 DEF RefuseDelete, TokensRead
  <1>12. ASSUME NEW r \in Requests, LoadUser(r) PROVE TokensRead
    BY <1>12 DEF LoadUser, TokensRead
  <1>13. ASSUME NEW r \in Requests, EraseRow(r) PROVE TokensRead
    BY <1>13 DEF EraseRow, ToErase, TokensRead
  <1>14. ASSUME NEW r \in Requests, EraseUser(r) PROVE TokensRead
    BY <1>14 DEF EraseUser, TokensRead
  <1>15. ASSUME NEW r \in Requests, CommitDelete(r) PROVE TokensRead
    BY <1>15 DEF CommitDelete, TokensRead
  <1>16. ASSUME NEW r \in Requests, DenyPermission(r) PROVE TokensRead
    BY <1>16 DEF DenyPermission, TokensRead
  <1>17. ASSUME NEW r \in Requests, GetOrCreate(r) PROVE TokensRead
    BY <1>17 DEF GetOrCreate, TokensRead
  <1>18. ASSUME NEW r \in Requests, LookUpId(r) PROVE TokensRead
    BY <1>18 DEF LookUpId, Resolve, Waiters, TokensRead
  <1>19. ASSUME NEW r \in Requests, StoreId(r) PROVE TokensRead
    BY <1>19 DEF StoreId, Resolve, Waiters, TokensRead
  <1>20. ASSUME NEW r \in Requests, StoreFails(r) PROVE TokensRead
    BY <1>20 DEF StoreFails, Waiters, TokensRead
  <1>21. ASSUME NEW r \in Requests, GetExisting(r) PROVE TokensRead
    BY <1>21 DEF GetExisting, TokensRead
  <1>22. ASSUME NEW r \in Requests, Unauthorized(r) PROVE TokensRead
    BY <1>22 DEF Unauthorized, TokensRead
  <1>23. ASSUME NEW r \in Requests, FindDevice(r) PROVE TokensRead
    BY <1>23 DEF FindDevice, TokensRead
  <1>24. ASSUME NEW r \in Requests, FindTokenOwner(r) PROVE TokensRead
    BY <1>24 DEF FindTokenOwner, TokensRead
  <1>25. ASSUME NEW r \in Requests, DropOwner(r) PROVE TokensRead
    BY <1>25 DEF DropOwner, TokensRead
  <1>26. ASSUME NEW r \in Requests, WriteDevice(r) PROVE TokensRead
    BY <1>26 DEF WriteDevice, TokensRead
  <1>27. ASSUME NEW r \in Requests, FindOwnDevice(r) PROVE TokensRead
    BY <1>27 DEF FindOwnDevice, TokensRead
  <1>28. ASSUME NEW r \in Requests, SwitchOff(r) PROVE TokensRead
    BY <1>28 DEF SwitchOff, TokensRead
  <1>29. ASSUME NEW r \in Requests, DeadlockAbort(r) PROVE TokensRead
    BY <1>29 DEF DeadlockAbort, TokensRead
  <1>30. ASSUME NEW r \in Requests, Crash(r) PROVE TokensRead
    BY <1>30 DEF Crash, OnServer, TokensRead
  <1>31. ASSUME NEW s \in Ids, Expire(s) PROVE TokensRead
    BY <1>31 DEF Expire, TokensRead
  <1>32. CASE UNCHANGED vars
    BY <1>32 DEF vars, TokensRead
  <1>33. QED
    BY <1>1, <1>2, <1>3, <1>4, <1>5, <1>6, <1>7, <1>8, <1>9, <1>10, <1>11, <1>12, <1>13, <1>14,
       <1>15, <1>16, <1>17, <1>18, <1>19, <1>20, <1>21, <1>22, <1>23, <1>24, <1>25, <1>26, <1>27,
       <1>28, <1>29, <1>30, <1>31, <1>32 DEF Next, Handle, AuthStep, PushStep

LEMMA RevokesStep ==
  ASSUME Shapes, Asked, Answered, [Next]_vars
  PROVE  Revokes
  <1> USE NoneAssumption DEF Shapes, Replies, Op, Answer, Go, GoHaving, Committed, tables, phoneVars
  <1>1. ASSUME NEW r \in Requests, FindEmail(r) PROVE Revokes
    BY <1>1 DEF FindEmail, Revokes, LoggedOut, Asked, OpsAt
  <1>2. ASSUME NEW r \in Requests, CreateUser(r) PROVE Revokes
    BY <1>2 DEF CreateUser, Revokes, LoggedOut, Asked, OpsAt
  <1>3. ASSUME NEW r \in Requests, FindUser(r) PROVE Revokes
    BY <1>3 DEF FindUser, Revokes, LoggedOut, Asked, OpsAt
  <1>4. ASSUME NEW r \in Requests, CreateSession(r) PROVE Revokes
    BY <1>4 DEF CreateSession, Revokes, LoggedOut, Asked, OpsAt
  <1>5. ASSUME NEW r \in Requests, FindToRotate(r) PROVE Revokes
    BY <1>5 DEF FindToRotate, Revokes, LoggedOut, Asked, OpsAt
  <1>6. ASSUME NEW r \in Requests, FindToRevoke(r) PROVE Revokes
    BY <1>6 DEF FindToRevoke, Revokes, LoggedOut, Asked, OpsAt
  <1>7. ASSUME NEW r \in Requests, Revoke(r) PROVE Revokes
    <2>1. CASE StillActive(r)
      <3>1. RevokedNow(r)
        BY <1>7, <2>1 DEF Revoke, Revoked, RevokedNow
      <3>2. \A q \in Requests \ {r} : pc'[q] = pc[q] /\ answer'[q] = answer[q] /\ intent'[q] = intent[q]
        BY <1>7, <2>1 DEF Revoke
      <3>3. QED BY <3>1, <3>2 DEF Revokes, LoggedOut
    <2>2. CASE ~StillActive(r)
      <3>1. /\ pc'[r] = "done" /\ answer'[r] = "unauthorized"
            /\ \A q \in Requests \ {r} : pc'[q] = pc[q] /\ answer'[q] = answer[q]
            /\ UNCHANGED intent
        BY <1>7, <2>2 DEF Revoke
      <3>2. QED BY <3>1 DEF Revokes, LoggedOut
    <2>3. QED BY <2>1, <2>2
  <1>8. ASSUME NEW r \in Requests, Rotate(r) PROVE Revokes
    BY <1>8 DEF Rotate, Revokes, LoggedOut, Asked, OpsAt
  <1>9. ASSUME NEW r \in Requests, Replace(r) PROVE Revokes
    BY <1>9 DEF Replace, Revoked, Revokes, LoggedOut, Asked, OpsAt
  <1>10. ASSUME NEW r \in Requests, Readback(r) PROVE Revokes
    BY <1>10 DEF Readback, Revokes, LoggedOut, Asked, OpsAt
  <1>11. ASSUME NEW r \in Requests, RefuseDelete(r) PROVE Revokes
    BY <1>11 DEF RefuseDelete, Revokes, LoggedOut, Asked, OpsAt
  <1>12. ASSUME NEW r \in Requests, LoadUser(r) PROVE Revokes
    BY <1>12 DEF LoadUser, Revokes, LoggedOut, Asked, OpsAt
  <1>13. ASSUME NEW r \in Requests, EraseRow(r) PROVE Revokes
    BY <1>13 DEF EraseRow, ToErase, Revokes, LoggedOut, Asked, OpsAt
  <1>14. ASSUME NEW r \in Requests, EraseUser(r) PROVE Revokes
    BY <1>14 DEF EraseUser, Revokes, LoggedOut, Asked, OpsAt
  <1>15. ASSUME NEW r \in Requests, CommitDelete(r) PROVE Revokes
    BY <1>15 DEF CommitDelete, Revokes, LoggedOut, Asked, OpsAt
  <1>16. ASSUME NEW r \in Requests, DenyPermission(r) PROVE Revokes
    BY <1>16 DEF DenyPermission, Revokes, LoggedOut, Asked, OpsAt
  <1>17. ASSUME NEW r \in Requests, GetOrCreate(r) PROVE Revokes
    BY <1>17 DEF GetOrCreate, Revokes, LoggedOut, Asked, OpsAt
  <1>18. ASSUME NEW r \in Requests, LookUpId(r) PROVE Revokes
    BY <1>18 DEF LookUpId, Resolve, Waiters, Revokes, LoggedOut, Asked, OpsAt
  <1>19. ASSUME NEW r \in Requests, StoreId(r) PROVE Revokes
    BY <1>19 DEF StoreId, Resolve, Waiters, Revokes, LoggedOut, Asked, OpsAt
  <1>20. ASSUME NEW r \in Requests, StoreFails(r) PROVE Revokes
    BY <1>20 DEF StoreFails, Waiters, Revokes, LoggedOut, Asked, OpsAt
  <1>21. ASSUME NEW r \in Requests, GetExisting(r) PROVE Revokes
    BY <1>21 DEF GetExisting, Revokes, LoggedOut, Asked, OpsAt
  <1>22. ASSUME NEW r \in Requests, Unauthorized(r) PROVE Revokes
    BY <1>22 DEF Unauthorized, Revokes, LoggedOut, Asked, OpsAt
  <1>23. ASSUME NEW r \in Requests, FindDevice(r) PROVE Revokes
    BY <1>23 DEF FindDevice, Revokes, LoggedOut, Asked, OpsAt
  <1>24. ASSUME NEW r \in Requests, FindTokenOwner(r) PROVE Revokes
    BY <1>24 DEF FindTokenOwner, Revokes, LoggedOut, Asked, OpsAt
  <1>25. ASSUME NEW r \in Requests, DropOwner(r) PROVE Revokes
    BY <1>25 DEF DropOwner, Revokes, LoggedOut, Asked, OpsAt
  <1>26. ASSUME NEW r \in Requests, WriteDevice(r) PROVE Revokes
    BY <1>26 DEF WriteDevice, Revokes, LoggedOut, Asked, OpsAt
  <1>27. ASSUME NEW r \in Requests, FindOwnDevice(r) PROVE Revokes
    BY <1>27 DEF FindOwnDevice, Revokes, LoggedOut, Asked, OpsAt
  <1>28. ASSUME NEW r \in Requests, SwitchOff(r) PROVE Revokes
    BY <1>28 DEF SwitchOff, Revokes, LoggedOut, Asked, OpsAt
  <1>29. ASSUME NEW r \in Requests, DeadlockAbort(r) PROVE Revokes
    BY <1>29 DEF DeadlockAbort, Revokes, LoggedOut, Asked, OpsAt
  <1>30. ASSUME NEW r \in Requests, Crash(r) PROVE Revokes
    BY <1>30 DEF Crash, OnServer, Revokes, LoggedOut, Asked, OpsAt
  <1>31. ASSUME NEW s \in Ids, Expire(s) PROVE Revokes
    BY <1>31 DEF Expire, Revokes, LoggedOut, Asked, OpsAt
  <1>32. CASE UNCHANGED vars
    BY <1>32 DEF vars, Revokes, LoggedOut
  <1>33. QED
    BY <1>1, <1>2, <1>3, <1>4, <1>5, <1>6, <1>7, <1>8, <1>9, <1>10, <1>11, <1>12, <1>13, <1>14,
       <1>15, <1>16, <1>17, <1>18, <1>19, <1>20, <1>21, <1>22, <1>23, <1>24, <1>25, <1>26, <1>27,
       <1>28, <1>29, <1>30, <1>31, <1>32 DEF Next, Handle, AuthStep, PushStep

-----------------------------------------------------------------------------
(* The tokens. *)

LEMMA Inserted ==
  ASSUME Shapes, Answered, Tokens, Rotating, NEW r \in Requests, Created(r) \/ Replace(r)
  PROVE  /\ r \in Ids /\ r \notin Known /\ pc[r] \notin {"readback", "done"}
         /\ \A t \in Ids \ {r} : WearsAt(t)
         /\ sessions'[r] # None
         /\ Created(r) => sessions'[r].user = seen[r] /\ sessions'[r].root = r
         /\ Replace(r) => /\ intent[r].token \in Ids \ {r}
                          /\ sessions[intent[r].token] # None /\ sessions[intent[r].token].active
                          /\ ~sessions'[intent[r].token].active
                          /\ sessions'[r].user = sessions[intent[r].token].user
                          /\ sessions'[r].root = sessions[intent[r].token].root
  <1>1. pc[r] \in {"insert", "replace"} /\ r \in Ids /\ r \notin Known /\ Known \subseteq Ids
    BY NotYetKnown, Names DEF Created, Replace
  <1>2. sessions \in [Ids -> Session \union {None}]
    BY DEF Shapes
  <1>3. CASE Created(r)
    <2>1. /\ sessions'[r] = NewSession(seen[r], r) /\ NewSession(seen[r], r) \in Session
          /\ \A t \in Ids \ {r} : sessions'[t] = sessions[t]
      BY <1>1, <1>2, <1>3 DEF Created, NewSession, Session, Shapes
    <2>2. sessions'[r].user = seen[r] /\ sessions'[r].root = r
      BY <2>1 DEF NewSession
    <2>3. pc[r] # "replace"
      BY <1>3 DEF Created
    <2>4. QED BY <1>1, <2>1, <2>2, <2>3, NoneAssumption DEF WearsAt, Replace
  <1>4. CASE Replace(r)
    <2> DEFINE t == intent[r].token
               w == [sessions[t] EXCEPT !.active = FALSE]
               n == NewSession(seen[r].user, seen[r].root)
    <2>1. /\ t \in Ids /\ t # r /\ sessions[t] # None /\ sessions[t].active
          /\ seen[r] \in Session
          /\ sessions[t].user = seen[r].user /\ sessions[t].root = seen[r].root
      BY <1>1, <1>4 DEF Replace, Rotating, Tokens
    <2>2. w.user = sessions[t].user /\ w.root = sessions[t].root /\ w.active = FALSE
      BY <1>2, <2>1 DEF Session
    <2>3. n \in Session /\ n.user = seen[r].user /\ n.root = seen[r].root
      BY <2>1 DEF NewSession, Session
    <2>4. sessions' = [[sessions EXCEPT ![t] = w] EXCEPT ![r] = n]
      BY <1>4 DEF Replace, Revoked
    <2>5. pc[r] # "insert"
      BY <1>4 DEF Replace
    <2> HIDE DEF w, n, t
    <2>6. /\ sessions'[r] = n /\ sessions'[t] = w
          /\ \A s \in Ids \ {r, t} : sessions'[s] = sessions[s]
      BY <1>1, <1>2, <2>1, <2>4
    <2>7. \A s \in Ids \ {r} : WearsAt(s)
      BY <2>1, <2>2, <2>6 DEF WearsAt
    <2>8. QED BY <1>1, <2>1, <2>2, <2>3, <2>5, <2>6, <2>7, NoneAssumption DEF Created, t
  <1>5. QED BY <1>3, <1>4

LEMMA KnownWear ==
  ASSUME Shapes, Answered, Tokens, Rotating, SessionsMove
  PROVE  \A t \in Known : t \in Ids /\ WearsAt(t)
  <1>1. Known \subseteq Ids
    BY DEF Known, Ids
  <1>2. CASE Wears
    BY <1>1, <1>2 DEF Wears
  <1>3. ASSUME NEW r \in Requests, Created(r) \/ Replace(r)
        PROVE  \A t \in Known : t \in Ids /\ WearsAt(t)
    BY <1>1, <1>3, Inserted
  <1>4. QED BY <1>2, <1>3 DEF SessionsMove

LEMMA TokensStep ==
  ASSUME Shapes, Answered, Asked, Tokens, Rotating, [Next]_vars
  PROVE  Tokens'
  <1>1. GoesForward /\ SessionsMove /\ TokensRead /\ Revokes
    BY ForwardStep, SessionsStep, TokensReadStep, RevokesStep
  <1>2. Known \subseteq Known'
    BY <1>1 DEF GoesForward, Known
  <1>3. SUFFICES ASSUME NEW q \in Requests
                 PROVE  /\ pc'[q] = "insert" => seen'[q] \in Ids
                        /\ pc'[q] \in {"logout", "refresh", "replace"} \/ LoggedOut(q)' =>
                             intent[q].token \in Known
                        /\ pc'[q] \in {"refresh", "replace"} =>
                             /\ seen'[q] \in Session
                             /\ sessions'[intent[q].token] # None =>
                                  /\ sessions'[intent[q].token].user = seen'[q].user
                                  /\ sessions'[intent[q].token].root = seen'[q].root
    BY <1>1, <1>2 DEF Tokens, GoesForward
  <1>4. pc'[q] = "insert" => seen'[q] \in Ids
    BY <1>1 DEF TokensRead, Tokens, Shapes
  <1>5. pc'[q] \in {"logout", "refresh", "replace"} \/ LoggedOut(q)' => intent[q].token \in Known
    <2>1. LoggedOut(q)' => LoggedOut(q) \/ pc[q] = "logout"
      BY <1>1 DEF Revokes, RevokedNow
    <2>2. QED BY <1>1, <2>1 DEF TokensRead, Tokens
  <1>6. ASSUME pc'[q] \in {"refresh", "replace"}
        PROVE  /\ seen'[q] \in Session
               /\ sessions'[intent[q].token] # None =>
                    /\ sessions'[intent[q].token].user = seen'[q].user
                    /\ sessions'[intent[q].token].root = seen'[q].root
    <2> DEFINE t == intent[q].token
    <2>1. t \in Ids /\ WearsAt(t)
      BY <1>1, <1>5, <1>6, KnownWear
    <2>2. CASE UNCHANGED sessions /\ seen'[q] = sessions[t] /\ seen'[q] # None
      BY <2>1, <2>2 DEF Shapes
    <2>3. CASE pc[q] \in {"refresh", "replace"} /\ seen'[q] = seen[q]
      <3>1. /\ seen[q] \in Session
            /\ sessions[t] # None => sessions[t].user = seen[q].user /\ sessions[t].root = seen[q].root
        BY <2>3 DEF Tokens
      <3>2. QED BY <2>1, <2>3, <3>1 DEF WearsAt
    <2>4. QED BY <1>1, <1>6, <2>2, <2>3 DEF TokensRead
  <1>7. QED BY <1>4, <1>5, <1>6

LEMMA RootsStep ==
  ASSUME Shapes, Answered, Asked, Tokens, Rotating, Roots, [Next]_vars
  PROVE  Roots'
  <1>1. GoesForward /\ SessionsMove
    BY ForwardStep, SessionsStep
  <1>2. ASSUME NEW s \in Ids, WearsAt(s), sessions'[s] # None, sessions'[s].root \in Requests
        PROVE  Op(sessions'[s].root) = "login" /\ pc'[sessions'[s].root] \in {"readback", "done"}
    BY <1>1, <1>2 DEF Roots, WearsAt, GoesForward, Op
  <1>a. SUFFICES ASSUME NEW s \in Ids, sessions'[s] # None, sessions'[s].root \in Requests
                 PROVE  Op(sessions'[s].root) = "login" /\ pc'[sessions'[s].root] \in {"readback",
                 "done"}
    BY <1>1 DEF Roots, GoesForward, Op
  <1>3. CASE Wears
    BY <1>2, <1>a, <1>3 DEF Wears
  <1>4. ASSUME NEW r \in Requests, Created(r) \/ Replace(r)
        PROVE  Op(sessions'[s].root) = "login" /\ pc'[sessions'[s].root] \in {"readback", "done"}
    <2>1. /\ \A t \in Ids \ {r} : WearsAt(t)
          /\ Created(r) => sessions'[r].root = r
          /\ Replace(r) => /\ intent[r].token \in Ids
                           /\ sessions[intent[r].token] # None
                           /\ sessions'[r].root = sessions[intent[r].token].root
      BY <1>4, Inserted
    <2>2. ASSUME sessions'[r].root \in Requests
          PROVE  Op(sessions'[r].root) = "login" /\ pc'[sessions'[r].root] \in {"readback", "done"}
      <3>1. CASE Created(r)
        BY <1>1, <2>1, <3>1 DEF Created, Asked, OpsAt, GoesForward
      <3>2. CASE Replace(r)
        BY <1>1, <2>1, <2>2, <3>2 DEF Roots, GoesForward, Op
      <3>3. QED BY <1>4, <3>1, <3>2
    <2>3. QED BY <1>2, <1>a, <2>1, <2>2
  <1>5. QED BY <1>1, <1>3, <1>4 DEF SessionsMove

LEMMA OneActiveStep ==
  ASSUME Shapes, Answered, Asked, Tokens, Rotating, Roots, OneActive, [Next]_vars
  PROVE  OneActive'
  <1>1. SessionsMove
    BY SessionsStep
  <1>2. ASSUME NEW s \in Ids, NEW t \in Ids, s # t, WearsAt(s), WearsAt(t),
               Related(s, t)', sessions'[s].active
        PROVE  ~sessions'[t].active
    BY <1>2 DEF OneActive, WearsAt, Related
  <1>3. CASE Wears
    BY <1>2, <1>3 DEF Wears, OneActive
  <1>4. ASSUME NEW r \in Requests, Created(r) \/ Replace(r)
        PROVE  OneActive'
    <2>1. /\ \A t \in Ids \ {r} : WearsAt(t)
          /\ pc[r] \notin {"readback", "done"}
          /\ Created(r) => sessions'[r].root = r
          /\ Replace(r) => /\ intent[r].token \in Ids
                           /\ sessions[intent[r].token] # None /\ sessions[intent[r].token].active
                           /\ ~sessions'[intent[r].token].active
                           /\ sessions'[r].root = sessions[intent[r].token].root
      BY <1>4, Inserted
    <2>2. ASSUME NEW t \in Ids \ {r}, Related(t, r)'
          PROVE  ~sessions'[t].active
      <3>1. sessions[t] # None /\ sessions[t].root = sessions'[r].root
            /\ (sessions'[t].active => sessions[t].active)
        BY <2>1, <2>2 DEF Related, WearsAt
      <3>2. CASE Created(r)
        BY <2>1, <3>1, <3>2 DEF Roots
      <3>3. CASE Replace(r) /\ t = intent[r].token
        BY <2>1, <3>3
      <3>4. CASE Replace(r) /\ t # intent[r].token
        BY <2>1, <3>1, <3>4 DEF OneActive, Related
      <3>5. QED BY <1>4, <3>2, <3>3, <3>4
    <2>3. \A s, t \in Ids : Related(s, t)' <=> Related(t, s)'
      BY DEF Related
    <2>4. SUFFICES ASSUME NEW s \in Ids, NEW t \in Ids, s # t, Related(s, t)', sessions'[s].active
                   PROVE  ~sessions'[t].active
      BY DEF OneActive
    <2>5. CASE s # r /\ t # r
      BY <1>2, <2>1, <2>4, <2>5
    <2>6. CASE s = r
      BY <2>2, <2>3, <2>4, <2>6
    <2>7. CASE t = r
      BY <2>2, <2>4, <2>7
    <2>8. QED BY <2>5, <2>6, <2>7
  <1>5. QED BY <1>1, <1>3, <1>4 DEF SessionsMove

LEMMA LogoutEndsStep ==
  ASSUME Shapes, Answered, Asked, Tokens, Rotating, OneActive, Roots, LogoutEnds, [Next]_vars
  PROVE  LogoutEnds'
  <1>1. GoesForward /\ SessionsMove /\ Revokes /\ Tokens'
    BY ForwardStep, SessionsStep, RevokesStep, TokensStep
  <1>2. SUFFICES ASSUME NEW q \in Requests, LoggedOut(q)', NEW t, t = intent[q].token,
  NEW s \in Ids,
                        sessions'[s] # None, sessions'[t] # None,
                        sessions'[s].root = sessions'[t].root, sessions'[s].active
                 PROVE  FALSE
    BY <1>1 DEF LogoutEnds, Related, GoesForward
  <1>3. t \in Known /\ t \in Ids /\ WearsAt(t)
    <2>1. pc[q] = "logout" \/ LoggedOut(q)
      BY <1>1, <1>2 DEF Revokes, RevokedNow
    <2>2. t \in Known
      BY <1>2, <2>1 DEF Tokens
    <2>3. QED BY <1>1, <1>2, <2>2, KnownWear
  <1>4. CASE RevokedNow(q)
    <2>1. sessions[t] # None /\ sessions[t].active /\ Wears /\ ~sessions'[t].active
      BY <1>2, <1>3, <1>4, Deactivated DEF RevokedNow, StillActive
    <2>2. s # t /\ WearsAt(s)
      BY <1>2, <2>1 DEF Wears
    <2>3. Related(t, s) /\ sessions[s].active
      BY <1>2, <1>3, <2>2 DEF Related, WearsAt
    <2>4. QED BY <1>3, <2>1, <2>2, <2>3 DEF OneActive
  <1>5. CASE LoggedOut(q)
    <2>1. CASE WearsAt(s)
      BY <1>2, <1>3, <1>5, <2>1 DEF LogoutEnds, Related, WearsAt
    <2>2. CASE ~WearsAt(s)
      <3>1. PICK r \in Requests : Created(r) \/ Replace(r)
        BY <1>1, <2>2 DEF SessionsMove, Wears
      <3>2. /\ s = r /\ t # r /\ pc[r] \notin {"readback", "done"}
            /\ Created(r) => sessions'[r].root = r
            /\ Replace(r) => /\ intent[r].token \in Ids
                             /\ sessions[intent[r].token] # None /\ sessions[intent[r].token].active
                             /\ sessions'[r].root = sessions[intent[r].token].root
        BY <1>3, <2>2, <3>1, Inserted
      <3>3. sessions[t] # None /\ sessions[t].root = sessions'[r].root
        BY <1>2, <1>3, <3>2 DEF Related, WearsAt
      <3>4. CASE Created(r)
        BY <1>3, <3>2, <3>3, <3>4 DEF Roots
      <3>5. CASE Replace(r)
        BY <1>2, <1>5, <3>2, <3>3, <3>5 DEF LogoutEnds, Related
      <3>6. QED BY <3>1, <3>4, <3>5
    <2>3. QED BY <2>1, <2>2
  <1>6. QED BY <1>1, <1>2, <1>4, <1>5 DEF Revokes

-----------------------------------------------------------------------------
(* Devices and the end of an account. *)

(* Without a row of its own the write inserts one; else it keeps the       *)
(* owner, or gives the device to an account that there is.                 *)
DeviceMovesAt(d) ==
  devices'[d] # None =>
    /\ devices'[d] \in Device
    /\ \/ devices[d] # None /\ devices'[d].user = devices[d].user
       \/ devices'[d].user \in accounts

DevicesMove == devices' \in [Ids -> Device \union {None}] /\ \A d \in Ids : DeviceMovesAt(d)

LEMMA DevicesKept ==
  ASSUME Shapes, UNCHANGED devices
  PROVE  DevicesMove
  BY DEF Shapes, DevicesMove, DeviceMovesAt

LEMMA Written ==
  ASSUME Shapes, Asked, Targets, NEW r \in Requests, pc[r] = "write",
         ~Gone(r), NeedsAccount(r) => Authenticated(r)
  PROVE  /\ Updated(r) \in Device
         /\ \/ devices[seen[r].target] # None /\ Updated(r).user = devices[seen[r].target].user
            \/ Updated(r).user \in accounts
  <1> DEFINE read == seen[r].row
             now == devices[seen[r].target]
             want == Wanted(r)
  <1>1. /\ intent[r].push \in {"t1", "t2"} /\ inst[r] \in Ids /\ accounts \subseteq Ids
        /\ seen[r].target \in Ids
        /\ read # None => now \in Device
    BY DEF Shapes, Asked, OpsAt, Targets, Gone
  <1>2. read = None \/ read.user # intent[r].user => intent[r].user \in accounts
    BY DEF NeedsAccount, Authenticated
  <1>3. want.user = intent[r].user /\ want.inst = inst[r] /\ want.push = intent[r].push /\ want.active = TRUE
    BY DEF Wanted
  <1>4. CASE read = None
    <2>1. want \in Device
      BY <1>1, <1>2, <1>4 DEF Wanted, Device
    <2>2. QED BY <1>2, <1>3, <1>4, <2>1 DEF Updated
  <1>5. CASE read # None
    <2>1. now \in Device /\ now # None
      BY <1>1, <1>5, NoneAssumption
    <2>2. CASE read.user # intent[r].user
      BY <1>1, <1>2, <1>3, <1>5, <2>1, <2>2 DEF Updated, Device
    <2>3. CASE read.user = intent[r].user
      BY <1>1, <1>3, <1>5, <2>1, <2>3 DEF Updated, Device
    <2>4. QED BY <2>2, <2>3
  <1>6. QED BY <1>4, <1>5

LEMMA DevicesStep ==
  ASSUME Shapes, Asked, Targets, [Next]_vars
  PROVE  DevicesMove
  <1> USE DEF Answer, Go, GoHaving, Committed, tables, phoneVars
  <1>1. ASSUME NEW r \in Requests, FindEmail(r) PROVE DevicesMove
    <2>1. UNCHANGED devices
      BY <1>1 DEF FindEmail
    <2>2. QED BY <2>1, DevicesKept
  <1>2. ASSUME NEW r \in Requests, CreateUser(r) PROVE DevicesMove
    <2>1. UNCHANGED devices
      BY <1>2 DEF CreateUser
    <2>2. QED BY <2>1, DevicesKept
  <1>3. ASSUME NEW r \in Requests, FindUser(r) PROVE DevicesMove
    <2>1. UNCHANGED devices
      BY <1>3 DEF FindUser
    <2>2. QED BY <2>1, DevicesKept
  <1>4. ASSUME NEW r \in Requests, CreateSession(r) PROVE DevicesMove
    <2>1. UNCHANGED devices
      BY <1>4 DEF CreateSession
    <2>2. QED BY <2>1, DevicesKept
  <1>5. ASSUME NEW r \in Requests, FindToRotate(r) PROVE DevicesMove
    <2>1. UNCHANGED devices
      BY <1>5 DEF FindToRotate
    <2>2. QED BY <2>1, DevicesKept
  <1>6. ASSUME NEW r \in Requests, FindToRevoke(r) PROVE DevicesMove
    <2>1. UNCHANGED devices
      BY <1>6 DEF FindToRevoke
    <2>2. QED BY <2>1, DevicesKept
  <1>7. ASSUME NEW r \in Requests, Revoke(r) PROVE DevicesMove
    <2>1. UNCHANGED devices
      BY <1>7 DEF Revoke, Revoked
    <2>2. QED BY <2>1, DevicesKept
  <1>8. ASSUME NEW r \in Requests, Rotate(r) PROVE DevicesMove
    <2>1. UNCHANGED devices
      BY <1>8 DEF Rotate
    <2>2. QED BY <2>1, DevicesKept
  <1>9. ASSUME NEW r \in Requests, Replace(r) PROVE DevicesMove
    <2>1. UNCHANGED devices
      BY <1>9 DEF Replace, Revoked
    <2>2. QED BY <2>1, DevicesKept
  <1>10. ASSUME NEW r \in Requests, Readback(r) PROVE DevicesMove
    <2>1. UNCHANGED devices
      BY <1>10 DEF Readback
    <2>2. QED BY <2>1, DevicesKept
  <1>11. ASSUME NEW r \in Requests, RefuseDelete(r) PROVE DevicesMove
    <2>1. UNCHANGED devices
      BY <1>11 DEF RefuseDelete
    <2>2. QED BY <2>1, DevicesKept
  <1>12. ASSUME NEW r \in Requests, LoadUser(r) PROVE DevicesMove
    <2>1. UNCHANGED devices
      BY <1>12 DEF LoadUser
    <2>2. QED BY <2>1, DevicesKept
  <1>13. ASSUME NEW r \in Requests, EraseRow(r) PROVE DevicesMove
    <2>1. UNCHANGED devices
      BY <1>13 DEF EraseRow, ToErase
    <2>2. QED BY <2>1, DevicesKept
  <1>14. ASSUME NEW r \in Requests, EraseUser(r) PROVE DevicesMove
    <2>1. UNCHANGED devices
      BY <1>14 DEF EraseUser
    <2>2. QED BY <2>1, DevicesKept
  <1>15. ASSUME NEW r \in Requests, CommitDelete(r) PROVE DevicesMove
    BY <1>15 DEF CommitDelete, DevicesMove, DeviceMovesAt, Shapes
  <1>16. ASSUME NEW r \in Requests, DenyPermission(r) PROVE DevicesMove
    <2>1. UNCHANGED devices
      BY <1>16 DEF DenyPermission
    <2>2. QED BY <2>1, DevicesKept
  <1>17. ASSUME NEW r \in Requests, GetOrCreate(r) PROVE DevicesMove
    <2>1. UNCHANGED devices
      BY <1>17 DEF GetOrCreate
    <2>2. QED BY <2>1, DevicesKept
  <1>18. ASSUME NEW r \in Requests, LookUpId(r) PROVE DevicesMove
    <2>1. UNCHANGED devices
      BY <1>18 DEF LookUpId, Resolve, Waiters
    <2>2. QED BY <2>1, DevicesKept
  <1>19. ASSUME NEW r \in Requests, StoreId(r) PROVE DevicesMove
    <2>1. UNCHANGED devices
      BY <1>19 DEF StoreId, Resolve, Waiters
    <2>2. QED BY <2>1, DevicesKept
  <1>20. ASSUME NEW r \in Requests, StoreFails(r) PROVE DevicesMove
    <2>1. UNCHANGED devices
      BY <1>20 DEF StoreFails, Waiters
    <2>2. QED BY <2>1, DevicesKept
  <1>21. ASSUME NEW r \in Requests, GetExisting(r) PROVE DevicesMove
    <2>1. UNCHANGED devices
      BY <1>21 DEF GetExisting
    <2>2. QED BY <2>1, DevicesKept
  <1>22. ASSUME NEW r \in Requests, Unauthorized(r) PROVE DevicesMove
    <2>1. UNCHANGED devices
      BY <1>22 DEF Unauthorized
    <2>2. QED BY <2>1, DevicesKept
  <1>23. ASSUME NEW r \in Requests, FindDevice(r) PROVE DevicesMove
    <2>1. UNCHANGED devices
      BY <1>23 DEF FindDevice
    <2>2. QED BY <2>1, DevicesKept
  <1>24. ASSUME NEW r \in Requests, FindTokenOwner(r) PROVE DevicesMove
    <2>1. UNCHANGED devices
      BY <1>24 DEF FindTokenOwner
    <2>2. QED BY <2>1, DevicesKept
  <1>25. ASSUME NEW r \in Requests, DropOwner(r) PROVE DevicesMove
    <2>1. UNCHANGED devices
      BY <1>25 DEF DropOwner
    <2>2. QED BY <2>1, DevicesKept
  <1>26. ASSUME NEW r \in Requests, WriteDevice(r) PROVE DevicesMove
    <2>1. CASE UNCHANGED devices
      BY <2>1, DevicesKept
    <2>2. CASE devices' # devices
      <3>1. /\ pc[r] = "write" /\ ~Gone(r) /\ (NeedsAccount(r) => Authenticated(r))
            /\ devices' = [d \in Ids |-> IF d = seen[r].target THEN Updated(r)
                                         ELSE IF d = seen[r].drop THEN None ELSE devices[d]]
        BY <1>26, <2>2, Zenon DEF WriteDevice
      <3>2. /\ Updated(r) \in Device
            /\ \/ devices[seen[r].target] # None /\ Updated(r).user = devices[seen[r].target].user
               \/ Updated(r).user \in accounts
        BY <3>1, Written
      <3>3. QED BY <3>1, <3>2 DEF DevicesMove, DeviceMovesAt, Shapes
    <2>3. QED BY <2>1, <2>2
  <1>27. ASSUME NEW r \in Requests, FindOwnDevice(r) PROVE DevicesMove
    <2>1. UNCHANGED devices
      BY <1>27 DEF FindOwnDevice
    <2>2. QED BY <2>1, DevicesKept
  <1>28. ASSUME NEW r \in Requests, SwitchOff(r) PROVE DevicesMove
    <2>1. CASE UNCHANGED devices
      BY <2>1, DevicesKept
    <2>2. CASE devices' # devices
      <3> DEFINE d == seen[r].target
                 w == [devices[d] EXCEPT !.active = FALSE]
      <3>1. /\ pc[r] = "off" /\ ~Gone(r) /\ devices' = [devices EXCEPT ![d] = w]
        BY <1>28, <2>2 DEF SwitchOff
      <3>2. d \in Ids /\ devices[d] # None /\ devices[d] \in Device
        BY <3>1 DEF Targets, Gone, Shapes
      <3>3. w \in Device /\ w.user = devices[d].user
        BY <3>2 DEF Device
      <3> HIDE DEF w, d
      <3>4. QED BY <3>1, <3>2, <3>3 DEF DevicesMove, DeviceMovesAt, Shapes
    <2>3. QED BY <2>1, <2>2
  <1>29. ASSUME NEW r \in Requests, DeadlockAbort(r) PROVE DevicesMove
    <2>1. UNCHANGED devices
      BY <1>29 DEF DeadlockAbort
    <2>2. QED BY <2>1, DevicesKept
  <1>30. ASSUME NEW r \in Requests, Crash(r) PROVE DevicesMove
    <2>1. UNCHANGED devices
      BY <1>30 DEF Crash
    <2>2. QED BY <2>1, DevicesKept
  <1>31. ASSUME NEW s \in Ids, Expire(s) PROVE DevicesMove
    <2>1. UNCHANGED devices
      BY <1>31 DEF Expire
    <2>2. QED BY <2>1, DevicesKept
  <1>32. CASE UNCHANGED vars
    BY <1>32, DevicesKept DEF vars
  <1>33. QED
    BY <1>1, <1>2, <1>3, <1>4, <1>5, <1>6, <1>7, <1>8, <1>9, <1>10, <1>11, <1>12, <1>13, <1>14,
       <1>15, <1>16, <1>17, <1>18, <1>19, <1>20, <1>21, <1>22, <1>23, <1>24, <1>25, <1>26, <1>27,
       <1>28, <1>29, <1>30, <1>31, <1>32 DEF Next, Handle, AuthStep, PushStep

AccountsMove == accounts \subseteq accounts' \/ \E r \in Requests : CommitDelete(r)

LEMMA AccountsStep ==
  ASSUME [Next]_vars
  PROVE  AccountsMove
  <1> USE DEF AccountsMove, Answer, Go, GoHaving, Committed, tables, phoneVars
  <1>1. ASSUME NEW r \in Requests, FindEmail(r) PROVE AccountsMove
    BY <1>1 DEF FindEmail
  <1>2. ASSUME NEW r \in Requests, CreateUser(r) PROVE AccountsMove
    BY <1>2 DEF CreateUser
  <1>3. ASSUME NEW r \in Requests, FindUser(r) PROVE AccountsMove
    BY <1>3 DEF FindUser
  <1>4. ASSUME NEW r \in Requests, CreateSession(r) PROVE AccountsMove
    BY <1>4 DEF CreateSession
  <1>5. ASSUME NEW r \in Requests, FindToRotate(r) PROVE AccountsMove
    BY <1>5 DEF FindToRotate
  <1>6. ASSUME NEW r \in Requests, FindToRevoke(r) PROVE AccountsMove
    BY <1>6 DEF FindToRevoke
  <1>7. ASSUME NEW r \in Requests, Revoke(r) PROVE AccountsMove
    BY <1>7 DEF Revoke, Revoked
  <1>8. ASSUME NEW r \in Requests, Rotate(r) PROVE AccountsMove
    BY <1>8 DEF Rotate
  <1>9. ASSUME NEW r \in Requests, Replace(r) PROVE AccountsMove
    BY <1>9 DEF Replace, Revoked
  <1>10. ASSUME NEW r \in Requests, Readback(r) PROVE AccountsMove
    BY <1>10 DEF Readback
  <1>11. ASSUME NEW r \in Requests, RefuseDelete(r) PROVE AccountsMove
    BY <1>11 DEF RefuseDelete
  <1>12. ASSUME NEW r \in Requests, LoadUser(r) PROVE AccountsMove
    BY <1>12 DEF LoadUser
  <1>13. ASSUME NEW r \in Requests, EraseRow(r) PROVE AccountsMove
    BY <1>13 DEF EraseRow, ToErase
  <1>14. ASSUME NEW r \in Requests, EraseUser(r) PROVE AccountsMove
    BY <1>14 DEF EraseUser
  <1>15. ASSUME NEW r \in Requests, CommitDelete(r) PROVE AccountsMove
    BY <1>15
  <1>16. ASSUME NEW r \in Requests, DenyPermission(r) PROVE AccountsMove
    BY <1>16 DEF DenyPermission
  <1>17. ASSUME NEW r \in Requests, GetOrCreate(r) PROVE AccountsMove
    BY <1>17 DEF GetOrCreate
  <1>18. ASSUME NEW r \in Requests, LookUpId(r) PROVE AccountsMove
    BY <1>18 DEF LookUpId, Resolve, Waiters
  <1>19. ASSUME NEW r \in Requests, StoreId(r) PROVE AccountsMove
    BY <1>19 DEF StoreId, Resolve, Waiters
  <1>20. ASSUME NEW r \in Requests, StoreFails(r) PROVE AccountsMove
    BY <1>20 DEF StoreFails, Waiters
  <1>21. ASSUME NEW r \in Requests, GetExisting(r) PROVE AccountsMove
    BY <1>21 DEF GetExisting
  <1>22. ASSUME NEW r \in Requests, Unauthorized(r) PROVE AccountsMove
    BY <1>22 DEF Unauthorized
  <1>23. ASSUME NEW r \in Requests, FindDevice(r) PROVE AccountsMove
    BY <1>23 DEF FindDevice
  <1>24. ASSUME NEW r \in Requests, FindTokenOwner(r) PROVE AccountsMove
    BY <1>24 DEF FindTokenOwner
  <1>25. ASSUME NEW r \in Requests, DropOwner(r) PROVE AccountsMove
    BY <1>25 DEF DropOwner
  <1>26. ASSUME NEW r \in Requests, WriteDevice(r) PROVE AccountsMove
    BY <1>26 DEF WriteDevice
  <1>27. ASSUME NEW r \in Requests, FindOwnDevice(r) PROVE AccountsMove
    BY <1>27 DEF FindOwnDevice
  <1>28. ASSUME NEW r \in Requests, SwitchOff(r) PROVE AccountsMove
    BY <1>28 DEF SwitchOff
  <1>29. ASSUME NEW r \in Requests, DeadlockAbort(r) PROVE AccountsMove
    BY <1>29 DEF DeadlockAbort
  <1>30. ASSUME NEW r \in Requests, Crash(r) PROVE AccountsMove
    BY <1>30 DEF Crash, OnServer
  <1>31. ASSUME NEW s \in Ids, Expire(s) PROVE AccountsMove
    BY <1>31 DEF Expire
  <1>32. CASE UNCHANGED vars
    BY <1>32 DEF vars
  <1>33. QED
    BY <1>1, <1>2, <1>3, <1>4, <1>5, <1>6, <1>7, <1>8, <1>9, <1>10, <1>11, <1>12, <1>13, <1>14,
       <1>15, <1>16, <1>17, <1>18, <1>19, <1>20, <1>21, <1>22, <1>23, <1>24, <1>25, <1>26, <1>27,
       <1>28, <1>29, <1>30, <1>31, <1>32 DEF Next, Handle, AuthStep, PushStep

(* A deletion that commits holds every row of its account. *)
LEMMA DeletedStep ==
  ASSUME Shapes, Answered, Asked, Tokens, Targets, Rotating, NothingOfTheDeleted, [Next]_vars
  PROVE  NothingOfTheDeleted'
  <1>1. SessionsMove /\ DevicesMove
    BY SessionsStep, DevicesStep
  <1>2. accounts \subseteq accounts' \/ \E r \in Requests : CommitDelete(r)
    BY AccountsStep DEF AccountsMove
  <1>3. ASSUME accounts \subseteq accounts'
        PROVE  NothingOfTheDeleted'
    <2>1. ASSUME NEW d \in Ids, devices'[d] # None
          PROVE  devices'[d].user \in accounts
      BY <1>1, <2>1 DEF DevicesMove, DeviceMovesAt, NothingOfTheDeleted
    <2>2. ASSUME NEW s \in Ids, sessions'[s] # None
          PROVE  sessions'[s].user \in accounts
      <3>1. CASE WearsAt(s)
        BY <2>2, <3>1 DEF WearsAt, NothingOfTheDeleted
      <3>2. CASE ~WearsAt(s)
        <4>1. PICK r \in Requests : Created(r) \/ Replace(r)
          BY <1>1, <3>2 DEF SessionsMove, Wears
        <4>2. /\ s = r
              /\ Created(r) => sessions'[r].user = seen[r]
              /\ Replace(r) => /\ intent[r].token \in Ids /\ sessions[intent[r].token] # None
                               /\ sessions'[r].user = sessions[intent[r].token].user
          BY <3>2, <4>1, Inserted
        <4>3. QED BY <4>1, <4>2 DEF Created, NothingOfTheDeleted
      <3>3. QED BY <3>1, <3>2
    <2>3. QED BY <1>3, <2>1, <2>2 DEF NothingOfTheDeleted
  <1>4. ASSUME NEW r \in Requests, CommitDelete(r)
        PROVE  NothingOfTheDeleted'
    <2> DEFINE u == intent[r].user
    <2>1. RowsOf(u) \subseteq held[r]
      BY <1>4 DEF CommitDelete, ToErase
    <2>2. /\ accounts' = accounts \ {u}
          /\ \A s \in Ids : sessions'[s] # None => sessions'[s] = sessions[s] /\ SessionRow(s) \notin held[r]
          /\ \A d \in Ids : devices'[d] # None => devices'[d] = devices[d] /\ DeviceRow(d) \notin held[r]
      BY <1>4 DEF CommitDelete
    <2>3. /\ \A s \in Ids : sessions[s] # None /\ sessions[s].user = u => SessionRow(s) \in held[r]
          /\ \A d \in Ids : devices[d] # None /\ devices[d].user = u => DeviceRow(d) \in held[r]
      BY <2>1 DEF RowsOf
    <2>4. QED BY <2>2, <2>3 DEF NothingOfTheDeleted
  <1>5. QED BY <1>2, <1>3, <1>4

-----------------------------------------------------------------------------
(* Whose the rows are that a deletion takes. *)

LEMMA NamedStep ==
  ASSUME Shapes, Answered, Asked, Tokens, Rotating, Named, [Next]_vars
  PROVE  Named'
  <1>1. GoesForward /\ SessionsMove
    BY ForwardStep, SessionsStep
  <1>2. ASSUME NEW s \in Requests, WearsAt(s), sessions'[s] # None
        PROVE  pc'[s] \in {"readback", "done"}
    BY <1>1, <1>2 DEF Named, WearsAt, GoesForward
  <1>3. CASE Wears
    BY <1>2, <1>3, Names DEF Wears, Named
  <1>4. ASSUME NEW r \in Requests, Created(r) \/ Replace(r)
        PROVE  Named'
    <2>1. \A t \in Ids \ {r} : WearsAt(t)
      BY <1>4, Inserted
    <2>2. pc'[r] = "readback"
      BY <1>4 DEF Created, Replace, Committed, Shapes
    <2>3. QED BY <1>2, <2>1, <2>2, Names DEF Named
  <1>5. QED BY <1>1, <1>3, <1>4 DEF SessionsMove

LEMMA SameUserStep ==
  ASSUME Shapes, Answered, Asked, Tokens, Rotating, Roots, SameUser, [Next]_vars
  PROVE  SameUser'
  <1>1. SessionsMove
    BY SessionsStep
  <1>2. ASSUME NEW s \in Ids, NEW t \in Ids, WearsAt(s), WearsAt(t), Related(s, t)'
        PROVE  sessions'[s].user = sessions'[t].user
    BY <1>2 DEF SameUser, WearsAt, Related
  <1>3. CASE Wears
    BY <1>2, <1>3 DEF Wears, SameUser
  <1>4. ASSUME NEW r \in Requests, Created(r) \/ Replace(r)
        PROVE  SameUser'
    <2>1. /\ \A t \in Ids \ {r} : WearsAt(t)
          /\ pc[r] \notin {"readback", "done"}
          /\ Created(r) => sessions'[r].root = r
          /\ Replace(r) => /\ intent[r].token \in Ids /\ sessions[intent[r].token] # None
                           /\ sessions'[r].user = sessions[intent[r].token].user
                           /\ sessions'[r].root = sessions[intent[r].token].root
      BY <1>4, Inserted
    <2>2. ASSUME NEW t \in Ids \ {r}, Related(t, r)'
          PROVE  sessions'[t].user = sessions'[r].user
      <3>1. /\ sessions[t] # None /\ sessions[t].root = sessions'[r].root
            /\ sessions'[t].user = sessions[t].user
        BY <2>1, <2>2 DEF Related, WearsAt
      <3>2. CASE Created(r)
        BY <2>1, <3>1, <3>2 DEF Roots
      <3>3. CASE Replace(r)
        BY <2>1, <3>1, <3>3 DEF SameUser, Related
      <3>4. QED BY <1>4, <3>2, <3>3
    <2>3. SUFFICES ASSUME NEW s \in Ids, NEW t \in Ids, Related(s, t)'
                   PROVE  sessions'[s].user = sessions'[t].user
      BY DEF SameUser
    <2>4. Related(t, s)'
      BY <2>3 DEF Related
    <2>5. CASE s # r /\ t # r
      BY <1>2, <2>1, <2>3, <2>5
    <2>6. CASE s = r
      BY <2>2, <2>4, <2>6
    <2>7. CASE t = r
      BY <2>2, <2>3, <2>7
    <2>8. QED BY <2>5, <2>6, <2>7
  <1>5. QED BY <1>1, <1>3, <1>4 DEF SessionsMove

(* A deletion has loaded what its account has, or locks one row more. *)
EraseReads ==
  \A q \in Requests : pc'[q] \in {"erase", "cascade"} =>
    \/ /\ pc[q] \in {"erase", "cascade"} /\ (pc'[q] = "erase" => pc[q] = "erase")
       /\ seen'[q] = seen[q] /\ held'[q] \subseteq held[q] \union ToErase(q)
    \/ held'[q] = {} /\ seen'[q] = RowsOf(intent[q].user)

LEMMA EraseReadsStep ==
  ASSUME Shapes, Locks, [Next]_vars
  PROVE  EraseReads
  <1> USE DEF Shapes, Locks, Answer, Go, GoHaving, Committed, tables, phoneVars
  <1>1. ASSUME NEW r \in Requests, FindEmail(r) PROVE EraseReads
    BY <1>1 DEF FindEmail, EraseReads
  <1>2. ASSUME NEW r \in Requests, CreateUser(r) PROVE EraseReads
    BY <1>2 DEF CreateUser, EraseReads
  <1>3. ASSUME NEW r \in Requests, FindUser(r) PROVE EraseReads
    BY <1>3 DEF FindUser, EraseReads
  <1>4. ASSUME NEW r \in Requests, CreateSession(r) PROVE EraseReads
    BY <1>4 DEF CreateSession, EraseReads
  <1>5. ASSUME NEW r \in Requests, FindToRotate(r) PROVE EraseReads
    BY <1>5 DEF FindToRotate, EraseReads
  <1>6. ASSUME NEW r \in Requests, FindToRevoke(r) PROVE EraseReads
    BY <1>6 DEF FindToRevoke, EraseReads
  <1>7. ASSUME NEW r \in Requests, Revoke(r) PROVE EraseReads
    BY <1>7 DEF Revoke, Revoked, EraseReads
  <1>8. ASSUME NEW r \in Requests, Rotate(r) PROVE EraseReads
    BY <1>8 DEF Rotate, EraseReads
  <1>9. ASSUME NEW r \in Requests, Replace(r) PROVE EraseReads
    BY <1>9 DEF Replace, Revoked, EraseReads
  <1>10. ASSUME NEW r \in Requests, Readback(r) PROVE EraseReads
    BY <1>10 DEF Readback, EraseReads
  <1>11. ASSUME NEW r \in Requests, RefuseDelete(r) PROVE EraseReads
    BY <1>11 DEF RefuseDelete, EraseReads
  <1>12. ASSUME NEW r \in Requests, LoadUser(r) PROVE EraseReads
    BY <1>12 DEF LoadUser, EraseReads
  <1>13. ASSUME NEW r \in Requests, EraseRow(r) PROVE EraseReads
    BY <1>13 DEF EraseRow, EraseReads
  <1>14. ASSUME NEW r \in Requests, EraseUser(r) PROVE EraseReads
    BY <1>14 DEF EraseUser, EraseReads
  <1>15. ASSUME NEW r \in Requests, CommitDelete(r) PROVE EraseReads
    BY <1>15 DEF CommitDelete, EraseReads
  <1>16. ASSUME NEW r \in Requests, DenyPermission(r) PROVE EraseReads
    BY <1>16 DEF DenyPermission, EraseReads
  <1>17. ASSUME NEW r \in Requests, GetOrCreate(r) PROVE EraseReads
    BY <1>17 DEF GetOrCreate, EraseReads
  <1>18. ASSUME NEW r \in Requests, LookUpId(r) PROVE EraseReads
    BY <1>18 DEF LookUpId, Resolve, Waiters, EraseReads
  <1>19. ASSUME NEW r \in Requests, StoreId(r) PROVE EraseReads
    BY <1>19 DEF StoreId, Resolve, Waiters, EraseReads
  <1>20. ASSUME NEW r \in Requests, StoreFails(r) PROVE EraseReads
    BY <1>20 DEF StoreFails, Waiters, EraseReads
  <1>21. ASSUME NEW r \in Requests, GetExisting(r) PROVE EraseReads
    BY <1>21 DEF GetExisting, EraseReads
  <1>22. ASSUME NEW r \in Requests, Unauthorized(r) PROVE EraseReads
    BY <1>22 DEF Unauthorized, EraseReads
  <1>23. ASSUME NEW r \in Requests, FindDevice(r) PROVE EraseReads
    BY <1>23 DEF FindDevice, EraseReads
  <1>24. ASSUME NEW r \in Requests, FindTokenOwner(r) PROVE EraseReads
    BY <1>24 DEF FindTokenOwner, EraseReads
  <1>25. ASSUME NEW r \in Requests, DropOwner(r) PROVE EraseReads
    BY <1>25 DEF DropOwner, EraseReads
  <1>26. ASSUME NEW r \in Requests, WriteDevice(r) PROVE EraseReads
    BY <1>26 DEF WriteDevice, EraseReads
  <1>27. ASSUME NEW r \in Requests, FindOwnDevice(r) PROVE EraseReads
    BY <1>27 DEF FindOwnDevice, EraseReads
  <1>28. ASSUME NEW r \in Requests, SwitchOff(r) PROVE EraseReads
    BY <1>28 DEF SwitchOff, EraseReads
  <1>29. ASSUME NEW r \in Requests, DeadlockAbort(r) PROVE EraseReads
    BY <1>29 DEF DeadlockAbort, EraseReads
  <1>30. ASSUME NEW r \in Requests, Crash(r) PROVE EraseReads
    BY <1>30 DEF Crash, OnServer, EraseReads
  <1>31. ASSUME NEW s \in Ids, Expire(s) PROVE EraseReads
    BY <1>31 DEF Expire, EraseReads
  <1>32. CASE UNCHANGED vars
    BY <1>32 DEF vars, EraseReads
  <1>33. QED
    BY <1>1, <1>2, <1>3, <1>4, <1>5, <1>6, <1>7, <1>8, <1>9, <1>10, <1>11, <1>12, <1>13, <1>14,
       <1>15, <1>16, <1>17, <1>18, <1>19, <1>20, <1>21, <1>22, <1>23, <1>24, <1>25, <1>26, <1>27,
       <1>28, <1>29, <1>30, <1>31, <1>32 DEF Next, Handle, AuthStep, PushStep

LEMMA ErasingStep ==
  ASSUME Shapes, Answered, Asked, Tokens, Locks, Rotating, Named, Erasing, [Next]_vars
  PROVE  Erasing'
  <1>1. GoesForward /\ SessionsMove /\ EraseReads
    BY ForwardStep, SessionsStep, EraseReadsStep
  <1>2. SUFFICES ASSUME NEW r \in Requests, NEW s \in Ids, SessionRow(s) \in Doomed(r)'
                 PROVE  /\ s \in Requests => pc'[s] \in {"readback", "done"}
                        /\ sessions'[s] # None => sessions'[s].user = intent[r].user
    BY <1>1 DEF Erasing, GoesForward
  <1>3. SessionRow(s) \in Doomed(r) \/ SessionRow(s) \in RowsOf(intent[r].user)
    <2>1. pc'[r] \in {"erase", "cascade"}
      BY <1>2 DEF Doomed
    <2>2. CASE held'[r] = {} /\ seen'[r] = RowsOf(intent[r].user)
      BY <1>2, <2>2 DEF Doomed
    <2>3. CASE /\ pc[r] \in {"erase", "cascade"} /\ (pc'[r] = "erase" => pc[r] = "erase")
               /\ seen'[r] = seen[r] /\ held'[r] \subseteq held[r] \union ToErase(r)
      BY <1>2, <2>1, <2>3 DEF Doomed, ToErase
    <2>4. QED BY <1>1, <2>1, <2>2, <2>3 DEF EraseReads
  <1>4. /\ s \in Requests => pc[s] \in {"readback", "done"}
        /\ sessions[s] # None => sessions[s].user = intent[r].user
    <2>1. CASE SessionRow(s) \in RowsOf(intent[r].user)
      <3>1. sessions[s] # None /\ sessions[s].user = intent[r].user
        BY <2>1 DEF RowsOf, SessionRow, DeviceRow
      <3>2. QED BY <3>1 DEF Named
    <2>2. QED BY <1>3, <2>1 DEF Erasing
  <1>5. WearsAt(s)
    BY <1>1, <1>4, Inserted DEF SessionsMove, Wears
  <1>6. QED BY <1>1, <1>4, <1>5 DEF WearsAt, GoesForward

-----------------------------------------------------------------------------
(* The values. *)

ControlShapes ==
  /\ pc \in [Requests -> Stages]
  /\ answer \in [Requests -> Replies \union {None}]
  /\ DOMAIN seen = Requests /\ DOMAIN held = Requests

PhoneShapes ==
  /\ stored \in [Phones -> Ids \union {None}]
  /\ pending \in [Phones -> Requests \union {None}]
  /\ inst \in [Requests -> Ids \union {None}]

SessionShapes == accounts \subseteq Ids /\ sessions \in [Ids -> Session \union {None}]

LEMMA ControlStep ==
  ASSUME Shapes, [Next]_vars
  PROVE  ControlShapes'
  <1> USE DEF Shapes, ControlShapes, Stages, OnServer, Replies, Answer, Go, GoHaving, Committed,
     tables, phoneVars
  <1>1. ASSUME NEW r \in Requests, FindEmail(r) PROVE ControlShapes'
    BY <1>1 DEF FindEmail
  <1>2. ASSUME NEW r \in Requests, CreateUser(r) PROVE ControlShapes'
    BY <1>2 DEF CreateUser
  <1>3. ASSUME NEW r \in Requests, FindUser(r) PROVE ControlShapes'
    BY <1>3 DEF FindUser
  <1>4. ASSUME NEW r \in Requests, CreateSession(r) PROVE ControlShapes'
    BY <1>4 DEF CreateSession
  <1>5. ASSUME NEW r \in Requests, FindToRotate(r) PROVE ControlShapes'
    BY <1>5 DEF FindToRotate
  <1>6. ASSUME NEW r \in Requests, FindToRevoke(r) PROVE ControlShapes'
    BY <1>6 DEF FindToRevoke
  <1>7. ASSUME NEW r \in Requests, Revoke(r) PROVE ControlShapes'
    BY <1>7 DEF Revoke, Revoked
  <1>8. ASSUME NEW r \in Requests, Rotate(r) PROVE ControlShapes'
    BY <1>8 DEF Rotate
  <1>9. ASSUME NEW r \in Requests, Replace(r) PROVE ControlShapes'
    BY <1>9 DEF Replace, Revoked
  <1>10. ASSUME NEW r \in Requests, Readback(r) PROVE ControlShapes'
    BY <1>10 DEF Readback
  <1>11. ASSUME NEW r \in Requests, RefuseDelete(r) PROVE ControlShapes'
    BY <1>11 DEF RefuseDelete
  <1>12. ASSUME NEW r \in Requests, LoadUser(r) PROVE ControlShapes'
    BY <1>12 DEF LoadUser
  <1>13. ASSUME NEW r \in Requests, EraseRow(r) PROVE ControlShapes'
    BY <1>13 DEF EraseRow, ToErase
  <1>14. ASSUME NEW r \in Requests, EraseUser(r) PROVE ControlShapes'
    BY <1>14 DEF EraseUser
  <1>15. ASSUME NEW r \in Requests, CommitDelete(r) PROVE ControlShapes'
    BY <1>15 DEF CommitDelete
  <1>16. ASSUME NEW r \in Requests, DenyPermission(r) PROVE ControlShapes'
    BY <1>16 DEF DenyPermission
  <1>17. ASSUME NEW r \in Requests, GetOrCreate(r) PROVE ControlShapes'
    BY <1>17 DEF GetOrCreate
  <1>18. ASSUME NEW r \in Requests, LookUpId(r) PROVE ControlShapes'
    BY <1>18 DEF LookUpId, Resolve, Waiters
  <1>19. ASSUME NEW r \in Requests, StoreId(r) PROVE ControlShapes'
    BY <1>19 DEF StoreId, Resolve, Waiters
  <1>20. ASSUME NEW r \in Requests, StoreFails(r) PROVE ControlShapes'
    BY <1>20 DEF StoreFails, Waiters
  <1>21. ASSUME NEW r \in Requests, GetExisting(r) PROVE ControlShapes'
    BY <1>21 DEF GetExisting
  <1>22. ASSUME NEW r \in Requests, Unauthorized(r) PROVE ControlShapes'
    BY <1>22 DEF Unauthorized
  <1>23. ASSUME NEW r \in Requests, FindDevice(r) PROVE ControlShapes'
    BY <1>23 DEF FindDevice
  <1>24. ASSUME NEW r \in Requests, FindTokenOwner(r) PROVE ControlShapes'
    BY <1>24 DEF FindTokenOwner
  <1>25. ASSUME NEW r \in Requests, DropOwner(r) PROVE ControlShapes'
    BY <1>25 DEF DropOwner
  <1>26. ASSUME NEW r \in Requests, WriteDevice(r) PROVE ControlShapes'
    BY <1>26 DEF WriteDevice
  <1>27. ASSUME NEW r \in Requests, FindOwnDevice(r) PROVE ControlShapes'
    BY <1>27 DEF FindOwnDevice
  <1>28. ASSUME NEW r \in Requests, SwitchOff(r) PROVE ControlShapes'
    BY <1>28 DEF SwitchOff
  <1>29. ASSUME NEW r \in Requests, DeadlockAbort(r) PROVE ControlShapes'
    BY <1>29 DEF DeadlockAbort
  <1>30. ASSUME NEW r \in Requests, Crash(r) PROVE ControlShapes'
    BY <1>30 DEF Crash, OnServer
  <1>31. ASSUME NEW s \in Ids, Expire(s) PROVE ControlShapes'
    BY <1>31 DEF Expire
  <1>32. CASE UNCHANGED vars
    BY <1>32 DEF vars
  <1>33. QED
    BY <1>1, <1>2, <1>3, <1>4, <1>5, <1>6, <1>7, <1>8, <1>9, <1>10, <1>11, <1>12, <1>13, <1>14,
       <1>15, <1>16, <1>17, <1>18, <1>19, <1>20, <1>21, <1>22, <1>23, <1>24, <1>25, <1>26, <1>27,
       <1>28, <1>29, <1>30, <1>31, <1>32 DEF Next, Handle, AuthStep, PushStep

LEMMA PhonesStep ==
  ASSUME Shapes, Asked, [Next]_vars
  PROVE  PhoneShapes'
  <1> USE Names DEF Shapes, PhoneShapes, PhoneOf, Answer, Go, GoHaving, Committed, tables, phoneVars
  <1>1. ASSUME NEW r \in Requests, FindEmail(r) PROVE PhoneShapes'
    BY <1>1 DEF FindEmail
  <1>2. ASSUME NEW r \in Requests, CreateUser(r) PROVE PhoneShapes'
    BY <1>2 DEF CreateUser
  <1>3. ASSUME NEW r \in Requests, FindUser(r) PROVE PhoneShapes'
    BY <1>3 DEF FindUser
  <1>4. ASSUME NEW r \in Requests, CreateSession(r) PROVE PhoneShapes'
    BY <1>4 DEF CreateSession
  <1>5. ASSUME NEW r \in Requests, FindToRotate(r) PROVE PhoneShapes'
    BY <1>5 DEF FindToRotate
  <1>6. ASSUME NEW r \in Requests, FindToRevoke(r) PROVE PhoneShapes'
    BY <1>6 DEF FindToRevoke
  <1>7. ASSUME NEW r \in Requests, Revoke(r) PROVE PhoneShapes'
    BY <1>7 DEF Revoke, Revoked
  <1>8. ASSUME NEW r \in Requests, Rotate(r) PROVE PhoneShapes'
    BY <1>8 DEF Rotate
  <1>9. ASSUME NEW r \in Requests, Replace(r) PROVE PhoneShapes'
    BY <1>9 DEF Replace, Revoked
  <1>10. ASSUME NEW r \in Requests, Readback(r) PROVE PhoneShapes'
    BY <1>10 DEF Readback
  <1>11. ASSUME NEW r \in Requests, RefuseDelete(r) PROVE PhoneShapes'
    BY <1>11 DEF RefuseDelete
  <1>12. ASSUME NEW r \in Requests, LoadUser(r) PROVE PhoneShapes'
    BY <1>12 DEF LoadUser
  <1>13. ASSUME NEW r \in Requests, EraseRow(r) PROVE PhoneShapes'
    BY <1>13 DEF EraseRow, ToErase
  <1>14. ASSUME NEW r \in Requests, EraseUser(r) PROVE PhoneShapes'
    BY <1>14 DEF EraseUser
  <1>15. ASSUME NEW r \in Requests, CommitDelete(r) PROVE PhoneShapes'
    BY <1>15 DEF CommitDelete
  <1>16. ASSUME NEW r \in Requests, DenyPermission(r) PROVE PhoneShapes'
    BY <1>16 DEF DenyPermission
  <1>17. ASSUME NEW r \in Requests, GetOrCreate(r) PROVE PhoneShapes'
    BY <1>17 DEF GetOrCreate, Asked, OpsAt, Op
  <1>18. ASSUME NEW r \in Requests, LookUpId(r) PROVE PhoneShapes'
    BY <1>18 DEF LookUpId, Resolve, Waiters, Asked, OpsAt, Op
  <1>19. ASSUME NEW r \in Requests, StoreId(r) PROVE PhoneShapes'
    BY <1>19 DEF StoreId, Resolve, Waiters, Asked, OpsAt, Op
  <1>20. ASSUME NEW r \in Requests, StoreFails(r) PROVE PhoneShapes'
    BY <1>20 DEF StoreFails, Waiters, Asked, OpsAt, Op
  <1>21. ASSUME NEW r \in Requests, GetExisting(r) PROVE PhoneShapes'
    BY <1>21 DEF GetExisting, Asked, OpsAt, Op
  <1>22. ASSUME NEW r \in Requests, Unauthorized(r) PROVE PhoneShapes'
    BY <1>22 DEF Unauthorized
  <1>23. ASSUME NEW r \in Requests, FindDevice(r) PROVE PhoneShapes'
    BY <1>23 DEF FindDevice
  <1>24. ASSUME NEW r \in Requests, FindTokenOwner(r) PROVE PhoneShapes'
    BY <1>24 DEF FindTokenOwner
  <1>25. ASSUME NEW r \in Requests, DropOwner(r) PROVE PhoneShapes'
    BY <1>25 DEF DropOwner
  <1>26. ASSUME NEW r \in Requests, WriteDevice(r) PROVE PhoneShapes'
    BY <1>26 DEF WriteDevice
  <1>27. ASSUME NEW r \in Requests, FindOwnDevice(r) PROVE PhoneShapes'
    BY <1>27 DEF FindOwnDevice
  <1>28. ASSUME NEW r \in Requests, SwitchOff(r) PROVE PhoneShapes'
    BY <1>28 DEF SwitchOff
  <1>29. ASSUME NEW r \in Requests, DeadlockAbort(r) PROVE PhoneShapes'
    BY <1>29 DEF DeadlockAbort
  <1>30. ASSUME NEW r \in Requests, Crash(r) PROVE PhoneShapes'
    BY <1>30 DEF Crash, OnServer
  <1>31. ASSUME NEW s \in Ids, Expire(s) PROVE PhoneShapes'
    BY <1>31 DEF Expire
  <1>32. CASE UNCHANGED vars
    BY <1>32 DEF vars
  <1>33. QED
    BY <1>1, <1>2, <1>3, <1>4, <1>5, <1>6, <1>7, <1>8, <1>9, <1>10, <1>11, <1>12, <1>13, <1>14,
       <1>15, <1>16, <1>17, <1>18, <1>19, <1>20, <1>21, <1>22, <1>23, <1>24, <1>25, <1>26, <1>27,
       <1>28, <1>29, <1>30, <1>31, <1>32 DEF Next, Handle, AuthStep, PushStep

LEMMA SessionShapesStep ==
  ASSUME Shapes, Answered, Tokens, Rotating, [Next]_vars
  PROVE  SessionShapes'
  <1> USE Names DEF Shapes, SessionShapes, Answer, Go, GoHaving, Committed, tables, phoneVars
  <1>1. ASSUME NEW r \in Requests, FindEmail(r) PROVE SessionShapes'
    BY <1>1 DEF FindEmail
  <1>2. ASSUME NEW r \in Requests, CreateUser(r) PROVE SessionShapes'
    BY <1>2 DEF CreateUser
  <1>3. ASSUME NEW r \in Requests, FindUser(r) PROVE SessionShapes'
    BY <1>3 DEF FindUser
  <1>4. ASSUME NEW r \in Requests, CreateSession(r) PROVE SessionShapes'
    <2>1. seen[r] \in accounts => NewSession(seen[r], r) \in Session
      BY Names DEF NewSession, Session
    <2>2. QED BY <1>4, <2>1 DEF CreateSession
  <1>5. ASSUME NEW r \in Requests, FindToRotate(r) PROVE SessionShapes'
    BY <1>5 DEF FindToRotate
  <1>6. ASSUME NEW r \in Requests, FindToRevoke(r) PROVE SessionShapes'
    BY <1>6 DEF FindToRevoke
  <1>7. ASSUME NEW r \in Requests, Revoke(r) PROVE SessionShapes'
    <2>1. CASE StillActive(r)
      <3>1. sessions' = [sessions EXCEPT ![intent[r].token].active = FALSE] /\ UNCHANGED accounts
        BY <1>7, <2>1 DEF Revoke, Revoked
      <3>2. intent[r].token \in Ids /\ sessions[intent[r].token] \in Session
        BY <1>7, <2>1, NotYetKnown DEF Revoke, StillActive, Tokens
      <3>3. [sessions[intent[r].token] EXCEPT !.active = FALSE] \in Session
        BY <3>2 DEF Session
      <3>4. QED BY <3>1, <3>2, <3>3
    <2>2. CASE ~StillActive(r)
      BY <1>7, <2>2 DEF Revoke
    <2>3. QED BY <2>1, <2>2
  <1>8. ASSUME NEW r \in Requests, Rotate(r) PROVE SessionShapes'
    BY <1>8 DEF Rotate
  <1>9. ASSUME NEW r \in Requests, Replace(r) PROVE SessionShapes'
    <2> DEFINE t == intent[r].token
               w == [sessions[t] EXCEPT !.active = FALSE]
               n == NewSession(seen[r].user, seen[r].root)
    <2>1. t \in Ids /\ sessions[t] \in Session /\ seen[r] \in Session
      BY <1>9, NotYetKnown DEF Replace, Rotating, Tokens
    <2>2. w \in Session /\ n \in Session
      BY <2>1 DEF Session, NewSession
    <2>3. sessions' = [[sessions EXCEPT ![t] = w] EXCEPT ![r] = n] /\ UNCHANGED accounts
      BY <1>9 DEF Replace, Revoked
    <2> HIDE DEF w, n, t
    <2>4. QED BY <2>1, <2>2, <2>3
  <1>10. ASSUME NEW r \in Requests, Readback(r) PROVE SessionShapes'
    BY <1>10 DEF Readback
  <1>11. ASSUME NEW r \in Requests, RefuseDelete(r) PROVE SessionShapes'
    BY <1>11 DEF RefuseDelete
  <1>12. ASSUME NEW r \in Requests, LoadUser(r) PROVE SessionShapes'
    BY <1>12 DEF LoadUser
  <1>13. ASSUME NEW r \in Requests, EraseRow(r) PROVE SessionShapes'
    BY <1>13 DEF EraseRow, ToErase
  <1>14. ASSUME NEW r \in Requests, EraseUser(r) PROVE SessionShapes'
    BY <1>14 DEF EraseUser
  <1>15. ASSUME NEW r \in Requests, CommitDelete(r) PROVE SessionShapes'
    BY <1>15 DEF CommitDelete
  <1>16. ASSUME NEW r \in Requests, DenyPermission(r) PROVE SessionShapes'
    BY <1>16 DEF DenyPermission
  <1>17. ASSUME NEW r \in Requests, GetOrCreate(r) PROVE SessionShapes'
    BY <1>17 DEF GetOrCreate
  <1>18. ASSUME NEW r \in Requests, LookUpId(r) PROVE SessionShapes'
    BY <1>18 DEF LookUpId, Resolve, Waiters
  <1>19. ASSUME NEW r \in Requests, StoreId(r) PROVE SessionShapes'
    BY <1>19 DEF StoreId, Resolve, Waiters
  <1>20. ASSUME NEW r \in Requests, StoreFails(r) PROVE SessionShapes'
    BY <1>20 DEF StoreFails, Waiters
  <1>21. ASSUME NEW r \in Requests, GetExisting(r) PROVE SessionShapes'
    BY <1>21 DEF GetExisting
  <1>22. ASSUME NEW r \in Requests, Unauthorized(r) PROVE SessionShapes'
    BY <1>22 DEF Unauthorized
  <1>23. ASSUME NEW r \in Requests, FindDevice(r) PROVE SessionShapes'
    BY <1>23 DEF FindDevice
  <1>24. ASSUME NEW r \in Requests, FindTokenOwner(r) PROVE SessionShapes'
    BY <1>24 DEF FindTokenOwner
  <1>25. ASSUME NEW r \in Requests, DropOwner(r) PROVE SessionShapes'
    BY <1>25 DEF DropOwner
  <1>26. ASSUME NEW r \in Requests, WriteDevice(r) PROVE SessionShapes'
    BY <1>26 DEF WriteDevice
  <1>27. ASSUME NEW r \in Requests, FindOwnDevice(r) PROVE SessionShapes'
    BY <1>27 DEF FindOwnDevice
  <1>28. ASSUME NEW r \in Requests, SwitchOff(r) PROVE SessionShapes'
    BY <1>28 DEF SwitchOff
  <1>29. ASSUME NEW r \in Requests, DeadlockAbort(r) PROVE SessionShapes'
    BY <1>29 DEF DeadlockAbort
  <1>30. ASSUME NEW r \in Requests, Crash(r) PROVE SessionShapes'
    BY <1>30 DEF Crash, OnServer
  <1>31. ASSUME NEW s \in Ids, Expire(s) PROVE SessionShapes'
    <2> DEFINE w == [sessions[s] EXCEPT !.expired = TRUE]
    <2>1. sessions[s] \in Session /\ sessions' = [sessions EXCEPT ![s] = w] /\ UNCHANGED accounts
      BY <1>31 DEF Expire
    <2>2. w \in Session
      BY <2>1 DEF Session
    <2> HIDE DEF w
    <2>3. QED BY <2>1, <2>2
  <1>32. CASE UNCHANGED vars
    BY <1>32 DEF vars
  <1>33. QED
    BY <1>1, <1>2, <1>3, <1>4, <1>5, <1>6, <1>7, <1>8, <1>9, <1>10, <1>11, <1>12, <1>13, <1>14,
       <1>15, <1>16, <1>17, <1>18, <1>19, <1>20, <1>21, <1>22, <1>23, <1>24, <1>25, <1>26, <1>27,
       <1>28, <1>29, <1>30, <1>31, <1>32 DEF Next, Handle, AuthStep, PushStep

LEMMA ShapesStep ==
  ASSUME Shapes, Answered, Asked, Tokens, Targets, Rotating, [Next]_vars
  PROVE  Shapes'
  <1>1. ControlShapes' /\ PhoneShapes' /\ SessionShapes' /\ DevicesMove
    BY ControlStep, PhonesStep, SessionShapesStep, DevicesStep
  <1>2. QED BY <1>1 DEF Shapes, ControlShapes, PhoneShapes, SessionShapes, DevicesMove

LEMMA TargetsStep ==
  ASSUME Shapes, Asked, Creation, Targets, [Next]_vars
  PROVE  Targets'
  <1> USE Names DEF Shapes, Answer, Go, GoHaving, Committed, tables, phoneVars
  <1>1. ASSUME NEW r \in Requests, FindEmail(r) PROVE Targets'
    BY <1>1 DEF FindEmail, Targets
  <1>2. ASSUME NEW r \in Requests, CreateUser(r) PROVE Targets'
    BY <1>2 DEF CreateUser, Targets
  <1>3. ASSUME NEW r \in Requests, FindUser(r) PROVE Targets'
    BY <1>3 DEF FindUser, Targets
  <1>4. ASSUME NEW r \in Requests, CreateSession(r) PROVE Targets'
    BY <1>4 DEF CreateSession, Targets
  <1>5. ASSUME NEW r \in Requests, FindToRotate(r) PROVE Targets'
    BY <1>5 DEF FindToRotate, Targets
  <1>6. ASSUME NEW r \in Requests, FindToRevoke(r) PROVE Targets'
    BY <1>6 DEF FindToRevoke, Targets
  <1>7. ASSUME NEW r \in Requests, Revoke(r) PROVE Targets'
    BY <1>7 DEF Revoke, Revoked, Targets
  <1>8. ASSUME NEW r \in Requests, Rotate(r) PROVE Targets'
    BY <1>8 DEF Rotate, Targets
  <1>9. ASSUME NEW r \in Requests, Replace(r) PROVE Targets'
    BY <1>9 DEF Replace, Revoked, Targets
  <1>10. ASSUME NEW r \in Requests, Readback(r) PROVE Targets'
    BY <1>10 DEF Readback, Targets
  <1>11. ASSUME NEW r \in Requests, RefuseDelete(r) PROVE Targets'
    BY <1>11 DEF RefuseDelete, Targets
  <1>12. ASSUME NEW r \in Requests, LoadUser(r) PROVE Targets'
    BY <1>12 DEF LoadUser, Targets
  <1>13. ASSUME NEW r \in Requests, EraseRow(r) PROVE Targets'
    BY <1>13 DEF EraseRow, ToErase, Targets
  <1>14. ASSUME NEW r \in Requests, EraseUser(r) PROVE Targets'
    BY <1>14 DEF EraseUser, Targets
  <1>15. ASSUME NEW r \in Requests, CommitDelete(r) PROVE Targets'
    BY <1>15 DEF CommitDelete, Targets
  <1>16. ASSUME NEW r \in Requests, DenyPermission(r) PROVE Targets'
    BY <1>16 DEF DenyPermission, Targets
  <1>17. ASSUME NEW r \in Requests, GetOrCreate(r) PROVE Targets'
    BY <1>17 DEF GetOrCreate, Targets
  <1>18. ASSUME NEW r \in Requests, LookUpId(r) PROVE Targets'
    BY <1>18 DEF LookUpId, Resolve, Waiters, Targets, Creation, PhoneOf, Asked, OpsAt, Op
  <1>19. ASSUME NEW r \in Requests, StoreId(r) PROVE Targets'
    BY <1>19 DEF StoreId, Resolve, Waiters, Targets, Creation, PhoneOf, Asked, OpsAt, Op
  <1>20. ASSUME NEW r \in Requests, StoreFails(r) PROVE Targets'
    BY <1>20 DEF StoreFails, Waiters, Targets, Creation, PhoneOf, Asked, OpsAt, Op
  <1>21. ASSUME NEW r \in Requests, GetExisting(r) PROVE Targets'
    BY <1>21 DEF GetExisting, Targets, Creation, PhoneOf, Asked, OpsAt, Op
  <1>22. ASSUME NEW r \in Requests, Unauthorized(r) PROVE Targets'
    BY <1>22 DEF Unauthorized, Targets
  <1>23. ASSUME NEW r \in Requests, FindDevice(r) PROVE Targets'
    BY <1>23 DEF FindDevice, Targets, Find, RowAt, ByInstallation, ByToken
  <1>24. ASSUME NEW r \in Requests, FindTokenOwner(r) PROVE Targets'
    BY <1>24 DEF FindTokenOwner, Targets, Find, RowAt, ByInstallation, ByToken
  <1>25. ASSUME NEW r \in Requests, DropOwner(r) PROVE Targets'
    BY <1>25 DEF DropOwner, Targets
  <1>26. ASSUME NEW r \in Requests, WriteDevice(r) PROVE Targets'
    BY <1>26 DEF WriteDevice, Targets
  <1>27. ASSUME NEW r \in Requests, FindOwnDevice(r) PROVE Targets'
    BY <1>27 DEF FindOwnDevice, Targets, Find, RowAt, ByInstallation, ByToken
  <1>28. ASSUME NEW r \in Requests, SwitchOff(r) PROVE Targets'
    BY <1>28 DEF SwitchOff, Targets
  <1>29. ASSUME NEW r \in Requests, DeadlockAbort(r) PROVE Targets'
    BY <1>29 DEF DeadlockAbort, Targets
  <1>30. ASSUME NEW r \in Requests, Crash(r) PROVE Targets'
    BY <1>30 DEF Crash, OnServer, Targets
  <1>31. ASSUME NEW s \in Ids, Expire(s) PROVE Targets'
    BY <1>31 DEF Expire, Targets
  <1>32. CASE UNCHANGED vars
    BY <1>32 DEF vars, Targets
  <1>33. QED
    BY <1>1, <1>2, <1>3, <1>4, <1>5, <1>6, <1>7, <1>8, <1>9, <1>10, <1>11, <1>12, <1>13, <1>14,
       <1>15, <1>16, <1>17, <1>18, <1>19, <1>20, <1>21, <1>22, <1>23, <1>24, <1>25, <1>26, <1>27,
       <1>28, <1>29, <1>30, <1>31, <1>32 DEF Next, Handle, AuthStep, PushStep

LEMMA InstallationStep ==
  ASSUME Shapes, Asked, Creation, OneInstallationId, [Next]_vars
  PROVE  OneInstallationId'
  <1> USE Names DEF Shapes, PhoneOf, OneInstallationId, Answer, Go, GoHaving, Committed, tables,
     phoneVars
  <1>1. ASSUME NEW r \in Requests, FindEmail(r) PROVE OneInstallationId'
    BY <1>1 DEF FindEmail
  <1>2. ASSUME NEW r \in Requests, CreateUser(r) PROVE OneInstallationId'
    BY <1>2 DEF CreateUser
  <1>3. ASSUME NEW r \in Requests, FindUser(r) PROVE OneInstallationId'
    BY <1>3 DEF FindUser
  <1>4. ASSUME NEW r \in Requests, CreateSession(r) PROVE OneInstallationId'
    BY <1>4 DEF CreateSession
  <1>5. ASSUME NEW r \in Requests, FindToRotate(r) PROVE OneInstallationId'
    BY <1>5 DEF FindToRotate
  <1>6. ASSUME NEW r \in Requests, FindToRevoke(r) PROVE OneInstallationId'
    BY <1>6 DEF FindToRevoke
  <1>7. ASSUME NEW r \in Requests, Revoke(r) PROVE OneInstallationId'
    BY <1>7 DEF Revoke, Revoked
  <1>8. ASSUME NEW r \in Requests, Rotate(r) PROVE OneInstallationId'
    BY <1>8 DEF Rotate
  <1>9. ASSUME NEW r \in Requests, Replace(r) PROVE OneInstallationId'
    BY <1>9 DEF Replace, Revoked
  <1>10. ASSUME NEW r \in Requests, Readback(r) PROVE OneInstallationId'
    BY <1>10 DEF Readback
  <1>11. ASSUME NEW r \in Requests, RefuseDelete(r) PROVE OneInstallationId'
    BY <1>11 DEF RefuseDelete
  <1>12. ASSUME NEW r \in Requests, LoadUser(r) PROVE OneInstallationId'
    BY <1>12 DEF LoadUser
  <1>13. ASSUME NEW r \in Requests, EraseRow(r) PROVE OneInstallationId'
    BY <1>13 DEF EraseRow, ToErase
  <1>14. ASSUME NEW r \in Requests, EraseUser(r) PROVE OneInstallationId'
    BY <1>14 DEF EraseUser
  <1>15. ASSUME NEW r \in Requests, CommitDelete(r) PROVE OneInstallationId'
    BY <1>15 DEF CommitDelete
  <1>16. ASSUME NEW r \in Requests, DenyPermission(r) PROVE OneInstallationId'
    BY <1>16 DEF DenyPermission
  <1>17. ASSUME NEW r \in Requests, GetOrCreate(r) PROVE OneInstallationId'
    BY <1>17 DEF GetOrCreate
  <1>18. ASSUME NEW r \in Requests, LookUpId(r) PROVE OneInstallationId'
    BY <1>18 DEF LookUpId, Resolve, Waiters, Creation, Asked, OpsAt, Op
  <1>19. ASSUME NEW r \in Requests, StoreId(r) PROVE OneInstallationId'
    BY <1>19 DEF StoreId, Resolve, Waiters, Creation, Asked, OpsAt, Op
  <1>20. ASSUME NEW r \in Requests, StoreFails(r) PROVE OneInstallationId'
    BY <1>20 DEF StoreFails, Waiters, Creation, Asked, OpsAt, Op
  <1>21. ASSUME NEW r \in Requests, GetExisting(r) PROVE OneInstallationId'
    BY <1>21 DEF GetExisting, Creation, Asked, OpsAt, Op
  <1>22. ASSUME NEW r \in Requests, Unauthorized(r) PROVE OneInstallationId'
    BY <1>22 DEF Unauthorized
  <1>23. ASSUME NEW r \in Requests, FindDevice(r) PROVE OneInstallationId'
    BY <1>23 DEF FindDevice
  <1>24. ASSUME NEW r \in Requests, FindTokenOwner(r) PROVE OneInstallationId'
    BY <1>24 DEF FindTokenOwner
  <1>25. ASSUME NEW r \in Requests, DropOwner(r) PROVE OneInstallationId'
    BY <1>25 DEF DropOwner
  <1>26. ASSUME NEW r \in Requests, WriteDevice(r) PROVE OneInstallationId'
    BY <1>26 DEF WriteDevice
  <1>27. ASSUME NEW r \in Requests, FindOwnDevice(r) PROVE OneInstallationId'
    BY <1>27 DEF FindOwnDevice
  <1>28. ASSUME NEW r \in Requests, SwitchOff(r) PROVE OneInstallationId'
    BY <1>28 DEF SwitchOff
  <1>29. ASSUME NEW r \in Requests, DeadlockAbort(r) PROVE OneInstallationId'
    BY <1>29 DEF DeadlockAbort
  <1>30. ASSUME NEW r \in Requests, Crash(r) PROVE OneInstallationId'
    BY <1>30 DEF Crash, OnServer
  <1>31. ASSUME NEW s \in Ids, Expire(s) PROVE OneInstallationId'
    BY <1>31 DEF Expire
  <1>32. CASE UNCHANGED vars
    BY <1>32 DEF vars
  <1>33. QED
    BY <1>1, <1>2, <1>3, <1>4, <1>5, <1>6, <1>7, <1>8, <1>9, <1>10, <1>11, <1>12, <1>13, <1>14,
       <1>15, <1>16, <1>17, <1>18, <1>19, <1>20, <1>21, <1>22, <1>23, <1>24, <1>25, <1>26, <1>27,
       <1>28, <1>29, <1>30, <1>31, <1>32 DEF Next, Handle, AuthStep, PushStep

-----------------------------------------------------------------------------
(* The invariant. *)

LEMMA Initially == Init => IInv
  <1> SUFFICES ASSUME Init PROVE IInv
    OBVIOUS
  <1>1. PICK story \in Stories :
          /\ intent = story.intent
          /\ devices = [d \in Ids |-> IF d \in SeedAccounts THEN story.devices[d] ELSE None]
          /\ stored = story.stored
    BY DEF Init
  <1>2. /\ \A r \in Requests : story.intent[r].op \in {"enable", "disable"} => story.intent[r].phone \in Phones
        /\ \A r \in Requests : story.intent[r].op = "enable" => story.intent[r].push \in {"t1", "t2"}
        /\ \A u \in SeedAccounts : story.devices[u] # None =>
             story.devices[u] \in Device /\ story.devices[u].user \in SeedAccounts
        /\ story.stored \in [Phones -> SeedAccounts \union {None}]
        /\ \A p, q \in Phones : story.stored[p] = story.stored[q] /\ story.stored[p] # None => p = q
    BY StoriesAssumption
  <1>3. /\ accounts = SeedAccounts
        /\ sessions = [s \in Ids |-> IF s \in SeedAccounts
                         THEN [user |-> s, root |-> s, active |-> TRUE, expired |-> FALSE] ELSE None]
        /\ pc = [r \in Requests |-> "idle"] /\ seen = [r \in Requests |-> None]
        /\ held = [r \in Requests |-> {}] /\ answer = [r \in Requests |-> None]
        /\ pending = [p \in Phones |-> None] /\ inst = [r \in Requests |-> None]
    BY DEF Init
  <1>4. \A s \in Ids : sessions[s] # None =>
          s \in SeedAccounts /\ sessions[s] \in Session /\ sessions[s].user = s /\ sessions[s].root = s
    BY <1>3, Names DEF Session
  <1>5. \A d \in Ids : devices[d] # None => devices[d] \in Device /\ devices[d].user \in SeedAccounts
    BY <1>1, <1>2
  <1>6. Shapes
    <2>1. sessions \in [Ids -> Session \union {None}]
      BY <1>3, <1>4
    <2>2. devices \in [Ids -> Device \union {None}]
      BY <1>1, <1>5
    <2>3. stored \in [Phones -> Ids \union {None}]
      BY <1>1, <1>2, Names
    <2>4. QED BY <1>3, <2>1, <2>2, <2>3, Names DEF Shapes, Stages
  <1>7. Asked /\ Answered /\ Tokens /\ Targets
    BY <1>1, <1>2, <1>3, NoneAssumption DEF Asked, Answered, Tokens, Targets, LoggedOut, Op, PhoneOf, Replies
  <1>8. Locks /\ Rotating
    BY <1>3 DEF Locks, Rotating
  <1>9. Roots
    BY <1>4, RequestsAssumption DEF Roots
  <1>10. OneActive
    BY <1>4 DEF OneActive, Related
  <1>11. LogoutEnds
    BY <1>3, NoneAssumption DEF LogoutEnds, LoggedOut, Replies
  <1>12. NothingOfTheDeleted
    BY <1>3, <1>4, <1>5 DEF NothingOfTheDeleted
  <1>13. Creation
    BY <1>1, <1>2, <1>3, Names, RequestsAssumption DEF Creation
  <1>14. OneInstallationId
    BY <1>3 DEF OneInstallationId
  <1>15. Named /\ SameUser /\ Erasing
    BY <1>3, <1>4, RequestsAssumption DEF Named, SameUser, Related, Erasing, Doomed, Ids
  <1>16. QED
    BY <1>6, <1>7, <1>8, <1>9, <1>10, <1>11, <1>12, <1>13, <1>14, <1>15 DEF IInv

LEMMA Inductive == IInv /\ [Next]_vars => IInv'
  <1> SUFFICES ASSUME IInv, [Next]_vars PROVE IInv'
    OBVIOUS
  <1>1. /\ Shapes /\ Asked /\ Answered /\ Tokens /\ Targets /\ Locks /\ Rotating
        /\ Roots /\ OneActive /\ LogoutEnds /\ NothingOfTheDeleted /\ Creation /\ OneInstallationId
        /\ Named /\ SameUser /\ Erasing
    BY DEF IInv
  <1>2. Shapes' /\ Asked' /\ Answered' /\ Tokens' /\ Targets'
    BY <1>1, ShapesStep, AskedStep, AnsweredStep, TokensStep, TargetsStep
  <1>3. Locks' /\ Rotating' /\ Creation' /\ OneInstallationId'
    BY <1>1, LocksStep, RotatingStep, CreationStep, InstallationStep
  <1>4. Roots' /\ OneActive' /\ LogoutEnds' /\ NothingOfTheDeleted'
    BY <1>1, RootsStep, OneActiveStep, LogoutEndsStep, DeletedStep
  <1>5. Named' /\ SameUser' /\ Erasing'
    BY <1>1, NamedStep, SameUserStep, ErasingStep
  <1>6. QED BY <1>2, <1>3, <1>4, <1>5 DEF IInv

(* The inductive invariant holds in every state of every behaviour.        *)
THEOREM Invariance == Spec => []IInv
  BY Initially, Inductive, PTL DEF Spec

(* The types of the tables and of the requests; locks are held only between*)
(* statements of one transaction, and no two phones keep one id.           *)
THEOREM TypeCorrect == Spec => []TypeOK
  <1>1. IInv => TypeOK
    <2> SUFFICES ASSUME IInv PROVE TypeOK
      OBVIOUS
    <2>1. Shapes /\ Answered /\ Locks /\ Creation
      BY DEF IInv
    <2>2. /\ accounts \subseteq Ids
          /\ \A s \in Ids : sessions[s] # None => sessions[s] \in Session
          /\ \A d \in Ids : devices[d] # None => devices[d] \in Device
          /\ \A r \in Requests : pc[r] \in OnServer \union {"idle", "join", "lookup", "store", "done"}
      BY <2>1 DEF Shapes, Stages
    <2>3. QED BY <2>1, <2>2 DEF TypeOK, Answered, Locks, Creation
  <1>2. QED BY <1>1, Invariance, PTL

(* AuthSessionRepository.rotate, AuthService.logout: of the refresh tokens  *)
(* that descend from one login at most one is active, however many requests*)
(* present them at once, and none after one of them was logged out.        *)
THEOREM ALoginHasOneToken == Spec => []OneTokenPerLogin
  <1>1. IInv => OneTokenPerLogin
    <2> SUFFICES ASSUME IInv PROVE OneTokenPerLogin
      OBVIOUS
    <2>1. OneActive /\ LogoutEnds
      BY DEF IInv
    <2>2. QED BY <2>1 DEF OneTokenPerLogin, OneActive, LogoutEnds, LoggedOut, Related
  <1>2. QED BY <1>1, Invariance, PTL

(* UserService.delete_user_account: no session and no device is left of an *)
(* account that was deleted, whatever was under way.                       *)
THEOREM DeletionIsComplete == Spec => []NothingOfTheDeleted
  <1>1. IInv => NothingOfTheDeleted
    BY DEF IInv
  <1>2. QED BY <1>1, Invariance, PTL

(* installationId.ts: what calls of enable and disable tell the server is   *)
(* the id the phone keeps, however they overlap and whichever store fails. *)
THEOREM ThePhonesOwnId == Spec => []OneInstallationId
  <1>1. IInv => OneInstallationId
    BY DEF IInv
  <1>2. QED BY <1>1, Invariance, PTL

-----------------------------------------------------------------------------
(* Accounts implements LoginChains: what commits on the tables of accounts *)
(* and sessions is a step of the chains, all else a stutter or a login that*)
(* fails.                                                                  *)

Quiet == UNCHANGED <<accounts, sessions>>

(* A step of r, which is the only login that can begin or fail with it. *)
Moves(r) ==
  /\ CreateUser(r) \/ CreateSession(r) \/ Revoke(r) \/ Replace(r) \/ CommitDelete(r) \/ Quiet
  /\ \A q \in Requests \ {r} : Op(q) = "login" => pc'[q] = pc[q]

Kinds == (\E r \in Requests : Moves(r)) \/ (\E s \in Ids : Expire(s)) \/ UNCHANGED vars

LEMMA KindsStep ==
  ASSUME Shapes, Asked, [Next]_vars
  PROVE  Kinds
  <1> USE DEF Shapes, Op, Answer, Go, GoHaving, Committed, tables, phoneVars
  <1>1. ASSUME NEW r \in Requests, FindEmail(r) PROVE Moves(r)
    BY <1>1 DEF FindEmail, Moves, Quiet
  <1>2. ASSUME NEW r \in Requests, CreateUser(r) PROVE Moves(r)
    BY <1>2 DEF CreateUser, Moves
  <1>3. ASSUME NEW r \in Requests, FindUser(r) PROVE Moves(r)
    BY <1>3 DEF FindUser, Moves, Quiet
  <1>4. ASSUME NEW r \in Requests, CreateSession(r) PROVE Moves(r)
    BY <1>4 DEF CreateSession, Moves
  <1>5. ASSUME NEW r \in Requests, FindToRotate(r) PROVE Moves(r)
    BY <1>5 DEF FindToRotate, Moves, Quiet
  <1>6. ASSUME NEW r \in Requests, FindToRevoke(r) PROVE Moves(r)
    BY <1>6 DEF FindToRevoke, Moves, Quiet
  <1>7. ASSUME NEW r \in Requests, Revoke(r) PROVE Moves(r)
    BY <1>7 DEF Revoke, Moves
  <1>8. ASSUME NEW r \in Requests, Rotate(r) PROVE Moves(r)
    BY <1>8 DEF Rotate, Moves, Quiet
  <1>9. ASSUME NEW r \in Requests, Replace(r) PROVE Moves(r)
    BY <1>9 DEF Replace, Moves
  <1>10. ASSUME NEW r \in Requests, Readback(r) PROVE Moves(r)
    BY <1>10 DEF Readback, Moves, Quiet
  <1>11. ASSUME NEW r \in Requests, RefuseDelete(r) PROVE Moves(r)
    BY <1>11 DEF RefuseDelete, Moves, Quiet
  <1>12. ASSUME NEW r \in Requests, LoadUser(r) PROVE Moves(r)
    BY <1>12 DEF LoadUser, Moves, Quiet
  <1>13. ASSUME NEW r \in Requests, EraseRow(r) PROVE Moves(r)
    BY <1>13 DEF EraseRow, Moves, Quiet
  <1>14. ASSUME NEW r \in Requests, EraseUser(r) PROVE Moves(r)
    BY <1>14 DEF EraseUser, Moves, Quiet
  <1>15. ASSUME NEW r \in Requests, CommitDelete(r) PROVE Moves(r)
    BY <1>15 DEF CommitDelete, Moves
  <1>16. ASSUME NEW r \in Requests, DenyPermission(r) PROVE Moves(r)
    BY <1>16 DEF DenyPermission, Moves, Quiet
  <1>17. ASSUME NEW r \in Requests, GetOrCreate(r) PROVE Moves(r)
    BY <1>17 DEF GetOrCreate, Moves, Quiet
  <1>18. ASSUME NEW r \in Requests, LookUpId(r) PROVE Moves(r)
    BY <1>18 DEF LookUpId, Resolve, Waiters, Moves, Quiet, Asked, OpsAt
  <1>19. ASSUME NEW r \in Requests, StoreId(r) PROVE Moves(r)
    BY <1>19 DEF StoreId, Resolve, Waiters, Moves, Quiet, Asked, OpsAt
  <1>20. ASSUME NEW r \in Requests, StoreFails(r) PROVE Moves(r)
    BY <1>20 DEF StoreFails, Waiters, Moves, Quiet, Asked, OpsAt
  <1>21. ASSUME NEW r \in Requests, GetExisting(r) PROVE Moves(r)
    BY <1>21 DEF GetExisting, Moves, Quiet
  <1>22. ASSUME NEW r \in Requests, Unauthorized(r) PROVE Moves(r)
    BY <1>22 DEF Unauthorized, Moves, Quiet
  <1>23. ASSUME NEW r \in Requests, FindDevice(r) PROVE Moves(r)
    BY <1>23 DEF FindDevice, Moves, Quiet
  <1>24. ASSUME NEW r \in Requests, FindTokenOwner(r) PROVE Moves(r)
    BY <1>24 DEF FindTokenOwner, Moves, Quiet
  <1>25. ASSUME NEW r \in Requests, DropOwner(r) PROVE Moves(r)
    BY <1>25 DEF DropOwner, Moves, Quiet
  <1>26. ASSUME NEW r \in Requests, WriteDevice(r) PROVE Moves(r)
    BY <1>26 DEF WriteDevice, Moves, Quiet
  <1>27. ASSUME NEW r \in Requests, FindOwnDevice(r) PROVE Moves(r)
    BY <1>27 DEF FindOwnDevice, Moves, Quiet
  <1>28. ASSUME NEW r \in Requests, SwitchOff(r) PROVE Moves(r)
    BY <1>28 DEF SwitchOff, Moves, Quiet
  <1>29. ASSUME NEW r \in Requests, DeadlockAbort(r) PROVE Moves(r)
    BY <1>29 DEF DeadlockAbort, Moves, Quiet
  <1>30. ASSUME NEW r \in Requests, Crash(r) PROVE Moves(r)
    BY <1>30 DEF Crash, OnServer, Moves, Quiet
  <1>31. ASSUME NEW s \in Ids, Expire(s) PROVE Kinds
    BY <1>31 DEF Kinds
  <1>32. CASE UNCHANGED vars
    BY <1>32 DEF Kinds
  <1>33. QED
    BY <1>1, <1>2, <1>3, <1>4, <1>5, <1>6, <1>7, <1>8, <1>9, <1>10, <1>11, <1>12, <1>13, <1>14,
       <1>15, <1>16, <1>17, <1>18, <1>19, <1>20, <1>21, <1>22, <1>23, <1>24, <1>25, <1>26, <1>27,
       <1>28, <1>29, <1>30, <1>31, <1>32 DEF Next, Handle, AuthStep, PushStep, Kinds

LEMMA Beginning ==
  ASSUME GoesForward, NEW r \in Requests, Moves(r)
  PROVE  \/ Begun' = Begun
         \/ Op(r) = "login" /\ r \notin Begun /\ Begun' = Begun \union {r}
  <1>1. \A q \in Requests : Op(q)' = Op(q)
    BY DEF GoesForward, Op
  <1>2. \A q \in Requests \ {r} : Op(q) = "login" =>
          (pc'[q] \in {"readback", "done"} <=> pc[q] \in {"readback", "done"})
    BY DEF Moves
  <1>3. pc[r] \in {"readback", "done"} => pc'[r] \in {"readback", "done"}
    BY DEF GoesForward
  <1>4. CASE /\ Op(r) = "login" /\ r \notin SeedAccounts
             /\ pc[r] \notin {"readback", "done"} /\ pc'[r] \in {"readback", "done"}
    BY <1>1, <1>2, <1>4 DEF Begun
  <1>5. CASE \/ Op(r) # "login" \/ r \in SeedAccounts
             \/ (pc'[r] \in {"readback", "done"} <=> pc[r] \in {"readback", "done"})
    BY <1>1, <1>2, <1>5 DEF Begun
  <1>6. QED BY <1>3, <1>4, <1>5

(* The chains as LoginChains sees them. *)
SameChains(L) ==
  \A l \in L : Chain(l)' = Chain(l) /\ Live(l)' = Live(l) /\ Holder(l)' = Holder(l)

LEMMA Kept ==
  ASSUME NEW L, \A s \in Ids : \/ sessions'[s] = sessions[s]
                               \/ /\ sessions'[s] # None /\ sessions[s] # None
                                  /\ sessions'[s].user = sessions[s].user
                                  /\ sessions'[s].root = sessions[s].root
                                  /\ sessions'[s].active = sessions[s].active
                               \/ /\ sessions'[s] # None => sessions'[s].root \notin L
                                  /\ sessions[s] # None => sessions[s].root \notin L
  PROVE  SameChains(L)
  <1> SUFFICES ASSUME NEW l \in L
               PROVE  Chain(l)' = Chain(l) /\ Live(l)' = Live(l) /\ Holder(l)' = Holder(l)
    BY DEF SameChains
  <1>1. Chain(l)' = Chain(l)
    BY DEF Chain
  <1>2. \A s \in Chain(l) : /\ s \in Ids /\ sessions'[s].user = sessions[s].user
                            /\ sessions'[s].active = sessions[s].active
    BY DEF Chain
  <1>3. Live(l)' = Live(l)
    BY <1>1, <1>2 DEF Live
  <1>4. Holder(l)' = Holder(l)
    BY <1>1, <1>2 DEF Holder
  <1>5. QED BY <1>1, <1>3, <1>4

LEMMA Stutters ==
  ASSUME SameChains(Ids), UNCHANGED accounts, Begun' = Begun
  PROVE  UNCHANGED Logins!vars
  BY DEF SameChains, Logins!vars

LEMMA Fails ==
  ASSUME SameChains(Ids), UNCHANGED accounts, NEW r \in Ids, r \notin Begun,
         Begun' = Begun \union {r}
  PROVE  Logins!Next
  <1>1. Logins!Fail(r)
    BY DEF SameChains, Logins!Fail
  <1>2. QED BY <1>1 DEF Logins!Next

LEMMA QuietStep ==
  ASSUME GoesForward, NEW r \in Requests, Moves(r), Quiet
  PROVE  [Logins!Next]_(Logins!vars)
  <1>1. SameChains(Ids) /\ UNCHANGED accounts
    BY Kept DEF Quiet
  <1>2. QED BY <1>1, Beginning, Stutters, Fails, Names

LEMMA Registered ==
  ASSUME IInv, GoesForward, NEW r \in Requests, Moves(r), CreateUser(r)
  PROVE  [Logins!Next]_(Logins!vars)
  <1>1. SameChains(Ids)
    BY Kept DEF CreateUser
  <1>2. Op(r) # "login"
    BY DEF CreateUser, IInv, Asked, OpsAt
  <1>3. Begun' = Begun
    BY <1>2, Beginning
  <1>4. CASE UNCHANGED accounts
    BY <1>1, <1>3, <1>4, Stutters
  <1>5. CASE accounts' = accounts \union {r}
    <2>1. Logins!Register(r)
      BY <1>1, <1>3, <1>5 DEF SameChains, Logins!Register
    <2>2. QED BY <2>1, Names DEF Logins!Next
  <1>6. QED BY <1>4, <1>5 DEF CreateUser

LEMMA LoggedIn ==
  ASSUME IInv, GoesForward, NEW r \in Requests, Moves(r), CreateSession(r)
  PROVE  [Logins!Next]_(Logins!vars)
  <1>1. pc[r] = "insert" /\ Shapes /\ Asked /\ Tokens /\ Roots /\ Named /\ Answered /\ Rotating
    BY DEF CreateSession, IInv
  <1>2. CASE seen[r] \notin accounts
    <2>1. Quiet
      BY <1>2 DEF CreateSession, Quiet
    <2>2. QED BY <2>1, QuietStep
  <1>3. CASE seen[r] \in accounts
    <2>1. Created(r)
      BY <1>1, <1>3 DEF CreateSession, Created, Committed, Shapes
    <2>2. /\ r \in Ids /\ Op(r) = "login" /\ seen[r] \in Ids
          /\ sessions[r] = None /\ UNCHANGED accounts
      BY <1>1, <2>1, Names DEF Created, Asked, OpsAt, Tokens, Named
    <2>3. r \notin Begun /\ Begun' = Begun \union {r}
      <3>1. r \notin Begun /\ r \in Begun'
        BY <1>1, <2>1, <2>2, RequestsAssumption DEF Begun, Created, GoesForward, Op
      <3>2. QED BY <3>1, Beginning
    <2>4. /\ \A s \in Ids \ {r} : sessions'[s] = sessions[s]
          /\ sessions'[r] # None /\ sessions'[r].user = seen[r]
          /\ sessions'[r].root = r /\ sessions'[r].active = TRUE
      <3>1. /\ sessions'[r] = NewSession(seen[r], r) /\ NewSession(seen[r], r) \in Session
            /\ \A s \in Ids \ {r} : sessions'[s] = sessions[s]
        BY <1>1, <2>1, <2>2 DEF Created, NewSession, Session, Shapes
      <3>2. sessions'[r] # None
        BY <3>1, NoneAssumption
      <3>3. QED BY <3>1, <3>2 DEF NewSession
    <2>5. \A s \in Ids : sessions[s] # None => sessions[s].root # r
      BY <1>1 DEF Roots
    <2>6. SameChains(Ids \ {r})
      <3>1. \A s \in Ids : \/ sessions'[s] = sessions[s]
                           \/ /\ sessions'[s] # None => sessions'[s].root \notin Ids \ {r}
                              /\ sessions[s] # None => sessions[s].root \notin Ids \ {r}
        BY <2>2, <2>4
      <3>2. QED BY <3>1, Kept
    <2>7. Chain(r) = {} /\ Chain(r)' = {r}
      BY <2>2, <2>4, <2>5 DEF Chain
    <2>8. Live(r)' = {r} /\ Holder(r)' = {seen[r]}
      BY <2>4, <2>7 DEF Live, Holder
    <2>9. \A l \in Ids : r \notin Chain(l)
      BY <2>2 DEF Chain
    <2>10. Logins!Login(r, seen[r])
      BY <1>3, <2>2, <2>3, <2>6, <2>7, <2>8, <2>9 DEF SameChains, Logins!Login, Logins!Fresh
    <2>11. QED BY <2>2, <2>10 DEF Logins!Next
  <1>4. QED BY <1>2, <1>3

LEMMA Rotated ==
  ASSUME IInv, GoesForward, NEW r \in Requests, Moves(r), Replace(r)
  PROVE  [Logins!Next]_(Logins!vars)
  <1>a. PICK t : t = intent[r].token
    OBVIOUS
  <1>b. PICK l : l = sessions[t].root
    OBVIOUS
  <1>1. pc[r] = "replace" /\ Shapes /\ Asked /\ Tokens /\ Answered /\ Rotating /\ Named /\ OneActive
    BY DEF Replace, IInv
  <1>2. /\ r \in Ids /\ t \in Ids \ {r} /\ sessions[t] # None /\ sessions[t].active
        /\ ~sessions'[t].active /\ sessions'[r] # None
        /\ sessions'[r].user = sessions[t].user /\ sessions'[r].root = l
        /\ \A s \in Ids \ {r} : WearsAt(s)
    BY <1>a, <1>b, <1>1, Inserted
  <1>3. l \in Ids /\ Op(r) # "login" /\ sessions[r] = None /\ UNCHANGED accounts
    BY <1>a, <1>b, <1>1, <1>2, NoneAssumption DEF Shapes, Session, Asked, OpsAt, Named, Replace
  <1>4. Begun' = Begun
    BY <1>3, Beginning
  <1>5. /\ \A s \in Ids \ {r, t} : sessions'[s] = sessions[s]
        /\ sessions'[r].active = TRUE /\ sessions'[t] # None
        /\ sessions'[t].user = sessions[t].user /\ sessions'[t].root = l
    <2> DEFINE w == [sessions[t] EXCEPT !.active = FALSE]
               n == NewSession(seen[r].user, seen[r].root)
    <2>1. seen[r] \in Session /\ sessions[t] \in Session /\ sessions \in [Ids -> Session \union {None}]
      BY <1>a, <1>1, <1>2 DEF Tokens, Shapes
    <2>2. w \in Session /\ w.user = sessions[t].user /\ w.root = l /\ n.active = TRUE
      BY <1>b, <2>1 DEF NewSession, Session
    <2>3. sessions' = [[sessions EXCEPT ![t] = w] EXCEPT ![r] = n]
      BY <1>a DEF Replace, Revoked
    <2> HIDE DEF w, n
    <2>4. sessions'[r] = n /\ sessions'[t] = w /\ \A s \in Ids \ {r, t} : sessions'[s] = sessions[s]
      BY <1>2, <2>1, <2>3
    <2>5. QED BY <2>2, <2>4, NoneAssumption
  <1>6. SameChains(Ids \ {l})
    <2>1. \A s \in Ids : \/ sessions'[s] = sessions[s]
                         \/ /\ sessions'[s] # None => sessions'[s].root \notin Ids \ {l}
                            /\ sessions[s] # None => sessions[s].root \notin Ids \ {l}
      BY <1>b, <1>2, <1>3, <1>5
    <2>2. QED BY <2>1, Kept
  <1>7. sessions[t].root = l
    BY <1>b
  <1>8. t \in Live(l) /\ Chain(l)' = Chain(l) \union {r}
    <2>1. t \in Live(l)
      BY <1>2, <1>7 DEF Chain, Live
    <2>2. r \in Chain(l)' /\ t \in Chain(l)'
      BY <1>2, <1>5, <1>7 DEF Chain
    <2>3. \A s \in Ids \ {r, t} : s \in Chain(l)' <=> s \in Chain(l)
      BY <1>5 DEF Chain
    <2>4. Chain(l) \subseteq Ids /\ Chain(l)' \subseteq Ids /\ t \in Chain(l)
      BY <2>1 DEF Chain, Live
    <2>5. QED BY <2>1, <2>2, <2>3, <2>4
  <1>9. Live(l)' = {r}
    <2>1. \A s \in Chain(l) \ {t} : ~sessions[s].active
      BY <1>1, <1>2, <1>7 DEF Chain, OneActive, Related
    <2>2. \A s \in Chain(l) : ~sessions'[s].active
      BY <1>2, <1>3, <1>5, <2>1 DEF Chain
    <2>3. QED BY <1>2, <1>5, <1>8, <2>2 DEF Live
  <1>10. Holder(l)' = Holder(l)
    <2>1. \A s \in Chain(l) : sessions'[s].user = sessions[s].user
      BY <1>2, <1>3, <1>5 DEF Chain
    <2>2. t \in Chain(l)
      BY <1>8 DEF Live
    <2>3. QED BY <1>2, <1>8, <2>1, <2>2 DEF Holder
  <1>11. \A k \in Ids : r \notin Chain(k)
    BY <1>3 DEF Chain
  <1>12. Logins!Rotate(l, r)
    <2>1. /\ Live(l) # {}
          /\ \A k \in Ids : Chain(k)' = IF k = l THEN Chain(k) \union {r} ELSE Chain(k)
          /\ \A k \in Ids : Live(k)' = IF k = l THEN {r} ELSE Live(k)
          /\ \A k \in Ids : Holder(k)' = Holder(k)
      BY <1>6, <1>8, <1>9, <1>10 DEF SameChains
    <2>2. QED BY <1>3, <1>4, <1>11, <2>1 DEF Logins!Rotate, Logins!Fresh
  <1>13. QED BY <1>2, <1>3, <1>12 DEF Logins!Next

LEMMA LoggedOff ==
  ASSUME IInv, GoesForward, NEW r \in Requests, Moves(r), Revoke(r)
  PROVE  [Logins!Next]_(Logins!vars)
  <1>a. PICK t : t = intent[r].token
    OBVIOUS
  <1>b. PICK l : l = sessions[t].root
    OBVIOUS
  <1>1. pc[r] = "logout" /\ Shapes /\ Asked /\ Tokens /\ Answered /\ OneActive
    BY DEF Revoke, IInv
  <1>2. CASE ~StillActive(r)
    <2>1. Quiet
      BY <1>2 DEF Revoke, Quiet
    <2>2. QED BY <2>1, QuietStep
  <1>3. CASE StillActive(r)
    <2>1. /\ t \in Ids /\ sessions[t] \in Session /\ sessions[t] # None /\ sessions[t].active
          /\ l \in Ids /\ sessions \in [Ids -> Session \union {None}]
          /\ UNCHANGED accounts /\ Op(r) # "login"
      BY <1>a, <1>b, <1>1, <1>3, NotYetKnown DEF StillActive, Tokens, Shapes, Session, Revoke, Asked, OpsAt
    <2>2. Begun' = Begun
      BY <2>1, Beginning
    <2>3. sessions' = [sessions EXCEPT ![t].active = FALSE]
      BY <1>a, <1>3 DEF Revoke, Revoked
    <2>4. \A s \in Ids \ {t} : sessions'[s] = sessions[s]
      BY <2>1, <2>3
    <2>5. /\ sessions'[t] # None /\ ~sessions'[t].active
          /\ sessions'[t].user = sessions[t].user /\ sessions'[t].root = l
      <3>1. sessions'[t] = [sessions[t] EXCEPT !.active = FALSE]
        BY <2>1, <2>3
      <3>2. [sessions[t] EXCEPT !.active = FALSE] \in Session
        BY <2>1 DEF Session
      <3>3. QED BY <1>b, <2>1, <3>1, <3>2, NoneAssumption DEF Session
    <2>6. SameChains(Ids \ {l})
      <3>1. \A s \in Ids : \/ sessions'[s] = sessions[s]
                           \/ /\ sessions'[s] # None => sessions'[s].root \notin Ids \ {l}
                              /\ sessions[s] # None => sessions[s].root \notin Ids \ {l}
        BY <1>b, <2>4, <2>5
      <3>2. QED BY <3>1, Kept
    <2>7. sessions[t].root = l
      BY <1>b
    <2>8. t \in Live(l) /\ Chain(l)' = Chain(l)
      <3>1. t \in Live(l) /\ t \in Chain(l)
        BY <2>1, <2>7 DEF Chain, Live
      <3>2. t \in Chain(l)'
        BY <2>1, <2>5 DEF Chain
      <3>3. \A s \in Ids \ {t} : s \in Chain(l)' <=> s \in Chain(l)
        BY <2>4 DEF Chain
      <3>4. Chain(l) \subseteq Ids /\ Chain(l)' \subseteq Ids
        BY DEF Chain
      <3>5. QED BY <3>1, <3>2, <3>3, <3>4
    <2>9. Live(l)' = {}
      <3>1. \A s \in Chain(l) \ {t} : ~sessions[s].active
        BY <1>1, <2>1, <2>7 DEF Chain, OneActive, Related
      <3>2. \A s \in Chain(l) : ~sessions'[s].active
        BY <2>4, <2>5, <3>1 DEF Chain
      <3>3. QED BY <2>8, <3>2 DEF Live
    <2>10. Holder(l)' = Holder(l)
      <3>1. \A s \in Chain(l) : sessions'[s].user = sessions[s].user
        BY <2>4, <2>5 DEF Chain
      <3>2. QED BY <2>8, <3>1 DEF Holder
    <2>11. /\ Live(l) # {}
           /\ \A k \in Ids : Chain(k)' = Chain(k)
           /\ \A k \in Ids : Live(k)' = IF k = l THEN {} ELSE Live(k)
           /\ \A k \in Ids : Holder(k)' = Holder(k)
      BY <2>6, <2>8, <2>9, <2>10 DEF SameChains
    <2>12. Logins!Logout(l)
      BY <2>1, <2>2, <2>11 DEF Logins!Logout
    <2>13. QED BY <2>1, <2>12 DEF Logins!Next
  <1>4. QED BY <1>2, <1>3

LEMMA Deleted ==
  ASSUME IInv, GoesForward, NEW r \in Requests, Moves(r), CommitDelete(r)
  PROVE  [Logins!Next]_(Logins!vars)
  <1> DEFINE u == intent[r].user
  <1>1. pc[r] = "cascade" /\ Shapes /\ Asked /\ SameUser /\ Erasing
    BY DEF CommitDelete, IInv
  <1>2. Op(r) # "login"
    BY <1>1 DEF Asked, OpsAt
  <1>3. Begun' = Begun
    BY <1>2, Beginning
  <1>4. RowsOf(u) \subseteq held[r] /\ accounts' = accounts \ {u}
    BY DEF CommitDelete, ToErase
  <1>5. \A s \in Ids : sessions[s] # None =>
          sessions'[s] = IF sessions[s].user = u THEN None ELSE sessions[s]
    <2>1. \A s \in Ids : sessions'[s] = IF SessionRow(s) \in held[r] THEN None ELSE sessions[s]
      BY DEF CommitDelete
    <2>2. \A s \in Ids : sessions[s] # None /\ sessions[s].user = u => SessionRow(s) \in held[r]
      BY <1>4 DEF RowsOf
    <2>3. \A s \in Ids : SessionRow(s) \in held[r] /\ sessions[s] # None => sessions[s].user = u
      BY <1>1 DEF Erasing, Doomed
    <2>4. QED BY <2>1, <2>2, <2>3
  <1>6. \A s \in Ids : sessions[s] = None => sessions'[s] = None
    BY DEF CommitDelete
  <1>7. ASSUME NEW l \in Ids, Holder(l) = {u}
        PROVE  Chain(l)' = {} /\ Live(l)' = {} /\ Holder(l)' = {}
    <2>1. \A s \in Chain(l) : sessions[s].user = u
      BY <1>7 DEF Holder
    <2>2. Chain(l)' = {}
      BY <1>5, <1>6, <2>1 DEF Chain
    <2>3. QED BY <2>2 DEF Live, Holder
  <1>8. ASSUME NEW l \in Ids, Holder(l) # {u}
        PROVE  Chain(l)' = Chain(l) /\ Live(l)' = Live(l) /\ Holder(l)' = Holder(l)
    <2>1. \A s \in Chain(l) : sessions[s].user # u
      <3>1. SUFFICES ASSUME NEW s \in Chain(l), sessions[s].user = u PROVE FALSE
        OBVIOUS
      <3>2. \A t \in Chain(l) : sessions[t].user = u
        BY <1>1, <3>1 DEF SameUser, Related, Chain
      <3>3. QED BY <1>8, <3>1, <3>2 DEF Holder
    <2>2. Chain(l)' = Chain(l)
      BY <1>5, <1>6, <2>1 DEF Chain
    <2>3. \A s \in Chain(l) : sessions'[s] = sessions[s]
      BY <1>5, <2>1 DEF Chain
    <2>4. QED BY <2>2, <2>3 DEF Live, Holder
  <1> HIDE DEF u
  <1>9. /\ \A l \in Ids : Chain(l)' = IF Holder(l) = {u} THEN {} ELSE Chain(l)
        /\ \A l \in Ids : Live(l)' = IF Holder(l) = {u} THEN {} ELSE Live(l)
        /\ \A l \in Ids : Holder(l)' = IF Holder(l) = {u} THEN {} ELSE Holder(l)
    BY <1>7, <1>8
  <1>10. Logins!Delete(u)
    BY <1>3, <1>4, <1>9 DEF Logins!Delete, Logins!Without
  <1>11. CASE u \in Ids
    BY <1>10, <1>11 DEF Logins!Next
  <1>12. CASE u \notin Ids
    <2>1. \A l \in Ids : Holder(l) \subseteq Ids
      BY <1>1 DEF Holder, Chain, Shapes, Session
    <2>2. SameChains(Ids)
      BY <1>9, <1>12, <2>1 DEF SameChains
    <2>3. UNCHANGED accounts
      BY <1>1, <1>4, <1>12 DEF Shapes
    <2>4. QED BY <1>3, <2>2, <2>3, Stutters
  <1>13. QED BY <1>11, <1>12

LEMMA LoginsStep ==
  ASSUME IInv, [Next]_vars
  PROVE  [Logins!Next]_(Logins!vars)
  <1>1. Shapes /\ Asked /\ Answered
    BY DEF IInv
  <1>2. GoesForward /\ Kinds
    BY <1>1, ForwardStep, KindsStep
  <1>3. ASSUME NEW r \in Requests, Moves(r)
        PROVE  [Logins!Next]_(Logins!vars)
    BY <1>2, <1>3, Registered, LoggedIn, LoggedOff, Rotated, Deleted, QuietStep DEF Moves
  <1>4. ASSUME NEW s \in Ids, Expire(s)
        PROVE  UNCHANGED Logins!vars
    <2>1. sessions[s] \in Session /\ sessions \in [Ids -> Session \union {None}]
      BY <1>1, <1>4 DEF Expire, Shapes
    <2>2. sessions' = [sessions EXCEPT ![s] = [sessions[s] EXCEPT !.expired = TRUE]]
      BY <1>4 DEF Expire
    <2>3. /\ [sessions[s] EXCEPT !.expired = TRUE] \in Session
          /\ sessions'[s] = [sessions[s] EXCEPT !.expired = TRUE]
          /\ \A t \in Ids \ {s} : sessions'[t] = sessions[t]
      BY <2>1, <2>2 DEF Session
    <2>4. /\ sessions'[s] # None /\ sessions[s] # None
          /\ sessions'[s].user = sessions[s].user /\ sessions'[s].root = sessions[s].root
          /\ sessions'[s].active = sessions[s].active
      BY <2>1, <2>3, NoneAssumption DEF Session
    <2>5. SameChains(Ids)
      BY <2>3, <2>4, Kept
    <2>6. UNCHANGED accounts /\ Begun' = Begun
      BY <1>4 DEF Expire, Begun, Op
    <2>7. QED BY <2>5, <2>6, Stutters
  <1>5. ASSUME UNCHANGED vars
        PROVE  UNCHANGED Logins!vars
    BY <1>5 DEF vars, tables, Logins!vars, Chain, Live, Holder, Begun, Op
  <1>6. QED BY <1>2, <1>3, <1>4, <1>5 DEF Kinds

(* The detailed requests implement the chains: under transactions, locks,  *)
(* stale reads, crashes and the end of accounts a refresh token's life is  *)
(* handed on or ended as if every request were one step.                   *)
THEOREM LoginsAreImplemented == Spec => ImplementsLogins
  <1>1. Init => Logins!Init
    <2> SUFFICES ASSUME Init PROVE Logins!Init
      OBVIOUS
    <2>1. /\ accounts = SeedAccounts
          /\ sessions = [s \in Ids |-> IF s \in SeedAccounts
                           THEN [user |-> s, root |-> s, active |-> TRUE, expired |-> FALSE] ELSE None]
          /\ pc = [r \in Requests |-> "idle"]
      BY DEF Init
    <2>2. \A s \in SeedAccounts : s \in Ids /\ [user |-> s, root |-> s, active |-> TRUE, expired |-> FALSE] # None
      <3>1. \A s \in Ids : [user |-> s, root |-> s, active |-> TRUE, expired |-> FALSE] \in Session
        BY DEF Session
      <3>2. QED BY <3>1, NoneAssumption, Names
    <2>3. \A l \in Ids : /\ Chain(l) = IF l \in SeedAccounts THEN {l} ELSE {}
                         /\ Live(l) = IF l \in SeedAccounts THEN {l} ELSE {}
                         /\ Holder(l) = IF l \in SeedAccounts THEN {l} ELSE {}
      <3> SUFFICES ASSUME NEW l \in Ids
                   PROVE  /\ Chain(l) = IF l \in SeedAccounts THEN {l} ELSE {}
                          /\ Live(l) = IF l \in SeedAccounts THEN {l} ELSE {}
                          /\ Holder(l) = IF l \in SeedAccounts THEN {l} ELSE {}
        OBVIOUS
      <3>1. Chain(l) = IF l \in SeedAccounts THEN {l} ELSE {}
        BY <2>1, <2>2 DEF Chain
      <3>2. QED BY <2>1, <2>2, <3>1 DEF Live, Holder
    <2>4. Begun = SeedAccounts
      BY <2>1 DEF Begun
    <2>5. QED BY <2>1, <2>3, <2>4 DEF Logins!Init, Logins!Each
  <1>2. IInv /\ [Next]_vars => [Logins!Next]_(Logins!vars)
    BY LoginsStep
  <1>3. QED BY <1>1, <1>2, Invariance, PTL DEF Spec, ImplementsLogins, Logins!Spec

==============================================================================
