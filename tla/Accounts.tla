------------------------------ MODULE Accounts ------------------------------
(* Accounts, tokens and push devices together, over one database. *)
EXTENDS AuthSessions, PushDevices

(* What the next statement of r may have to wait for. *)
WaitsFor(r, q) ==
  \/ pc[r] \in {"logout", "refresh"} /\ SessionRow(intent[r].token) \in held[q]
  \/ ToErase(r) \intersect held[q] # {}
  \/ pc[r] = "drop" /\ DeviceRow(seen[r].drop) \in held[q]
  \/ pc[r] \in {"write", "off"} /\ DeviceRow(seen[r].target) \in held[q]
  \/ pc[r] = "write" /\ \E d \in Rivals(r) : DeviceRow(d) \in held[q]
  \/ /\ pc[q] = "cascade"
     /\ \/ pc[r] = "create" /\ intent[r].email = EmailOf(intent[q].user)
        \/ pc[r] = "insert" /\ seen[r] = intent[q].user
        \/ pc[r] = "replace" /\ seen[r].user = intent[q].user
        \/ pc[r] = "erase" /\ intent[r].user = intent[q].user
        \/ pc[r] = "write" /\ NeedsAccount(r) /\ intent[r].user = intent[q].user

Deadlocked(r) ==
  \E S \in SUBSET Requests :
    r \in S /\ \A p \in S : \E q \in S \ {p} : WaitsFor(p, q)

(* PostgreSQL's detector ends one of those that wait for each other. *)
DeadlockAbort(r) ==
  /\ Deadlocked(r)
  /\ Answer(r, "error")
  /\ UNCHANGED <<intent, tables, phoneVars>>

OnServer == {"create", "insert", "logout", "refresh", "replace", "readback", "erase", "cascade",
             "api", "owner", "drop", "write", "off"}

(* The connection breaks: an open transaction is rolled back, and the      *)
(* client does not learn of one that was committed.                        *)
Crash(r) ==
  /\ pc[r] \in OnServer
  /\ Answer(r, "lost")
  /\ UNCHANGED <<intent, tables, phoneVars>>

Handle(r) == AuthStep(r) \/ PushStep(r)

Next ==
  \/ \E r \in Requests : Handle(r) \/ DeadlockAbort(r) \/ Crash(r)
  \/ \E s \in Ids : Expire(s)

Spec == Init /\ [][Next]_vars

(* The server and the phone go on with what was begun, and the detector    *)
(* runs after deadlock_timeout; nobody has to begin anything.              *)
FairSpec ==
  Spec /\ \A r \in Requests : /\ WF_vars(pc[r] # "idle" /\ Handle(r))
                              /\ WF_vars(DeadlockAbort(r))

-----------------------------------------------------------------------------
(* Properties. *)

TypeOK ==
  /\ accounts \subseteq Ids
  /\ \A s \in Ids : sessions[s] # None => sessions[s] \in Session
  /\ \A d \in Ids : devices[d] # None => devices[d] \in Device
  /\ \A r \in Requests : pc[r] \in OnServer \union {"idle", "join", "lookup", "store", "done"}
  /\ \A r \in Requests : answer[r] = None <=> pc[r] # "done"
  /\ \A r \in Requests : held[r] # {} => pc[r] \in {"replace", "erase", "cascade", "write"}
  /\ \A p, q \in Phones : p # q /\ stored[p] # None => stored[p] # stored[q]
  /\ \A p \in Phones : pending[p] # None => pc[pending[p]] \in {"lookup", "store"}

(* README.md:20-21: refresh "securely rotates refresh tokens" and logout    *)
(* "revokes the current login session".  So of the tokens that go back to  *)
(* one login at most one is usable, and none once any of them was logged   *)
(* out: two requests that have both found the token active do not both get *)
(* their way.                                                              *)
OneTokenPerLogin ==
  \A s \in Ids : sessions[s] # None /\ sessions[s].active =>
    \A t \in Ids \ {s} : sessions[t] # None /\ sessions[t].root = sessions[s].root =>
      /\ ~sessions[t].active
      /\ \A r \in Requests : Op(r) = "logout" /\ intent[r].token = t => answer[r] # "ok"

(* Nothing of a deleted account is left, and nothing is added to it later, *)
(* by a login, a rotation or a registration that had found it alive.       *)
NothingOfTheDeleted ==
  /\ \A s \in Ids : sessions[s] # None => sessions[s].user \in accounts
  /\ \A d \in Ids : devices[d] # None => devices[d].user \in accounts

(* However calls of enable overlap, the server is told the installation id *)
(* that the phone keeps: disable finds what was registered.                *)
OneInstallationId ==
  \A r \in Requests : inst[r] # None => inst[r] = stored[PhoneOf(r)]

(* The rows of the sessions, read as chains of tokens: a login's are those *)
(* that bear its name.                                                     *)
Chain(l) == {s \in Ids : sessions[s] # None /\ sessions[s].root = l}
Live(l) == {s \in Chain(l) : sessions[s].active}
Holder(l) == {sessions[s].user : s \in Chain(l)}
Begun == SeedAccounts \union {r \in Requests : Op(r) = "login" /\ pc[r] \in {"readback", "done"}}

Logins == INSTANCE LoginChains
            WITH Ids <- Ids, SeedAccounts <- SeedAccounts, accounts <- accounts, begun <- Begun,
                 chain <- [l \in Ids |-> Chain(l)], live <- [l \in Ids |-> Live(l)],
                 holder <- [l \in Ids |-> Holder(l)]

(* README.md:20-21 again, step by step: whatever requests meet, a login is *)
(* one chain with one live token, which a rotation hands on and a logout   *)
(* or the end of the account ends for good.                                *)
ImplementsLogins == Logins!Spec

(* Every request that was begun is answered. *)
EveryRequestAnswered ==
  \A r \in Requests : pc[r] # "idle" ~> pc[r] = "done"

=============================================================================
