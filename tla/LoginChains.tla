----------------------------- MODULE LoginChains -----------------------------
(***************************************************************************)
(* What refresh tokens promise, without transactions, locks or stale reads:*)
(* a login begins one chain of tokens, of which one is live; a rotation    *)
(* moves the life on to a token that was never there, a logout ends it for *)
(* good, and the end of an account ends all of its chains at once.         *)
(***************************************************************************)
CONSTANTS
  Ids,           \* accounts, logins and tokens
  SeedAccounts   \* the accounts at the start, each with a login of its own

VARIABLES
  accounts,
  begun,         \* the logins that have begun a chain or failed
  chain,         \* by login: its tokens
  live,          \* by login: those of them that are usable
  holder         \* by login: the account, in a set, empty without a chain

vars == <<accounts, begun, chain, live, holder>>

Each(l) == IF l \in SeedAccounts THEN {l} ELSE {}

Init ==
  /\ accounts = SeedAccounts
  /\ begun = SeedAccounts
  /\ chain = [l \in Ids |-> Each(l)]
  /\ live = [l \in Ids |-> Each(l)]
  /\ holder = [l \in Ids |-> Each(l)]

Fresh(t) == \A l \in Ids : t \notin chain[l]

Register(u) ==
  /\ accounts' = accounts \union {u}
  /\ UNCHANGED <<begun, chain, live, holder>>

Login(l, u) ==
  /\ u \in accounts
  /\ l \notin begun /\ chain[l] = {} /\ Fresh(l)
  /\ begun' = begun \union {l}
  /\ chain' = [chain EXCEPT ![l] = {l}]
  /\ live' = [live EXCEPT ![l] = {l}]
  /\ holder' = [holder EXCEPT ![l] = {u}]
  /\ UNCHANGED accounts

Fail(l) ==
  /\ l \notin begun
  /\ begun' = begun \union {l}
  /\ UNCHANGED <<accounts, chain, live, holder>>

Rotate(l, t) ==
  /\ live[l] # {}
  /\ Fresh(t)
  /\ chain' = [chain EXCEPT ![l] = @ \union {t}]
  /\ live' = [live EXCEPT ![l] = {t}]
  /\ UNCHANGED <<accounts, begun, holder>>

Logout(l) ==
  /\ live[l] # {}
  /\ live' = [live EXCEPT ![l] = {}]
  /\ UNCHANGED <<accounts, begun, chain, holder>>

Without(f, u) == [l \in Ids |-> IF holder[l] = {u} THEN {} ELSE f[l]]

Delete(u) ==
  /\ accounts' = accounts \ {u}
  /\ chain' = Without(chain, u)
  /\ live' = Without(live, u)
  /\ holder' = Without(holder, u)
  /\ UNCHANGED begun

Next ==
  \/ \E u \in Ids : Register(u) \/ Delete(u)
  \/ \E l, u \in Ids : Login(l, u) \/ Rotate(l, u)
  \/ \E l \in Ids : Fail(l) \/ Logout(l)

Spec == Init /\ [][Next]_vars

=============================================================================
