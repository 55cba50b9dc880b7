--------------------------- MODULE Realtime_proofs ---------------------------
(***************************************************************************)
(* Proofs about Realtime, for any number of connections, users, items,     *)
(* events and incidents.                                                   *)
(*                                                                         *)
(* Server: a handler that waits for a subscription waits for the           *)
(* coordinator's or for one that is finished (Waiting), so a release       *)
(* cannot end what another handler still needs, and the count follows.     *)
(* Phone: whatever closes one of its sockets leaves a close on the wire,   *)
(* and one that stops it from trying again has its reason (Closes).        *)
(* Together: an event that is due is in an inbox, on the wire, or not      *)
(* above what the tracker has seen, and that the queries show (Tracked).   *)
(***************************************************************************)
EXTENDS Realtime, TLAPS, FiniteSetTheorems

Has(q, m) == \E i \in DOMAIN q : q[i] = m

(* The values, but for the bound on the reference count. *)
ServerShapes ==
  /\ stage \in [Sockets -> Stages]
  /\ awaited \in [Sockets -> Sockets \union {None}]
  /\ connections \subseteq Sockets
  /\ sub \in Sockets \union {None}
  /\ refs \in Nat
  /\ task \in [Sockets -> Tasks]
  /\ ready \in [Sockets -> BOOLEAN]
  /\ inbox \in [Sockets -> Seq(Notices)]
  /\ revoking \in [Users -> {"no", "local", "publish", "done"}]
  /\ unpublished \subseteq Sequences

Shapes == DataTypeOK /\ ServerShapes /\ ClientTypeOK

(* A subscription is named by a handler that has registered. *)
Named ==
  \A s \in Sockets :
    /\ owner[s] = None => stage[s] = "free"
    /\ stage[s] \in {"free", "authenticated", "accepted"} => task[s] = "none"
    /\ stage[s] = "stopping" => s \in down

Waiting ==
  /\ \A s \in Sockets : stage[s] = "waiting" =>
       awaited[s] \in Sockets /\ (awaited[s] = sub \/ task[awaited[s]] = "done")
  /\ sub # None => task[sub] \in Live \union {"done"}
  /\ \A t \in Sockets : task[t] \in Live => t = sub
  /\ \A s \in Sockets : stage[s] = "serving" => sub # None /\ task[sub] \in Live /\ ready[sub]

Registered ==
  /\ RegistryFollowsHandlers
  /\ \A s \in Sockets : stage[s] = "waiting" => s \in connections \union down

Listening == \A t \in Sockets : inbox[t] # <<>> => task[t] = "listening"

Revoked ==
  /\ \A u \in Users : revoking[u] # "no" => u \notin members
  /\ \A t \in Sockets : \A u \in Users : Has(inbox[t], RevokedNotice(u)) => u \notin members

(* What a close on a wire says is so, and why the phone gives up. *)
Closes ==
  \A s \in Sockets :
    /\ owner[s] # Me => wire[s] = <<>>
    /\ \A c \in Codes : Has(wire[s], Closed(c)) => s \in down
    /\ Has(wire[s], Closed(4404)) => Me \notin members
    /\ s = socket /\ Has(wire[s], Closed(4401)) => expired

Trying ==
  /\ socket # None => owner[socket] = Me /\ ~timer
  /\ socket # None \/ timer => enabled /\ foreground

Numbered ==
  /\ \A n \in due \union unpublished : n <= Len(log)
  /\ \A s \in Sockets : \A n \in Sequences :
       Has(inbox[s], EventNotice(n)) \/ Has(wire[s], EventMessage(n)) => n <= Len(log)

Tracked ==
  /\ latest = 0 <=> base = 0
  /\ base <= latest /\ latest <= Len(log)
  /\ latest > 0 => Shows(List, latest)
  /\ \A n \in Sequences :
       base <= n /\ n <= latest /\ log[n].kind = "change" => Shows(log[n].item, n)

DueIsServed == Connected /\ due # {} => socket \in connections

IInv ==
  /\ Shapes
  /\ Named /\ Waiting /\ ReferencesCounted /\ Registered
  /\ Listening /\ Revoked /\ Closes /\ Trying /\ OneConnection
  /\ Numbered /\ Tracked /\ DueIsServed /\ PublishedIsShown

Served == UNCHANGED <<clientVars, story>>
Client == UNCHANGED <<serverVars, story>>

-----------------------------------------------------------------------------
(* Sequences and messages. *)

LEMMA TailHas ==
  ASSUME NEW S, NEW q \in Seq(S), q # <<>>
  PROVE  /\ Tail(q) \in Seq(S) /\ Head(q) \in S /\ Has(q, Head(q))
         /\ \A m : Has(Tail(q), m) => Has(q, m)
         /\ \A m : Has(q, m) => m = Head(q) \/ Has(Tail(q), m)
  <1>1. /\ Tail(q) \in Seq(S) /\ Len(Tail(q)) = Len(q) - 1 /\ Len(q) \in Nat /\ Len(q) > 0
        /\ Head(q) = q[1] /\ \A i \in 1..Len(q) - 1 : Tail(q)[i] = q[i + 1]
    OBVIOUS
  <1>2. DOMAIN q = 1..Len(q) /\ DOMAIN Tail(q) = 1..Len(q) - 1
    BY <1>1
  <1>3. Head(q) \in S /\ Has(q, Head(q))
    BY <1>1, <1>2 DEF Has
  <1>4. ASSUME NEW m, Has(Tail(q), m) PROVE Has(q, m)
    <2>1. PICK i \in 1..Len(q) - 1 : Tail(q)[i] = m
      BY <1>2, <1>4 DEF Has
    <2>2. i + 1 \in DOMAIN q /\ q[i + 1] = m
      BY <2>1, <1>1, <1>2
    <2>3. QED
      BY <2>2 DEF Has
  <1>5. ASSUME NEW m, Has(q, m), m # Head(q) PROVE Has(Tail(q), m)
    <2>1. PICK i \in 1..Len(q) : q[i] = m
      BY <1>2, <1>5 DEF Has
    <2>2. i - 1 \in 1..Len(q) - 1 /\ (i - 1) + 1 = i
      BY <2>1, <1>1, <1>5
    <2>3. Tail(q)[i - 1] = m
      BY <2>1, <2>2, <1>1
    <2>4. QED
      BY <2>2, <2>3, <1>2 DEF Has
  <1>6. QED
    BY <1>1, <1>3, <1>4, <1>5

LEMMA AppendHas ==
  ASSUME NEW S, NEW q \in Seq(S), NEW e \in S
  PROVE  /\ Append(q, e) \in Seq(S)
         /\ \A m : Has(Append(q, e), m) <=> Has(q, m) \/ m = e
  <1>1. /\ Append(q, e) \in Seq(S) /\ Len(q) \in Nat
        /\ DOMAIN q = 1..Len(q) /\ DOMAIN Append(q, e) = 1..Len(q) + 1
        /\ Append(q, e)[Len(q) + 1] = e /\ \A i \in 1..Len(q) : Append(q, e)[i] = q[i]
    OBVIOUS
  <1>2. ASSUME NEW m, Has(Append(q, e), m), m # e PROVE Has(q, m)
    <2>1. PICK i \in 1..Len(q) + 1 : Append(q, e)[i] = m
      BY <1>1, <1>2 DEF Has
    <2>2. i \in 1..Len(q)
      BY <2>1, <1>1, <1>2
    <2>3. QED
      BY <2>1, <2>2, <1>1 DEF Has
  <1>3. ASSUME NEW m, Has(q, m) PROVE Has(Append(q, e), m)
    <2>1. PICK i \in 1..Len(q) : q[i] = m
      BY <1>1, <1>3 DEF Has
    <2>2. i \in 1..Len(q) + 1 /\ Append(q, e)[i] = m
      BY <2>1, <1>1
    <2>3. QED
      BY <2>2, <1>1 DEF Has
  <1>4. Has(Append(q, e), e)
    <2>1. Len(q) + 1 \in 1..Len(q) + 1
      BY <1>1
    <2>2. QED
      BY <2>1, <1>1 DEF Has
  <1>5. QED
    BY <1>1, <1>2, <1>3, <1>4

(* The same of two messages appended at once. *)
LEMMA AppendsHave ==
  ASSUME NEW S, NEW q \in Seq(S), NEW d \in S, NEW e \in S
  PROVE  \A m : Has(Append(Append(q, d), e), m) <=> Has(q, m) \/ m = d \/ m = e
  <1> DEFINE p == Append(q, d)
  <1>1. p \in Seq(S) /\ \A m : Has(p, m) <=> Has(q, m) \/ m = d
    BY AppendHas
  <1> HIDE DEF p
  <1>2. \A m : Has(Append(p, e), m) <=> Has(p, m) \/ m = e
    BY <1>1, AppendHas
  <1>3. QED BY <1>1, <1>2 DEF p

(* A sequence cut off after the number of its messages that was kept. *)
LEMMA CutHas ==
  ASSUME NEW S, NEW q \in Seq(S), NEW kept \in Nat
  PROVE  LET cut == [i \in {n \in DOMAIN q : n <= kept} |-> q[i]]
         IN cut \in Seq(S) /\ \A m : Has(cut, m) => Has(q, m)
  <1> DEFINE cut == [i \in {n \in DOMAIN q : n <= kept} |-> q[i]]
             length == IF Len(q) <= kept THEN Len(q) ELSE kept
  <1>1. Len(q) \in Nat /\ DOMAIN q = 1..Len(q) /\ \A i \in 1..Len(q) : q[i] \in S
    OBVIOUS
  <1>2. length \in Nat /\ {n \in DOMAIN q : n <= kept} = 1..length
    BY <1>1
  <1>3. cut \in [1..length -> S]
    BY <1>1, <1>2
  <1>4. cut \in Seq(S)
    BY <1>2, <1>3
  <1>5. \A m : Has(cut, m) => Has(q, m)
    BY DEF Has
  <1>6. QED
    BY <1>4, <1>5

LEMMA Different ==
  /\ Opened \in Messages
  /\ \A n \in Sequences : EventMessage(n) \in Messages
  /\ \A c \in Codes : Closed(c) \in Messages
  /\ \A n \in Sequences : \A c \in Codes : EventMessage(n) # Closed(c)
  /\ \A n \in Sequences : EventMessage(n) # Opened
  /\ \A c \in Codes : Opened # Closed(c)
  /\ \A m, n : EventMessage(m) = EventMessage(n) => m = n
  /\ \A c, d : Closed(c) = Closed(d) => c = d
  /\ \A m \in Messages :
       \/ m = Opened
       \/ m.type = "event" /\ m.seq \in Sequences /\ m = EventMessage(m.seq)
       \/ m.type = "close" /\ m.code \in Codes /\ m = Closed(m.code)
  /\ Opened.type = "open"
  <1>1. \A n : EventMessage(n).type = "event" /\ EventMessage(n).seq = n
    BY DEF EventMessage
  <1>2. \A c : Closed(c).type = "close" /\ Closed(c).code = c
    BY DEF Closed
  <1>3. Opened.type = "open"
    BY DEF Opened
  <1>4. QED
    BY <1>1, <1>2, <1>3 DEF Messages

LEMMA NoticesDiffer ==
  /\ \A n \in Sequences : EventNotice(n) \in Notices
  /\ \A u \in Users : RevokedNotice(u) \in Notices
  /\ \A n, u : EventNotice(n) # RevokedNotice(u)
  /\ \A m, n : EventNotice(m) = EventNotice(n) => m = n
  /\ \A t, u : RevokedNotice(t) = RevokedNotice(u) => t = u
  /\ \A m \in Notices :
       \/ m.type = "event" /\ m.seq \in Sequences /\ m = EventNotice(m.seq)
       \/ m.type = "revoked" /\ m.user \in Users /\ m = RevokedNotice(m.user)
  <1>1. \A n : EventNotice(n).type = "event" /\ EventNotice(n).seq = n
    BY DEF EventNotice
  <1>2. \A u : RevokedNotice(u).type = "revoked" /\ RevokedNotice(u).user = u
    BY DEF RevokedNotice
  <1>3. QED
    BY <1>1, <1>2 DEF Notices

LEMMA CodesGiven == 1006 \in Codes /\ 1013 \in Codes /\ 4401 \in Codes /\ 4404 \in Codes
  BY DEF Codes

-----------------------------------------------------------------------------
(* What the operators do to the wires. *)

SentMore(S, m) ==
  \A s \in Sockets :
    /\ \A x : Has(Sent(S, m)[s], x) <=>
         Has(wire[s], x) \/ (x = m /\ s \in S \ down /\ owner[s] = Me)
    /\ s \notin S \/ s \in down \/ owner[s] # Me => Sent(S, m)[s] = wire[s]

LEMMA SentHas ==
  ASSUME DataTypeOK, NEW S, NEW m \in Messages
  PROVE  Sent(S, m) \in [Sockets -> Seq(Messages)] /\ SentMore(S, m)
  <1>1. \A s \in Sockets : wire[s] \in Seq(Messages)
    BY DEF DataTypeOK
  <1>2. \A s \in Sockets : /\ Append(wire[s], m) \in Seq(Messages)
                           /\ \A x : Has(Append(wire[s], m), x) <=> Has(wire[s], x) \/ x = m
    BY <1>1, AppendHas
  <1>3. ASSUME NEW s \in Sockets
        PROVE  Sent(S, m)[s] = IF s \in S \ down /\ owner[s] = Me THEN Append(wire[s], m) ELSE wire[s]
    BY DEF Sent
  <1>4. Sent(S, m) \in [Sockets -> Seq(Messages)]
    BY <1>1, <1>2 DEF Sent
  <1>5. ASSUME NEW s \in Sockets
        PROVE  /\ \A x : Has(Sent(S, m)[s], x) <=>
                    Has(wire[s], x) \/ (x = m /\ s \in S \ down /\ owner[s] = Me)
               /\ s \notin S \/ s \in down \/ owner[s] # Me => Sent(S, m)[s] = wire[s]
    <2>1. CASE s \in S \ down /\ owner[s] = Me
      <3>1. Sent(S, m)[s] = Append(wire[s], m)
        BY <1>3, <2>1
      <3>2. QED
        BY <3>1, <1>2, <2>1
    <2>2. CASE ~(s \in S \ down /\ owner[s] = Me)
      <3>1. Sent(S, m)[s] = wire[s]
        BY <1>3, <2>2
      <3>2. QED
        BY <3>1, <2>2
    <2>3. QED
      BY <2>1, <2>2
  <1>6. QED
    BY <1>4, <1>5 DEF SentMore

Broken(S) ==
  \A s \in Sockets :
    /\ \A x : Has(wire'[s], x) =>
         Has(wire[s], x) \/ (x = Closed(1006) /\ s \in S /\ owner[s] = Me)
    /\ s \notin S \/ owner[s] # Me => wire'[s] = wire[s]

LEMMA BreakHas ==
  ASSUME DataTypeOK, NEW S, Break(S)
  PROVE  wire' \in [Sockets -> Seq(Messages)] /\ down' = down \union S /\ Broken(S)
  <1>1. PICK kept \in 0..MaxEvents + 1 :
          wire' = [s \in Sockets |->
                     IF s \in S \ down /\ owner[s] = Me
                     THEN Append([i \in {n \in DOMAIN wire[s] : n <= kept} |-> wire[s][i]], Closed(1006))
                     ELSE wire[s]]
    BY DEF Break
  <1>2. kept \in Nat
    BY <1>1, BoundsAssumption
  <1>3. ASSUME NEW s \in Sockets
        PROVE  LET new == Append([i \in {n \in DOMAIN wire[s] : n <= kept} |-> wire[s][i]], Closed(1006))
               IN /\ new \in Seq(Messages)
                  /\ \A x : Has(new, x) => Has(wire[s], x) \/ x = Closed(1006)
    <2>1. wire[s] \in Seq(Messages) /\ Closed(1006) \in Messages
      BY Different, CodesGiven DEF DataTypeOK
    <2> DEFINE cut == [i \in {n \in DOMAIN wire[s] : n <= kept} |-> wire[s][i]]
    <2>2. cut \in Seq(Messages) /\ \A x : Has(cut, x) => Has(wire[s], x)
      BY <2>1, <1>2, CutHas
    <2> HIDE DEF cut
    <2>3. Append(cut, Closed(1006)) \in Seq(Messages)
          /\ \A x : Has(Append(cut, Closed(1006)), x) => Has(cut, x) \/ x = Closed(1006)
      BY <2>1, <2>2, AppendHas
    <2>4. QED
      BY <2>2, <2>3 DEF cut
  <1>4. \A s \in Sockets : wire[s] \in Seq(Messages)
    BY DEF DataTypeOK
  <1> DEFINE new(s) ==
        Append([i \in {n \in DOMAIN wire[s] : n <= kept} |-> wire[s][i]], Closed(1006))
  <1>5. /\ \A s \in Sockets : new(s) \in Seq(Messages)
                             /\ \A x : Has(new(s), x) => Has(wire[s], x) \/ x = Closed(1006)
        /\ wire' = [s \in Sockets |-> IF s \in S \ down /\ owner[s] = Me THEN new(s) ELSE wire[s]]
    BY <1>1, <1>3
  <1> HIDE DEF new
  <1>6. ASSUME NEW s \in Sockets
        PROVE  wire'[s] = IF s \in S \ down /\ owner[s] = Me THEN new(s) ELSE wire[s]
    BY <1>5
  <1>7. wire' \in [Sockets -> Seq(Messages)]
    BY <1>4, <1>5
  <1>8. ASSUME NEW s \in Sockets
        PROVE  /\ \A x : Has(wire'[s], x) =>
                    Has(wire[s], x) \/ (x = Closed(1006) /\ s \in S /\ owner[s] = Me)
               /\ s \notin S \/ owner[s] # Me => wire'[s] = wire[s]
    <2>1. CASE s \in S \ down /\ owner[s] = Me
      <3>1. wire'[s] = new(s)
        BY <1>6, <2>1
      <3>2. QED
        BY <3>1, <1>5, <2>1
    <2>2. CASE ~(s \in S \ down /\ owner[s] = Me)
      BY <1>6, <2>2
    <2>3. QED
      BY <2>1, <2>2
  <1>9. QED
    BY <1>7, <1>8 DEF Break, Broken

LEMMA NextMessageHas ==
  ASSUME Shapes, NEW type, NextMessage(type)
  PROVE  /\ wire' \in [Sockets -> Seq(Messages)]
         /\ socket \in Sockets /\ wire[socket] \in Seq(Messages) /\ wire[socket] # <<>>
         /\ Head(wire[socket]) \in Messages /\ Head(wire[socket]).type = type
         /\ Has(wire[socket], Head(wire[socket]))
         /\ \A s \in Sockets :
              /\ \A x : Has(wire'[s], x) => Has(wire[s], x)
              /\ \A x : Has(wire[s], x) => Has(wire'[s], x) \/ (s = socket /\ x = Head(wire[socket]))
              /\ s # socket => wire'[s] = wire[s]
  <1>1. socket \in Sockets /\ wire[socket] \in Seq(Messages) /\ wire[socket] # <<>>
        /\ wire \in [Sockets -> Seq(Messages)]
    BY DEF NextMessage, Shapes, DataTypeOK, ClientTypeOK
  <1> DEFINE q == wire[socket]
  <1>2. wire' = [wire EXCEPT ![socket] = Tail(q)] /\ Head(q).type = type
    BY DEF NextMessage
  <1>3. /\ Tail(q) \in Seq(Messages) /\ Head(q) \in Messages /\ Has(q, Head(q))
        /\ \A m : Has(Tail(q), m) => Has(q, m)
        /\ \A m : Has(q, m) => m = Head(q) \/ Has(Tail(q), m)
    <2> HIDE DEF q
    <2> QED
      BY <1>1, TailHas DEF q
  <1>4. wire'[socket] = Tail(q) /\ \A s \in Sockets : s # socket => wire'[s] = wire[s]
    BY <1>1, <1>2
  <1>5. wire' \in [Sockets -> Seq(Messages)]
    BY <1>1, <1>2, <1>3
  <1>6. ASSUME NEW s \in Sockets
        PROVE  /\ \A x : Has(wire'[s], x) => Has(wire[s], x)
               /\ \A x : Has(wire[s], x) => Has(wire'[s], x) \/ (s = socket /\ x = Head(q))
               /\ s # socket => wire'[s] = wire[s]
    <2>1. CASE s = socket
      <3>1. wire'[s] = Tail(q) /\ wire[s] = q
        BY <1>4, <2>1
      <3>2. QED
        BY <3>1, <1>3, <2>1
    <2>2. CASE s # socket
      BY <1>4, <2>2
    <2>3. QED
      BY <2>1, <2>2
  <1>7. QED
    BY <1>1, <1>2, <1>3, <1>5, <1>6

LEMMA OpenSocketDoes ==
  ASSUME Shapes, NEW again \in BOOLEAN, OpenSocket(again)
  PROVE  /\ owner' \in [Sockets -> Users \union {None}] /\ incidents' \in 0..MaxIncidents
         /\ due' = {} /\ reconnecting' = again
         /\ socket' \in Sockets \union {None} /\ timer' \in BOOLEAN
         /\ \/ /\ socket' \in Sockets /\ owner[socket'] = None /\ ~timer'
               /\ owner' = [owner EXCEPT ![socket'] = Me]
            \/ socket' = None /\ timer' /\ owner' = owner
  <1>1. due' = {} /\ reconnecting' = again
    BY DEF OpenSocket
  <1>2. owner \in [Sockets -> Users \union {None}] /\ incidents \in 0..MaxIncidents
    BY DEF Shapes, DataTypeOK
  <1>3. CASE \E s \in Unused : /\ owner' = [owner EXCEPT ![s] = Me]
                               /\ socket' = s /\ timer' = FALSE
                               /\ UNCHANGED incidents
    <2>1. PICK s \in Unused : /\ owner' = [owner EXCEPT ![s] = Me]
                              /\ socket' = s /\ timer' = FALSE
                              /\ UNCHANGED incidents
      BY <1>3
    <2>2. s \in Sockets /\ owner[s] = None
      BY <2>1 DEF Unused
    <2>3. QED
      BY <1>1, <1>2, <2>1, <2>2, MeAssumption
  <1>4. CASE Incident("factory") /\ socket' = None /\ timer' = TRUE /\ UNCHANGED owner
    <2>1. incidents' \in 0..MaxIncidents
      BY <1>2, <1>4, BoundsAssumption DEF Incident
    <2>2. QED
      BY <1>1, <1>2, <1>4, <2>1
  <1>5. QED
    BY <1>3, <1>4 DEF OpenSocket

LEMMA OwnersMove ==
  ASSUME Shapes, NEW again \in BOOLEAN, OpenSocket(again)
  PROVE  \A s \in Sockets :
           owner'[s] = owner[s] \/ (owner[s] = None /\ owner'[s] = Me /\ s = socket')
  <1>1. owner \in [Sockets -> Users \union {None}]
    BY DEF Shapes, DataTypeOK
  <1>2. \/ socket' \in Sockets /\ owner[socket'] = None /\ owner' = [owner EXCEPT ![socket'] = Me]
        \/ owner' = owner
    BY OpenSocketDoes
  <1>3. QED
    BY <1>1, <1>2

(* The event that the phone is told of. *)
LEMMA OnEventNumber ==
  ASSUME Shapes, OnEvent
  PROVE  LET n == Head(wire[socket]).seq
         IN /\ n \in Sequences /\ n \in 1..MaxEvents
            /\ Head(wire[socket]) = EventMessage(n)
            /\ Has(wire[socket], EventMessage(n))
  <1>1. NextMessage("event")
    BY DEF OnEvent
  <1>2. /\ Head(wire[socket]) \in Messages /\ Head(wire[socket]).type = "event"
        /\ Has(wire[socket], Head(wire[socket]))
    BY <1>1, NextMessageHas
  <1> DEFINE m == Head(wire[socket])
  <1> HIDE DEF m
  <1>3. m \in Messages /\ m.type = "event" /\ Has(wire[socket], m)
    BY <1>2 DEF m
  <1>4. m.seq \in Sequences /\ m = EventMessage(m.seq)
    BY <1>3, Different
  <1>5. QED
    BY <1>3, <1>4 DEF m, Sequences

(* The close that the phone is told of. *)
LEMMA OnCloseCode ==
  ASSUME Shapes, OnClose
  PROVE  LET c == Head(wire[socket]).code
         IN /\ c \in Codes
            /\ Head(wire[socket]) = Closed(c)
            /\ Has(wire[socket], Closed(c))
  <1>1. NextMessage("close")
    BY DEF OnClose
  <1>2. /\ Head(wire[socket]) \in Messages /\ Head(wire[socket]).type = "close"
        /\ Has(wire[socket], Head(wire[socket]))
    BY <1>1, NextMessageHas
  <1> DEFINE m == Head(wire[socket])
  <1> HIDE DEF m
  <1>3. m \in Messages /\ m.type = "close" /\ Has(wire[socket], m)
    BY <1>2 DEF m
  <1>4. m.code \in Codes /\ m = Closed(m.code)
    BY <1>3, Different
  <1>5. QED
    BY <1>3, <1>4 DEF m

LEMMA ReceivedNotice ==
  ASSUME Shapes, NEW t \in Sockets, Receive(t)
  PROVE  /\ inbox[t] \in Seq(Notices) /\ inbox[t] # <<>>
         /\ inbox' = [inbox EXCEPT ![t] = Tail(inbox[t])] /\ inbox' \in [Sockets -> Seq(Notices)]
         /\ \A r \in Sockets : \A m : Has(inbox'[r], m) => Has(inbox[r], m)
         /\ \A r \in Sockets : \A m :
              Has(inbox[r], m) => Has(inbox'[r], m) \/ (r = t /\ m = Head(inbox[t]))
         /\ \/ \E n \in Sequences :
                 /\ Head(inbox[t]) = EventNotice(n) /\ Has(inbox[t], EventNotice(n))
                 /\ Broadcast(n)
            \/ \E u \in Users :
                 /\ Head(inbox[t]) = RevokedNotice(u) /\ Has(inbox[t], RevokedNotice(u))
                 /\ DisconnectUser(u)
  <1> DEFINE q == inbox[t]
             m == Head(q)
  <1>1. q \in Seq(Notices) /\ q # <<>> /\ inbox \in [Sockets -> Seq(Notices)]
    BY DEF Shapes, ServerShapes, Receive
  <1>2. inbox' = [inbox EXCEPT ![t] = Tail(q)]
    BY DEF Receive
  <1>3. \/ m.type = "event" /\ Broadcast(m.seq)
        \/ m.type = "revoked" /\ DisconnectUser(m.user)
    BY DEF Receive
  <1> HIDE DEF q
  <1>4. /\ Tail(q) \in Seq(Notices) /\ m \in Notices /\ Has(q, m)
        /\ \A x : Has(Tail(q), x) => Has(q, x)
        /\ \A x : Has(q, x) => x = m \/ Has(Tail(q), x)
    BY <1>1, TailHas
  <1> HIDE DEF m
  <1>5. \/ \E n \in Sequences : m = EventNotice(n) /\ Has(q, EventNotice(n)) /\ Broadcast(n)
        \/ \E u \in Users : m = RevokedNotice(u) /\ Has(q, RevokedNotice(u)) /\ DisconnectUser(u)
    BY <1>3, <1>4, NoticesDiffer
  <1>6. inbox'[t] = Tail(q) /\ inbox[t] = q /\ \A r \in Sockets : r # t => inbox'[r] = inbox[r]
    BY <1>1, <1>2 DEF q
  <1>7. ASSUME NEW r \in Sockets
        PROVE  /\ \A x : Has(inbox'[r], x) => Has(inbox[r], x)
               /\ \A x : Has(inbox[r], x) => Has(inbox'[r], x) \/ (r = t /\ x = m)
    <2>1. CASE r = t
      BY <2>1, <1>4, <1>6
    <2>2. CASE r # t
      BY <2>2, <1>6
    <2>3. QED
      BY <2>1, <2>2
  <1>8. inbox' \in [Sockets -> Seq(Notices)]
    BY <1>1, <1>2, <1>4
  <1>9. QED
    BY <1>1, <1>2, <1>5, <1>7, <1>8 DEF q, m

LEMMA DeliveredHas ==
  ASSUME Shapes, NEW notice \in Notices
  PROVE  /\ Delivered(notice) \in [Sockets -> Seq(Notices)]
         /\ \A t \in Sockets :
              /\ \A m : Has(Delivered(notice)[t], m) <=>
                   Has(inbox[t], m) \/ (m = notice /\ task[t] = "listening")
              /\ task[t] # "listening" => Delivered(notice)[t] = inbox[t]
  <1>1. \A t \in Sockets :
          /\ inbox[t] \in Seq(Notices)
          /\ Append(inbox[t], notice) \in Seq(Notices)
          /\ \A m : Has(Append(inbox[t], notice), m) <=> Has(inbox[t], m) \/ m = notice
    BY AppendHas DEF Shapes, ServerShapes
  <1>2. Delivered(notice) \in [Sockets -> Seq(Notices)]
    BY <1>1 DEF Delivered
  <1>3. ASSUME NEW t \in Sockets
        PROVE  /\ \A m : Has(Delivered(notice)[t], m) <=>
                    Has(inbox[t], m) \/ (m = notice /\ task[t] = "listening")
               /\ task[t] # "listening" => Delivered(notice)[t] = inbox[t]
    <2>1. CASE task[t] = "listening"
      <3>1. Delivered(notice)[t] = Append(inbox[t], notice)
        BY <2>1 DEF Delivered
      <3>2. QED
        BY <2>1, <3>1, <1>1
    <2>2. CASE task[t] # "listening"
      <3>1. Delivered(notice)[t] = inbox[t]
        BY <2>2 DEF Delivered
      <3>2. QED
        BY <2>2, <3>1
    <2>3. QED
      BY <2>1, <2>2
  <1>4. QED
    BY <1>2, <1>3

-----------------------------------------------------------------------------
(* The reference count. *)

LEMMA HoldersFinite ==
  /\ IsFiniteSet(Holders) /\ Holders \subseteq Sockets
  /\ Cardinality(Holders) <= Cardinality(Sockets)
  BY BoundsAssumption, FS_Subset DEF Holders

LEMMA LastHolder ==
  ASSUME ReferencesCounted, NEW s \in Holders
  PROVE  /\ refs \in Nat /\ refs >= 1 /\ sub # None
         /\ refs <= 1 => Holders = {s}
         /\ Cardinality(Holders \ {s}) = refs - 1
         /\ refs > 1 <=> Holders \ {s} # {}
  <1>1. IsFiniteSet(Holders) /\ refs = Cardinality(Holders) /\ refs \in Nat /\ sub # None
    BY HoldersFinite, FS_CardinalityType DEF ReferencesCounted
  <1>2. IsFiniteSet(Holders \ {s}) /\ Cardinality(Holders \ {s}) = refs - 1
    BY <1>1, FS_RemoveElement
  <1>3. Cardinality(Holders \ {s}) \in Nat
    BY <1>2, FS_CardinalityType
  <1>4. Cardinality(Holders \ {s}) = 0 <=> Holders \ {s} = {}
    BY <1>2, FS_EmptySet
  <1>5. QED
    BY <1>1, <1>2, <1>3, <1>4

(* A release, as the count has it: the last holder's. *)
LEMMA ReleaseDoes ==
  ASSUME Shapes, ReferencesCounted, NEW s \in Sockets, stage[s] \in {"waiting", "serving"},
         Release(s)
  PROVE  /\ sub # None /\ refs' = refs - 1 /\ Cardinality(Holders \ {s}) = refs - 1
         /\ \/ /\ Holders = {s} /\ sub' = None
               /\ task' = IF sub \notin Finished THEN [task EXCEPT ![sub] = "cancelled"] ELSE task
               /\ inbox' = [inbox EXCEPT ![sub] = <<>>]
               /\ awaited' = [awaited EXCEPT ![s] = sub]
            \/ /\ Holders \ {s} # {} /\ UNCHANGED <<sub, task, inbox>>
               /\ awaited' = [awaited EXCEPT ![s] = None]
  <1>1. s \in Holders
    BY DEF Holders
  <1>2. /\ refs \in Nat /\ refs >= 1 /\ sub # None
        /\ refs <= 1 => Holders = {s}
        /\ Cardinality(Holders \ {s}) = refs - 1
        /\ refs > 1 <=> Holders \ {s} # {}
    BY <1>1, LastHolder
  <1>3. CASE refs <= 1
    BY <1>2, <1>3 DEF Release
  <1>4. CASE refs > 1
    <2>1. ~(refs <= 1) /\ refs > 0
      BY <1>2, <1>4
    <2>2. refs' = refs - 1 /\ UNCHANGED <<sub, task, inbox>> /\ awaited' = [awaited EXCEPT ![s] = None]
      BY <2>1, Zenon DEF Release
    <2>3. QED
      BY <1>2, <1>4, <2>2
  <1>5. QED
    BY <1>2, <1>3, <1>4

-----------------------------------------------------------------------------
LEMMA EmptyHas == \A m : ~Has(<<>>, m)
  BY DEF Has

(* A step that takes from the inboxes only. *)
LEMMA RevokedFrame ==
  ASSUME Revoked, UNCHANGED <<members, revoking>>,
         \A t \in Sockets : \A u \in Users :
           Has(inbox'[t], RevokedNotice(u)) => Has(inbox[t], RevokedNotice(u))
  PROVE  Revoked'
  BY DEF Revoked

(* A step in which each wire is as before or holds less. *)
LEMMA ClosesFrame ==
  ASSUME Closes, down \subseteq down', members' \subseteq members, owner' = owner,
         socket' = socket \/ socket' = None, expired => expired',
         \A s \in Sockets : wire'[s] = wire[s]
  PROVE  Closes'
  <1> USE SentinelAssumption DEF Closes
  <1>1. ASSUME NEW s \in Sockets
        PROVE  /\ owner[s] # Me => wire'[s] = <<>>
               /\ \A c \in Codes : Has(wire'[s], Closed(c)) => s \in down'
               /\ Has(wire'[s], Closed(4404)) => Me \notin members'
               /\ s = socket' /\ Has(wire'[s], Closed(4401)) => expired'
    <2>1. wire'[s] = wire[s] /\ s # None
      OBVIOUS
    <2>2. QED
      BY <2>1
  <1>2. QED
    BY <1>1

(* The sockets S are closed with the code given. *)
LEMMA ClosesClosed ==
  ASSUME Shapes, Closes, NEW S, NEW code \in Codes, Close(S, code),
         UNCHANGED <<members, owner, socket, expired>>,
         code # 4401,
         code = 4404 => \A s \in S : owner[s] \notin members
  PROVE  Closes'
  <1>1. Closed(code) \in Messages /\ \A c \in Codes : Closed(c) = Closed(code) => c = code
    BY Different
  <1>2. /\ wire' = Sent(S, Closed(code)) /\ down' = down \union S /\ DataTypeOK
        /\ 4401 \in Codes /\ 4404 \in Codes
    BY CodesGiven DEF Close, Shapes
  <1>3. ASSUME NEW s \in Sockets
        PROVE  /\ \A x : Has(wire'[s], x) =>
                    Has(wire[s], x) \/ (x = Closed(code) /\ s \in S /\ owner[s] = Me)
               /\ owner[s] # Me => wire'[s] = wire[s]
    BY <1>1, <1>2, SentHas DEF SentMore
  <1>4. ASSUME NEW s \in Sockets
        PROVE  /\ owner'[s] # Me => wire'[s] = <<>>
               /\ \A c \in Codes : Has(wire'[s], Closed(c)) => s \in down'
               /\ Has(wire'[s], Closed(4404)) => Me \notin members'
               /\ s = socket' /\ Has(wire'[s], Closed(4401)) => expired'
    <2>1. owner'[s] # Me => wire'[s] = <<>>
      BY <1>3 DEF Closes
    <2>2. \A c \in Codes : Has(wire'[s], Closed(c)) => s \in down'
      BY <1>2, <1>3 DEF Closes
    <2>3. Has(wire'[s], Closed(4404)) => Me \notin members'
      BY <1>1, <1>2, <1>3 DEF Closes
    <2>4. s = socket' /\ Has(wire'[s], Closed(4401)) => expired'
      BY <1>1, <1>2, <1>3 DEF Closes
    <2>5. QED
      BY <2>1, <2>2, <2>3, <2>4
  <1>5. QED
    BY <1>4 DEF Closes

LEMMA ClosesBroken ==
  ASSUME Shapes, Closes, NEW S, Break(S), UNCHANGED <<members, owner, socket, expired>>
  PROVE  Closes'
  <1>1. \A c \in Codes : Closed(c) = Closed(1006) => c = 1006
    BY Different, CodesGiven
  <1>2. down' = down \union S /\ DataTypeOK /\ 4401 \in Codes /\ 4404 \in Codes
    BY CodesGiven DEF Break, Shapes
  <1>3. ASSUME NEW s \in Sockets
        PROVE  /\ \A x : Has(wire'[s], x) =>
                    Has(wire[s], x) \/ (x = Closed(1006) /\ s \in S /\ owner[s] = Me)
               /\ owner[s] # Me => wire'[s] = wire[s]
    <2>1. Broken(S)
      BY <1>2, BreakHas
    <2>2. QED
      BY <2>1 DEF Broken
  <1>4. ASSUME NEW s \in Sockets
        PROVE  /\ owner'[s] # Me => wire'[s] = <<>>
               /\ \A c \in Codes : Has(wire'[s], Closed(c)) => s \in down'
               /\ Has(wire'[s], Closed(4404)) => Me \notin members'
               /\ s = socket' /\ Has(wire'[s], Closed(4401)) => expired'
    <2>1. owner'[s] # Me => wire'[s] = <<>>
      BY <1>3 DEF Closes
    <2>2. \A c \in Codes : Has(wire'[s], Closed(c)) => s \in down'
      BY <1>2, <1>3 DEF Closes
    <2>3. Has(wire'[s], Closed(4404)) => Me \notin members'
      BY <1>1, <1>2, <1>3 DEF Closes
    <2>4. s = socket' /\ Has(wire'[s], Closed(4401)) => expired'
      BY <1>1, <1>2, <1>3 DEF Closes
    <2>5. QED
      BY <2>1, <2>2, <2>3, <2>4
  <1>5. QED
    BY <1>4 DEF Closes

(* A message that is no close. *)
LEMMA ClosesSent ==
  ASSUME Shapes, Closes, NEW S, NEW m \in Messages, \A c \in Codes : m # Closed(c),
         wire' = Sent(S, m), UNCHANGED <<members, owner, socket, expired, down>>
  PROVE  Closes'
  <1>1. DataTypeOK /\ 4401 \in Codes /\ 4404 \in Codes
    BY CodesGiven DEF Shapes
  <1>2. ASSUME NEW s \in Sockets
        PROVE  /\ \A x : Has(wire'[s], x) => Has(wire[s], x) \/ x = m
               /\ owner[s] # Me => wire'[s] = wire[s]
    <2>1. SentMore(S, m)
      BY <1>1, SentHas
    <2>2. QED
      BY <2>1 DEF SentMore
  <1>3. ASSUME NEW s \in Sockets
        PROVE  /\ owner'[s] # Me => wire'[s] = <<>>
               /\ \A c \in Codes : Has(wire'[s], Closed(c)) => Has(wire[s], Closed(c))
    BY <1>2 DEF Closes
  <1>4. QED
    BY <1>1, <1>3 DEF Closes

(* A message is taken from the phone's wire. *)
LEMMA ClosesTaken ==
  ASSUME Shapes, Closes, NEW type, NextMessage(type), UNCHANGED <<members, owner, expired, down>>,
         socket' = socket \/ socket' = None
  PROVE  Closes'
  <1>1. ASSUME NEW s \in Sockets
        PROVE  /\ \A x : Has(wire'[s], x) => Has(wire[s], x)
               /\ owner[s] # Me => wire'[s] = <<>>
    BY NextMessageHas, EmptyHas DEF Closes
  <1>2. ASSUME NEW s \in Sockets
        PROVE  s = socket' => s = socket
    BY SentinelAssumption
  <1>3. 4401 \in Codes /\ 4404 \in Codes
    BY CodesGiven
  <1>4. ASSUME NEW s \in Sockets
        PROVE  /\ owner'[s] # Me => wire'[s] = <<>>
               /\ \A c \in Codes : Has(wire'[s], Closed(c)) => s \in down'
               /\ Has(wire'[s], Closed(4404)) => Me \notin members'
               /\ s = socket' /\ Has(wire'[s], Closed(4401)) => expired'
    <2>1. \A x : Has(wire'[s], x) => Has(wire[s], x)
      BY <1>1
    <2>2. s = socket /\ Has(wire[s], Closed(4401)) => expired
      BY DEF Closes
    <2>3. s = socket' /\ Has(wire'[s], Closed(4401)) => expired'
      BY <1>2, <2>1, <2>2
    <2>4. QED
      BY <1>1, <2>1, <2>3 DEF Closes
  <1>5. QED
    BY <1>4 DEF Closes

(* The phone opens another socket, or none. *)
LEMMA ClosesOpened ==
  ASSUME Shapes, Closes, NEW again \in BOOLEAN, OpenSocket(again), down \subseteq down',
         UNCHANGED members,
         \A s \in Sockets : wire'[s] = wire[s] \/ wire'[s] = <<>>
  PROVE  Closes'
  <1>1. \A s \in Sockets : \/ owner'[s] = owner[s] /\ s # socket'
                           \/ owner[s] = None /\ owner'[s] = Me /\ s = socket'
    <2>1. \A s \in Sockets : s # None
      BY SentinelAssumption
    <2>2. \/ /\ socket' \in Sockets /\ owner[socket'] = None
             /\ owner' = [owner EXCEPT ![socket'] = Me]
          \/ socket' = None /\ owner' = owner
      BY OpenSocketDoes
    <2>3. owner \in [Sockets -> Users \union {None}]
      BY DEF Shapes, DataTypeOK
    <2>4. QED
      BY <2>1, <2>2, <2>3
  <1>2. Me # None
    BY MeAssumption, SentinelAssumption
  <1>3. ASSUME NEW s \in Sockets
        PROVE  /\ owner'[s] # Me => wire'[s] = <<>>
               /\ \A x : Has(wire'[s], x) => Has(wire[s], x)
               /\ s = socket' => \A x : ~Has(wire'[s], x)
    <2>1. owner[s] # Me => wire[s] = <<>>
      BY DEF Closes
    <2>2. wire'[s] = wire[s] \/ wire'[s] = <<>>
      OBVIOUS
    <2>3. QED
      BY <1>1, <1>2, <2>1, <2>2, EmptyHas
  <1>4. QED
    BY <1>3, CodesGiven DEF Closes

-----------------------------------------------------------------------------
(* A step of the server. *)
LEMMA PhoneFrame ==
  ASSUME Shapes, Trying, OneConnection, UNCHANGED clientVars, down \subseteq down',
         members' \subseteq members, expired => expired',
         \A s \in Sockets : owner'[s] = owner[s] \/ (owner[s] = None /\ owner'[s] # Me)
  PROVE  Trying' /\ OneConnection'
  <1>1. /\ UNCHANGED <<socket, timer, enabled, foreground>> /\ Me # None
        /\ socket \in Sockets \union {None} /\ (socket # None => owner[socket] = Me)
    BY MeAssumption, SentinelAssumption DEF clientVars, Shapes, ClientTypeOK, Trying
  <1>2. socket # None => owner'[socket] = Me
    BY <1>1
  <1>3. Trying'
    BY <1>1, <1>2 DEF Trying
  <1>4. \A s \in Sockets : owner'[s] = Me /\ s \notin down' => s = socket
    BY <1>1 DEF OneConnection
  <1>5. IF foreground THEN socket # None \/ timer \/ Me \notin members' \/ expired'
        ELSE socket = None /\ ~timer
    BY DEF OneConnection
  <1>6. QED
    BY <1>1, <1>3, <1>4, <1>5 DEF OneConnection, Trying

(* A new socket is opened when there is none, or the old one is closed. *)
LEMMA PhoneOpened ==
  ASSUME Shapes, NEW again \in BOOLEAN, OpenSocket(again), enabled', foreground',
         \A s \in Sockets : owner[s] = Me => s \in down'
  PROVE  Trying' /\ OneConnection'
  <1>1. /\ \/ /\ socket' \in Sockets /\ ~timer'
              /\ owner' = [owner EXCEPT ![socket'] = Me]
           \/ socket' = None /\ timer' /\ owner' = owner
        /\ owner \in [Sockets -> Users \union {None}] /\ None \notin Sockets
    BY OpenSocketDoes, SentinelAssumption DEF Shapes, DataTypeOK
  <1>2. CASE socket' \in Sockets /\ ~timer' /\ owner' = [owner EXCEPT ![socket'] = Me]
    <2>1. socket' # None /\ owner'[socket'] = Me
      BY <1>1, <1>2
    <2>2. \A s \in Sockets : owner'[s] = Me /\ s \notin down' => s = socket'
      BY <1>1, <1>2
    <2>3. QED
      BY <1>2, <2>1, <2>2 DEF Trying, OneConnection
  <1>3. CASE socket' = None /\ timer' /\ owner' = owner
    <2>1. \A s \in Sockets : owner'[s] = Me /\ s \notin down' => s = socket'
      BY <1>3
    <2>2. QED
      BY <1>3, <2>1 DEF Trying, OneConnection
  <1>4. QED
    BY <1>1, <1>2, <1>3

-----------------------------------------------------------------------------
(* Events on the wires. *)

NoEventAdded ==
  \A s \in Sockets : \A n \in Sequences :
    Has(wire'[s], EventMessage(n)) => Has(wire[s], EventMessage(n))

(* Nothing is lost on a socket that stays open. *)
NoEventLost ==
  \A s \in Sockets \ down' : \A n \in Sequences :
    Has(wire[s], EventMessage(n)) => Has(wire'[s], EventMessage(n))

LEMMA EventsSent ==
  ASSUME Shapes, NEW S, NEW m \in Messages, wire' = Sent(S, m)
  PROVE  /\ NoEventLost
         /\ \A s \in Sockets : \A n \in Sequences :
              Has(wire'[s], EventMessage(n)) => Has(wire[s], EventMessage(n)) \/ m = EventMessage(n)
  <1>1. SentMore(S, m)
    BY SentHas DEF Shapes
  <1>2. QED
    BY <1>1 DEF SentMore, NoEventLost

LEMMA EventsClosed ==
  ASSUME Shapes, NEW S, NEW code \in Codes, Close(S, code)
  PROVE  NoEventAdded /\ NoEventLost
  <1>1. wire' = Sent(S, Closed(code)) /\ Closed(code) \in Messages
    BY Different DEF Close
  <1>2. QED
    BY <1>1, EventsSent, Different DEF NoEventAdded

LEMMA EventsBroken ==
  ASSUME Shapes, NEW S, Break(S)
  PROVE  NoEventAdded /\ NoEventLost
  <1>1. Broken(S) /\ down' = down \union S /\ Closed(1006) \in Messages
    BY BreakHas, Different, CodesGiven DEF Shapes
  <1>2. NoEventAdded
    BY <1>1, Different, CodesGiven DEF Broken, NoEventAdded
  <1>3. NoEventLost
    BY <1>1 DEF Broken, NoEventLost
  <1>4. QED
    BY <1>2, <1>3

LEMMA EventsRejected ==
  ASSUME Shapes, NEW s \in Sockets, Reject(s)
  PROVE  NoEventAdded /\ NoEventLost
  <1>1. CASE owner[s] = Me /\ s \notin down
    <2> DEFINE code == IF expired THEN 4401 ELSE 4404
    <2>1. code \in Codes
      BY CodesGiven
    <2>2. wire' = [wire EXCEPT ![s] = Append(Append(wire[s], Opened), Closed(code))] /\ down' = down \union {s}
      BY <1>1 DEF Reject, Shapes, DataTypeOK
    <2> HIDE DEF code
    <2>3. wire[s] \in Seq(Messages) /\ wire \in [Sockets -> Seq(Messages)] /\ Opened \in Messages
          /\ Closed(code) \in Messages
      BY <2>1, Different DEF Shapes, DataTypeOK
    <2>4. /\ Append(wire[s], Opened) \in Seq(Messages)
          /\ \A x : Has(Append(wire[s], Opened), x) <=> Has(wire[s], x) \/ x = Opened
      BY <2>3, AppendHas
    <2>5. \A x : Has(Append(Append(wire[s], Opened), Closed(code)), x)
                <=> Has(Append(wire[s], Opened), x) \/ x = Closed(code)
      BY <2>3, <2>4, AppendHas
    <2>6. /\ wire'[s] = Append(Append(wire[s], Opened), Closed(code))
          /\ \A r \in Sockets : r # s => wire'[r] = wire[r]
      BY <2>2, <2>3
    <2>7. \A m \in Sequences : Has(wire'[s], EventMessage(m)) => Has(wire[s], EventMessage(m))
      BY <2>1, <2>4, <2>5, <2>6, Different
    <2>8. QED
      BY <2>2, <2>6, <2>7 DEF NoEventAdded, NoEventLost
  <1>2. CASE ~(owner[s] = Me /\ s \notin down)
    <2>1. wire' = wire
      BY <1>2 DEF Reject, Shapes, DataTypeOK
    <2>2. QED
      BY <2>1 DEF NoEventAdded, NoEventLost
  <1>3. QED
    BY <1>1, <1>2

-----------------------------------------------------------------------------
(* The phone's tracker and its queries. *)

LEMMA ShowsLess ==
  ASSUME Shapes, NEW q \in Queries, NEW m \in 1..MaxEvents, NEW n \in 1..MaxEvents, m <= n,
         Shows(q, n)
  PROVE  Shows(q, m)
  <1>1. view[q] \in 0..MaxEvents /\ MaxEvents \in Nat
    BY BoundsAssumption DEF Shapes, ClientTypeOK
  <1>2. view[q] >= n => view[q] >= m
    BY <1>1
  <1>3. QED
    BY <1>2 DEF Shows

LEMMA LogTyped ==
  ASSUME Shapes
  PROVE  /\ Len(log) \in Nat /\ Len(log) <= MaxEvents /\ MaxEvents \in Nat
         /\ \A n \in 1..Len(log) :
              /\ n \in Sequences /\ n \in 1..MaxEvents /\ log[n] \in Events
              /\ log[n].kind = "change" => log[n].item \in Items /\ log[n].item \in Queries
              /\ log[n].kind = "delete" => log[n].item \in Items
  <1>1. log \in Seq(Events) /\ Len(log) <= MaxEvents /\ MaxEvents \in Nat
    BY BoundsAssumption DEF Shapes, DataTypeOK
  <1>2. ASSUME NEW e \in Events
        PROVE  e.kind \in {"change", "delete"} => e.item \in Items
    BY DEF Events
  <1>3. QED
    BY <1>1, <1>2 DEF Sequences, Queries

LEMMA RefreshedShows ==
  ASSUME Shapes, NEW D \in SUBSET Queries, fetch' = Refreshed(D), cached' = cached
  PROVE  \A q \in D : \A n : Shows(q, n)'
  BY DEF Refreshed, Shows

LEMMA Synced ==
  ASSUME Shapes, NEW n \in 1..Len(log), Synchronize(n)
  PROVE  /\ Shows(List, n)'
         /\ \A i : log[n].kind = "change" /\ i = log[n].item => Shows(i, n)'
  <1> DEFINE e == log[n]
  <1>1. /\ e.kind \in {"change", "delete"} => e.item \in Items
        /\ e.kind = "change" => e.item \in Queries
        /\ List \in Queries /\ List \notin Items
    BY LogTyped, SentinelAssumption DEF Queries
  <1>2. CASE e.kind = "delete"
    <2>1. fetch' = [Refreshed({List}) EXCEPT ![e.item] = "idle"] /\ cached' = cached \ {e.item}
      BY <1>2 DEF Synchronize
    <2>2. List \in cached' => fetch'[List] = "sent"
      BY <1>1, <1>2, <2>1 DEF Refreshed
    <2>3. QED
      BY <1>2, <2>2 DEF Shows
  <1>3. CASE e.kind = "change"
    <2>1. fetch' = Refreshed({List, e.item}) /\ cached' = cached
      BY <1>3 DEF Synchronize
    <2>2. {List, e.item} \in SUBSET Queries
      BY <1>1, <1>3
    <2>3. \A q \in {List, e.item} : \A m : Shows(q, m)'
      BY <2>1, <2>2, RefreshedShows
    <2>4. QED
      BY <1>3, <2>3
  <1>4. CASE e.kind \notin {"change", "delete"}
    <2>1. fetch' = Refreshed({List}) /\ cached' = cached
      BY <1>4 DEF Synchronize
    <2>2. QED
      BY <1>1, <1>4, <2>1, RefreshedShows
  <1>5. QED
    BY <1>2, <1>3, <1>4

LEMMA TrackedFrame ==
  ASSUME Shapes, Tracked, latest' = latest, base' = base,
         Len(log') \in Nat, Len(log) <= Len(log'), \A n \in 1..Len(log) : log'[n] = log[n],
         \A q \in Queries : \A n \in 1..Len(log) : Shows(q, n) => Shows(q, n)'
  PROVE  Tracked'
  <1>1. /\ latest \in Nat /\ base \in Nat /\ Len(log) \in Nat /\ List \in Queries
        /\ latest = 0 <=> base = 0
        /\ base <= latest /\ latest <= Len(log)
    BY LogTyped DEF Shapes, ClientTypeOK, Tracked, Queries
  <1>2. latest <= Len(log')
    BY <1>1
  <1>3. latest > 0 => Shows(List, latest)'
    BY <1>1 DEF Tracked
  <1>4. ASSUME NEW n \in Sequences, base <= n, n <= latest, log'[n].kind = "change",
               NEW i, i = log'[n].item
        PROVE  Shows(i, n)'
    <2>1. n \in 1..Len(log) /\ log'[n] = log[n]
      BY <1>1, <1>4 DEF Sequences
    <2>2. Shows(log[n].item, n) /\ log[n].item \in Queries
      BY <1>4, <2>1, LogTyped DEF Tracked
    <2>3. i \in Queries /\ Shows(i, n)
      BY <2>1, <2>2, <1>4
    <2>4. QED
      BY <2>1, <2>3
  <1>5. (latest = 0 <=> base = 0)' /\ (base <= latest /\ latest <= Len(log))'
    BY <1>1, <1>2
  <1>6. (latest > 0 => Shows(List, latest))'
    BY <1>3 DEF Shows
  <1>7. (\A n \in Sequences :
           base <= n /\ n <= latest /\ log[n].kind = "change" => Shows(log[n].item, n))'
    BY <1>4 DEF Shows
  <1>8. QED
    BY <1>5, <1>6, <1>7 DEF Tracked

-----------------------------------------------------------------------------
(* What is due. *)

Shown(n) ==
  /\ Shows(List, n)
  /\ log[n].kind = "change" /\ n >= base => Shows(log[n].item, n)

LEMMA OnTheWayHas ==
  ASSUME NEW n
  PROVE  /\ OnTheWay(n) <=> \/ \E t \in Sockets : Has(inbox[t], EventNotice(n))
                            \/ Has(wire[socket], EventMessage(n))
                            \/ stage[socket] = "refusing"
                            \/ \E t \in Sockets : task[t] = "lost"
         /\ OnTheWay(n)' <=> \/ \E t \in Sockets : Has(inbox'[t], EventNotice(n))
                             \/ Has(wire'[socket'], EventMessage(n))
                             \/ stage'[socket'] = "refusing"
                             \/ \E t \in Sockets : task'[t] = "lost"
  BY DEF OnTheWay, Has, EventNotice, EventMessage

LEMMA ShownKept ==
  ASSUME Shapes, NEW n \in 1..Len(log), Shown(n),
         base' \in Nat, base <= base', log'[n] = log[n],
         \A q \in Queries : \A m \in 1..Len(log) : Shows(q, m) => Shows(q, m)'
  PROVE  Shown(n)'
  <1>1. Shows(List, n)'
    BY DEF Shown, Queries
  <1>2. ASSUME log'[n].kind = "change", n >= base', NEW i, i = log'[n].item PROVE Shows(i, n)'
    <2>1. base \in Nat /\ n >= base /\ log[n].kind = "change" /\ i = log[n].item
      BY <1>2 DEF Shapes, ClientTypeOK
    <2>2. Shows(i, n) /\ i \in Queries
      BY <2>1, LogTyped DEF Shown
    <2>3. QED
      BY <2>2
  <1>3. (log[n].kind = "change" /\ n >= base => Shows(log[n].item, n))'
    BY <1>2 DEF Shows
  <1>4. QED
    BY <1>1, <1>3 DEF Shown

LEMMA PublishedFrame ==
  ASSUME Shapes, Numbered, PublishedIsShown, socket' = socket, due' \subseteq due,
         down \subseteq down', base' \in Nat, base <= base',
         \A n \in 1..Len(log) : log'[n] = log[n],
         \A q \in Queries : \A n \in 1..Len(log) : Shows(q, n) => Shows(q, n)',
         Connected' => \A n \in due' : OnTheWay(n) => OnTheWay(n)' \/ Shown(n)'
  PROVE  PublishedIsShown'
  <1>1. ASSUME Connected', NEW n \in due' PROVE OnTheWay(n)' \/ Shown(n)'
    <2>1. Connected /\ n \in due
      BY <1>1 DEF Connected
    <2>2. n \in 1..Len(log)
      BY <2>1, LogTyped DEF Numbered, Shapes, DataTypeOK, Sequences
    <2>3. OnTheWay(n) \/ Shown(n)
      BY <2>1 DEF PublishedIsShown, Shown
    <2>4. QED
      BY <1>1, <2>2, <2>3, ShownKept
  <1>2. (Connected => \A n \in due : OnTheWay(n) \/ Shown(n))'
    BY <1>1
  <1>3. QED
    BY <1>2 DEF PublishedIsShown, Shown

(* A step of the server that loses nothing that is on its way to the phone. *)
LEMMA PublishedServer ==
  ASSUME Shapes, Numbered, PublishedIsShown, UNCHANGED clientVars, due' = due,
         down \subseteq down', NoEventLost,
         \A n \in 1..Len(log) : log'[n] = log[n],
         Connected' =>
           /\ \A t \in Sockets : \A n \in due :
                Has(inbox[t], EventNotice(n)) => Has(inbox'[t], EventNotice(n))
           /\ stage[socket] = "refusing" => stage'[socket] = "refusing"
           /\ \A t \in Sockets : task[t] = "lost" => task'[t] = "lost"
  PROVE  PublishedIsShown'
  <1>1. /\ UNCHANGED <<socket, base, cached, fetch, view>> /\ due \subseteq Sequences
        /\ base \in Nat /\ socket \in Sockets \union {None}
    BY DEF clientVars, Shapes, ClientTypeOK, DataTypeOK
  <1>2. \A q \in Queries : \A n \in 1..Len(log) : Shows(q, n) => Shows(q, n)'
    BY <1>1 DEF Shows
  <1>3. ASSUME Connected', NEW n \in due', OnTheWay(n) PROVE OnTheWay(n)'
    <2>1. socket \in Sockets \ down' /\ n \in Sequences /\ n \in due
      BY <1>1, <1>3 DEF Connected
    <2>2. \/ \E t \in Sockets : Has(inbox[t], EventNotice(n))
          \/ Has(wire[socket], EventMessage(n))
          \/ stage[socket] = "refusing"
          \/ \E t \in Sockets : task[t] = "lost"
      BY <1>3, OnTheWayHas
    <2>3. \/ \E t \in Sockets : Has(inbox'[t], EventNotice(n))
          \/ Has(wire'[socket], EventMessage(n))
          \/ stage'[socket] = "refusing"
          \/ \E t \in Sockets : task'[t] = "lost"
      BY <1>3, <2>1, <2>2 DEF NoEventLost
    <2>4. QED
      BY <1>1, <2>3, OnTheWayHas
  <1>4. QED
    BY <1>1, <1>2, <1>3, PublishedFrame

(* The phone's socket, while something is due to it. *)
LEMMA ServedSocket ==
  ASSUME Shapes, Named, Registered, Trying, DueIsServed, Connected, due # {}
  PROVE  /\ socket \in Sockets /\ owner[socket] = Me /\ socket \in connections
         /\ stage[socket] \in {"waiting", "serving", "refusing"}
  <1>1. socket \in Sockets /\ owner[socket] = Me /\ socket \in connections /\ socket \notin down
    BY DEF Connected, DueIsServed, Trying, Shapes, ClientTypeOK
  <1>2. stage[socket] \in {"waiting", "refusing", "serving", "stopping"}
    BY <1>1 DEF Registered, RegistryFollowsHandlers
  <1>3. stage[socket] # "stopping"
    BY <1>1 DEF Named
  <1>4. QED
    BY <1>1, <1>2, <1>3

-----------------------------------------------------------------------------
(* The values. *)
LEMMA ServerShapesStep ==
  ASSUME Shapes, Waiting, [Next]_vars
  PROVE  ServerShapes'
  <1> USE SentinelAssumption DEF Served, Client, serverVars, handlerVars, subscriptionVars,
     publisherVars, clientVars, ServerShapes, Shapes, Stages, Tasks
  <1>1. ASSUME NEW s \in Sockets, Authenticate(s), Served PROVE ServerShapes'
    BY <1>1 DEF Authenticate, Admit, Reject
  <1>2. ASSUME NEW s \in Sockets, Accept(s), Served PROVE ServerShapes'
    BY <1>2 DEF Accept
  <1>3. ASSUME NEW s \in Sockets, AcceptFails(s), Served PROVE ServerShapes'
    BY <1>3 DEF AcceptFails
  <1>4. ASSUME NEW s \in Sockets, Register(s), Served PROVE ServerShapes'
    <2>1. CASE StartSubscription(s)
      BY <1>4, <2>1 DEF Register, StartSubscription
    <2>2. CASE JoinSubscription(s)
      <3>1. sub \in Sockets
        BY <2>2 DEF JoinSubscription
      <3>2. QED
        BY <1>4, <2>2, <3>1 DEF Register, JoinSubscription
    <2>3. QED
      BY <1>4, <2>1, <2>2 DEF Register
  <1>5. ASSUME NEW s \in Sockets, Serve(s), Served PROVE ServerShapes'
    BY <1>5 DEF Serve
  <1>6. ASSUME NEW s \in Sockets, StartFails(s), Served PROVE ServerShapes'
    <2>1. /\ refs - 1 \in Nat \/ refs = 0
          /\ <<>> \in Seq(Notices)
      OBVIOUS
    <2>2. QED
      BY <1>6, <2>1 DEF StartFails, Release
  <1>7. ASSUME NEW s \in Sockets, Refuse(s), Served PROVE ServerShapes'
    BY <1>7 DEF Refuse, Close
  <1>8. ASSUME NEW s \in Sockets, Leave(s), Served PROVE ServerShapes'
    <2>1. /\ refs - 1 \in Nat \/ refs = 0
          /\ <<>> \in Seq(Notices)
      OBVIOUS
    <2>2. QED
      BY <1>8, <2>1 DEF Leave, Release
  <1>9. ASSUME NEW s \in Sockets, Unregister(s), Served PROVE ServerShapes'
    BY <1>9 DEF Unregister
  <1>10. ASSUME NEW s \in Sockets, Subscribed(s), Served PROVE ServerShapes'
    BY <1>10 DEF Subscribed
  <1>11. ASSUME NEW s \in Sockets, SubscribeFails(s), Served PROVE ServerShapes'
    BY <1>11 DEF SubscribeFails, Incident
  <1>12. ASSUME NEW s \in Sockets, Lose(s), Served PROVE ServerShapes'
    BY <1>12 DEF Lose, Incident
  <1>13. ASSUME NEW s \in Sockets, Recover(s), Served PROVE ServerShapes'
    BY <1>13 DEF Recover, Close
  <1>14. ASSUME NEW s \in Sockets, Resubscribe(s), Served PROVE ServerShapes'
    BY <1>14 DEF Resubscribe
  <1>15. ASSUME NEW s \in Sockets, Cancelled(s), Served PROVE ServerShapes'
    BY <1>15 DEF Cancelled
  <1>16. ASSUME NEW s \in Sockets, Receive(s), Served PROVE ServerShapes'
    <2>2. inbox' \in [Sockets -> Seq(Notices)]
      BY <1>16, ReceivedNotice
    <2>3. connections' \subseteq Sockets
      BY <1>16 DEF Receive, Broadcast, DisconnectUser
    <2>4. QED
      BY <1>16, <2>2, <2>3 DEF Receive
  <1>17. ASSUME NEW s \in Sockets, HangUp(s), Served PROVE ServerShapes'
    BY <1>17 DEF HangUp
  <1>18. ASSUME NEW s \in Sockets, Drop(s), Served PROVE ServerShapes'
    BY <1>18 DEF Drop, Incident, Break
  <1>19. ASSUME NEW s \in Sockets, NEW u \in Users, Dial(s, u), Served PROVE ServerShapes'
    BY <1>19 DEF Dial
  <1>20. ASSUME NEW u \in Users, Remove(u), Served PROVE ServerShapes'
    BY <1>20 DEF Remove, Incident
  <1>21. ASSUME NEW u \in Users, RevokeLocally(u), Served PROVE ServerShapes'
    BY <1>21 DEF RevokeLocally, DisconnectUser, Close
  <1>22. ASSUME NEW u \in Users, PublishRevocation(u), Served PROVE ServerShapes'
    <2>1. inbox' \in [Sockets -> Seq(Notices)]
      BY <1>22, NoticesDiffer, DeliveredHas DEF PublishRevocation
    <2>2. QED
      BY <1>22, <2>1 DEF PublishRevocation
  <1>23. CASE Commit /\ Served
    <2>1. Len(log) \in Nat /\ Len(log) + 1 \in Sequences
      BY <1>23, StoriesAssumption, BoundsAssumption DEF Commit, DataTypeOK, Sequences
    <2>2. QED
      BY <1>23, <2>1 DEF Commit
  <1>24. ASSUME NEW n \in Sequences, Publish(n), Served PROVE ServerShapes'
    <2>1. inbox' \in [Sockets -> Seq(Notices)]
      BY <1>24, NoticesDiffer, DeliveredHas DEF Publish
    <2>2. QED
      BY <1>24, <2>1 DEF Publish
  <1>25. ASSUME NEW n \in Sequences, PublishFails(n), Served PROVE ServerShapes'
    BY <1>25 DEF PublishFails, Incident
  <1>26. CASE Restart /\ Served
    BY <1>26 DEF Restart, Incident, Break
  <1>27. CASE Timer /\ Client
    BY <1>27 DEF Timer, OpenSocket, Incident
  <1>28. CASE OnOpen /\ Client
    BY <1>28 DEF OnOpen, NextMessage, ResetTracker, Refresh, Refreshed
  <1>29. CASE OnEvent /\ Client
    BY <1>29 DEF OnEvent, NextMessage, Accepted, Stale, Gap, Synchronize, Refresh, Refreshed
  <1>30. CASE OnClose /\ Client
    BY <1>30 DEF OnClose, NextMessage
  <1>31. CASE Foreground /\ Client
    BY <1>31 DEF Foreground, ResetTracker, Refresh, Refreshed, Connect, OpenSocket, Incident
  <1>32. CASE Background /\ Client
    BY <1>32 DEF Background, Disconnect, CloseByPhone
  <1>33. CASE Remount /\ Client
    BY <1>33 DEF Remount, ResetTracker, CloseByPhone, Connect, OpenSocket, Incident
  <1>34. CASE Expire /\ Client
    BY <1>34 DEF Expire, Incident
  <1>35. ASSUME NEW q \in Queries, Answer(q), Client PROVE ServerShapes'
    BY <1>35 DEF Answer
  <1>36. ASSUME NEW q \in Queries, Fails(q), Client PROVE ServerShapes'
    BY <1>36 DEF Fails, Incident
  <1>37. CASE UNCHANGED vars
    BY <1>37 DEF vars
  <1>38. QED
    BY <1>1, <1>2, <1>3, <1>4, <1>5, <1>6, <1>7, <1>8, <1>9, <1>10, <1>11, <1>12, <1>13, <1>14,
       <1>15, <1>16, <1>17, <1>18, <1>19, <1>20, <1>21, <1>22, <1>23, <1>24, <1>25, <1>26, <1>27,
       <1>28, <1>29, <1>30, <1>31, <1>32, <1>33, <1>34, <1>35, <1>36, <1>37 DEF Next, ServerNext,
       ClientNext, Served, Client

LEMMA DataStep ==
  ASSUME Shapes, [Next]_vars
  PROVE  DataTypeOK'
  <1> USE SentinelAssumption DEF Served, Client, serverVars, handlerVars, subscriptionVars,
     publisherVars, clientVars, DataTypeOK, Shapes, ServerShapes, ClientTypeOK
  <1>1. ASSUME NEW s \in Sockets, Authenticate(s), Served PROVE DataTypeOK'
    <2>1. wire' \in [Sockets -> Seq(Messages)]
      <3>1. CASE Admit(s)
        BY <3>1 DEF Admit
      <3>2. CASE Reject(s)
        <4>1. \A c \in Codes : Append(Append(wire[s], Opened), Closed(c)) \in Seq(Messages)
          BY Different
        <4>2. QED
          BY <3>2, <4>1, CodesGiven, SMTT(30) DEF Reject
      <3>3. QED
        BY <1>1, <3>1, <3>2 DEF Authenticate
    <2>2. down' \subseteq Sockets
      BY <1>1 DEF Authenticate, Admit, Reject
    <2>3. QED
      BY <1>1, <2>1, <2>2 DEF Authenticate
  <1>2. ASSUME NEW s \in Sockets, Accept(s), Served PROVE DataTypeOK'
    <2>1. wire' \in [Sockets -> Seq(Messages)] /\ down' \subseteq Sockets
      BY <1>2, SentHas, Different, CodesGiven DEF Accept
    <2>2. QED
      BY <1>2, <2>1 DEF Accept
  <1>3. ASSUME NEW s \in Sockets, AcceptFails(s), Served PROVE DataTypeOK'
    BY <1>3 DEF AcceptFails
  <1>4. ASSUME NEW s \in Sockets, Register(s), Served PROVE DataTypeOK'
    BY <1>4 DEF Register, StartSubscription, JoinSubscription
  <1>5. ASSUME NEW s \in Sockets, Serve(s), Served PROVE DataTypeOK'
    BY <1>5 DEF Serve
  <1>6. ASSUME NEW s \in Sockets, StartFails(s), Served PROVE DataTypeOK'
    BY <1>6 DEF StartFails, Release
  <1>7. ASSUME NEW s \in Sockets, Refuse(s), Served PROVE DataTypeOK'
    <2>1. wire' \in [Sockets -> Seq(Messages)] /\ down' \subseteq Sockets
      BY <1>7, SentHas, Different, CodesGiven DEF Refuse, Close
    <2>2. QED
      BY <1>7, <2>1 DEF Refuse, Close
  <1>8. ASSUME NEW s \in Sockets, Leave(s), Served PROVE DataTypeOK'
    BY <1>8 DEF Leave, Release
  <1>9. ASSUME NEW s \in Sockets, Unregister(s), Served PROVE DataTypeOK'
    BY <1>9 DEF Unregister
  <1>10. ASSUME NEW s \in Sockets, Subscribed(s), Served PROVE DataTypeOK'
    BY <1>10 DEF Subscribed
  <1>11. ASSUME NEW s \in Sockets, SubscribeFails(s), Served PROVE DataTypeOK'
    BY <1>11, BoundsAssumption DEF SubscribeFails, Incident
  <1>12. ASSUME NEW s \in Sockets, Lose(s), Served PROVE DataTypeOK'
    BY <1>12, BoundsAssumption DEF Lose, Incident
  <1>13. ASSUME NEW s \in Sockets, Recover(s), Served PROVE DataTypeOK'
    <2>1. wire' \in [Sockets -> Seq(Messages)] /\ down' \subseteq Sockets
      BY <1>13, SentHas, Different, CodesGiven DEF Recover, Close
    <2>2. QED
      BY <1>13, <2>1 DEF Recover, Close
  <1>14. ASSUME NEW s \in Sockets, Resubscribe(s), Served PROVE DataTypeOK'
    BY <1>14 DEF Resubscribe
  <1>15. ASSUME NEW s \in Sockets, Cancelled(s), Served PROVE DataTypeOK'
    BY <1>15 DEF Cancelled
  <1>16. ASSUME NEW s \in Sockets, Receive(s), Served PROVE DataTypeOK'
    <2>1. wire' \in [Sockets -> Seq(Messages)] /\ down' \subseteq Sockets
      <3>1. ASSUME NEW n \in Sequences, Broadcast(n) PROVE wire' \in [Sockets -> Seq(Messages)] /\ down' = down
        BY <3>1, SentHas, Different DEF Broadcast
      <3>2. ASSUME NEW u \in Users, DisconnectUser(u)
            PROVE  wire' \in [Sockets -> Seq(Messages)] /\ down' \subseteq Sockets
        BY <3>2, SentHas, Different, CodesGiven DEF DisconnectUser, Close, UsersConnections
      <3>3. QED
        BY <1>16, <3>1, <3>2, ReceivedNotice
    <2>2. QED
      BY <1>16, <2>1 DEF Receive
  <1>17. ASSUME NEW s \in Sockets, HangUp(s), Served PROVE DataTypeOK'
    BY <1>17 DEF HangUp
  <1>18. ASSUME NEW s \in Sockets, Drop(s), Served PROVE DataTypeOK'
    <2>1. wire' \in [Sockets -> Seq(Messages)] /\ down' = down \union {s}
      BY <1>18, BreakHas DEF Drop
    <2>2. QED
      BY <1>18, <2>1, BoundsAssumption DEF Drop, Incident
  <1>19. ASSUME NEW s \in Sockets, NEW u \in Users, Dial(s, u), Served PROVE DataTypeOK'
    BY <1>19 DEF Dial
  <1>20. ASSUME NEW u \in Users, Remove(u), Served PROVE DataTypeOK'
    BY <1>20, BoundsAssumption DEF Remove, Incident
  <1>21. ASSUME NEW u \in Users, RevokeLocally(u), Served PROVE DataTypeOK'
    <2>1. wire' \in [Sockets -> Seq(Messages)] /\ down' \subseteq Sockets
      BY <1>21, SentHas, Different, CodesGiven DEF RevokeLocally, DisconnectUser, Close,
         UsersConnections
    <2>2. QED
      BY <1>21, <2>1 DEF RevokeLocally, DisconnectUser, Close, UsersConnections
  <1>22. ASSUME NEW u \in Users, PublishRevocation(u), Served PROVE DataTypeOK'
    BY <1>22, BoundsAssumption DEF PublishRevocation, Incident
  <1>23. CASE Commit /\ Served
    <2>1. story.script \in Seq(Events) /\ Len(story.script) <= MaxEvents /\ Len(log) \in Nat
      BY StoriesAssumption
    <2>2. story.script[Len(log) + 1] \in Events
      BY <1>23, <2>1 DEF Commit
    <2>3. log' \in Seq(Events) /\ Len(log') <= MaxEvents
      BY <1>23, <2>1, <2>2, BoundsAssumption DEF Commit
    <2>4. QED
      BY <1>23, <2>3 DEF Commit
  <1>24. ASSUME NEW n \in Sequences, Publish(n), Served PROVE DataTypeOK'
    BY <1>24 DEF Publish
  <1>25. ASSUME NEW n \in Sequences, PublishFails(n), Served PROVE DataTypeOK'
    BY <1>25, BoundsAssumption DEF PublishFails, Incident
  <1>26. CASE Restart /\ Served
    <2>1. wire' \in [Sockets -> Seq(Messages)] /\ down' \subseteq Sockets
      BY <1>26, BreakHas DEF Restart
    <2>2. QED
      BY <1>26, <2>1, BoundsAssumption DEF Restart, Incident
  <1>27. CASE Timer /\ Client
    <2>1. /\ owner' \in [Sockets -> Users \union {None}] /\ due' = {}
          /\ incidents' \in 0..MaxIncidents
      BY <1>27, OpenSocketDoes DEF Timer, Connect
    <2>2. QED
      BY <1>27, <2>1 DEF Timer
  <1>28. CASE OnOpen /\ Client
    <2>1. wire' \in [Sockets -> Seq(Messages)]
      BY <1>28, NextMessageHas DEF OnOpen
    <2>2. QED
      BY <1>28, <2>1 DEF OnOpen
  <1>29. CASE OnEvent /\ Client
    <2>1. wire' \in [Sockets -> Seq(Messages)]
      BY <1>29, NextMessageHas DEF OnEvent
    <2>2. QED
      BY <1>29, <2>1 DEF OnEvent
  <1>30. CASE OnClose /\ Client
    <2>1. wire' \in [Sockets -> Seq(Messages)]
      BY <1>30, NextMessageHas DEF OnClose
    <2>2. QED
      BY <1>30, <2>1 DEF OnClose
  <1>31. CASE Foreground /\ Client
    <2>1. /\ owner' \in [Sockets -> Users \union {None}] /\ due' = {}
          /\ incidents' \in 0..MaxIncidents
      BY <1>31, OpenSocketDoes DEF Foreground, Connect
    <2>2. QED
      BY <1>31, <2>1 DEF Foreground
  <1>32. CASE Background /\ Client
    BY <1>32 DEF Background, Disconnect, CloseByPhone
  <1>33. CASE Remount /\ Client
    <2>1. /\ owner' \in [Sockets -> Users \union {None}] /\ due' \subseteq Sequences
          /\ incidents' \in 0..MaxIncidents
      <3>1. CASE foreground /\ Connect
        BY <3>1, OpenSocketDoes DEF Connect
      <3>2. CASE ~foreground /\ UNCHANGED <<owner, due, incidents>>
        BY <3>2
      <3>3. QED
        BY <1>33, <3>1, <3>2 DEF Remount
    <2>2. wire' \in [Sockets -> Seq(Messages)] /\ down' \subseteq Sockets
      BY <1>33 DEF Remount, CloseByPhone
    <2>3. QED
      BY <1>33, <2>1, <2>2 DEF Remount
  <1>34. CASE Expire /\ Client
    BY <1>34, BoundsAssumption DEF Expire, Incident
  <1>35. ASSUME NEW q \in Queries, Answer(q), Client PROVE DataTypeOK'
    BY <1>35 DEF Answer
  <1>36. ASSUME NEW q \in Queries, Fails(q), Client PROVE DataTypeOK'
    BY <1>36, BoundsAssumption DEF Fails, Incident
  <1>37. CASE UNCHANGED vars
    BY <1>37 DEF vars
  <1>38. QED
    BY <1>1, <1>2, <1>3, <1>4, <1>5, <1>6, <1>7, <1>8, <1>9, <1>10, <1>11, <1>12, <1>13, <1>14,
       <1>15, <1>16, <1>17, <1>18, <1>19, <1>20, <1>21, <1>22, <1>23, <1>24, <1>25, <1>26, <1>27,
       <1>28, <1>29, <1>30, <1>31, <1>32, <1>33, <1>34, <1>35, <1>36, <1>37 DEF Next, ServerNext,
       ClientNext, Served, Client

LEMMA ClientStep ==
  ASSUME Shapes, [Next]_vars
  PROVE  ClientTypeOK'
  <1> USE SentinelAssumption, BoundsAssumption DEF Served, Client, serverVars, handlerVars,
     subscriptionVars, publisherVars, clientVars, DataTypeOK, Shapes, ServerShapes, ClientTypeOK
  <1>1. ASSUME NEW s \in Sockets, Authenticate(s), Served PROVE ClientTypeOK'
    BY <1>1 DEF Authenticate, Admit, Reject
  <1>2. ASSUME NEW s \in Sockets, Accept(s), Served PROVE ClientTypeOK'
    BY <1>2 DEF Accept
  <1>3. ASSUME NEW s \in Sockets, AcceptFails(s), Served PROVE ClientTypeOK'
    BY <1>3 DEF AcceptFails
  <1>4. ASSUME NEW s \in Sockets, Register(s), Served PROVE ClientTypeOK'
    BY <1>4 DEF Register, StartSubscription, JoinSubscription
  <1>5. ASSUME NEW s \in Sockets, Serve(s), Served PROVE ClientTypeOK'
    BY <1>5 DEF Serve
  <1>6. ASSUME NEW s \in Sockets, StartFails(s), Served PROVE ClientTypeOK'
    BY <1>6 DEF StartFails, Release
  <1>7. ASSUME NEW s \in Sockets, Refuse(s), Served PROVE ClientTypeOK'
    BY <1>7 DEF Refuse, Close
  <1>8. ASSUME NEW s \in Sockets, Leave(s), Served PROVE ClientTypeOK'
    BY <1>8 DEF Leave, Release
  <1>9. ASSUME NEW s \in Sockets, Unregister(s), Served PROVE ClientTypeOK'
    BY <1>9 DEF Unregister
  <1>10. ASSUME NEW s \in Sockets, Subscribed(s), Served PROVE ClientTypeOK'
    BY <1>10 DEF Subscribed
  <1>11. ASSUME NEW s \in Sockets, SubscribeFails(s), Served PROVE ClientTypeOK'
    BY <1>11 DEF SubscribeFails, Incident
  <1>12. ASSUME NEW s \in Sockets, Lose(s), Served PROVE ClientTypeOK'
    BY <1>12 DEF Lose, Incident
  <1>13. ASSUME NEW s \in Sockets, Recover(s), Served PROVE ClientTypeOK'
    BY <1>13 DEF Recover, Close
  <1>14. ASSUME NEW s \in Sockets, Resubscribe(s), Served PROVE ClientTypeOK'
    BY <1>14 DEF Resubscribe
  <1>15. ASSUME NEW s \in Sockets, Cancelled(s), Served PROVE ClientTypeOK'
    BY <1>15 DEF Cancelled
  <1>16. ASSUME NEW s \in Sockets, Receive(s), Served PROVE ClientTypeOK'
    BY <1>16 DEF Receive, Broadcast, DisconnectUser, Close
  <1>17. ASSUME NEW s \in Sockets, HangUp(s), Served PROVE ClientTypeOK'
    BY <1>17 DEF HangUp
  <1>18. ASSUME NEW s \in Sockets, Drop(s), Served PROVE ClientTypeOK'
    BY <1>18 DEF Drop, Incident, Break
  <1>19. ASSUME NEW s \in Sockets, NEW u \in Users, Dial(s, u), Served PROVE ClientTypeOK'
    BY <1>19 DEF Dial
  <1>20. ASSUME NEW u \in Users, Remove(u), Served PROVE ClientTypeOK'
    BY <1>20 DEF Remove, Incident
  <1>21. ASSUME NEW u \in Users, RevokeLocally(u), Served PROVE ClientTypeOK'
    BY <1>21 DEF RevokeLocally, DisconnectUser, Close
  <1>22. ASSUME NEW u \in Users, PublishRevocation(u), Served PROVE ClientTypeOK'
    BY <1>22 DEF PublishRevocation, Incident
  <1>23. CASE Commit /\ Served
    BY <1>23 DEF Commit
  <1>24. ASSUME NEW n \in Sequences, Publish(n), Served PROVE ClientTypeOK'
    BY <1>24 DEF Publish
  <1>25. ASSUME NEW n \in Sequences, PublishFails(n), Served PROVE ClientTypeOK'
    BY <1>25 DEF PublishFails, Incident
  <1>26. CASE Restart /\ Served
    BY <1>26 DEF Restart, Incident, Break
  <1>27. CASE Timer /\ Client
    BY <1>27, OpenSocketDoes DEF Timer
  <1>28. CASE OnOpen /\ Client
    BY <1>28 DEF OnOpen, NextMessage, ResetTracker, Refresh, Refreshed
  <1>29. CASE OnEvent /\ Client
    <2> DEFINE n == Head(wire[socket]).seq
    <2>1. n \in 1..MaxEvents
      BY <1>29, OnEventNumber
    <2>2. /\ Accepted(n) \/ Stale(n) \/ Gap(n)
          /\ UNCHANGED <<foreground, socket, timer, enabled, reconnecting, view>>
      BY <1>29 DEF OnEvent
    <2> HIDE DEF n
    <2>3. latest' \in 0..MaxEvents /\ base' \in 0..MaxEvents
      BY <2>1, <2>2 DEF Accepted, Stale, Gap
    <2>4. \A D \in SUBSET Queries : Refreshed(D) \in [Queries -> {"idle", "sent", "failed"}]
      BY DEF Refreshed
    <2>5. cached' \subseteq Queries /\ fetch' \in [Queries -> {"idle", "sent", "failed"}]
      <3>1. CASE Stale(n)
        BY <3>1 DEF Stale
      <3>2. CASE Gap(n)
        BY <3>2, <2>4 DEF Gap, Refresh
      <3>3. CASE Accepted(n)
        BY <3>3 DEF Accepted, Synchronize, Refreshed
      <3>4. QED
        BY <2>2, <3>1, <3>2, <3>3
    <2>6. QED
      BY <2>2, <2>3, <2>5
  <1>30. CASE OnClose /\ Client
    BY <1>30 DEF OnClose, NextMessage
  <1>31. CASE Foreground /\ Client
    <2>1. OpenSocket(FALSE) /\ enabled' = TRUE
      BY <1>31 DEF Foreground, Connect
    <2>2. socket' \in Sockets \union {None} /\ timer' \in BOOLEAN /\ reconnecting' = FALSE
      BY <2>1, OpenSocketDoes
    <2>3. foreground' \in BOOLEAN /\ enabled' \in BOOLEAN /\ reconnecting' \in BOOLEAN
      BY <1>31, <2>1, <2>2, Zenon DEF Foreground
    <2>4. /\ latest' \in 0..MaxEvents /\ base' \in 0..MaxEvents
          /\ cached' \subseteq Queries /\ fetch' \in [Queries -> {"idle", "sent", "failed"}]
          /\ view' \in [Queries -> 0..MaxEvents]
      BY <1>31 DEF Foreground, ResetTracker, Refresh, Refreshed
    <2>5. QED
      BY <2>2, <2>3, <2>4, Zenon
  <1>32. CASE Background /\ Client
    BY <1>32 DEF Background, Disconnect
  <1>33. CASE Remount /\ Client
    <2>1. CASE foreground /\ Connect
      <3>1. OpenSocket(FALSE) /\ enabled' = TRUE
        BY <2>1 DEF Connect
      <3>2. socket' \in Sockets \union {None} /\ timer' \in BOOLEAN /\ reconnecting' = FALSE
        BY <3>1, OpenSocketDoes
      <3>3. enabled' \in BOOLEAN /\ reconnecting' \in BOOLEAN /\ foreground' \in BOOLEAN
        BY <1>33, <3>1, <3>2, Zenon DEF Remount
      <3>4. /\ latest' \in 0..MaxEvents /\ base' \in 0..MaxEvents
            /\ cached' \subseteq Queries /\ fetch' \in [Queries -> {"idle", "sent", "failed"}]
            /\ view' \in [Queries -> 0..MaxEvents]
        BY <1>33 DEF Remount, ResetTracker
      <3>5. QED
        BY <3>2, <3>3, <3>4, Zenon
    <2>2. CASE ~foreground /\ UNCHANGED <<socket, timer, enabled, reconnecting>>
      BY <1>33, <2>2 DEF Remount, ResetTracker
    <2>3. QED
      BY <1>33, <2>1, <2>2 DEF Remount
  <1>34. CASE Expire /\ Client
    BY <1>34 DEF Expire, Incident
  <1>35. ASSUME NEW q \in Queries, Answer(q), Client PROVE ClientTypeOK'
    <2>1. Len(log) \in 0..MaxEvents
      OBVIOUS
    <2>2. QED
      BY <1>35, <2>1 DEF Answer
  <1>36. ASSUME NEW q \in Queries, Fails(q), Client PROVE ClientTypeOK'
    BY <1>36 DEF Fails, Incident
  <1>37. CASE UNCHANGED vars
    BY <1>37 DEF vars
  <1>38. QED
    BY <1>1, <1>2, <1>3, <1>4, <1>5, <1>6, <1>7, <1>8, <1>9, <1>10, <1>11, <1>12, <1>13, <1>14,
       <1>15, <1>16, <1>17, <1>18, <1>19, <1>20, <1>21, <1>22, <1>23, <1>24, <1>25, <1>26, <1>27,
       <1>28, <1>29, <1>30, <1>31, <1>32, <1>33, <1>34, <1>35, <1>36, <1>37 DEF Next, ServerNext,
       ClientNext, Served, Client

(* A release or a replacement leaves the names of subscriptions to their handlers. *)
LEMMA NamedStep ==
  ASSUME Shapes, Waiting, Named, ReferencesCounted, [Next]_vars
  PROVE  Named'
  <1> USE SentinelAssumption DEF Served, Client, serverVars, handlerVars, subscriptionVars,
     publisherVars, clientVars, Named, Waiting, Shapes, DataTypeOK, ServerShapes, Tasks, Live
  <1>1. ASSUME NEW s \in Sockets, Authenticate(s), Served PROVE Named'
    BY <1>1 DEF Authenticate, Admit, Reject
  <1>2. ASSUME NEW s \in Sockets, Accept(s), Served PROVE Named'
    BY <1>2 DEF Accept
  <1>3. ASSUME NEW s \in Sockets, AcceptFails(s), Served PROVE Named'
    BY <1>3 DEF AcceptFails
  <1>4. ASSUME NEW s \in Sockets, Register(s), Served PROVE Named'
    <2>1. CASE StartSubscription(s)
      BY <1>4, <2>1 DEF Register, StartSubscription
    <2>2. CASE JoinSubscription(s)
      BY <1>4, <2>2 DEF Register, JoinSubscription
    <2>3. QED
      BY <1>4, <2>1, <2>2 DEF Register
  <1>5. ASSUME NEW s \in Sockets, Serve(s), Served PROVE Named'
    BY <1>5 DEF Serve
  <1>6. ASSUME NEW s \in Sockets, StartFails(s), Served PROVE Named'
    <2>1. /\ sub \in Sockets
          /\ \/ /\ Holders = {s} /\ sub' = None
                /\ task' = IF sub \notin Finished THEN [task EXCEPT ![sub] = "cancelled"] ELSE task
                /\ inbox' = [inbox EXCEPT ![sub] = <<>>]
             \/ Holders \ {s} # {} /\ UNCHANGED <<sub, task, inbox>>
          /\ awaited' \in {[awaited EXCEPT ![s] = None], [awaited EXCEPT ![s] = sub]}
      BY <1>6, ReleaseDoes DEF StartFails
    <2>2. CASE Holders = {s} /\ sub' = None
      BY <1>6, <2>1, <2>2 DEF StartFails, Finished
    <2>3. CASE UNCHANGED <<sub, task, inbox>>
      BY <1>6, <2>1, <2>3 DEF StartFails, Finished
    <2>4. QED
      BY <2>1, <2>2, <2>3
  <1>7. ASSUME NEW s \in Sockets, Refuse(s), Served PROVE Named'
    BY <1>7 DEF Refuse, Close
  <1>8. ASSUME NEW s \in Sockets, Leave(s), Served PROVE Named'
    <2>1. /\ sub \in Sockets
          /\ \/ /\ Holders = {s} /\ sub' = None
                /\ task' = IF sub \notin Finished THEN [task EXCEPT ![sub] = "cancelled"] ELSE task
                /\ inbox' = [inbox EXCEPT ![sub] = <<>>]
             \/ Holders \ {s} # {} /\ UNCHANGED <<sub, task, inbox>>
          /\ awaited' \in {[awaited EXCEPT ![s] = None], [awaited EXCEPT ![s] = sub]}
      BY <1>8, ReleaseDoes DEF Leave
    <2>2. CASE Holders = {s} /\ sub' = None
      BY <1>8, <2>1, <2>2 DEF Leave, Finished
    <2>3. CASE UNCHANGED <<sub, task, inbox>>
      BY <1>8, <2>1, <2>3 DEF Leave, Finished
    <2>4. QED
      BY <2>1, <2>2, <2>3
  <1>9. ASSUME NEW s \in Sockets, Unregister(s), Served PROVE Named'
    BY <1>9 DEF Unregister
  <1>10. ASSUME NEW s \in Sockets, Subscribed(s), Served PROVE Named'
    BY <1>10 DEF Subscribed
  <1>11. ASSUME NEW s \in Sockets, SubscribeFails(s), Served PROVE Named'
    BY <1>11 DEF SubscribeFails, Incident
  <1>12. ASSUME NEW s \in Sockets, Lose(s), Served PROVE Named'
    BY <1>12 DEF Lose, Incident
  <1>13. ASSUME NEW s \in Sockets, Recover(s), Served PROVE Named'
    BY <1>13 DEF Recover, Close
  <1>14. ASSUME NEW s \in Sockets, Resubscribe(s), Served PROVE Named'
    BY <1>14 DEF Resubscribe
  <1>15. ASSUME NEW s \in Sockets, Cancelled(s), Served PROVE Named'
    BY <1>15 DEF Cancelled
  <1>16. ASSUME NEW s \in Sockets, Receive(s), Served PROVE Named'
    <2>1. down \subseteq down'
      BY <1>16 DEF Receive, Broadcast, DisconnectUser, Close
    <2>2. QED
      BY <1>16, <2>1 DEF Receive
  <1>17. ASSUME NEW s \in Sockets, HangUp(s), Served PROVE Named'
    BY <1>17 DEF HangUp
  <1>18. ASSUME NEW s \in Sockets, Drop(s), Served PROVE Named'
    BY <1>18 DEF Drop, Break
  <1>19. ASSUME NEW s \in Sockets, NEW u \in Users, Dial(s, u), Served PROVE Named'
    BY <1>19 DEF Dial
  <1>20. ASSUME NEW u \in Users, Remove(u), Served PROVE Named'
    BY <1>20 DEF Remove, Incident
  <1>21. ASSUME NEW u \in Users, RevokeLocally(u), Served PROVE Named'
    BY <1>21 DEF RevokeLocally, DisconnectUser, Close
  <1>22. ASSUME NEW u \in Users, PublishRevocation(u), Served PROVE Named'
    BY <1>22 DEF PublishRevocation, Incident
  <1>23. CASE Commit /\ Served
    BY <1>23 DEF Commit
  <1>24. ASSUME NEW n \in Sequences, Publish(n), Served PROVE Named'
    BY <1>24 DEF Publish
  <1>25. ASSUME NEW n \in Sequences, PublishFails(n), Served PROVE Named'
    BY <1>25 DEF PublishFails, Incident
  <1>26. CASE Restart /\ Served
    BY <1>26 DEF Restart, Break
  <1>27. CASE Timer /\ Client
    <2>1. \A s \in Sockets : owner'[s] = None => owner[s] = None
      BY <1>27, OwnersMove, MeAssumption DEF Timer
    <2>2. QED
      BY <1>27, <2>1 DEF Timer
  <1>28. CASE OnOpen /\ Client
    BY <1>28 DEF OnOpen, NextMessage, ResetTracker, Refresh, Refreshed
  <1>29. CASE OnEvent /\ Client
    BY <1>29 DEF OnEvent, NextMessage, Accepted, Stale, Gap, Synchronize, Refresh, Refreshed
  <1>30. CASE OnClose /\ Client
    BY <1>30 DEF OnClose, NextMessage
  <1>31. CASE Foreground /\ Client
    <2>1. \A s \in Sockets : owner'[s] = None => owner[s] = None
      BY <1>31, OwnersMove, MeAssumption DEF Foreground, Connect
    <2>2. QED
      BY <1>31, <2>1 DEF Foreground
  <1>32. CASE Background /\ Client
    BY <1>32 DEF Background, Disconnect, CloseByPhone
  <1>33. CASE Remount /\ Client
    <2>1. \A s \in Sockets : owner'[s] = None => owner[s] = None
      <3>1. CASE foreground /\ Connect
        BY <3>1, OwnersMove, MeAssumption DEF Connect
      <3>2. CASE ~foreground /\ UNCHANGED owner
        BY <3>2
      <3>3. QED
        BY <1>33, <3>1, <3>2 DEF Remount
    <2>2. down \subseteq down'
      BY <1>33 DEF Remount, CloseByPhone
    <2>3. QED
      BY <1>33, <2>1, <2>2 DEF Remount
  <1>34. CASE Expire /\ Client
    BY <1>34 DEF Expire, Incident
  <1>35. ASSUME NEW q \in Queries, Answer(q), Client PROVE Named'
    BY <1>35 DEF Answer
  <1>36. ASSUME NEW q \in Queries, Fails(q), Client PROVE Named'
    BY <1>36 DEF Fails, Incident
  <1>37. CASE UNCHANGED vars
    BY <1>37 DEF vars
  <1>38. QED
    BY <1>1, <1>2, <1>3, <1>4, <1>5, <1>6, <1>7, <1>8, <1>9, <1>10, <1>11, <1>12, <1>13, <1>14,
       <1>15, <1>16, <1>17, <1>18, <1>19, <1>20, <1>21, <1>22, <1>23, <1>24, <1>25, <1>26, <1>27,
       <1>28, <1>29, <1>30, <1>31, <1>32, <1>33, <1>34, <1>35, <1>36, <1>37 DEF Next, ServerNext,
       ClientNext, Served, Client

(* A release ends only what no other handler waits for or is served by. *)
LEMMA WaitingStep ==
  ASSUME Shapes, Waiting, Named, ReferencesCounted, [Next]_vars
  PROVE  Waiting'
  <1> USE SentinelAssumption DEF Served, Client, serverVars, handlerVars, subscriptionVars,
     publisherVars, clientVars, Named, Waiting, Shapes, DataTypeOK, ServerShapes, Tasks, Live
  <1>1. ASSUME NEW s \in Sockets, Authenticate(s), Served PROVE Waiting'
    BY <1>1 DEF Authenticate, Admit, Reject
  <1>2. ASSUME NEW s \in Sockets, Accept(s), Served PROVE Waiting'
    BY <1>2 DEF Accept
  <1>3. ASSUME NEW s \in Sockets, AcceptFails(s), Served PROVE Waiting'
    BY <1>3 DEF AcceptFails
  <1>4. ASSUME NEW s \in Sockets, Register(s), Served PROVE Waiting'
    <2>1. CASE StartSubscription(s)
      <3>1. task[s] = "none" /\ \A q \in Sockets : stage[q] # "serving"
        BY <1>4, <2>1 DEF Register, StartSubscription, Finished
      <3>2. \A q \in Sockets : stage[q] = "waiting" => task[awaited[q]] = "done" /\ q # s /\ awaited[q] # s
        BY <1>4, <2>1, <3>1 DEF Register, StartSubscription, Finished
      <3>3. QED
        BY <1>4, <2>1, <3>1, <3>2 DEF Register, StartSubscription, Finished
    <2>2. CASE JoinSubscription(s)
      BY <1>4, <2>2 DEF Register, JoinSubscription
    <2>3. QED
      BY <1>4, <2>1, <2>2 DEF Register
  <1>5. ASSUME NEW s \in Sockets, Serve(s), Served PROVE Waiting'
    BY <1>5 DEF Serve
  <1>6. ASSUME NEW s \in Sockets, StartFails(s), Served PROVE Waiting'
    <2>1. sub \in Sockets /\ s \in Holders /\ stage' = [stage EXCEPT ![s] = IF @ = "waiting" THEN "refusing" ELSE "stopping"]
      BY <1>6, ReleaseDoes DEF StartFails, Holders
    <2>2. CASE /\ Holders = {s} /\ sub' = None
               /\ task' = IF sub \notin Finished THEN [task EXCEPT ![sub] = "cancelled"] ELSE task
      <3>1. \A q \in Sockets : stage'[q] \notin {"waiting", "serving"}
        BY <2>1, <2>2 DEF Holders
      <3>2. \A t \in Sockets : task'[t] \notin Live
        BY <2>1, <2>2 DEF Finished
      <3>3. QED
        BY <2>2, <3>1, <3>2
    <2>3. CASE UNCHANGED <<sub, task, inbox>> /\ awaited' = [awaited EXCEPT ![s] = None]
      BY <1>6, <2>1, <2>3 DEF StartFails
    <2>4. QED
      BY <1>6, <2>2, <2>3, ReleaseDoes DEF StartFails
  <1>7. ASSUME NEW s \in Sockets, Refuse(s), Served PROVE Waiting'
    BY <1>7 DEF Refuse, Close
  <1>8. ASSUME NEW s \in Sockets, Leave(s), Served PROVE Waiting'
    <2>1. sub \in Sockets /\ s \in Holders /\ stage' = [stage EXCEPT ![s] = IF @ = "waiting" THEN "refusing" ELSE "stopping"]
      BY <1>8, ReleaseDoes DEF Leave, Holders
    <2>2. CASE /\ Holders = {s} /\ sub' = None
               /\ task' = IF sub \notin Finished THEN [task EXCEPT ![sub] = "cancelled"] ELSE task
      <3>1. \A q \in Sockets : stage'[q] \notin {"waiting", "serving"}
        BY <2>1, <2>2 DEF Holders
      <3>2. \A t \in Sockets : task'[t] \notin Live
        BY <2>1, <2>2 DEF Finished
      <3>3. QED
        BY <2>2, <3>1, <3>2
    <2>3. CASE UNCHANGED <<sub, task, inbox>> /\ awaited' = [awaited EXCEPT ![s] = None]
      BY <1>8, <2>1, <2>3 DEF Leave
    <2>4. QED
      BY <1>8, <2>2, <2>3, ReleaseDoes DEF Leave
  <1>9. ASSUME NEW s \in Sockets, Unregister(s), Served PROVE Waiting'
    BY <1>9 DEF Unregister
  <1>10. ASSUME NEW s \in Sockets, Subscribed(s), Served PROVE Waiting'
    BY <1>10 DEF Subscribed
  <1>11. ASSUME NEW s \in Sockets, SubscribeFails(s), Served PROVE Waiting'
    BY <1>11 DEF SubscribeFails, Incident
  <1>12. ASSUME NEW s \in Sockets, Lose(s), Served PROVE Waiting'
    BY <1>12 DEF Lose, Incident
  <1>13. ASSUME NEW s \in Sockets, Recover(s), Served PROVE Waiting'
    BY <1>13 DEF Recover, Close
  <1>14. ASSUME NEW s \in Sockets, Resubscribe(s), Served PROVE Waiting'
    BY <1>14 DEF Resubscribe
  <1>15. ASSUME NEW s \in Sockets, Cancelled(s), Served PROVE Waiting'
    BY <1>15 DEF Cancelled
  <1>16. ASSUME NEW s \in Sockets, Receive(s), Served PROVE Waiting'
    BY <1>16 DEF Receive, Broadcast, DisconnectUser, Close
  <1>17. ASSUME NEW s \in Sockets, HangUp(s), Served PROVE Waiting'
    BY <1>17 DEF HangUp
  <1>18. ASSUME NEW s \in Sockets, Drop(s), Served PROVE Waiting'
    BY <1>18 DEF Drop, Incident, Break
  <1>19. ASSUME NEW s \in Sockets, NEW u \in Users, Dial(s, u), Served PROVE Waiting'
    BY <1>19 DEF Dial
  <1>20. ASSUME NEW u \in Users, Remove(u), Served PROVE Waiting'
    BY <1>20 DEF Remove, Incident
  <1>21. ASSUME NEW u \in Users, RevokeLocally(u), Served PROVE Waiting'
    BY <1>21 DEF RevokeLocally, DisconnectUser, Close
  <1>22. ASSUME NEW u \in Users, PublishRevocation(u), Served PROVE Waiting'
    BY <1>22 DEF PublishRevocation, Incident
  <1>23. CASE Commit /\ Served
    BY <1>23 DEF Commit
  <1>24. ASSUME NEW n \in Sequences, Publish(n), Served PROVE Waiting'
    BY <1>24 DEF Publish
  <1>25. ASSUME NEW n \in Sequences, PublishFails(n), Served PROVE Waiting'
    BY <1>25 DEF PublishFails, Incident
  <1>26. CASE Restart /\ Served
    BY <1>26 DEF Restart, Incident, Break
  <1>27. CASE Timer /\ Client
    BY <1>27 DEF Timer, OpenSocket, Incident
  <1>28. CASE OnOpen /\ Client
    BY <1>28 DEF OnOpen, NextMessage, ResetTracker, Refresh, Refreshed
  <1>29. CASE OnEvent /\ Client
    BY <1>29 DEF OnEvent, NextMessage, Accepted, Stale, Gap, Synchronize, Refresh, Refreshed
  <1>30. CASE OnClose /\ Client
    BY <1>30 DEF OnClose, NextMessage
  <1>31. CASE Foreground /\ Client
    BY <1>31 DEF Foreground, ResetTracker, Refresh, Refreshed, Connect, OpenSocket, Incident
  <1>32. CASE Background /\ Client
    BY <1>32 DEF Background, Disconnect, CloseByPhone
  <1>33. CASE Remount /\ Client
    BY <1>33 DEF Remount, ResetTracker, CloseByPhone, Connect, OpenSocket, Incident
  <1>34. CASE Expire /\ Client
    BY <1>34 DEF Expire, Incident
  <1>35. ASSUME NEW q \in Queries, Answer(q), Client PROVE Waiting'
    BY <1>35 DEF Answer
  <1>36. ASSUME NEW q \in Queries, Fails(q), Client PROVE Waiting'
    BY <1>36 DEF Fails, Incident
  <1>37. CASE UNCHANGED vars
    BY <1>37 DEF vars
  <1>38. QED
    BY <1>1, <1>2, <1>3, <1>4, <1>5, <1>6, <1>7, <1>8, <1>9, <1>10, <1>11, <1>12, <1>13, <1>14,
       <1>15, <1>16, <1>17, <1>18, <1>19, <1>20, <1>21, <1>22, <1>23, <1>24, <1>25, <1>26, <1>27,
       <1>28, <1>29, <1>30, <1>31, <1>32, <1>33, <1>34, <1>35, <1>36, <1>37 DEF Next, ServerNext,
       ClientNext, Served, Client

(* Each acquisition adds a holder, and each release takes one away. *)
LEMMA CountedStep ==
  ASSUME Shapes, Waiting, Named, ReferencesCounted, [Next]_vars
  PROVE  ReferencesCounted'
  <1> USE DEF Served, Client, serverVars, handlerVars, subscriptionVars, publisherVars, clientVars,
     ReferencesCounted, Shapes, DataTypeOK, ServerShapes, Tasks, Live
  <1>1. ASSUME NEW s \in Sockets, Authenticate(s), Served PROVE ReferencesCounted'
    <2>1. Holders' = Holders /\ sub' = sub /\ refs' = refs
      BY <1>1 DEF Authenticate, Admit, Reject, Holders
    <2>2. QED
      BY <2>1
  <1>2. ASSUME NEW s \in Sockets, Accept(s), Served PROVE ReferencesCounted'
    <2>1. Holders' = Holders /\ sub' = sub /\ refs' = refs
      BY <1>2 DEF Accept, Holders
    <2>2. QED
      BY <2>1
  <1>3. ASSUME NEW s \in Sockets, AcceptFails(s), Served PROVE ReferencesCounted'
    <2>1. Holders' = Holders /\ sub' = sub /\ refs' = refs
      BY <1>3 DEF AcceptFails, Holders
    <2>2. QED
      BY <2>1
  <1>4. ASSUME NEW s \in Sockets, Register(s), Served PROVE ReferencesCounted'
    <2>1. s \notin Holders /\ Holders' = Holders \union {s}
      BY <1>4 DEF Register, Holders
    <2>2. Cardinality(Holders') = Cardinality(Holders) + 1
      BY <2>1, HoldersFinite, FS_AddElement
    <2>3. refs' = refs + 1 /\ sub' # None
      BY <1>4, SentinelAssumption DEF Register, StartSubscription, JoinSubscription
    <2>4. QED
      BY <2>2, <2>3
  <1>5. ASSUME NEW s \in Sockets, Serve(s), Served PROVE ReferencesCounted'
    <2>1. Holders' = Holders /\ sub' = sub /\ refs' = refs
      BY <1>5 DEF Serve, Holders
    <2>2. QED
      BY <2>1
  <1>6. ASSUME NEW s \in Sockets, StartFails(s), Served PROVE ReferencesCounted'
    <2>1. Holders' = Holders \ {s}
      BY <1>6 DEF StartFails, Holders
    <2>2. refs' = Cardinality(Holders')
      BY <1>6, <2>1, ReleaseDoes DEF StartFails
    <2>3. Holders' # {} => sub' # None
      BY <1>6, <2>1, ReleaseDoes DEF StartFails
    <2>4. QED
      BY <2>2, <2>3
  <1>7. ASSUME NEW s \in Sockets, Refuse(s), Served PROVE ReferencesCounted'
    <2>1. Holders' = Holders /\ sub' = sub /\ refs' = refs
      BY <1>7 DEF Refuse, Holders
    <2>2. QED
      BY <2>1
  <1>8. ASSUME NEW s \in Sockets, Leave(s), Served PROVE ReferencesCounted'
    <2>1. Holders' = Holders \ {s}
      BY <1>8 DEF Leave, Holders
    <2>2. refs' = Cardinality(Holders')
      BY <1>8, <2>1, ReleaseDoes DEF Leave
    <2>3. Holders' # {} => sub' # None
      BY <1>8, <2>1, ReleaseDoes DEF Leave
    <2>4. QED
      BY <2>2, <2>3
  <1>9. ASSUME NEW s \in Sockets, Unregister(s), Served PROVE ReferencesCounted'
    <2>1. Holders' = Holders /\ sub' = sub /\ refs' = refs
      BY <1>9 DEF Unregister, Holders
    <2>2. QED
      BY <2>1
  <1>10. ASSUME NEW s \in Sockets, Subscribed(s), Served PROVE ReferencesCounted'
    <2>1. Holders' = Holders /\ sub' = sub /\ refs' = refs
      BY <1>10 DEF Subscribed, Holders
    <2>2. QED
      BY <2>1
  <1>11. ASSUME NEW s \in Sockets, SubscribeFails(s), Served PROVE ReferencesCounted'
    <2>1. Holders' = Holders /\ sub' = sub /\ refs' = refs
      BY <1>11 DEF SubscribeFails, Holders
    <2>2. QED
      BY <2>1
  <1>12. ASSUME NEW s \in Sockets, Lose(s), Served PROVE ReferencesCounted'
    <2>1. Holders' = Holders /\ sub' = sub /\ refs' = refs
      BY <1>12 DEF Lose, Holders
    <2>2. QED
      BY <2>1
  <1>13. ASSUME NEW s \in Sockets, Recover(s), Served PROVE ReferencesCounted'
    <2>1. Holders' = Holders /\ sub' = sub /\ refs' = refs
      BY <1>13 DEF Recover, Holders
    <2>2. QED
      BY <2>1
  <1>14. ASSUME NEW s \in Sockets, Resubscribe(s), Served PROVE ReferencesCounted'
    <2>1. Holders' = Holders /\ sub' = sub /\ refs' = refs
      BY <1>14 DEF Resubscribe, Holders
    <2>2. QED
      BY <2>1
  <1>15. ASSUME NEW s \in Sockets, Cancelled(s), Served PROVE ReferencesCounted'
    <2>1. Holders' = Holders /\ sub' = sub /\ refs' = refs
      BY <1>15 DEF Cancelled, Holders
    <2>2. QED
      BY <2>1
  <1>16. ASSUME NEW s \in Sockets, Receive(s), Served PROVE ReferencesCounted'
    <2>1. Holders' = Holders /\ sub' = sub /\ refs' = refs
      BY <1>16 DEF Receive, Holders
    <2>2. QED
      BY <2>1
  <1>17. ASSUME NEW s \in Sockets, HangUp(s), Served PROVE ReferencesCounted'
    <2>1. Holders' = Holders /\ sub' = sub /\ refs' = refs
      BY <1>17 DEF HangUp, Holders
    <2>2. QED
      BY <2>1
  <1>18. ASSUME NEW s \in Sockets, Drop(s), Served PROVE ReferencesCounted'
    <2>1. Holders' = Holders /\ sub' = sub /\ refs' = refs
      BY <1>18 DEF Drop, Holders
    <2>2. QED
      BY <2>1
  <1>19. ASSUME NEW s \in Sockets, NEW u \in Users, Dial(s, u), Served PROVE ReferencesCounted'
    <2>1. Holders' = Holders /\ sub' = sub /\ refs' = refs
      BY <1>19 DEF Dial, Holders
    <2>2. QED
      BY <2>1
  <1>20. ASSUME NEW u \in Users, Remove(u), Served PROVE ReferencesCounted'
    <2>1. Holders' = Holders /\ sub' = sub /\ refs' = refs
      BY <1>20 DEF Remove, Holders
    <2>2. QED
      BY <2>1
  <1>21. ASSUME NEW u \in Users, RevokeLocally(u), Served PROVE ReferencesCounted'
    <2>1. Holders' = Holders /\ sub' = sub /\ refs' = refs
      BY <1>21 DEF RevokeLocally, Holders
    <2>2. QED
      BY <2>1
  <1>22. ASSUME NEW u \in Users, PublishRevocation(u), Served PROVE ReferencesCounted'
    <2>1. Holders' = Holders /\ sub' = sub /\ refs' = refs
      BY <1>22 DEF PublishRevocation, Holders
    <2>2. QED
      BY <2>1
  <1>23. CASE Commit /\ Served
    <2>1. Holders' = Holders /\ sub' = sub /\ refs' = refs
      BY <1>23 DEF Commit, Holders
    <2>2. QED
      BY <2>1
  <1>24. ASSUME NEW n \in Sequences, Publish(n), Served PROVE ReferencesCounted'
    <2>1. Holders' = Holders /\ sub' = sub /\ refs' = refs
      BY <1>24 DEF Publish, Holders
    <2>2. QED
      BY <2>1
  <1>25. ASSUME NEW n \in Sequences, PublishFails(n), Served PROVE ReferencesCounted'
    <2>1. Holders' = Holders /\ sub' = sub /\ refs' = refs
      BY <1>25 DEF PublishFails, Holders
    <2>2. QED
      BY <2>1
  <1>26. CASE Restart /\ Served
    <2>1. Holders' = {} /\ refs' = 0
      BY <1>26 DEF Restart, Holders, Named
    <2>2. QED
      BY <2>1, FS_EmptySet
  <1>27. CASE Timer /\ Client
    <2>1. Holders' = Holders /\ sub' = sub /\ refs' = refs
      BY <1>27 DEF Timer, Holders
    <2>2. QED
      BY <2>1
  <1>28. CASE OnOpen /\ Client
    <2>1. Holders' = Holders /\ sub' = sub /\ refs' = refs
      BY <1>28 DEF OnOpen, Holders
    <2>2. QED
      BY <2>1
  <1>29. CASE OnEvent /\ Client
    <2>1. Holders' = Holders /\ sub' = sub /\ refs' = refs
      BY <1>29 DEF OnEvent, Holders
    <2>2. QED
      BY <2>1
  <1>30. CASE OnClose /\ Client
    <2>1. Holders' = Holders /\ sub' = sub /\ refs' = refs
      BY <1>30 DEF OnClose, Holders
    <2>2. QED
      BY <2>1
  <1>31. CASE Foreground /\ Client
    <2>1. Holders' = Holders /\ sub' = sub /\ refs' = refs
      BY <1>31 DEF Foreground, Holders
    <2>2. QED
      BY <2>1
  <1>32. CASE Background /\ Client
    <2>1. Holders' = Holders /\ sub' = sub /\ refs' = refs
      BY <1>32 DEF Background, Holders
    <2>2. QED
      BY <2>1
  <1>33. CASE Remount /\ Client
    <2>1. Holders' = Holders /\ sub' = sub /\ refs' = refs
      BY <1>33 DEF Remount, Holders
    <2>2. QED
      BY <2>1
  <1>34. CASE Expire /\ Client
    <2>1. Holders' = Holders /\ sub' = sub /\ refs' = refs
      BY <1>34 DEF Expire, Holders
    <2>2. QED
      BY <2>1
  <1>35. ASSUME NEW q \in Queries, Answer(q), Client PROVE ReferencesCounted'
    <2>1. Holders' = Holders /\ sub' = sub /\ refs' = refs
      BY <1>35 DEF Answer, Holders
    <2>2. QED
      BY <2>1
  <1>36. ASSUME NEW q \in Queries, Fails(q), Client PROVE ReferencesCounted'
    <2>1. Holders' = Holders /\ sub' = sub /\ refs' = refs
      BY <1>36 DEF Fails, Holders
    <2>2. QED
      BY <2>1
  <1>37. CASE UNCHANGED vars
    BY <1>37 DEF vars, Holders
  <1>38. QED
    BY <1>1, <1>2, <1>3, <1>4, <1>5, <1>6, <1>7, <1>8, <1>9, <1>10, <1>11, <1>12, <1>13, <1>14,
       <1>15, <1>16, <1>17, <1>18, <1>19, <1>20, <1>21, <1>22, <1>23, <1>24, <1>25, <1>26, <1>27,
       <1>28, <1>29, <1>30, <1>31, <1>32, <1>33, <1>34, <1>35, <1>36, <1>37 DEF Next, ServerNext,
       ClientNext, Served, Client

(* A served socket leaves the registry only when it is closed. *)
LEMMA RegisteredStep ==
  ASSUME Shapes, Waiting, Named, ReferencesCounted, Registered, [Next]_vars
  PROVE  Registered'
  <1> USE SentinelAssumption DEF Served, Client, serverVars, handlerVars, subscriptionVars,
     publisherVars, clientVars, Named, Registered, RegistryFollowsHandlers, Shapes, DataTypeOK,
     ServerShapes, Tasks, Live
  <1>1. ASSUME NEW s \in Sockets, Authenticate(s), Served PROVE Registered'
    BY <1>1 DEF Authenticate, Admit, Reject
  <1>2. ASSUME NEW s \in Sockets, Accept(s), Served PROVE Registered'
    BY <1>2 DEF Accept
  <1>3. ASSUME NEW s \in Sockets, AcceptFails(s), Served PROVE Registered'
    BY <1>3 DEF AcceptFails
  <1>4. ASSUME NEW s \in Sockets, Register(s), Served PROVE Registered'
    BY <1>4 DEF Register
  <1>5. ASSUME NEW s \in Sockets, Serve(s), Served PROVE Registered'
    BY <1>5 DEF Serve
  <1>6. ASSUME NEW s \in Sockets, StartFails(s), Served PROVE Registered'
    BY <1>6 DEF StartFails
  <1>7. ASSUME NEW s \in Sockets, Refuse(s), Served PROVE Registered'
    BY <1>7 DEF Refuse, Close
  <1>8. ASSUME NEW s \in Sockets, Leave(s), Served PROVE Registered'
    BY <1>8 DEF Leave
  <1>9. ASSUME NEW s \in Sockets, Unregister(s), Served PROVE Registered'
    BY <1>9 DEF Unregister
  <1>10. ASSUME NEW s \in Sockets, Subscribed(s), Served PROVE Registered'
    BY <1>10 DEF Subscribed
  <1>11. ASSUME NEW s \in Sockets, SubscribeFails(s), Served PROVE Registered'
    BY <1>11 DEF SubscribeFails, Incident
  <1>12. ASSUME NEW s \in Sockets, Lose(s), Served PROVE Registered'
    BY <1>12 DEF Lose, Incident
  <1>13. ASSUME NEW s \in Sockets, Recover(s), Served PROVE Registered'
    BY <1>13 DEF Recover, Close
  <1>14. ASSUME NEW s \in Sockets, Resubscribe(s), Served PROVE Registered'
    BY <1>14 DEF Resubscribe
  <1>15. ASSUME NEW s \in Sockets, Cancelled(s), Served PROVE Registered'
    BY <1>15 DEF Cancelled
  <1>16. ASSUME NEW s \in Sockets, Receive(s), Served PROVE Registered'
    <2>1. CASE \E n \in Sequences : Broadcast(n)
      BY <1>16, <2>1 DEF Receive, Broadcast
    <2>2. CASE \E u \in Users : DisconnectUser(u)
      BY <1>16, <2>2 DEF Receive, DisconnectUser, Close
    <2>3. QED
      BY <1>16, <2>1, <2>2, ReceivedNotice
  <1>17. ASSUME NEW s \in Sockets, HangUp(s), Served PROVE Registered'
    BY <1>17 DEF HangUp
  <1>18. ASSUME NEW s \in Sockets, Drop(s), Served PROVE Registered'
    BY <1>18 DEF Drop, Break
  <1>19. ASSUME NEW s \in Sockets, NEW u \in Users, Dial(s, u), Served PROVE Registered'
    BY <1>19 DEF Dial
  <1>20. ASSUME NEW u \in Users, Remove(u), Served PROVE Registered'
    BY <1>20 DEF Remove, Incident
  <1>21. ASSUME NEW u \in Users, RevokeLocally(u), Served PROVE Registered'
    BY <1>21 DEF RevokeLocally, DisconnectUser, Close
  <1>22. ASSUME NEW u \in Users, PublishRevocation(u), Served PROVE Registered'
    BY <1>22 DEF PublishRevocation, Incident
  <1>23. CASE Commit /\ Served
    BY <1>23 DEF Commit
  <1>24. ASSUME NEW n \in Sequences, Publish(n), Served PROVE Registered'
    BY <1>24 DEF Publish
  <1>25. ASSUME NEW n \in Sequences, PublishFails(n), Served PROVE Registered'
    BY <1>25 DEF PublishFails, Incident
  <1>26. CASE Restart /\ Served
    BY <1>26 DEF Restart, Break
  <1>27. CASE Timer /\ Client
    BY <1>27 DEF Timer
  <1>28. CASE OnOpen /\ Client
    BY <1>28 DEF OnOpen, NextMessage, ResetTracker, Refresh, Refreshed
  <1>29. CASE OnEvent /\ Client
    BY <1>29 DEF OnEvent, NextMessage, Accepted, Stale, Gap, Synchronize, Refresh, Refreshed
  <1>30. CASE OnClose /\ Client
    BY <1>30 DEF OnClose, NextMessage
  <1>31. CASE Foreground /\ Client
    BY <1>31 DEF Foreground
  <1>32. CASE Background /\ Client
    BY <1>32 DEF Background, Disconnect, CloseByPhone
  <1>33. CASE Remount /\ Client
    BY <1>33 DEF Remount, CloseByPhone
  <1>34. CASE Expire /\ Client
    BY <1>34 DEF Expire, Incident
  <1>35. ASSUME NEW q \in Queries, Answer(q), Client PROVE Registered'
    BY <1>35 DEF Answer
  <1>36. ASSUME NEW q \in Queries, Fails(q), Client PROVE Registered'
    BY <1>36 DEF Fails, Incident
  <1>37. CASE UNCHANGED vars
    BY <1>37 DEF vars
  <1>38. QED
    BY <1>1, <1>2, <1>3, <1>4, <1>5, <1>6, <1>7, <1>8, <1>9, <1>10, <1>11, <1>12, <1>13, <1>14,
       <1>15, <1>16, <1>17, <1>18, <1>19, <1>20, <1>21, <1>22, <1>23, <1>24, <1>25, <1>26, <1>27,
       <1>28, <1>29, <1>30, <1>31, <1>32, <1>33, <1>34, <1>35, <1>36, <1>37 DEF Next, ServerNext,
       ClientNext, Served, Client

(* Redis delivers to a listening task only. *)
LEMMA ListeningStep ==
  ASSUME Shapes, Waiting, Named, ReferencesCounted, Listening, [Next]_vars
  PROVE  Listening'
  <1> USE SentinelAssumption DEF Served, Client, serverVars, handlerVars, subscriptionVars,
     publisherVars, clientVars, Listening, Waiting, Shapes, DataTypeOK, ServerShapes, Tasks, Live
  <1>1. ASSUME NEW s \in Sockets, Authenticate(s), Served PROVE Listening'
    BY <1>1 DEF Authenticate, Admit, Reject
  <1>2. ASSUME NEW s \in Sockets, Accept(s), Served PROVE Listening'
    BY <1>2 DEF Accept
  <1>3. ASSUME NEW s \in Sockets, AcceptFails(s), Served PROVE Listening'
    BY <1>3 DEF AcceptFails
  <1>4. ASSUME NEW s \in Sockets, Register(s), Served PROVE Listening'
    <2>1. CASE StartSubscription(s)
      BY <1>4, <2>1 DEF Register, StartSubscription, Named
    <2>2. CASE JoinSubscription(s)
      BY <1>4, <2>2 DEF Register, JoinSubscription
    <2>3. QED
      BY <1>4, <2>1, <2>2 DEF Register
  <1>5. ASSUME NEW s \in Sockets, Serve(s), Served PROVE Listening'
    BY <1>5 DEF Serve
  <1>6. ASSUME NEW s \in Sockets, StartFails(s), Served PROVE Listening'
    <2>1. /\ sub \in Sockets
          /\ \/ /\ Holders = {s} /\ sub' = None
                /\ task' = IF sub \notin Finished THEN [task EXCEPT ![sub] = "cancelled"] ELSE task
                /\ inbox' = [inbox EXCEPT ![sub] = <<>>]
             \/ Holders \ {s} # {} /\ UNCHANGED <<sub, task, inbox>>
          /\ awaited' \in {[awaited EXCEPT ![s] = None], [awaited EXCEPT ![s] = sub]}
      BY <1>6, ReleaseDoes DEF StartFails
    <2>2. CASE Holders = {s} /\ sub' = None
      BY <1>6, <2>1, <2>2 DEF StartFails, Finished
    <2>3. CASE UNCHANGED <<sub, task, inbox>>
      BY <1>6, <2>1, <2>3 DEF StartFails, Finished
    <2>4. QED
      BY <2>1, <2>2, <2>3
  <1>7. ASSUME NEW s \in Sockets, Refuse(s), Served PROVE Listening'
    BY <1>7 DEF Refuse, Close
  <1>8. ASSUME NEW s \in Sockets, Leave(s), Served PROVE Listening'
    <2>1. /\ sub \in Sockets
          /\ \/ /\ Holders = {s} /\ sub' = None
                /\ task' = IF sub \notin Finished THEN [task EXCEPT ![sub] = "cancelled"] ELSE task
                /\ inbox' = [inbox EXCEPT ![sub] = <<>>]
             \/ Holders \ {s} # {} /\ UNCHANGED <<sub, task, inbox>>
          /\ awaited' \in {[awaited EXCEPT ![s] = None], [awaited EXCEPT ![s] = sub]}
      BY <1>8, ReleaseDoes DEF Leave
    <2>2. CASE Holders = {s} /\ sub' = None
      BY <1>8, <2>1, <2>2 DEF Leave, Finished
    <2>3. CASE UNCHANGED <<sub, task, inbox>>
      BY <1>8, <2>1, <2>3 DEF Leave, Finished
    <2>4. QED
      BY <2>1, <2>2, <2>3
  <1>9. ASSUME NEW s \in Sockets, Unregister(s), Served PROVE Listening'
    BY <1>9 DEF Unregister
  <1>10. ASSUME NEW s \in Sockets, Subscribed(s), Served PROVE Listening'
    BY <1>10 DEF Subscribed
  <1>11. ASSUME NEW s \in Sockets, SubscribeFails(s), Served PROVE Listening'
    BY <1>11 DEF SubscribeFails, Incident
  <1>12. ASSUME NEW s \in Sockets, Lose(s), Served PROVE Listening'
    BY <1>12 DEF Lose, Incident
  <1>13. ASSUME NEW s \in Sockets, Recover(s), Served PROVE Listening'
    BY <1>13 DEF Recover, Close
  <1>14. ASSUME NEW s \in Sockets, Resubscribe(s), Served PROVE Listening'
    BY <1>14 DEF Resubscribe
  <1>15. ASSUME NEW s \in Sockets, Cancelled(s), Served PROVE Listening'
    BY <1>15 DEF Cancelled
  <1>16. ASSUME NEW s \in Sockets, Receive(s), Served PROVE Listening'
    <2>1. task[s] = "listening" /\ task' = task /\ \A t \in Sockets : t # s => inbox'[t] = inbox[t]
      BY <1>16 DEF Receive
    <2>2. QED
      BY <2>1
  <1>17. ASSUME NEW s \in Sockets, HangUp(s), Served PROVE Listening'
    BY <1>17 DEF HangUp
  <1>18. ASSUME NEW s \in Sockets, Drop(s), Served PROVE Listening'
    BY <1>18 DEF Drop, Incident, Break
  <1>19. ASSUME NEW s \in Sockets, NEW u \in Users, Dial(s, u), Served PROVE Listening'
    BY <1>19 DEF Dial
  <1>20. ASSUME NEW u \in Users, Remove(u), Served PROVE Listening'
    BY <1>20 DEF Remove, Incident
  <1>21. ASSUME NEW u \in Users, RevokeLocally(u), Served PROVE Listening'
    BY <1>21 DEF RevokeLocally, DisconnectUser, Close
  <1>22. ASSUME NEW u \in Users, PublishRevocation(u), Served PROVE Listening'
    <2>1. \A t \in Sockets : task[t] # "listening" => inbox'[t] = inbox[t]
      BY <1>22, DeliveredHas, NoticesDiffer DEF PublishRevocation
    <2>2. QED
      BY <1>22, <2>1 DEF PublishRevocation
  <1>23. CASE Commit /\ Served
    BY <1>23 DEF Commit
  <1>24. ASSUME NEW n \in Sequences, Publish(n), Served PROVE Listening'
    <2>1. \A t \in Sockets : task[t] # "listening" => inbox'[t] = inbox[t]
      BY <1>24, DeliveredHas, NoticesDiffer DEF Publish
    <2>2. QED
      BY <1>24, <2>1 DEF Publish
  <1>25. ASSUME NEW n \in Sequences, PublishFails(n), Served PROVE Listening'
    BY <1>25 DEF PublishFails, Incident
  <1>26. CASE Restart /\ Served
    BY <1>26 DEF Restart, Incident, Break
  <1>27. CASE Timer /\ Client
    BY <1>27 DEF Timer, OpenSocket, Incident
  <1>28. CASE OnOpen /\ Client
    BY <1>28 DEF OnOpen, NextMessage, ResetTracker, Refresh, Refreshed
  <1>29. CASE OnEvent /\ Client
    BY <1>29 DEF OnEvent, NextMessage, Accepted, Stale, Gap, Synchronize, Refresh, Refreshed
  <1>30. CASE OnClose /\ Client
    BY <1>30 DEF OnClose, NextMessage
  <1>31. CASE Foreground /\ Client
    BY <1>31 DEF Foreground, ResetTracker, Refresh, Refreshed, Connect, OpenSocket, Incident
  <1>32. CASE Background /\ Client
    BY <1>32 DEF Background, Disconnect, CloseByPhone
  <1>33. CASE Remount /\ Client
    BY <1>33 DEF Remount, ResetTracker, CloseByPhone, Connect, OpenSocket, Incident
  <1>34. CASE Expire /\ Client
    BY <1>34 DEF Expire, Incident
  <1>35. ASSUME NEW q \in Queries, Answer(q), Client PROVE Listening'
    BY <1>35 DEF Answer
  <1>36. ASSUME NEW q \in Queries, Fails(q), Client PROVE Listening'
    BY <1>36 DEF Fails, Incident
  <1>37. CASE UNCHANGED vars
    BY <1>37 DEF vars
  <1>38. QED
    BY <1>1, <1>2, <1>3, <1>4, <1>5, <1>6, <1>7, <1>8, <1>9, <1>10, <1>11, <1>12, <1>13, <1>14,
       <1>15, <1>16, <1>17, <1>18, <1>19, <1>20, <1>21, <1>22, <1>23, <1>24, <1>25, <1>26, <1>27,
       <1>28, <1>29, <1>30, <1>31, <1>32, <1>33, <1>34, <1>35, <1>36, <1>37 DEF Next, ServerNext,
       ClientNext, Served, Client

(* Who is revoked is no member any more. *)
LEMMA RevokedStep ==
  ASSUME Shapes, Waiting, Named, ReferencesCounted, Revoked, [Next]_vars
  PROVE  Revoked'
  <1> USE DEF Served, Client, serverVars, handlerVars, subscriptionVars, publisherVars, clientVars
  <1>1. ASSUME NEW s \in Sockets, Authenticate(s), Served PROVE Revoked'
    BY <1>1, RevokedFrame DEF Authenticate
  <1>2. ASSUME NEW s \in Sockets, Accept(s), Served PROVE Revoked'
    BY <1>2, RevokedFrame DEF Accept
  <1>3. ASSUME NEW s \in Sockets, AcceptFails(s), Served PROVE Revoked'
    BY <1>3, RevokedFrame DEF AcceptFails
  <1>4. ASSUME NEW s \in Sockets, Register(s), Served PROVE Revoked'
    BY <1>4, RevokedFrame DEF Register
  <1>5. ASSUME NEW s \in Sockets, Serve(s), Served PROVE Revoked'
    BY <1>5, RevokedFrame DEF Serve
  <1>6. ASSUME NEW s \in Sockets, StartFails(s), Served PROVE Revoked'
    <2>1. \A t \in Sockets : \A m : Has(inbox'[t], m) => Has(inbox[t], m)
      <3>1. \A t \in Sockets : inbox'[t] = inbox[t] \/ inbox'[t] = <<>>
        BY <1>6, ReleaseDoes DEF StartFails, Shapes, ServerShapes
      <3>2. QED
        BY <3>1, EmptyHas
    <2>2. UNCHANGED <<members, revoking>>
      BY <1>6 DEF StartFails
    <2>3. QED
      BY <2>1, <2>2, RevokedFrame
  <1>7. ASSUME NEW s \in Sockets, Refuse(s), Served PROVE Revoked'
    BY <1>7, RevokedFrame DEF Refuse
  <1>8. ASSUME NEW s \in Sockets, Leave(s), Served PROVE Revoked'
    <2>1. \A t \in Sockets : \A m : Has(inbox'[t], m) => Has(inbox[t], m)
      <3>1. \A t \in Sockets : inbox'[t] = inbox[t] \/ inbox'[t] = <<>>
        BY <1>8, ReleaseDoes DEF Leave, Shapes, ServerShapes
      <3>2. QED
        BY <3>1, EmptyHas
    <2>2. UNCHANGED <<members, revoking>>
      BY <1>8 DEF Leave
    <2>3. QED
      BY <2>1, <2>2, RevokedFrame
  <1>9. ASSUME NEW s \in Sockets, Unregister(s), Served PROVE Revoked'
    BY <1>9, RevokedFrame DEF Unregister
  <1>10. ASSUME NEW s \in Sockets, Subscribed(s), Served PROVE Revoked'
    BY <1>10, RevokedFrame DEF Subscribed
  <1>11. ASSUME NEW s \in Sockets, SubscribeFails(s), Served PROVE Revoked'
    BY <1>11, RevokedFrame DEF SubscribeFails
  <1>12. ASSUME NEW s \in Sockets, Lose(s), Served PROVE Revoked'
    <2>1. \A t \in Sockets : \A m : Has(inbox'[t], m) => Has(inbox[t], m)
      <3>1. \A t \in Sockets : inbox'[t] = inbox[t] \/ inbox'[t] = <<>>
        BY <1>12 DEF Lose, Shapes, ServerShapes
      <3>2. QED
        BY <3>1, EmptyHas
    <2>2. UNCHANGED <<members, revoking>>
      BY <1>12 DEF Lose
    <2>3. QED
      BY <2>1, <2>2, RevokedFrame
  <1>13. ASSUME NEW s \in Sockets, Recover(s), Served PROVE Revoked'
    BY <1>13, RevokedFrame DEF Recover
  <1>14. ASSUME NEW s \in Sockets, Resubscribe(s), Served PROVE Revoked'
    BY <1>14, RevokedFrame DEF Resubscribe
  <1>15. ASSUME NEW s \in Sockets, Cancelled(s), Served PROVE Revoked'
    BY <1>15, RevokedFrame DEF Cancelled
  <1>16. ASSUME NEW s \in Sockets, Receive(s), Served PROVE Revoked'
    <2>1. \A t \in Sockets : \A m : Has(inbox'[t], m) => Has(inbox[t], m)
      BY <1>16, ReceivedNotice
    <2>2. UNCHANGED <<members, revoking>>
      BY <1>16 DEF Receive
    <2>3. QED
      BY <2>1, <2>2, RevokedFrame
  <1>17. ASSUME NEW s \in Sockets, HangUp(s), Served PROVE Revoked'
    BY <1>17, RevokedFrame DEF HangUp
  <1>18. ASSUME NEW s \in Sockets, Drop(s), Served PROVE Revoked'
    BY <1>18, RevokedFrame DEF Drop
  <1>19. ASSUME NEW s \in Sockets, NEW u \in Users, Dial(s, u), Served PROVE Revoked'
    BY <1>19, RevokedFrame DEF Dial
  <1>20. ASSUME NEW u \in Users, Remove(u), Served PROVE Revoked'
    BY <1>20 DEF Remove, Revoked, Shapes, ServerShapes
  <1>21. ASSUME NEW u \in Users, RevokeLocally(u), Served PROVE Revoked'
    BY <1>21 DEF RevokeLocally, Revoked, Shapes, ServerShapes
  <1>22. ASSUME NEW u \in Users, PublishRevocation(u), Served PROVE Revoked'
    <2>1. \A t \in Sockets : \A v \in Users :
            Has(inbox'[t], RevokedNotice(v)) => Has(inbox[t], RevokedNotice(v)) \/ v = u
      <3>1. RevokedNotice(u) \in Notices /\ (inbox' = Delivered(RevokedNotice(u)) \/ inbox' = inbox)
        BY <1>22, NoticesDiffer DEF PublishRevocation
      <3>2. \A t \in Sockets : \A m : Has(inbox'[t], m) => Has(inbox[t], m) \/ m = RevokedNotice(u)
        BY <3>1, DeliveredHas
      <3>3. QED
        BY <3>2, NoticesDiffer
    <2>2. revoking' = [revoking EXCEPT ![u] = "done"] /\ revoking[u] = "publish" /\ members' = members
      BY <1>22 DEF PublishRevocation
    <2>3. QED
      BY <2>1, <2>2 DEF Revoked, Shapes, ServerShapes
  <1>23. CASE Commit /\ Served
    BY <1>23, RevokedFrame DEF Commit
  <1>24. ASSUME NEW n \in Sequences, Publish(n), Served PROVE Revoked'
    <2>1. \A t \in Sockets : \A u \in Users :
            Has(inbox'[t], RevokedNotice(u)) => Has(inbox[t], RevokedNotice(u))
      <3>1. EventNotice(n) \in Notices /\ inbox' = Delivered(EventNotice(n))
        BY <1>24, NoticesDiffer DEF Publish
      <3>2. \A t \in Sockets : \A m : Has(inbox'[t], m) => Has(inbox[t], m) \/ m = EventNotice(n)
        BY <3>1, DeliveredHas
      <3>3. QED
        BY <3>2, NoticesDiffer
    <2>2. UNCHANGED <<members, revoking>>
      BY <1>24 DEF Publish
    <2>3. QED
      BY <2>1, <2>2, RevokedFrame
  <1>25. ASSUME NEW n \in Sequences, PublishFails(n), Served PROVE Revoked'
    BY <1>25, RevokedFrame DEF PublishFails
  <1>26. CASE Restart /\ Served
    <2>1. \A t \in Sockets : inbox'[t] = <<>>
      BY <1>26 DEF Restart
    <2>2. members' = members /\ \A u \in Users : revoking'[u] # "no" => revoking[u] # "no"
      BY <1>26 DEF Restart
    <2>3. QED
      BY <2>1, <2>2, EmptyHas DEF Revoked
  <1>27. CASE Timer /\ Client
    BY <1>27, RevokedFrame DEF Timer
  <1>28. CASE OnOpen /\ Client
    BY <1>28, RevokedFrame DEF OnOpen
  <1>29. CASE OnEvent /\ Client
    BY <1>29, RevokedFrame DEF OnEvent
  <1>30. CASE OnClose /\ Client
    BY <1>30, RevokedFrame DEF OnClose
  <1>31. CASE Foreground /\ Client
    BY <1>31, RevokedFrame DEF Foreground
  <1>32. CASE Background /\ Client
    BY <1>32, RevokedFrame DEF Background
  <1>33. CASE Remount /\ Client
    BY <1>33, RevokedFrame DEF Remount
  <1>34. CASE Expire /\ Client
    BY <1>34, RevokedFrame DEF Expire
  <1>35. ASSUME NEW q \in Queries, Answer(q), Client PROVE Revoked'
    BY <1>35, RevokedFrame DEF Answer
  <1>36. ASSUME NEW q \in Queries, Fails(q), Client PROVE Revoked'
    BY <1>36, RevokedFrame DEF Fails
  <1>37. CASE UNCHANGED vars
    BY <1>37, RevokedFrame DEF vars
  <1>38. QED
    BY <1>1, <1>2, <1>3, <1>4, <1>5, <1>6, <1>7, <1>8, <1>9, <1>10, <1>11, <1>12, <1>13, <1>14,
       <1>15, <1>16, <1>17, <1>18, <1>19, <1>20, <1>21, <1>22, <1>23, <1>24, <1>25, <1>26, <1>27,
       <1>28, <1>29, <1>30, <1>31, <1>32, <1>33, <1>34, <1>35, <1>36, <1>37 DEF Next, ServerNext,
       ClientNext, Served, Client

(* Each close that is sent has its reason, which lasts until the phone reads it. *)
LEMMA ClosesStep ==
  ASSUME Shapes, Waiting, Named, ReferencesCounted, Revoked, Closes, [Next]_vars
  PROVE  Closes'
  <1> USE DEF Served, Client, serverVars, handlerVars, subscriptionVars, publisherVars, clientVars
  <1>1. ASSUME NEW s \in Sockets, Authenticate(s), Served PROVE Closes'
    <2>1. CASE Admit(s)
      BY <1>1, <2>1, ClosesFrame DEF Authenticate, Admit
    <2>2. CASE Reject(s)
      <3>1. UNCHANGED <<members, owner, socket, expired>> /\ down' = down \union {s}
        BY <1>1, <2>2 DEF Authenticate, Reject
      <3>2. CASE owner[s] = Me /\ s \notin down
        <4> DEFINE code == IF expired THEN 4401 ELSE 4404
        <4>1. code \in Codes /\ (code = 4401 => expired) /\ (code = 4404 => Me \notin members)
          BY <2>2, <3>2, CodesGiven DEF Reject
        <4>2. wire' = [wire EXCEPT ![s] = Append(Append(wire[s], Opened), Closed(code))]
          BY <2>2, <3>2 DEF Reject, Shapes, DataTypeOK
        <4> HIDE DEF code
        <4>3. /\ wire[s] \in Seq(Messages) /\ wire \in [Sockets -> Seq(Messages)]
              /\ Opened \in Messages /\ Closed(code) \in Messages
          BY <4>1, Different DEF Shapes, DataTypeOK
        <4>4. \A x : Has(Append(Append(wire[s], Opened), Closed(code)), x)
                    <=> Has(wire[s], x) \/ x = Opened \/ x = Closed(code)
          BY ONLY <4>3, AppendsHave
        <4>5. /\ \A c \in Codes : Has(wire'[s], Closed(c)) => Has(wire[s], Closed(c)) \/ c = code
              /\ \A r \in Sockets : r # s => wire'[r] = wire[r]
          <5>1. wire'[s] = Append(Append(wire[s], Opened), Closed(code))
            BY <4>2, <4>3
          <5>2. \A r \in Sockets : r # s => wire'[r] = wire[r]
            BY <4>2, <4>3
          <5>3. QED
            BY <4>1, <4>4, <5>1, <5>2, Different
        <4>6. QED
          BY <3>1, <3>2, <4>1, <4>5, CodesGiven DEF Closes
      <3>3. CASE ~(owner[s] = Me /\ s \notin down)
        <4>1. wire' = wire
          BY <2>2, <3>3 DEF Reject, Shapes, DataTypeOK
        <4>2. QED
          BY <3>1, <4>1, ClosesFrame
      <3>4. QED
        BY <3>2, <3>3
    <2>3. QED
      BY <1>1, <2>1, <2>2 DEF Authenticate
  <1>2. ASSUME NEW s \in Sockets, Accept(s), Served PROVE Closes'
    BY <1>2, ClosesSent, Different DEF Accept
  <1>3. ASSUME NEW s \in Sockets, AcceptFails(s), Served PROVE Closes'
    BY <1>3, ClosesFrame DEF AcceptFails
  <1>4. ASSUME NEW s \in Sockets, Register(s), Served PROVE Closes'
    BY <1>4, ClosesFrame DEF Register
  <1>5. ASSUME NEW s \in Sockets, Serve(s), Served PROVE Closes'
    BY <1>5, ClosesFrame DEF Serve
  <1>6. ASSUME NEW s \in Sockets, StartFails(s), Served PROVE Closes'
    BY <1>6, ClosesFrame DEF StartFails
  <1>7. ASSUME NEW s \in Sockets, Refuse(s), Served PROVE Closes'
    BY <1>7, ClosesClosed, CodesGiven DEF Refuse
  <1>8. ASSUME NEW s \in Sockets, Leave(s), Served PROVE Closes'
    BY <1>8, ClosesFrame DEF Leave
  <1>9. ASSUME NEW s \in Sockets, Unregister(s), Served PROVE Closes'
    BY <1>9, ClosesFrame DEF Unregister
  <1>10. ASSUME NEW s \in Sockets, Subscribed(s), Served PROVE Closes'
    BY <1>10, ClosesFrame DEF Subscribed
  <1>11. ASSUME NEW s \in Sockets, SubscribeFails(s), Served PROVE Closes'
    BY <1>11, ClosesFrame DEF SubscribeFails, Incident
  <1>12. ASSUME NEW s \in Sockets, Lose(s), Served PROVE Closes'
    BY <1>12, ClosesFrame DEF Lose, Incident
  <1>13. ASSUME NEW s \in Sockets, Recover(s), Served PROVE Closes'
    BY <1>13, ClosesClosed, CodesGiven DEF Recover
  <1>14. ASSUME NEW s \in Sockets, Resubscribe(s), Served PROVE Closes'
    BY <1>14, ClosesFrame DEF Resubscribe
  <1>15. ASSUME NEW s \in Sockets, Cancelled(s), Served PROVE Closes'
    BY <1>15, ClosesFrame DEF Cancelled
  <1>16. ASSUME NEW s \in Sockets, Receive(s), Served PROVE Closes'
    <2>1. UNCHANGED <<members, owner, socket, expired>>
      BY <1>16 DEF Receive
    <2>2. ASSUME NEW n \in Sequences, Broadcast(n) PROVE Closes'
      BY <2>1, <2>2, ClosesSent, Different DEF Broadcast
    <2>3. ASSUME NEW u \in Users, DisconnectUser(u), Has(inbox[s], RevokedNotice(u)) PROVE Closes'
      BY <2>1, <2>3, ClosesClosed, CodesGiven DEF DisconnectUser, UsersConnections, Revoked
    <2>4. QED
      BY <1>16, <2>2, <2>3, ReceivedNotice
  <1>17. ASSUME NEW s \in Sockets, HangUp(s), Served PROVE Closes'
    BY <1>17, ClosesFrame DEF HangUp
  <1>18. ASSUME NEW s \in Sockets, Drop(s), Served PROVE Closes'
    BY <1>18, ClosesBroken DEF Drop
  <1>19. ASSUME NEW s \in Sockets, NEW u \in Users, Dial(s, u), Served PROVE Closes'
    <2>1. UNCHANGED <<wire, down, members, expired, socket>>
      BY <1>19 DEF Dial
    <2>2. \A r \in Sockets : owner'[r] = owner[r] \/ (owner[r] = None /\ owner'[r] # Me)
      BY <1>19 DEF Dial, Unused, Shapes, DataTypeOK
    <2>3. Me # None
      BY MeAssumption, SentinelAssumption
    <2>4. QED
      BY <2>1, <2>2, <2>3 DEF Closes
  <1>20. ASSUME NEW u \in Users, Remove(u), Served PROVE Closes'
    BY <1>20, ClosesFrame DEF Remove, Incident
  <1>21. ASSUME NEW u \in Users, RevokeLocally(u), Served PROVE Closes'
    <2>1. UNCHANGED <<members, owner, socket, expired>> /\ DisconnectUser(u) /\ revoking[u] = "local"
      BY <1>21 DEF RevokeLocally
    <2>2. u \notin members
      BY <2>1 DEF Revoked
    <2>3. QED
      BY <2>1, <2>2, ClosesClosed, CodesGiven DEF DisconnectUser, UsersConnections
  <1>22. ASSUME NEW u \in Users, PublishRevocation(u), Served PROVE Closes'
    BY <1>22, ClosesFrame DEF PublishRevocation, Incident
  <1>23. CASE Commit /\ Served
    BY <1>23, ClosesFrame DEF Commit
  <1>24. ASSUME NEW n \in Sequences, Publish(n), Served PROVE Closes'
    BY <1>24, ClosesFrame DEF Publish
  <1>25. ASSUME NEW n \in Sequences, PublishFails(n), Served PROVE Closes'
    BY <1>25, ClosesFrame DEF PublishFails, Incident
  <1>26. CASE Restart /\ Served
    BY <1>26, ClosesBroken DEF Restart
  <1>27. CASE Timer /\ Client
    <2>1. OpenSocket(TRUE) /\ UNCHANGED <<down, wire, members>>
      BY <1>27 DEF Timer
    <2>2. QED
      BY <2>1, ClosesOpened
  <1>28. CASE OnOpen /\ Client
    BY <1>28, ClosesTaken DEF OnOpen
  <1>29. CASE OnEvent /\ Client
    BY <1>29, ClosesTaken DEF OnEvent
  <1>30. CASE OnClose /\ Client
    BY <1>30, ClosesTaken DEF OnClose
  <1>31. CASE Foreground /\ Client
    <2>1. OpenSocket(FALSE) /\ UNCHANGED <<down, wire, members>>
      BY <1>31 DEF Foreground, Connect
    <2>2. QED
      BY <2>1, ClosesOpened
  <1>32. CASE Background /\ Client
    <2>1. /\ UNCHANGED <<members, owner, expired>> /\ socket' = None /\ down \subseteq down'
          /\ \A s \in Sockets : wire'[s] = wire[s] \/ wire'[s] = <<>>
      BY <1>32 DEF Background, Disconnect, CloseByPhone
    <2>2. QED
      BY <2>1, EmptyHas, SentinelAssumption, CodesGiven DEF Closes
  <1>33. CASE Remount /\ Client
    <2>1. /\ UNCHANGED members /\ down \subseteq down'
          /\ \A s \in Sockets : IF s = socket THEN wire'[s] = <<>> ELSE wire'[s] = wire[s]
      BY <1>33, SentinelAssumption DEF Remount, CloseByPhone
    <2>2. CASE foreground /\ Connect
      BY <2>1, <2>2, ClosesOpened DEF Connect
    <2>3. CASE ~foreground /\ UNCHANGED <<owner, socket>>
      BY <2>1, <2>3, EmptyHas, CodesGiven DEF Closes
    <2>4. QED
      BY <1>33, <2>2, <2>3 DEF Remount
  <1>34. CASE Expire /\ Client
    BY <1>34, ClosesFrame DEF Expire, Incident
  <1>35. ASSUME NEW q \in Queries, Answer(q), Client PROVE Closes'
    BY <1>35, ClosesFrame DEF Answer
  <1>36. ASSUME NEW q \in Queries, Fails(q), Client PROVE Closes'
    BY <1>36, ClosesFrame DEF Fails, Incident
  <1>37. CASE UNCHANGED vars
    BY <1>37, ClosesFrame DEF vars
  <1>38. QED
    BY <1>1, <1>2, <1>3, <1>4, <1>5, <1>6, <1>7, <1>8, <1>9, <1>10, <1>11, <1>12, <1>13, <1>14,
       <1>15, <1>16, <1>17, <1>18, <1>19, <1>20, <1>21, <1>22, <1>23, <1>24, <1>25, <1>26, <1>27,
       <1>28, <1>29, <1>30, <1>31, <1>32, <1>33, <1>34, <1>35, <1>36, <1>37 DEF Next, ServerNext,
       ClientNext, Served, Client

(* The phone's socket, timer and foreground. *)
LEMMA PhoneStep ==
  ASSUME Shapes, Waiting, Named, ReferencesCounted, Closes, Trying, OneConnection, [Next]_vars
  PROVE  Trying' /\ OneConnection'
  <1> USE DEF Served, Client, serverVars, handlerVars, subscriptionVars, publisherVars, clientVars
  <1>1. ASSUME NEW s \in Sockets, Authenticate(s), Served PROVE Trying' /\ OneConnection'
    BY <1>1, PhoneFrame DEF Authenticate, Admit, Reject
  <1>2. ASSUME NEW s \in Sockets, Accept(s), Served PROVE Trying' /\ OneConnection'
    BY <1>2, PhoneFrame DEF Accept
  <1>3. ASSUME NEW s \in Sockets, AcceptFails(s), Served PROVE Trying' /\ OneConnection'
    BY <1>3, PhoneFrame DEF AcceptFails
  <1>4. ASSUME NEW s \in Sockets, Register(s), Served PROVE Trying' /\ OneConnection'
    BY <1>4, PhoneFrame DEF Register
  <1>5. ASSUME NEW s \in Sockets, Serve(s), Served PROVE Trying' /\ OneConnection'
    BY <1>5, PhoneFrame DEF Serve
  <1>6. ASSUME NEW s \in Sockets, StartFails(s), Served PROVE Trying' /\ OneConnection'
    BY <1>6, PhoneFrame DEF StartFails
  <1>7. ASSUME NEW s \in Sockets, Refuse(s), Served PROVE Trying' /\ OneConnection'
    BY <1>7, PhoneFrame DEF Refuse, Close
  <1>8. ASSUME NEW s \in Sockets, Leave(s), Served PROVE Trying' /\ OneConnection'
    BY <1>8, PhoneFrame DEF Leave
  <1>9. ASSUME NEW s \in Sockets, Unregister(s), Served PROVE Trying' /\ OneConnection'
    BY <1>9, PhoneFrame DEF Unregister
  <1>10. ASSUME NEW s \in Sockets, Subscribed(s), Served PROVE Trying' /\ OneConnection'
    BY <1>10, PhoneFrame DEF Subscribed
  <1>11. ASSUME NEW s \in Sockets, SubscribeFails(s), Served PROVE Trying' /\ OneConnection'
    BY <1>11, PhoneFrame DEF SubscribeFails
  <1>12. ASSUME NEW s \in Sockets, Lose(s), Served PROVE Trying' /\ OneConnection'
    BY <1>12, PhoneFrame DEF Lose
  <1>13. ASSUME NEW s \in Sockets, Recover(s), Served PROVE Trying' /\ OneConnection'
    BY <1>13, PhoneFrame DEF Recover, Close
  <1>14. ASSUME NEW s \in Sockets, Resubscribe(s), Served PROVE Trying' /\ OneConnection'
    BY <1>14, PhoneFrame DEF Resubscribe
  <1>15. ASSUME NEW s \in Sockets, Cancelled(s), Served PROVE Trying' /\ OneConnection'
    BY <1>15, PhoneFrame DEF Cancelled
  <1>16. ASSUME NEW s \in Sockets, Receive(s), Served PROVE Trying' /\ OneConnection'
    BY <1>16, PhoneFrame DEF Receive, Broadcast, DisconnectUser, Close
  <1>17. ASSUME NEW s \in Sockets, HangUp(s), Served PROVE Trying' /\ OneConnection'
    BY <1>17, PhoneFrame DEF HangUp
  <1>18. ASSUME NEW s \in Sockets, Drop(s), Served PROVE Trying' /\ OneConnection'
    BY <1>18, PhoneFrame DEF Drop, Break
  <1>19. ASSUME NEW s \in Sockets, NEW u \in Users, Dial(s, u), Served
        PROVE Trying' /\ OneConnection'
    <2>1. \A r \in Sockets : owner'[r] = owner[r] \/ (owner[r] = None /\ owner'[r] # Me)
      BY <1>19 DEF Dial, Unused, Shapes, DataTypeOK
    <2>2. QED
      BY <1>19, <2>1, PhoneFrame DEF Dial
  <1>20. ASSUME NEW u \in Users, Remove(u), Served PROVE Trying' /\ OneConnection'
    BY <1>20, PhoneFrame DEF Remove
  <1>21. ASSUME NEW u \in Users, RevokeLocally(u), Served PROVE Trying' /\ OneConnection'
    BY <1>21, PhoneFrame DEF RevokeLocally, DisconnectUser, Close
  <1>22. ASSUME NEW u \in Users, PublishRevocation(u), Served PROVE Trying' /\ OneConnection'
    BY <1>22, PhoneFrame DEF PublishRevocation
  <1>23. CASE Commit /\ Served
    BY <1>23, PhoneFrame DEF Commit
  <1>24. ASSUME NEW n \in Sequences, Publish(n), Served PROVE Trying' /\ OneConnection'
    BY <1>24, PhoneFrame DEF Publish
  <1>25. ASSUME NEW n \in Sequences, PublishFails(n), Served PROVE Trying' /\ OneConnection'
    BY <1>25, PhoneFrame DEF PublishFails
  <1>26. CASE Restart /\ Served
    BY <1>26, PhoneFrame DEF Restart, Break
  <1>27. CASE Timer /\ Client
    <2>1. /\ OpenSocket(TRUE) /\ enabled' = enabled /\ foreground' = foreground
          /\ timer /\ socket = None /\ down' = down
      BY <1>27 DEF Timer
    <2>2. enabled' /\ foreground' /\ \A s \in Sockets : owner[s] = Me => s \in down'
      BY <2>1, SentinelAssumption DEF Trying, OneConnection
    <2>3. QED
      BY <2>1, <2>2, PhoneOpened
  <1>28. CASE OnOpen /\ Client
    <2>1. UNCHANGED <<owner, down, members, expired, socket, timer, enabled, foreground>>
      BY <1>28 DEF OnOpen
    <2>2. QED
      BY <2>1 DEF Trying, OneConnection
  <1>29. CASE OnEvent /\ Client
    <2>1. UNCHANGED <<owner, down, members, expired, socket, timer, enabled, foreground>>
      BY <1>29 DEF OnEvent
    <2>2. QED
      BY <2>1 DEF Trying, OneConnection
  <1>30. CASE OnClose /\ Client
    <2> DEFINE c == Head(wire[socket]).code
    <2>1. /\ UNCHANGED <<owner, down, members, expired, foreground>> /\ socket' = None
          /\ timer' = (enabled /\ Retryable(c)) /\ enabled' = (enabled /\ Retryable(c))
      BY <1>30 DEF OnClose
    <2>2. c \in Codes /\ Has(wire[socket], Closed(c)) /\ socket \in Sockets /\ socket # None
      <3>1. NextMessage("close")
        BY <1>30 DEF OnClose
      <3>2. QED
        BY <1>30, <3>1, OnCloseCode, NextMessageHas, SentinelAssumption
    <2>3. enabled /\ foreground /\ \A s \in Sockets : owner[s] = Me => s \in down
      BY <2>2 DEF Trying, OneConnection, Closes
    <2> HIDE DEF c
    <2>4. Retryable(c) \/ Me \notin members \/ expired
      <3>1. c \in {4401, 4404} \/ Retryable(c)
        BY <2>2 DEF Codes, Retryable
      <3>2. QED
        BY <2>2, <3>1 DEF Closes
    <2>5. foreground' /\ (timer' => enabled') /\ (timer' \/ Me \notin members' \/ expired')
      BY <2>1, <2>3, <2>4
    <2>6. \A s \in Sockets : owner'[s] = Me => s \in down'
      BY <2>1, <2>3
    <2>7. QED
      BY <2>1, <2>5, <2>6 DEF Trying, OneConnection
  <1>31. CASE Foreground /\ Client
    <2>1. OpenSocket(FALSE) /\ enabled' /\ foreground' /\ ~foreground /\ down' = down
      BY <1>31 DEF Foreground, Connect
    <2>2. \A s \in Sockets : owner[s] = Me => s \in down'
      BY <2>1, SentinelAssumption DEF OneConnection
    <2>3. QED
      BY <2>1, <2>2, PhoneOpened
  <1>32. CASE Background /\ Client
    <2>1. \A s \in Sockets : owner[s] = Me => s \in down'
      BY <1>32, SentinelAssumption DEF Background, Disconnect, CloseByPhone, OneConnection
    <2>2. ~foreground' /\ socket' = None /\ ~timer' /\ owner' = owner
      BY <1>32 DEF Background, Disconnect
    <2>3. \A s \in Sockets : owner'[s] = Me /\ s \notin down' => s = socket'
      BY <2>1, <2>2
    <2>4. QED
      BY <2>2, <2>3 DEF Trying, OneConnection
  <1>33. CASE Remount /\ Client
    <2>1. \A s \in Sockets : owner[s] = Me => s \in down'
      BY <1>33, SentinelAssumption DEF Remount, CloseByPhone, OneConnection
    <2>2. CASE foreground /\ Connect
      <3>1. OpenSocket(FALSE) /\ enabled' /\ foreground'
        BY <1>33, <2>2 DEF Remount, Connect
      <3>2. QED
        BY <2>1, <3>1, PhoneOpened
    <2>3. CASE ~foreground /\ UNCHANGED <<owner, socket, timer, enabled>>
      <3>1. foreground' = foreground /\ \A s \in Sockets : owner'[s] = Me /\ s \notin down' => s = socket'
        BY <1>33, <2>1, <2>3 DEF Remount
      <3>2. QED
        BY <2>3, <3>1 DEF Trying, OneConnection
    <2>4. QED
      BY <1>33, <2>2, <2>3 DEF Remount
  <1>34. CASE Expire /\ Client
    <2>1. UNCHANGED <<owner, down, members, socket, timer, enabled, foreground>> /\ (expired => expired')
      BY <1>34 DEF Expire
    <2>2. QED
      BY <2>1 DEF Trying, OneConnection
  <1>35. ASSUME NEW q \in Queries, Answer(q), Client PROVE Trying' /\ OneConnection'
    <2>1. UNCHANGED <<owner, down, members, socket, timer, enabled, foreground>> /\ (expired => expired')
      BY <1>35 DEF Answer
    <2>2. QED
      BY <2>1 DEF Trying, OneConnection
  <1>36. ASSUME NEW q \in Queries, Fails(q), Client PROVE Trying' /\ OneConnection'
    <2>1. UNCHANGED <<owner, down, members, socket, timer, enabled, foreground>> /\ (expired => expired')
      BY <1>36 DEF Fails
    <2>2. QED
      BY <2>1 DEF Trying, OneConnection
  <1>37. CASE UNCHANGED vars
    BY <1>37 DEF vars, Trying, OneConnection
  <1>38. QED
    BY <1>1, <1>2, <1>3, <1>4, <1>5, <1>6, <1>7, <1>8, <1>9, <1>10, <1>11, <1>12, <1>13, <1>14,
       <1>15, <1>16, <1>17, <1>18, <1>19, <1>20, <1>21, <1>22, <1>23, <1>24, <1>25, <1>26, <1>27,
       <1>28, <1>29, <1>30, <1>31, <1>32, <1>33, <1>34, <1>35, <1>36, <1>37 DEF Next, ServerNext,
       ClientNext, Served, Client

(* Events are only added to the activity. *)
LogKept ==
  Len(log') \in Nat /\ Len(log) <= Len(log') /\ \A m \in 1..Len(log) : log'[m] = log[m]


LEMMA LogGrowsStep ==
  ASSUME Shapes, [Next]_vars
  PROVE  LogKept
  <1> USE LogTyped DEF Served, Client, serverVars, handlerVars, subscriptionVars, publisherVars,
     clientVars, LogKept
  <1>1. ASSUME NEW s \in Sockets, Authenticate(s), Served PROVE LogKept
    BY <1>1 DEF Authenticate
  <1>2. ASSUME NEW s \in Sockets, Accept(s), Served PROVE LogKept
    BY <1>2 DEF Accept
  <1>3. ASSUME NEW s \in Sockets, AcceptFails(s), Served PROVE LogKept
    BY <1>3 DEF AcceptFails
  <1>4. ASSUME NEW s \in Sockets, Register(s), Served PROVE LogKept
    BY <1>4 DEF Register
  <1>5. ASSUME NEW s \in Sockets, Serve(s), Served PROVE LogKept
    BY <1>5 DEF Serve
  <1>6. ASSUME NEW s \in Sockets, StartFails(s), Served PROVE LogKept
    BY <1>6 DEF StartFails
  <1>7. ASSUME NEW s \in Sockets, Refuse(s), Served PROVE LogKept
    BY <1>7 DEF Refuse
  <1>8. ASSUME NEW s \in Sockets, Leave(s), Served PROVE LogKept
    BY <1>8 DEF Leave
  <1>9. ASSUME NEW s \in Sockets, Unregister(s), Served PROVE LogKept
    BY <1>9 DEF Unregister
  <1>10. ASSUME NEW s \in Sockets, Subscribed(s), Served PROVE LogKept
    BY <1>10 DEF Subscribed
  <1>11. ASSUME NEW s \in Sockets, SubscribeFails(s), Served PROVE LogKept
    BY <1>11 DEF SubscribeFails
  <1>12. ASSUME NEW s \in Sockets, Lose(s), Served PROVE LogKept
    BY <1>12 DEF Lose
  <1>13. ASSUME NEW s \in Sockets, Recover(s), Served PROVE LogKept
    BY <1>13 DEF Recover
  <1>14. ASSUME NEW s \in Sockets, Resubscribe(s), Served PROVE LogKept
    BY <1>14 DEF Resubscribe
  <1>15. ASSUME NEW s \in Sockets, Cancelled(s), Served PROVE LogKept
    BY <1>15 DEF Cancelled
  <1>16. ASSUME NEW s \in Sockets, Receive(s), Served PROVE LogKept
    BY <1>16 DEF Receive
  <1>17. ASSUME NEW s \in Sockets, HangUp(s), Served PROVE LogKept
    BY <1>17 DEF HangUp
  <1>18. ASSUME NEW s \in Sockets, Drop(s), Served PROVE LogKept
    BY <1>18 DEF Drop
  <1>19. ASSUME NEW s \in Sockets, NEW u \in Users, Dial(s, u), Served PROVE LogKept
    BY <1>19 DEF Dial
  <1>20. ASSUME NEW u \in Users, Remove(u), Served PROVE LogKept
    BY <1>20 DEF Remove
  <1>21. ASSUME NEW u \in Users, RevokeLocally(u), Served PROVE LogKept
    BY <1>21 DEF RevokeLocally
  <1>22. ASSUME NEW u \in Users, PublishRevocation(u), Served PROVE LogKept
    BY <1>22 DEF PublishRevocation
  <1>23. CASE Commit /\ Served
    <2>1. log' = Append(log, story.script[Len(log) + 1]) /\ log \in Seq(Events)
      BY <1>23 DEF Commit, Shapes, DataTypeOK
    <2>2. QED
      BY <2>1
  <1>24. ASSUME NEW n \in Sequences, Publish(n), Served PROVE LogKept
    BY <1>24 DEF Publish
  <1>25. ASSUME NEW n \in Sequences, PublishFails(n), Served PROVE LogKept
    BY <1>25 DEF PublishFails
  <1>26. CASE Restart /\ Served
    BY <1>26 DEF Restart
  <1>27. CASE Timer /\ Client
    BY <1>27 DEF Timer
  <1>28. CASE OnOpen /\ Client
    BY <1>28 DEF OnOpen
  <1>29. CASE OnEvent /\ Client
    BY <1>29 DEF OnEvent
  <1>30. CASE OnClose /\ Client
    BY <1>30 DEF OnClose
  <1>31. CASE Foreground /\ Client
    BY <1>31 DEF Foreground
  <1>32. CASE Background /\ Client
    BY <1>32 DEF Background
  <1>33. CASE Remount /\ Client
    BY <1>33 DEF Remount
  <1>34. CASE Expire /\ Client
    BY <1>34 DEF Expire
  <1>35. ASSUME NEW q \in Queries, Answer(q), Client PROVE LogKept
    BY <1>35 DEF Answer
  <1>36. ASSUME NEW q \in Queries, Fails(q), Client PROVE LogKept
    BY <1>36 DEF Fails
  <1>37. CASE UNCHANGED vars
    BY <1>37 DEF vars
  <1>38. QED
    BY <1>1, <1>2, <1>3, <1>4, <1>5, <1>6, <1>7, <1>8, <1>9, <1>10, <1>11, <1>12, <1>13, <1>14,
       <1>15, <1>16, <1>17, <1>18, <1>19, <1>20, <1>21, <1>22, <1>23, <1>24, <1>25, <1>26, <1>27,
       <1>28, <1>29, <1>30, <1>31, <1>32, <1>33, <1>34, <1>35, <1>36, <1>37 DEF Next, ServerNext,
       ClientNext, Served, Client

LEMMA LogGrows ==
  ASSUME Shapes, [Next]_vars
  PROVE  Len(log') \in Nat /\ Len(log) <= Len(log') /\ \A m \in 1..Len(log) : log'[m] = log[m]
  BY LogGrowsStep DEF LogKept

(* A query goes on showing what it shows, or is fetched again. *)
QueriesKept ==
  \A p \in Queries : \A m \in 1..Len(log) : Shows(p, m) => Shows(p, m)'

LEMMA ShowsKeptStep ==
  ASSUME Shapes, [Next]_vars
  PROVE  QueriesKept
  <1> USE DEF Served, Client, QueriesKept
  <1>1. ASSUME NEW s \in Sockets, Authenticate(s), Served PROVE QueriesKept
    BY <1>1 DEF clientVars, Shows
  <1>2. ASSUME NEW s \in Sockets, Accept(s), Served PROVE QueriesKept
    BY <1>2 DEF clientVars, Shows
  <1>3. ASSUME NEW s \in Sockets, AcceptFails(s), Served PROVE QueriesKept
    BY <1>3 DEF clientVars, Shows
  <1>4. ASSUME NEW s \in Sockets, Register(s), Served PROVE QueriesKept
    BY <1>4 DEF clientVars, Shows
  <1>5. ASSUME NEW s \in Sockets, Serve(s), Served PROVE QueriesKept
    BY <1>5 DEF clientVars, Shows
  <1>6. ASSUME NEW s \in Sockets, StartFails(s), Served PROVE QueriesKept
    BY <1>6 DEF clientVars, Shows
  <1>7. ASSUME NEW s \in Sockets, Refuse(s), Served PROVE QueriesKept
    BY <1>7 DEF clientVars, Shows
  <1>8. ASSUME NEW s \in Sockets, Leave(s), Served PROVE QueriesKept
    BY <1>8 DEF clientVars, Shows
  <1>9. ASSUME NEW s \in Sockets, Unregister(s), Served PROVE QueriesKept
    BY <1>9 DEF clientVars, Shows
  <1>10. ASSUME NEW s \in Sockets, Subscribed(s), Served PROVE QueriesKept
    BY <1>10 DEF clientVars, Shows
  <1>11. ASSUME NEW s \in Sockets, SubscribeFails(s), Served PROVE QueriesKept
    BY <1>11 DEF clientVars, Shows
  <1>12. ASSUME NEW s \in Sockets, Lose(s), Served PROVE QueriesKept
    BY <1>12 DEF clientVars, Shows
  <1>13. ASSUME NEW s \in Sockets, Recover(s), Served PROVE QueriesKept
    BY <1>13 DEF clientVars, Shows
  <1>14. ASSUME NEW s \in Sockets, Resubscribe(s), Served PROVE QueriesKept
    BY <1>14 DEF clientVars, Shows
  <1>15. ASSUME NEW s \in Sockets, Cancelled(s), Served PROVE QueriesKept
    BY <1>15 DEF clientVars, Shows
  <1>16. ASSUME NEW s \in Sockets, Receive(s), Served PROVE QueriesKept
    BY <1>16 DEF clientVars, Shows
  <1>17. ASSUME NEW s \in Sockets, HangUp(s), Served PROVE QueriesKept
    BY <1>17 DEF clientVars, Shows
  <1>18. ASSUME NEW s \in Sockets, Drop(s), Served PROVE QueriesKept
    BY <1>18 DEF clientVars, Shows
  <1>19. ASSUME NEW s \in Sockets, NEW u \in Users, Dial(s, u), Served PROVE QueriesKept
    BY <1>19 DEF clientVars, Shows
  <1>20. ASSUME NEW u \in Users, Remove(u), Served PROVE QueriesKept
    BY <1>20 DEF clientVars, Shows
  <1>21. ASSUME NEW u \in Users, RevokeLocally(u), Served PROVE QueriesKept
    BY <1>21 DEF clientVars, Shows
  <1>22. ASSUME NEW u \in Users, PublishRevocation(u), Served PROVE QueriesKept
    BY <1>22 DEF clientVars, Shows
  <1>23. CASE Commit /\ Served
    BY <1>23 DEF clientVars, Shows
  <1>24. ASSUME NEW n \in Sequences, Publish(n), Served PROVE QueriesKept
    BY <1>24 DEF clientVars, Shows
  <1>25. ASSUME NEW n \in Sequences, PublishFails(n), Served PROVE QueriesKept
    BY <1>25 DEF clientVars, Shows
  <1>26. CASE Restart /\ Served
    BY <1>26 DEF clientVars, Shows
  <1>27. CASE Timer /\ Client
    BY <1>27 DEF Timer, Shows, clientVars
  <1>28. CASE OnOpen /\ Client
    BY <1>28 DEF OnOpen, Refresh, Refreshed, Shows
  <1>29. CASE OnEvent /\ Client
    <2> DEFINE n == Head(wire[socket]).seq
    <2>1. (Accepted(n) \/ Stale(n) \/ Gap(n)) /\ view' = view
      BY <1>29 DEF OnEvent
    <2> HIDE DEF n
    <2>2. CASE Stale(n)
      BY <2>1, <2>2 DEF Stale, Shows
    <2>3. CASE Gap(n)
      BY <2>1, <2>3 DEF Gap, Refresh, Refreshed, Shows
    <2>4. CASE Accepted(n)
      <3>1. /\ cached' \subseteq cached
            /\ \A p \in Queries : p \in cached' => fetch'[p] = fetch[p] \/ fetch'[p] = "sent"
        BY <2>4 DEF Accepted, Synchronize, Refreshed, Shapes, ClientTypeOK
      <3>2. QED
        BY <2>1, <3>1 DEF Shows
    <2>5. QED
      BY <2>1, <2>2, <2>3, <2>4
  <1>30. CASE OnClose /\ Client
    BY <1>30 DEF OnClose, Shows, clientVars
  <1>31. CASE Foreground /\ Client
    BY <1>31 DEF Foreground, Refresh, Refreshed, Shows
  <1>32. CASE Background /\ Client
    BY <1>32 DEF Background, Shows
  <1>33. CASE Remount /\ Client
    BY <1>33 DEF Remount, Shows
  <1>34. CASE Expire /\ Client
    BY <1>34 DEF Expire, Shows, clientVars
  <1>35. ASSUME NEW q \in Queries, Answer(q), Client PROVE QueriesKept
    <2>1. /\ view' = [view EXCEPT ![q] = Len(log)] /\ fetch' = [fetch EXCEPT ![q] = "idle"] /\ cached' = cached
      BY <1>35 DEF Answer
    <2>2. QED
      BY <2>1, LogTyped DEF Shows, Shapes, ClientTypeOK
  <1>36. ASSUME NEW q \in Queries, Fails(q), Client PROVE QueriesKept
    <2>1. fetch' = [fetch EXCEPT ![q] = "failed"] /\ view' = view /\ cached' = cached
      BY <1>36 DEF Fails
    <2>2. QED
      BY <2>1 DEF Shows, Shapes, ClientTypeOK
  <1>37. CASE UNCHANGED vars
    BY <1>37 DEF vars, clientVars, Shows
  <1>38. QED
    BY <1>1, <1>2, <1>3, <1>4, <1>5, <1>6, <1>7, <1>8, <1>9, <1>10, <1>11, <1>12, <1>13, <1>14,
       <1>15, <1>16, <1>17, <1>18, <1>19, <1>20, <1>21, <1>22, <1>23, <1>24, <1>25, <1>26, <1>27,
       <1>28, <1>29, <1>30, <1>31, <1>32, <1>33, <1>34, <1>35, <1>36, <1>37 DEF Next, ServerNext,
       ClientNext, Served, Client

LEMMA ShowsKept ==
  ASSUME Shapes, [Next]_vars
  PROVE  \A p \in Queries : \A m \in 1..Len(log) : Shows(p, m) => Shows(p, m)'
  BY ShowsKeptStep DEF QueriesKept

(* The phone is sent events that Redis has delivered. *)
EventsFromRedis ==
  \A r \in Sockets : \A m \in Sequences : Has(wire'[r], EventMessage(m)) =>
             Has(wire[r], EventMessage(m)) \/ (\E t \in Sockets : Has(inbox[t], EventNotice(m)))

LEMMA WireEventsStep ==
  ASSUME Shapes, [Next]_vars
  PROVE  EventsFromRedis
  <1> USE DEF Served, Client, serverVars, handlerVars, subscriptionVars, publisherVars, clientVars,
     EventsFromRedis
  <1>1. ASSUME NEW s \in Sockets, Authenticate(s), Served PROVE EventsFromRedis
    <2>1. CASE Admit(s)
      BY <2>1 DEF Admit
    <2>2. CASE Reject(s)
      BY <2>2, EventsRejected DEF NoEventAdded
    <2>3. QED
      BY <1>1, <2>1, <2>2 DEF Authenticate
  <1>2. ASSUME NEW s \in Sockets, Accept(s), Served PROVE EventsFromRedis
    BY <1>2, EventsSent, Different DEF Accept
  <1>3. ASSUME NEW s \in Sockets, AcceptFails(s), Served PROVE EventsFromRedis
    BY <1>3 DEF AcceptFails
  <1>4. ASSUME NEW s \in Sockets, Register(s), Served PROVE EventsFromRedis
    BY <1>4 DEF Register
  <1>5. ASSUME NEW s \in Sockets, Serve(s), Served PROVE EventsFromRedis
    BY <1>5 DEF Serve
  <1>6. ASSUME NEW s \in Sockets, StartFails(s), Served PROVE EventsFromRedis
    BY <1>6 DEF StartFails
  <1>7. ASSUME NEW s \in Sockets, Refuse(s), Served PROVE EventsFromRedis
    BY <1>7, EventsClosed, CodesGiven DEF Refuse, NoEventAdded
  <1>8. ASSUME NEW s \in Sockets, Leave(s), Served PROVE EventsFromRedis
    BY <1>8 DEF Leave
  <1>9. ASSUME NEW s \in Sockets, Unregister(s), Served PROVE EventsFromRedis
    BY <1>9 DEF Unregister
  <1>10. ASSUME NEW s \in Sockets, Subscribed(s), Served PROVE EventsFromRedis
    BY <1>10 DEF Subscribed
  <1>11. ASSUME NEW s \in Sockets, SubscribeFails(s), Served PROVE EventsFromRedis
    BY <1>11 DEF SubscribeFails
  <1>12. ASSUME NEW s \in Sockets, Lose(s), Served PROVE EventsFromRedis
    BY <1>12 DEF Lose
  <1>13. ASSUME NEW s \in Sockets, Recover(s), Served PROVE EventsFromRedis
    BY <1>13, EventsClosed, CodesGiven DEF Recover, NoEventAdded
  <1>14. ASSUME NEW s \in Sockets, Resubscribe(s), Served PROVE EventsFromRedis
    BY <1>14 DEF Resubscribe
  <1>15. ASSUME NEW s \in Sockets, Cancelled(s), Served PROVE EventsFromRedis
    BY <1>15 DEF Cancelled
  <1>16. ASSUME NEW s \in Sockets, Receive(s), Served PROVE EventsFromRedis
    <2>1. ASSUME NEW n \in Sequences, Broadcast(n), Has(inbox[s], EventNotice(n)) PROVE EventsFromRedis
      BY <2>1, EventsSent, Different DEF Broadcast
    <2>2. ASSUME NEW u \in Users, DisconnectUser(u) PROVE EventsFromRedis
      BY <2>2, EventsClosed, CodesGiven DEF DisconnectUser, NoEventAdded
    <2>3. QED
      BY <1>16, <2>1, <2>2, ReceivedNotice
  <1>17. ASSUME NEW s \in Sockets, HangUp(s), Served PROVE EventsFromRedis
    BY <1>17 DEF HangUp
  <1>18. ASSUME NEW s \in Sockets, Drop(s), Served PROVE EventsFromRedis
    BY <1>18, EventsBroken DEF Drop, NoEventAdded
  <1>19. ASSUME NEW s \in Sockets, NEW u \in Users, Dial(s, u), Served PROVE EventsFromRedis
    BY <1>19 DEF Dial
  <1>20. ASSUME NEW u \in Users, Remove(u), Served PROVE EventsFromRedis
    BY <1>20 DEF Remove
  <1>21. ASSUME NEW u \in Users, RevokeLocally(u), Served PROVE EventsFromRedis
    BY <1>21, EventsClosed, CodesGiven DEF RevokeLocally, DisconnectUser, NoEventAdded
  <1>22. ASSUME NEW u \in Users, PublishRevocation(u), Served PROVE EventsFromRedis
    BY <1>22 DEF PublishRevocation
  <1>23. CASE Commit /\ Served
    BY <1>23 DEF Commit
  <1>24. ASSUME NEW n \in Sequences, Publish(n), Served PROVE EventsFromRedis
    BY <1>24 DEF Publish
  <1>25. ASSUME NEW n \in Sequences, PublishFails(n), Served PROVE EventsFromRedis
    BY <1>25 DEF PublishFails
  <1>26. CASE Restart /\ Served
    BY <1>26, EventsBroken DEF Restart, NoEventAdded
  <1>27. CASE Timer /\ Client
    BY <1>27 DEF Timer
  <1>28. CASE OnOpen /\ Client
    <2>1. NextMessage("open")
      BY <1>28 DEF OnOpen
    <2>2. QED
      BY <2>1, NextMessageHas
  <1>29. CASE OnEvent /\ Client
    <2>1. NextMessage("event")
      BY <1>29 DEF OnEvent
    <2>2. QED
      BY <2>1, NextMessageHas
  <1>30. CASE OnClose /\ Client
    <2>1. NextMessage("close")
      BY <1>30 DEF OnClose
    <2>2. QED
      BY <2>1, NextMessageHas
  <1>31. CASE Foreground /\ Client
    BY <1>31 DEF Foreground
  <1>32. CASE Background /\ Client
    <2>1. \A r \in Sockets : wire'[r] = wire[r] \/ wire'[r] = <<>>
      BY <1>32 DEF Background, Disconnect, CloseByPhone
    <2>2. QED
      BY <2>1, EmptyHas
  <1>33. CASE Remount /\ Client
    <2>1. \A r \in Sockets : wire'[r] = wire[r] \/ wire'[r] = <<>>
      BY <1>33 DEF Remount, CloseByPhone
    <2>2. QED
      BY <2>1, EmptyHas
  <1>34. CASE Expire /\ Client
    BY <1>34 DEF Expire
  <1>35. ASSUME NEW q \in Queries, Answer(q), Client PROVE EventsFromRedis
    BY <1>35 DEF Answer
  <1>36. ASSUME NEW q \in Queries, Fails(q), Client PROVE EventsFromRedis
    BY <1>36 DEF Fails
  <1>37. CASE UNCHANGED vars
    BY <1>37 DEF vars
  <1>38. QED
    BY <1>1, <1>2, <1>3, <1>4, <1>5, <1>6, <1>7, <1>8, <1>9, <1>10, <1>11, <1>12, <1>13, <1>14,
       <1>15, <1>16, <1>17, <1>18, <1>19, <1>20, <1>21, <1>22, <1>23, <1>24, <1>25, <1>26, <1>27,
       <1>28, <1>29, <1>30, <1>31, <1>32, <1>33, <1>34, <1>35, <1>36, <1>37 DEF Next, ServerNext,
       ClientNext, Served, Client

LEMMA WireEvents ==
  ASSUME Shapes, [Next]_vars
  PROVE  \A r \in Sockets : \A m \in Sequences : Has(wire'[r], EventMessage(m)) =>
             Has(wire[r], EventMessage(m)) \/ (\E t \in Sockets : Has(inbox[t], EventNotice(m)))
  BY WireEventsStep DEF EventsFromRedis

(* Redis delivers events that were committed. *)
EventsFromCommits ==
  \A t \in Sockets : \A m \in Sequences : Has(inbox'[t], EventNotice(m)) =>
             Has(inbox[t], EventNotice(m)) \/ m \in unpublished

LEMMA InboxEventsStep ==
  ASSUME Shapes, ReferencesCounted, [Next]_vars
  PROVE  EventsFromCommits
  <1> USE DEF Served, Client, serverVars, handlerVars, subscriptionVars, publisherVars, clientVars,
     EventsFromCommits
  <1>1. ASSUME NEW s \in Sockets, Authenticate(s), Served PROVE EventsFromCommits
    BY <1>1 DEF Authenticate
  <1>2. ASSUME NEW s \in Sockets, Accept(s), Served PROVE EventsFromCommits
    BY <1>2 DEF Accept
  <1>3. ASSUME NEW s \in Sockets, AcceptFails(s), Served PROVE EventsFromCommits
    BY <1>3 DEF AcceptFails
  <1>4. ASSUME NEW s \in Sockets, Register(s), Served PROVE EventsFromCommits
    BY <1>4 DEF Register
  <1>5. ASSUME NEW s \in Sockets, Serve(s), Served PROVE EventsFromCommits
    BY <1>5 DEF Serve
  <1>6. ASSUME NEW s \in Sockets, StartFails(s), Served PROVE EventsFromCommits
    <2>1. \A t \in Sockets : inbox'[t] = inbox[t] \/ inbox'[t] = <<>>
      BY <1>6, ReleaseDoes DEF StartFails, Shapes, ServerShapes
    <2>2. QED
      BY <2>1, EmptyHas
  <1>7. ASSUME NEW s \in Sockets, Refuse(s), Served PROVE EventsFromCommits
    BY <1>7 DEF Refuse
  <1>8. ASSUME NEW s \in Sockets, Leave(s), Served PROVE EventsFromCommits
    <2>1. \A t \in Sockets : inbox'[t] = inbox[t] \/ inbox'[t] = <<>>
      BY <1>8, ReleaseDoes DEF Leave, Shapes, ServerShapes
    <2>2. QED
      BY <2>1, EmptyHas
  <1>9. ASSUME NEW s \in Sockets, Unregister(s), Served PROVE EventsFromCommits
    BY <1>9 DEF Unregister
  <1>10. ASSUME NEW s \in Sockets, Subscribed(s), Served PROVE EventsFromCommits
    BY <1>10 DEF Subscribed
  <1>11. ASSUME NEW s \in Sockets, SubscribeFails(s), Served PROVE EventsFromCommits
    BY <1>11 DEF SubscribeFails
  <1>12. ASSUME NEW s \in Sockets, Lose(s), Served PROVE EventsFromCommits
    <2>1. \A t \in Sockets : inbox'[t] = inbox[t] \/ inbox'[t] = <<>>
      BY <1>12 DEF Lose, Shapes, ServerShapes
    <2>2. QED
      BY <2>1, EmptyHas
  <1>13. ASSUME NEW s \in Sockets, Recover(s), Served PROVE EventsFromCommits
    BY <1>13 DEF Recover
  <1>14. ASSUME NEW s \in Sockets, Resubscribe(s), Served PROVE EventsFromCommits
    BY <1>14 DEF Resubscribe
  <1>15. ASSUME NEW s \in Sockets, Cancelled(s), Served PROVE EventsFromCommits
    BY <1>15 DEF Cancelled
  <1>16. ASSUME NEW s \in Sockets, Receive(s), Served PROVE EventsFromCommits
    BY <1>16, ReceivedNotice
  <1>17. ASSUME NEW s \in Sockets, HangUp(s), Served PROVE EventsFromCommits
    BY <1>17 DEF HangUp
  <1>18. ASSUME NEW s \in Sockets, Drop(s), Served PROVE EventsFromCommits
    BY <1>18 DEF Drop
  <1>19. ASSUME NEW s \in Sockets, NEW u \in Users, Dial(s, u), Served PROVE EventsFromCommits
    BY <1>19 DEF Dial
  <1>20. ASSUME NEW u \in Users, Remove(u), Served PROVE EventsFromCommits
    BY <1>20 DEF Remove
  <1>21. ASSUME NEW u \in Users, RevokeLocally(u), Served PROVE EventsFromCommits
    BY <1>21 DEF RevokeLocally
  <1>22. ASSUME NEW u \in Users, PublishRevocation(u), Served PROVE EventsFromCommits
    <2>1. CASE inbox' = Delivered(RevokedNotice(u))
      <3>1. RevokedNotice(u) \in Notices
        BY NoticesDiffer
      <3>2. \A t \in Sockets : \A m : Has(inbox'[t], m) => Has(inbox[t], m) \/ m = RevokedNotice(u)
        BY <2>1, <3>1, DeliveredHas
      <3>3. QED
        BY <3>2, NoticesDiffer
    <2>2. CASE inbox' = inbox
      BY <2>2
    <2>3. QED
      BY <1>22, <2>1, <2>2 DEF PublishRevocation
  <1>23. CASE Commit /\ Served
    BY <1>23 DEF Commit
  <1>24. ASSUME NEW n \in Sequences, Publish(n), Served PROVE EventsFromCommits
    <2>1. inbox' = Delivered(EventNotice(n)) /\ EventNotice(n) \in Notices /\ n \in unpublished
      BY <1>24, NoticesDiffer DEF Publish
    <2>2. \A t \in Sockets : \A m : Has(inbox'[t], m) => Has(inbox[t], m) \/ m = EventNotice(n)
      BY <2>1, DeliveredHas
    <2>3. QED
      BY <2>1, <2>2, NoticesDiffer
  <1>25. ASSUME NEW n \in Sequences, PublishFails(n), Served PROVE EventsFromCommits
    BY <1>25 DEF PublishFails
  <1>26. CASE Restart /\ Served
    <2>1. \A t \in Sockets : inbox'[t] = inbox[t] \/ inbox'[t] = <<>>
      BY <1>26 DEF Restart, Shapes, ServerShapes
    <2>2. QED
      BY <2>1, EmptyHas
  <1>27. CASE Timer /\ Client
    BY <1>27 DEF Timer
  <1>28. CASE OnOpen /\ Client
    BY <1>28 DEF OnOpen
  <1>29. CASE OnEvent /\ Client
    BY <1>29 DEF OnEvent
  <1>30. CASE OnClose /\ Client
    BY <1>30 DEF OnClose
  <1>31. CASE Foreground /\ Client
    BY <1>31 DEF Foreground
  <1>32. CASE Background /\ Client
    BY <1>32 DEF Background
  <1>33. CASE Remount /\ Client
    BY <1>33 DEF Remount
  <1>34. CASE Expire /\ Client
    BY <1>34 DEF Expire
  <1>35. ASSUME NEW q \in Queries, Answer(q), Client PROVE EventsFromCommits
    BY <1>35 DEF Answer
  <1>36. ASSUME NEW q \in Queries, Fails(q), Client PROVE EventsFromCommits
    BY <1>36 DEF Fails
  <1>37. CASE UNCHANGED vars
    BY <1>37 DEF vars
  <1>38. QED
    BY <1>1, <1>2, <1>3, <1>4, <1>5, <1>6, <1>7, <1>8, <1>9, <1>10, <1>11, <1>12, <1>13, <1>14,
       <1>15, <1>16, <1>17, <1>18, <1>19, <1>20, <1>21, <1>22, <1>23, <1>24, <1>25, <1>26, <1>27,
       <1>28, <1>29, <1>30, <1>31, <1>32, <1>33, <1>34, <1>35, <1>36, <1>37 DEF Next, ServerNext,
       ClientNext, Served, Client

LEMMA InboxEvents ==
  ASSUME Shapes, ReferencesCounted, [Next]_vars
  PROVE  \A t \in Sockets : \A m \in Sequences : Has(inbox'[t], EventNotice(m)) =>
             Has(inbox[t], EventNotice(m)) \/ m \in unpublished
  BY InboxEventsStep DEF EventsFromCommits

(* Only what has been committed becomes due. *)
DueFromCommits ==
  due' \subseteq due \union unpublished /\ unpublished' \subseteq unpublished \union 1..Len(log')

LEMMA DueMovesStep ==
  ASSUME Shapes, [Next]_vars
  PROVE  DueFromCommits
  <1> USE DEF Served, Client, serverVars, handlerVars, subscriptionVars, publisherVars, clientVars,
     DueFromCommits
  <1>1. ASSUME NEW s \in Sockets, Authenticate(s), Served PROVE DueFromCommits
    BY <1>1 DEF Authenticate
  <1>2. ASSUME NEW s \in Sockets, Accept(s), Served PROVE DueFromCommits
    BY <1>2 DEF Accept
  <1>3. ASSUME NEW s \in Sockets, AcceptFails(s), Served PROVE DueFromCommits
    BY <1>3 DEF AcceptFails
  <1>4. ASSUME NEW s \in Sockets, Register(s), Served PROVE DueFromCommits
    BY <1>4 DEF Register
  <1>5. ASSUME NEW s \in Sockets, Serve(s), Served PROVE DueFromCommits
    BY <1>5 DEF Serve
  <1>6. ASSUME NEW s \in Sockets, StartFails(s), Served PROVE DueFromCommits
    BY <1>6 DEF StartFails
  <1>7. ASSUME NEW s \in Sockets, Refuse(s), Served PROVE DueFromCommits
    BY <1>7 DEF Refuse
  <1>8. ASSUME NEW s \in Sockets, Leave(s), Served PROVE DueFromCommits
    BY <1>8 DEF Leave
  <1>9. ASSUME NEW s \in Sockets, Unregister(s), Served PROVE DueFromCommits
    BY <1>9 DEF Unregister
  <1>10. ASSUME NEW s \in Sockets, Subscribed(s), Served PROVE DueFromCommits
    BY <1>10 DEF Subscribed
  <1>11. ASSUME NEW s \in Sockets, SubscribeFails(s), Served PROVE DueFromCommits
    BY <1>11 DEF SubscribeFails
  <1>12. ASSUME NEW s \in Sockets, Lose(s), Served PROVE DueFromCommits
    BY <1>12 DEF Lose
  <1>13. ASSUME NEW s \in Sockets, Recover(s), Served PROVE DueFromCommits
    BY <1>13 DEF Recover
  <1>14. ASSUME NEW s \in Sockets, Resubscribe(s), Served PROVE DueFromCommits
    BY <1>14 DEF Resubscribe
  <1>15. ASSUME NEW s \in Sockets, Cancelled(s), Served PROVE DueFromCommits
    BY <1>15 DEF Cancelled
  <1>16. ASSUME NEW s \in Sockets, Receive(s), Served PROVE DueFromCommits
    BY <1>16 DEF Receive
  <1>17. ASSUME NEW s \in Sockets, HangUp(s), Served PROVE DueFromCommits
    BY <1>17 DEF HangUp
  <1>18. ASSUME NEW s \in Sockets, Drop(s), Served PROVE DueFromCommits
    BY <1>18 DEF Drop
  <1>19. ASSUME NEW s \in Sockets, NEW u \in Users, Dial(s, u), Served PROVE DueFromCommits
    BY <1>19 DEF Dial
  <1>20. ASSUME NEW u \in Users, Remove(u), Served PROVE DueFromCommits
    BY <1>20 DEF Remove
  <1>21. ASSUME NEW u \in Users, RevokeLocally(u), Served PROVE DueFromCommits
    BY <1>21 DEF RevokeLocally
  <1>22. ASSUME NEW u \in Users, PublishRevocation(u), Served PROVE DueFromCommits
    BY <1>22 DEF PublishRevocation
  <1>23. CASE Commit /\ Served
    <2>1. log' = Append(log, story.script[Len(log) + 1]) /\ log \in Seq(Events) /\ Len(log) \in Nat
      BY <1>23 DEF Commit, Shapes, DataTypeOK
    <2>2. Len(log') = Len(log) + 1
      BY <2>1
    <2>3. QED
      BY <1>23, <2>1, <2>2 DEF Commit
  <1>24. ASSUME NEW n \in Sequences, Publish(n), Served PROVE DueFromCommits
    BY <1>24 DEF Publish
  <1>25. ASSUME NEW n \in Sequences, PublishFails(n), Served PROVE DueFromCommits
    BY <1>25 DEF PublishFails
  <1>26. CASE Restart /\ Served
    BY <1>26 DEF Restart
  <1>27. CASE Timer /\ Client
    BY <1>27 DEF Timer, OpenSocket
  <1>28. CASE OnOpen /\ Client
    BY <1>28 DEF OnOpen
  <1>29. CASE OnEvent /\ Client
    BY <1>29 DEF OnEvent
  <1>30. CASE OnClose /\ Client
    BY <1>30 DEF OnClose
  <1>31. CASE Foreground /\ Client
    BY <1>31 DEF Foreground, Connect, OpenSocket
  <1>32. CASE Background /\ Client
    BY <1>32 DEF Background
  <1>33. CASE Remount /\ Client
    BY <1>33 DEF Remount, Connect, OpenSocket
  <1>34. CASE Expire /\ Client
    BY <1>34 DEF Expire
  <1>35. ASSUME NEW q \in Queries, Answer(q), Client PROVE DueFromCommits
    BY <1>35 DEF Answer
  <1>36. ASSUME NEW q \in Queries, Fails(q), Client PROVE DueFromCommits
    BY <1>36 DEF Fails
  <1>37. CASE UNCHANGED vars
    BY <1>37 DEF vars
  <1>38. QED
    BY <1>1, <1>2, <1>3, <1>4, <1>5, <1>6, <1>7, <1>8, <1>9, <1>10, <1>11, <1>12, <1>13, <1>14,
       <1>15, <1>16, <1>17, <1>18, <1>19, <1>20, <1>21, <1>22, <1>23, <1>24, <1>25, <1>26, <1>27,
       <1>28, <1>29, <1>30, <1>31, <1>32, <1>33, <1>34, <1>35, <1>36, <1>37 DEF Next, ServerNext,
       ClientNext, Served, Client

LEMMA DueMoves ==
  ASSUME Shapes, [Next]_vars
  PROVE  due' \subseteq due \union unpublished /\ unpublished' \subseteq unpublished \union 1..Len(log')
  BY DueMovesStep DEF DueFromCommits

(* Only committed events are under way. *)
LEMMA NumberedStep ==
  ASSUME Shapes, ReferencesCounted, Numbered, [Next]_vars
  PROVE  Numbered'
  <1>1. Len(log) \in Nat /\ Len(log') \in Nat /\ Len(log) <= Len(log')
    BY LogGrows, LogTyped
  <1>2. due \subseteq Nat /\ unpublished \subseteq Nat /\ Sequences \subseteq Nat
    BY DEF Shapes, DataTypeOK, ServerShapes, Sequences
  <1>3. ASSUME NEW n \in due' \union unpublished' PROVE n <= Len(log')
    <2>1. n \in 1..Len(log') \/ n \in due \union unpublished
      BY <1>3, DueMoves
    <2>2. CASE n \in 1..Len(log')
      BY <1>1, <2>2
    <2>3. CASE n \in due \union unpublished
      <3>1. n \in Nat /\ n <= Len(log)
        BY <1>2, <2>3 DEF Numbered
      <3>2. QED
        BY <1>1, <3>1
    <2>4. QED
      BY <2>1, <2>2, <2>3
  <1>4. ASSUME NEW s \in Sockets, NEW n \in Sequences,
               Has(inbox'[s], EventNotice(n)) \/ Has(wire'[s], EventMessage(n))
        PROVE  n <= Len(log')
    <2>1. \/ n \in unpublished \/ Has(wire[s], EventMessage(n))
          \/ \E t \in Sockets : Has(inbox[t], EventNotice(n))
      BY <1>4, WireEvents, InboxEvents
    <2>2. n <= Len(log)
      BY <2>1 DEF Numbered
    <2>3. QED
      BY <1>1, <1>2, <2>2
  <1>5. QED
    BY <1>3, <1>4 DEF Numbered

(* What the tracker has seen, the queries show. *)
LEMMA TrackedStep ==
  ASSUME Shapes, Numbered, Tracked, [Next]_vars
  PROVE  Tracked'
  <1> USE DEF Served, Client
  <1>1. ASSUME NEW s \in Sockets, Authenticate(s), Served PROVE Tracked'
    BY <1>1, LogGrows, ShowsKept, TrackedFrame DEF clientVars
  <1>2. ASSUME NEW s \in Sockets, Accept(s), Served PROVE Tracked'
    BY <1>2, LogGrows, ShowsKept, TrackedFrame DEF clientVars
  <1>3. ASSUME NEW s \in Sockets, AcceptFails(s), Served PROVE Tracked'
    BY <1>3, LogGrows, ShowsKept, TrackedFrame DEF clientVars
  <1>4. ASSUME NEW s \in Sockets, Register(s), Served PROVE Tracked'
    BY <1>4, LogGrows, ShowsKept, TrackedFrame DEF clientVars
  <1>5. ASSUME NEW s \in Sockets, Serve(s), Served PROVE Tracked'
    BY <1>5, LogGrows, ShowsKept, TrackedFrame DEF clientVars
  <1>6. ASSUME NEW s \in Sockets, StartFails(s), Served PROVE Tracked'
    BY <1>6, LogGrows, ShowsKept, TrackedFrame DEF clientVars
  <1>7. ASSUME NEW s \in Sockets, Refuse(s), Served PROVE Tracked'
    BY <1>7, LogGrows, ShowsKept, TrackedFrame DEF clientVars
  <1>8. ASSUME NEW s \in Sockets, Leave(s), Served PROVE Tracked'
    BY <1>8, LogGrows, ShowsKept, TrackedFrame DEF clientVars
  <1>9. ASSUME NEW s \in Sockets, Unregister(s), Served PROVE Tracked'
    BY <1>9, LogGrows, ShowsKept, TrackedFrame DEF clientVars
  <1>10. ASSUME NEW s \in Sockets, Subscribed(s), Served PROVE Tracked'
    BY <1>10, LogGrows, ShowsKept, TrackedFrame DEF clientVars
  <1>11. ASSUME NEW s \in Sockets, SubscribeFails(s), Served PROVE Tracked'
    BY <1>11, LogGrows, ShowsKept, TrackedFrame DEF clientVars
  <1>12. ASSUME NEW s \in Sockets, Lose(s), Served PROVE Tracked'
    BY <1>12, LogGrows, ShowsKept, TrackedFrame DEF clientVars
  <1>13. ASSUME NEW s \in Sockets, Recover(s), Served PROVE Tracked'
    BY <1>13, LogGrows, ShowsKept, TrackedFrame DEF clientVars
  <1>14. ASSUME NEW s \in Sockets, Resubscribe(s), Served PROVE Tracked'
    BY <1>14, LogGrows, ShowsKept, TrackedFrame DEF clientVars
  <1>15. ASSUME NEW s \in Sockets, Cancelled(s), Served PROVE Tracked'
    BY <1>15, LogGrows, ShowsKept, TrackedFrame DEF clientVars
  <1>16. ASSUME NEW s \in Sockets, Receive(s), Served PROVE Tracked'
    BY <1>16, LogGrows, ShowsKept, TrackedFrame DEF clientVars
  <1>17. ASSUME NEW s \in Sockets, HangUp(s), Served PROVE Tracked'
    BY <1>17, LogGrows, ShowsKept, TrackedFrame DEF clientVars
  <1>18. ASSUME NEW s \in Sockets, Drop(s), Served PROVE Tracked'
    BY <1>18, LogGrows, ShowsKept, TrackedFrame DEF clientVars
  <1>19. ASSUME NEW s \in Sockets, NEW u \in Users, Dial(s, u), Served PROVE Tracked'
    BY <1>19, LogGrows, ShowsKept, TrackedFrame DEF clientVars
  <1>20. ASSUME NEW u \in Users, Remove(u), Served PROVE Tracked'
    BY <1>20, LogGrows, ShowsKept, TrackedFrame DEF clientVars
  <1>21. ASSUME NEW u \in Users, RevokeLocally(u), Served PROVE Tracked'
    BY <1>21, LogGrows, ShowsKept, TrackedFrame DEF clientVars
  <1>22. ASSUME NEW u \in Users, PublishRevocation(u), Served PROVE Tracked'
    BY <1>22, LogGrows, ShowsKept, TrackedFrame DEF clientVars
  <1>23. CASE Commit /\ Served
    BY <1>23, LogGrows, ShowsKept, TrackedFrame DEF clientVars
  <1>24. ASSUME NEW n \in Sequences, Publish(n), Served PROVE Tracked'
    BY <1>24, LogGrows, ShowsKept, TrackedFrame DEF clientVars
  <1>25. ASSUME NEW n \in Sequences, PublishFails(n), Served PROVE Tracked'
    BY <1>25, LogGrows, ShowsKept, TrackedFrame DEF clientVars
  <1>26. CASE Restart /\ Served
    BY <1>26, LogGrows, ShowsKept, TrackedFrame DEF clientVars
  <1>27. CASE Timer /\ Client
    BY <1>27, LogGrows, ShowsKept, TrackedFrame DEF Timer, clientVars
  <1>28. CASE OnOpen /\ Client
    <2>1. CASE ResetTracker
      <3>1. latest' = 0 /\ base' = 0 /\ Len(log') \in Nat
        BY <2>1, LogGrows DEF ResetTracker
      <3>2. QED
        BY <3>1, BoundsAssumption DEF Tracked, Sequences
    <2>2. CASE UNCHANGED <<latest, base, cached, fetch>>
      BY <2>2, LogGrows, ShowsKept, TrackedFrame
    <2>3. QED
      BY <1>28, <2>1, <2>2 DEF OnOpen
  <1>29. CASE OnEvent /\ Client
    <2>0. PICK n \in Sequences : n = Head(wire[socket]).seq
      BY <1>29, OnEventNumber
    <2>1. /\ Accepted(n) \/ Stale(n) \/ Gap(n)
          /\ log' = log /\ view' = view
      BY <1>29, <2>0 DEF OnEvent
    <2>2. n \in Sequences /\ n <= Len(log)
      <3>1. socket \in Sockets
        BY <1>29, NextMessageHas DEF OnEvent
      <3>2. QED
        BY <1>29, <2>0, <3>1, OnEventNumber DEF Numbered
    <2>3. /\ n \in Nat /\ n > 0 /\ n \in 1..Len(log) /\ n \in 1..MaxEvents /\ Len(log) \in Nat
          /\ latest \in Nat /\ base \in Nat /\ List \in Queries
      BY <2>2, LogTyped DEF Sequences, Shapes, ClientTypeOK, Queries
    <2>4. CASE Stale(n)
      BY <2>1, <2>4, LogGrows, ShowsKept, TrackedFrame DEF Stale
    <2>5. CASE Gap(n)
      <3>1. latest > 0 /\ latest' = n /\ base' = base /\ base <= n /\ base # 0
        BY <2>3, <2>5 DEF Gap, Tracked
      <3>2. \A q \in Queries : \A m : Shows(q, m)'
        BY <2>5, RefreshedShows DEF Gap, Refresh
      <3>3. ASSUME NEW m \in Sequences, m <= n, log[m].kind = "change", NEW i, i = log[m].item PROVE Shows(i, m)'
        <4>1. m \in 1..Len(log)
          BY <2>2, <2>3, <3>3 DEF Sequences
        <4>2. i \in Queries
          BY <3>3, <4>1, LogTyped
        <4>3. QED
          BY <3>2, <4>2
      <3>4. (\A m \in Sequences :
               base <= m /\ m <= latest /\ log[m].kind = "change" => Shows(log[m].item, m))'
        BY <2>1, <3>1, <3>3 DEF Shows
      <3>5. (latest = 0 <=> base = 0)' /\ (base <= latest /\ latest <= Len(log))'
        BY <2>1, <2>2, <2>3, <3>1
      <3>6. (latest > 0 => Shows(List, latest))'
        BY <2>3, <3>2 DEF Shows
      <3>7. QED
        BY <3>4, <3>5, <3>6 DEF Tracked
    <2>6. CASE Accepted(n)
      <3>1. /\ latest' = n
            /\ latest = 0 \/ n = latest + 1
            /\ base' = IF latest = 0 THEN n ELSE base
            /\ Shows(List, n)'
            /\ \A i : log[n].kind = "change" /\ i = log[n].item => Shows(i, n)'
        BY <2>3, <2>6, Synced DEF Accepted
      <3>2. base' <= n /\ base' # 0 /\ base' \in Nat
        BY <2>3, <3>1 DEF Tracked
      <3>3. ASSUME NEW m \in Sequences, base' <= m, m <= n, log[m].kind = "change", NEW i, i = log[m].item
            PROVE  Shows(i, m)'
        <4>1. CASE m = n
          BY <3>1, <3>3, <4>1
        <4>2. CASE m # n
          <5>1. m \in Nat /\ m > 0 /\ m \in 1..Len(log) /\ base <= m /\ m <= latest
            BY <2>2, <2>3, <3>1, <3>3, <4>2 DEF Sequences
          <5>2. Shows(i, m) /\ i \in Queries
            BY <3>3, <5>1, LogTyped DEF Tracked
          <5>3. QED
            BY <5>1, <5>2, ShowsKept
        <4>3. QED
          BY <4>1, <4>2
      <3>4. (\A m \in Sequences :
               base <= m /\ m <= latest /\ log[m].kind = "change" => Shows(log[m].item, m))'
        BY <2>1, <3>1, <3>3 DEF Shows
      <3>5. (latest = 0 <=> base = 0)' /\ (base <= latest /\ latest <= Len(log))'
        BY <2>1, <2>2, <2>3, <3>1, <3>2
      <3>6. (latest > 0 => Shows(List, latest))'
        BY <3>1 DEF Shows
      <3>7. QED
        BY <3>4, <3>5, <3>6 DEF Tracked
    <2>7. QED
      BY <2>1, <2>4, <2>5, <2>6
  <1>30. CASE OnClose /\ Client
    BY <1>30, LogGrows, ShowsKept, TrackedFrame DEF OnClose, clientVars
  <1>31. CASE Foreground /\ Client
    <2>1. latest' = 0 /\ base' = 0 /\ Len(log') \in Nat
      BY <1>31, LogGrows DEF Foreground, ResetTracker
    <2>2. QED
      BY <2>1, BoundsAssumption DEF Tracked, Sequences
  <1>32. CASE Background /\ Client
    BY <1>32, LogGrows, ShowsKept, TrackedFrame DEF Background, clientVars
  <1>33. CASE Remount /\ Client
    <2>1. latest' = 0 /\ base' = 0 /\ Len(log') \in Nat
      BY <1>33, LogGrows DEF Remount, ResetTracker
    <2>2. QED
      BY <2>1, BoundsAssumption DEF Tracked, Sequences
  <1>34. CASE Expire /\ Client
    BY <1>34, LogGrows, ShowsKept, TrackedFrame DEF Expire, clientVars
  <1>35. ASSUME NEW q \in Queries, Answer(q), Client PROVE Tracked'
    BY <1>35, LogGrows, ShowsKept, TrackedFrame DEF Answer, clientVars
  <1>36. ASSUME NEW q \in Queries, Fails(q), Client PROVE Tracked'
    BY <1>36, LogGrows, ShowsKept, TrackedFrame DEF Fails, clientVars
  <1>37. CASE UNCHANGED vars
    BY <1>37, LogGrows, ShowsKept, TrackedFrame DEF vars, clientVars
  <1>38. QED
    BY <1>1, <1>2, <1>3, <1>4, <1>5, <1>6, <1>7, <1>8, <1>9, <1>10, <1>11, <1>12, <1>13, <1>14,
       <1>15, <1>16, <1>17, <1>18, <1>19, <1>20, <1>21, <1>22, <1>23, <1>24, <1>25, <1>26, <1>27,
       <1>28, <1>29, <1>30, <1>31, <1>32, <1>33, <1>34, <1>35, <1>36, <1>37 DEF Next, ServerNext,
       ClientNext, Served, Client

(* A socket leaves the registry when it is down. *)
RegistryKept ==
  \A r \in connections : r \in connections' \/ r \in down'

LEMMA ConnectionsKeptStep ==
  ASSUME Shapes, Named, Registered, [Next]_vars
  PROVE  RegistryKept
  <1> USE DEF Served, Client, serverVars, handlerVars, subscriptionVars, publisherVars, clientVars,
     RegistryKept
  <1>1. ASSUME NEW s \in Sockets, Authenticate(s), Served PROVE RegistryKept
    BY <1>1 DEF Authenticate
  <1>2. ASSUME NEW s \in Sockets, Accept(s), Served PROVE RegistryKept
    BY <1>2 DEF Accept
  <1>3. ASSUME NEW s \in Sockets, AcceptFails(s), Served PROVE RegistryKept
    BY <1>3 DEF AcceptFails
  <1>4. ASSUME NEW s \in Sockets, Register(s), Served PROVE RegistryKept
    BY <1>4 DEF Register
  <1>5. ASSUME NEW s \in Sockets, Serve(s), Served PROVE RegistryKept
    BY <1>5 DEF Serve
  <1>6. ASSUME NEW s \in Sockets, StartFails(s), Served PROVE RegistryKept
    BY <1>6 DEF StartFails
  <1>7. ASSUME NEW s \in Sockets, Refuse(s), Served PROVE RegistryKept
    BY <1>7 DEF Refuse
  <1>8. ASSUME NEW s \in Sockets, Leave(s), Served PROVE RegistryKept
    BY <1>8 DEF Leave
  <1>9. ASSUME NEW s \in Sockets, Unregister(s), Served PROVE RegistryKept
    BY <1>9 DEF Unregister, Named
  <1>10. ASSUME NEW s \in Sockets, Subscribed(s), Served PROVE RegistryKept
    BY <1>10 DEF Subscribed
  <1>11. ASSUME NEW s \in Sockets, SubscribeFails(s), Served PROVE RegistryKept
    BY <1>11 DEF SubscribeFails
  <1>12. ASSUME NEW s \in Sockets, Lose(s), Served PROVE RegistryKept
    BY <1>12 DEF Lose
  <1>13. ASSUME NEW s \in Sockets, Recover(s), Served PROVE RegistryKept
    BY <1>13 DEF Recover, Close
  <1>14. ASSUME NEW s \in Sockets, Resubscribe(s), Served PROVE RegistryKept
    BY <1>14 DEF Resubscribe
  <1>15. ASSUME NEW s \in Sockets, Cancelled(s), Served PROVE RegistryKept
    BY <1>15 DEF Cancelled
  <1>16. ASSUME NEW s \in Sockets, Receive(s), Served PROVE RegistryKept
    <2>1. CASE \E n \in Sequences : Broadcast(n)
      BY <2>1 DEF Broadcast
    <2>2. CASE \E u \in Users : DisconnectUser(u)
      BY <2>2 DEF DisconnectUser, Close
    <2>3. QED
      BY <1>16, <2>1, <2>2, ReceivedNotice
  <1>17. ASSUME NEW s \in Sockets, HangUp(s), Served PROVE RegistryKept
    BY <1>17 DEF HangUp
  <1>18. ASSUME NEW s \in Sockets, Drop(s), Served PROVE RegistryKept
    BY <1>18 DEF Drop
  <1>19. ASSUME NEW s \in Sockets, NEW u \in Users, Dial(s, u), Served PROVE RegistryKept
    BY <1>19 DEF Dial
  <1>20. ASSUME NEW u \in Users, Remove(u), Served PROVE RegistryKept
    BY <1>20 DEF Remove
  <1>21. ASSUME NEW u \in Users, RevokeLocally(u), Served PROVE RegistryKept
    BY <1>21 DEF RevokeLocally, DisconnectUser, Close
  <1>22. ASSUME NEW u \in Users, PublishRevocation(u), Served PROVE RegistryKept
    BY <1>22 DEF PublishRevocation
  <1>23. CASE Commit /\ Served
    BY <1>23 DEF Commit
  <1>24. ASSUME NEW n \in Sequences, Publish(n), Served PROVE RegistryKept
    BY <1>24 DEF Publish
  <1>25. ASSUME NEW n \in Sequences, PublishFails(n), Served PROVE RegistryKept
    BY <1>25 DEF PublishFails
  <1>26. CASE Restart /\ Served
    <2>1. \A r \in connections : r \in Sockets /\ owner[r] # None
      BY DEF Named, Registered, RegistryFollowsHandlers, Shapes, ServerShapes
    <2>2. QED
      BY <1>26, <2>1 DEF Restart, Break
  <1>27. CASE Timer /\ Client
    BY <1>27 DEF Timer
  <1>28. CASE OnOpen /\ Client
    BY <1>28 DEF OnOpen
  <1>29. CASE OnEvent /\ Client
    BY <1>29 DEF OnEvent
  <1>30. CASE OnClose /\ Client
    BY <1>30 DEF OnClose
  <1>31. CASE Foreground /\ Client
    BY <1>31 DEF Foreground
  <1>32. CASE Background /\ Client
    BY <1>32 DEF Background
  <1>33. CASE Remount /\ Client
    BY <1>33 DEF Remount
  <1>34. CASE Expire /\ Client
    BY <1>34 DEF Expire
  <1>35. ASSUME NEW q \in Queries, Answer(q), Client PROVE RegistryKept
    BY <1>35 DEF Answer
  <1>36. ASSUME NEW q \in Queries, Fails(q), Client PROVE RegistryKept
    BY <1>36 DEF Fails
  <1>37. CASE UNCHANGED vars
    BY <1>37 DEF vars
  <1>38. QED
    BY <1>1, <1>2, <1>3, <1>4, <1>5, <1>6, <1>7, <1>8, <1>9, <1>10, <1>11, <1>12, <1>13, <1>14,
       <1>15, <1>16, <1>17, <1>18, <1>19, <1>20, <1>21, <1>22, <1>23, <1>24, <1>25, <1>26, <1>27,
       <1>28, <1>29, <1>30, <1>31, <1>32, <1>33, <1>34, <1>35, <1>36, <1>37 DEF Next, ServerNext,
       ClientNext, Served, Client

LEMMA ConnectionsKept ==
  ASSUME Shapes, Named, Registered, [Next]_vars
  PROVE  \A r \in connections : r \in connections' \/ r \in down'
  BY ConnectionsKeptStep DEF RegistryKept

LEMMA DueFrame ==
  ASSUME Shapes, Named, Registered, DueIsServed, [Next]_vars,
         down \subseteq down', due' \subseteq due, socket' = socket
  PROVE  DueIsServed'
  <1>1. \A r \in connections : r \in connections' \/ r \in down'
    BY ConnectionsKept
  <1>2. ASSUME socket' # None, socket' \notin down', due' # {} PROVE socket' \in connections'
    BY <1>1, <1>2 DEF DueIsServed, Connected
  <1>3. QED
    BY <1>2 DEF DueIsServed, Connected

LEMMA DueIsServedStep ==
  ASSUME Shapes, Named, Registered, OneConnection, DueIsServed, [Next]_vars
  PROVE  DueIsServed'
  <1> USE DEF Served, Client
  <1>1. ASSUME NEW s \in Sockets, Authenticate(s), Served PROVE DueIsServed'
    BY <1>1, DueFrame DEF clientVars, Authenticate, Admit, Reject
  <1>2. ASSUME NEW s \in Sockets, Accept(s), Served PROVE DueIsServed'
    BY <1>2, DueFrame DEF clientVars, Accept
  <1>3. ASSUME NEW s \in Sockets, AcceptFails(s), Served PROVE DueIsServed'
    BY <1>3, DueFrame DEF clientVars, AcceptFails
  <1>4. ASSUME NEW s \in Sockets, Register(s), Served PROVE DueIsServed'
    BY <1>4, DueFrame DEF clientVars, Register
  <1>5. ASSUME NEW s \in Sockets, Serve(s), Served PROVE DueIsServed'
    BY <1>5, DueFrame DEF clientVars, Serve
  <1>6. ASSUME NEW s \in Sockets, StartFails(s), Served PROVE DueIsServed'
    BY <1>6, DueFrame DEF clientVars, StartFails
  <1>7. ASSUME NEW s \in Sockets, Refuse(s), Served PROVE DueIsServed'
    BY <1>7, DueFrame DEF clientVars, Refuse, Close
  <1>8. ASSUME NEW s \in Sockets, Leave(s), Served PROVE DueIsServed'
    BY <1>8, DueFrame DEF clientVars, Leave
  <1>9. ASSUME NEW s \in Sockets, Unregister(s), Served PROVE DueIsServed'
    BY <1>9, DueFrame DEF clientVars, Unregister
  <1>10. ASSUME NEW s \in Sockets, Subscribed(s), Served PROVE DueIsServed'
    BY <1>10, DueFrame DEF clientVars, Subscribed
  <1>11. ASSUME NEW s \in Sockets, SubscribeFails(s), Served PROVE DueIsServed'
    BY <1>11, DueFrame DEF clientVars, SubscribeFails
  <1>12. ASSUME NEW s \in Sockets, Lose(s), Served PROVE DueIsServed'
    BY <1>12, DueFrame DEF clientVars, Lose
  <1>13. ASSUME NEW s \in Sockets, Recover(s), Served PROVE DueIsServed'
    BY <1>13, DueFrame DEF clientVars, Recover, Close
  <1>14. ASSUME NEW s \in Sockets, Resubscribe(s), Served PROVE DueIsServed'
    BY <1>14, DueFrame DEF clientVars, Resubscribe
  <1>15. ASSUME NEW s \in Sockets, Cancelled(s), Served PROVE DueIsServed'
    BY <1>15, DueFrame DEF clientVars, Cancelled
  <1>16. ASSUME NEW s \in Sockets, Receive(s), Served PROVE DueIsServed'
    <2>1. down \subseteq down'
      BY <1>16 DEF Receive, Broadcast, DisconnectUser, Close
    <2>2. QED
      BY <1>16, <2>1, DueFrame DEF clientVars, Receive
  <1>17. ASSUME NEW s \in Sockets, HangUp(s), Served PROVE DueIsServed'
    BY <1>17, DueFrame DEF clientVars, HangUp
  <1>18. ASSUME NEW s \in Sockets, Drop(s), Served PROVE DueIsServed'
    BY <1>18, DueFrame DEF clientVars, Drop, Break
  <1>19. ASSUME NEW s \in Sockets, NEW u \in Users, Dial(s, u), Served PROVE DueIsServed'
    BY <1>19, DueFrame DEF clientVars, Dial
  <1>20. ASSUME NEW u \in Users, Remove(u), Served PROVE DueIsServed'
    BY <1>20, DueFrame DEF clientVars, Remove
  <1>21. ASSUME NEW u \in Users, RevokeLocally(u), Served PROVE DueIsServed'
    BY <1>21, DueFrame DEF clientVars, RevokeLocally, DisconnectUser, Close
  <1>22. ASSUME NEW u \in Users, PublishRevocation(u), Served PROVE DueIsServed'
    BY <1>22, DueFrame DEF clientVars, PublishRevocation
  <1>23. CASE Commit /\ Served
    BY <1>23, DueFrame DEF clientVars, Commit
  <1>24. ASSUME NEW n \in Sequences, Publish(n), Served PROVE DueIsServed'
    <2>1. UNCHANGED <<down, socket, connections>>
      BY <1>24 DEF Publish, Served, clientVars, handlerVars
    <2>2. CASE PhoneIsServed
      <3>1. socket \in connections
        BY <2>2 DEF PhoneIsServed, OneConnection, Shapes, ServerShapes
      <3>2. QED
        BY <2>1, <3>1 DEF DueIsServed
    <2>3. CASE ~PhoneIsServed
      BY <1>24, <2>1, <2>3, DueFrame DEF Publish
    <2>4. QED
      BY <2>2, <2>3
  <1>25. ASSUME NEW n \in Sequences, PublishFails(n), Served PROVE DueIsServed'
    BY <1>25, DueFrame DEF clientVars, PublishFails
  <1>26. CASE Restart /\ Served
    BY <1>26, DueFrame DEF clientVars, Restart, Break
  <1>27. CASE Timer /\ Client
    BY <1>27 DEF Timer, OpenSocket, DueIsServed
  <1>28. CASE OnOpen /\ Client
    BY <1>28, DueFrame DEF OnOpen, clientVars
  <1>29. CASE OnEvent /\ Client
    BY <1>29, DueFrame DEF OnEvent, clientVars
  <1>30. CASE OnClose /\ Client
    <2>1. socket' = None
      BY <1>30 DEF OnClose
    <2>2. QED
      BY <2>1 DEF DueIsServed, Connected
  <1>31. CASE Foreground /\ Client
    BY <1>31 DEF Foreground, Connect, OpenSocket, DueIsServed
  <1>32. CASE Background /\ Client
    <2>1. socket' = None
      BY <1>32 DEF Background, Disconnect
    <2>2. QED
      BY <2>1 DEF DueIsServed, Connected
  <1>33. CASE Remount /\ Client
    <2>1. CASE foreground /\ Connect
      BY <2>1 DEF Connect, OpenSocket, DueIsServed
    <2>2. CASE ~foreground /\ UNCHANGED <<due, socket>>
      <3>1. socket' = None
        BY <2>2 DEF OneConnection
      <3>2. QED
        BY <3>1 DEF DueIsServed, Connected
    <2>3. QED
      BY <1>33, <2>1, <2>2 DEF Remount
  <1>34. CASE Expire /\ Client
    BY <1>34, DueFrame DEF Expire, clientVars
  <1>35. ASSUME NEW q \in Queries, Answer(q), Client PROVE DueIsServed'
    BY <1>35, DueFrame DEF Answer, clientVars
  <1>36. ASSUME NEW q \in Queries, Fails(q), Client PROVE DueIsServed'
    BY <1>36, DueFrame DEF Fails, clientVars
  <1>37. CASE UNCHANGED vars
    BY <1>37, DueFrame DEF vars, clientVars
  <1>38. QED
    BY <1>1, <1>2, <1>3, <1>4, <1>5, <1>6, <1>7, <1>8, <1>9, <1>10, <1>11, <1>12, <1>13, <1>14,
       <1>15, <1>16, <1>17, <1>18, <1>19, <1>20, <1>21, <1>22, <1>23, <1>24, <1>25, <1>26, <1>27,
       <1>28, <1>29, <1>30, <1>31, <1>32, <1>33, <1>34, <1>35, <1>36, <1>37 DEF Next, ServerNext,
       ClientNext, Served, Client

(* What is due stays on its way until the tracker sees it. *)
LEMMA PublishedStep ==
  ASSUME Shapes, Named, Waiting, ReferencesCounted, Registered, Trying, OneConnection, Numbered, Tracked, DueIsServed, PublishedIsShown, [Next]_vars
  PROVE  PublishedIsShown'
  <1>1. ASSUME NEW s \in Sockets, Authenticate(s), Served PROVE PublishedIsShown'
    <2>1. UNCHANGED <<due, inbox, log, task>> /\ down \subseteq down'
      BY <1>1 DEF Authenticate, Admit, Reject, subscriptionVars
    <2>2. Connected' /\ stage[socket] = "refusing" => stage'[socket] = "refusing"
      <3>1. /\ stage[s] = "free" /\ socket' = socket /\ None \notin Sockets
            /\ \A r \in Sockets : r # s => stage'[r] = stage[r]
        BY <1>1, SentinelAssumption DEF Authenticate, Admit, Reject, Served, clientVars, Shapes,
           ServerShapes
      <3>2. QED
        BY <3>1 DEF Connected, Shapes, ClientTypeOK
    <2>3. NoEventLost
      BY <1>1, EventsRejected DEF Authenticate, Admit, NoEventLost
    <2>4. QED
      BY <1>1, <2>1, <2>2, <2>3, PublishedServer DEF Served
  <1>2. ASSUME NEW s \in Sockets, Accept(s), Served PROVE PublishedIsShown'
    <2>1. UNCHANGED <<due, inbox, log, task, down>> /\ wire' = Sent({s}, Opened)
      BY <1>2 DEF Accept, subscriptionVars
    <2>2. stage[socket] = "refusing" => stage'[socket] = "refusing"
      BY <1>2 DEF Accept, Shapes, ServerShapes
    <2>3. NoEventLost
      BY <2>1, EventsSent, Different
    <2>4. QED
      BY <1>2, <2>1, <2>2, <2>3, PublishedServer DEF Served
  <1>3. ASSUME NEW s \in Sockets, AcceptFails(s), Served PROVE PublishedIsShown'
    <2>1. UNCHANGED <<wire, due, inbox, log>> /\ down \subseteq down'
      BY <1>3 DEF AcceptFails, serverVars, handlerVars, subscriptionVars, publisherVars
    <2>2. /\ stage[socket] = "refusing" => stage'[socket] = "refusing"
          /\ \A t \in Sockets : task[t] = "lost" => task'[t] = "lost"
      BY <1>3 DEF AcceptFails, Shapes, ServerShapes, serverVars, handlerVars, subscriptionVars,
         publisherVars
    <2>3. QED
      BY <1>3, <2>1, <2>2, PublishedServer DEF Served, NoEventLost
  <1>4. ASSUME NEW s \in Sockets, Register(s), Served PROVE PublishedIsShown'
    <2>1. UNCHANGED <<wire, due, inbox, log, down>>
      BY <1>4 DEF Register
    <2>2. stage[socket] = "refusing" => stage'[socket] = "refusing"
      BY <1>4 DEF Register, Shapes, ServerShapes
    <2>3. \A t \in Sockets : task[t] = "lost" => task'[t] = "lost"
      BY <1>4 DEF Register, StartSubscription, JoinSubscription, Named, Shapes, ServerShapes
    <2>4. QED
      BY <1>4, <2>1, <2>2, <2>3, PublishedServer DEF Served, NoEventLost
  <1>5. ASSUME NEW s \in Sockets, Serve(s), Served PROVE PublishedIsShown'
    <2>1. UNCHANGED <<wire, due, inbox, log>> /\ down \subseteq down'
      BY <1>5 DEF Serve, serverVars, handlerVars, subscriptionVars, publisherVars
    <2>2. /\ stage[socket] = "refusing" => stage'[socket] = "refusing"
          /\ \A t \in Sockets : task[t] = "lost" => task'[t] = "lost"
      BY <1>5 DEF Serve, Shapes, ServerShapes, serverVars, handlerVars, subscriptionVars,
         publisherVars
    <2>3. QED
      BY <1>5, <2>1, <2>2, PublishedServer DEF Served, NoEventLost
  <1>6. ASSUME NEW s \in Sockets, StartFails(s), Served PROVE PublishedIsShown'
    <2>1. UNCHANGED <<wire, due, log, down, socket>> /\ stage' = [stage EXCEPT ![s] = IF @ = "waiting" THEN "refusing" ELSE "stopping"]
      BY <1>6 DEF StartFails, Served, clientVars
    <2>2. stage[s] \in {"waiting", "serving"} /\ stage \in [Sockets -> Stages] /\ \A t \in Sockets : task[t] = "lost" => task[t] \in Live
      BY <1>6 DEF StartFails, Shapes, ServerShapes, Live
    <2>3. stage[socket] = "refusing" => stage'[socket] = "refusing"
      BY <2>1, <2>2
    <2>4. CASE Holders = {s}
      <3>1. ASSUME Connected', NEW n \in due' PROVE OnTheWay(n)'
        <4>1. Connected /\ due # {}
          BY <2>1, <3>1 DEF Connected
        <4>2. /\ socket \in Sockets /\ socket \notin down
              /\ stage[socket] \in {"waiting", "serving", "refusing"}
          BY <4>1, ServedSocket DEF Connected
        <4>3. socket = s \/ stage[socket] = "refusing"
          BY <2>4, <4>2 DEF Holders
        <4>4. stage'[socket] = "refusing"
          BY <1>6, <2>1, <2>2, <2>3, <4>2, <4>3 DEF StartFails
        <4>5. QED
          BY <2>1, <4>4, OnTheWayHas
      <3>2. QED
        BY <3>1 DEF PublishedIsShown
    <2>5. CASE UNCHANGED <<sub, task, inbox>>
      BY <1>6, <2>1, <2>3, <2>5, PublishedServer DEF Served, NoEventLost
    <2>6. QED
      BY <1>6, <2>2, <2>4, <2>5, ReleaseDoes DEF StartFails
  <1>7. ASSUME NEW s \in Sockets, Refuse(s), Served PROVE PublishedIsShown'
    <2>1. UNCHANGED <<due, inbox, log, task>> /\ Close({s}, 1013) /\ down' = down \union {s}
      BY <1>7 DEF Refuse, Close, subscriptionVars
    <2>2. NoEventLost
      BY <2>1, EventsClosed, CodesGiven
    <2>3. Connected' /\ stage[socket] = "refusing" => stage'[socket] = "refusing"
      BY <1>7, <2>1 DEF Refuse, Connected, Served, clientVars, Shapes, ServerShapes
    <2>4. QED
      BY <1>7, <2>1, <2>2, <2>3, PublishedServer DEF Served
  <1>8. ASSUME NEW s \in Sockets, Leave(s), Served PROVE PublishedIsShown'
    <2>1. UNCHANGED <<wire, due, log, down, socket>> /\ stage' = [stage EXCEPT ![s] = IF @ = "waiting" THEN "refusing" ELSE "stopping"]
      BY <1>8 DEF Leave, Served, clientVars
    <2>2. stage[s] \in {"waiting", "serving"} /\ stage \in [Sockets -> Stages] /\ \A t \in Sockets : task[t] = "lost" => task[t] \in Live
      BY <1>8 DEF Leave, Shapes, ServerShapes, Live
    <2>3. stage[socket] = "refusing" => stage'[socket] = "refusing"
      BY <2>1, <2>2
    <2>4. CASE Holders = {s}
      <3>1. ASSUME Connected', NEW n \in due' PROVE OnTheWay(n)'
        <4>1. Connected /\ due # {}
          BY <2>1, <3>1 DEF Connected
        <4>2. /\ socket \in Sockets /\ socket \notin down
              /\ stage[socket] \in {"waiting", "serving", "refusing"}
          BY <4>1, ServedSocket DEF Connected
        <4>3. socket = s \/ stage[socket] = "refusing"
          BY <2>4, <4>2 DEF Holders
        <4>4. stage'[socket] = "refusing"
          BY <1>8, <2>1, <2>2, <2>3, <4>2, <4>3 DEF Leave
        <4>5. QED
          BY <2>1, <4>4, OnTheWayHas
      <3>2. QED
        BY <3>1 DEF PublishedIsShown
    <2>5. CASE UNCHANGED <<sub, task, inbox>>
      BY <1>8, <2>1, <2>3, <2>5, PublishedServer DEF Served, NoEventLost
    <2>6. QED
      BY <1>8, <2>2, <2>4, <2>5, ReleaseDoes DEF Leave
  <1>9. ASSUME NEW s \in Sockets, Unregister(s), Served PROVE PublishedIsShown'
    <2>1. UNCHANGED <<wire, due, inbox, log>> /\ down \subseteq down'
      BY <1>9 DEF Unregister, serverVars, handlerVars, subscriptionVars, publisherVars
    <2>2. /\ stage[socket] = "refusing" => stage'[socket] = "refusing"
          /\ \A t \in Sockets : task[t] = "lost" => task'[t] = "lost"
      BY <1>9 DEF Unregister, Shapes, ServerShapes, serverVars, handlerVars, subscriptionVars,
         publisherVars
    <2>3. QED
      BY <1>9, <2>1, <2>2, PublishedServer DEF Served, NoEventLost
  <1>10. ASSUME NEW s \in Sockets, Subscribed(s), Served PROVE PublishedIsShown'
    <2>1. UNCHANGED <<wire, due, inbox, log>> /\ down \subseteq down'
      BY <1>10 DEF Subscribed, serverVars, handlerVars, subscriptionVars, publisherVars
    <2>2. /\ stage[socket] = "refusing" => stage'[socket] = "refusing"
          /\ \A t \in Sockets : task[t] = "lost" => task'[t] = "lost"
      BY <1>10 DEF Subscribed, Shapes, ServerShapes, serverVars, handlerVars, subscriptionVars,
         publisherVars
    <2>3. QED
      BY <1>10, <2>1, <2>2, PublishedServer DEF Served, NoEventLost
  <1>11. ASSUME NEW s \in Sockets, SubscribeFails(s), Served PROVE PublishedIsShown'
    <2>1. UNCHANGED <<wire, due, inbox, log>> /\ down \subseteq down'
      BY <1>11 DEF SubscribeFails, serverVars, handlerVars, subscriptionVars, publisherVars
    <2>2. /\ stage[socket] = "refusing" => stage'[socket] = "refusing"
          /\ \A t \in Sockets : task[t] = "lost" => task'[t] = "lost"
      BY <1>11 DEF SubscribeFails, Shapes, ServerShapes, serverVars, handlerVars, subscriptionVars,
         publisherVars
    <2>3. QED
      BY <1>11, <2>1, <2>2, PublishedServer DEF Served, NoEventLost
  <1>12. ASSUME NEW s \in Sockets, Lose(s), Served PROVE PublishedIsShown'
    <2>1. task'[s] = "lost"
      BY <1>12 DEF Lose, Shapes, ServerShapes
    <2>2. \A n : OnTheWay(n)'
      BY <2>1, OnTheWayHas
    <2>3. QED
      BY <2>2 DEF PublishedIsShown
  <1>13. ASSUME NEW s \in Sockets, Recover(s), Served PROVE PublishedIsShown'
    <2>1. UNCHANGED <<due, socket>> /\ down' = down \union connections
      BY <1>13 DEF Recover, Close, Served, clientVars
    <2>2. ASSUME Connected', due' # {} PROVE FALSE
      <3>1. Connected /\ due # {} /\ socket \notin connections
        BY <2>1, <2>2 DEF Connected
      <3>2. QED
        BY <3>1, ServedSocket
    <2>3. QED
      BY <2>2 DEF PublishedIsShown
  <1>14. ASSUME NEW s \in Sockets, Resubscribe(s), Served PROVE PublishedIsShown'
    <2>1. UNCHANGED <<wire, due, inbox, log>> /\ down \subseteq down'
      BY <1>14 DEF Resubscribe, serverVars, handlerVars, subscriptionVars, publisherVars
    <2>2. /\ stage[socket] = "refusing" => stage'[socket] = "refusing"
          /\ \A t \in Sockets : task[t] = "lost" => task'[t] = "lost"
      BY <1>14 DEF Resubscribe, Shapes, ServerShapes, serverVars, handlerVars, subscriptionVars,
         publisherVars
    <2>3. QED
      BY <1>14, <2>1, <2>2, PublishedServer DEF Served, NoEventLost
  <1>15. ASSUME NEW s \in Sockets, Cancelled(s), Served PROVE PublishedIsShown'
    <2>1. UNCHANGED <<wire, due, inbox, log>> /\ down \subseteq down'
      BY <1>15 DEF Cancelled, serverVars, handlerVars, subscriptionVars, publisherVars
    <2>2. /\ stage[socket] = "refusing" => stage'[socket] = "refusing"
          /\ \A t \in Sockets : task[t] = "lost" => task'[t] = "lost"
      BY <1>15 DEF Cancelled, Shapes, ServerShapes, serverVars, handlerVars, subscriptionVars,
         publisherVars
    <2>3. QED
      BY <1>15, <2>1, <2>2, PublishedServer DEF Served, NoEventLost
  <1>16. ASSUME NEW s \in Sockets, Receive(s), Served PROVE PublishedIsShown'
    <2>1. UNCHANGED <<due, log, stage, task, clientVars>> /\ down \subseteq down'
      BY <1>16 DEF Receive, Broadcast, DisconnectUser, Close, Served
    <2>2. UNCHANGED <<socket, base>> /\ base \in Nat
      BY <2>1 DEF clientVars, Shapes, ClientTypeOK
    <2>3. \A t \in Sockets : \A m : Has(inbox[t], m) => Has(inbox'[t], m) \/ (t = s /\ m = Head(inbox[s]))
      BY <1>16, ReceivedNotice
    <2>4. ASSUME NEW k \in Sequences, Head(inbox[s]) = EventNotice(k), Broadcast(k) PROVE PublishedIsShown'
      <3>1. wire' = Sent(connections, EventMessage(k)) /\ down' = down /\ EventMessage(k) \in Messages
        BY <2>4, Different DEF Broadcast
      <3>2. NoEventLost /\ SentMore(connections, EventMessage(k))
        BY <3>1, EventsSent, SentHas DEF Shapes
      <3>3. ASSUME Connected', NEW n \in due', OnTheWay(n) PROVE OnTheWay(n)'
        <4>1. Connected /\ n \in due /\ n \in Sequences
          BY <2>1, <2>2, <3>1, <3>3 DEF Connected, Shapes, DataTypeOK
        <4>2. socket \in Sockets /\ socket \notin down /\ owner[socket] = Me /\ socket \in connections
          BY <4>1, ServedSocket DEF Connected
        <4>3. Has(wire'[socket], EventMessage(k))
          BY <3>1, <3>2, <4>2 DEF SentMore
        <4>4. CASE \E t \in Sockets : Has(inbox[t], EventNotice(n))
          <5>1. (\E t \in Sockets : Has(inbox'[t], EventNotice(n))) \/ n = k
            BY <2>3, <2>4, <4>4, NoticesDiffer
          <5>2. QED
            BY <2>2, <4>3, <5>1, OnTheWayHas
        <4>5. CASE Has(wire[socket], EventMessage(n))
          <5>1. Has(wire'[socket], EventMessage(n))
            BY <3>1, <3>2, <4>1, <4>2, <4>5 DEF NoEventLost
          <5>2. QED
            BY <2>2, <5>1, OnTheWayHas
        <4>6. CASE stage[socket] = "refusing" \/ \E t \in Sockets : task[t] = "lost"
          BY <2>1, <2>2, <4>6, OnTheWayHas
        <4>7. QED
          BY <3>3, <4>4, <4>5, <4>6, OnTheWayHas
      <3>4. QED
        BY <2>1, <2>2, <3>3, LogGrows, ShowsKept, PublishedFrame
    <2>5. ASSUME NEW u \in Users, Head(inbox[s]) = RevokedNotice(u), DisconnectUser(u) PROVE PublishedIsShown'
      <3>1. NoEventLost
        BY <2>5, EventsClosed, CodesGiven DEF DisconnectUser
      <3>2. \A t \in Sockets : \A n : Has(inbox[t], EventNotice(n)) => Has(inbox'[t], EventNotice(n))
        BY <2>3, <2>5, NoticesDiffer
      <3>3. QED
        BY <2>1, <3>1, <3>2, PublishedServer
    <2>6. QED
      BY <1>16, <2>4, <2>5, ReceivedNotice
  <1>17. ASSUME NEW s \in Sockets, HangUp(s), Served PROVE PublishedIsShown'
    <2>1. UNCHANGED <<wire, due, inbox, log>> /\ down \subseteq down'
      BY <1>17 DEF HangUp, serverVars, handlerVars, subscriptionVars, publisherVars
    <2>2. /\ stage[socket] = "refusing" => stage'[socket] = "refusing"
          /\ \A t \in Sockets : task[t] = "lost" => task'[t] = "lost"
      BY <1>17 DEF HangUp, Shapes, ServerShapes, serverVars, handlerVars, subscriptionVars,
         publisherVars
    <2>3. QED
      BY <1>17, <2>1, <2>2, PublishedServer DEF Served, NoEventLost
  <1>18. ASSUME NEW s \in Sockets, Drop(s), Served PROVE PublishedIsShown'
    <2>1. UNCHANGED <<due, inbox, log, stage, task>> /\ Break({s}) /\ down \subseteq down'
      BY <1>18 DEF Drop, Break, serverVars, handlerVars, subscriptionVars
    <2>2. NoEventLost
      BY <2>1, EventsBroken
    <2>3. QED
      BY <1>18, <2>1, <2>2, PublishedServer DEF Served
  <1>19. ASSUME NEW s \in Sockets, NEW u \in Users, Dial(s, u), Served PROVE PublishedIsShown'
    <2>1. UNCHANGED <<wire, due, inbox, log>> /\ down \subseteq down'
      BY <1>19 DEF Dial, serverVars, handlerVars, subscriptionVars, publisherVars
    <2>2. /\ stage[socket] = "refusing" => stage'[socket] = "refusing"
          /\ \A t \in Sockets : task[t] = "lost" => task'[t] = "lost"
      BY <1>19 DEF Dial, Shapes, ServerShapes, serverVars, handlerVars, subscriptionVars,
         publisherVars
    <2>3. QED
      BY <1>19, <2>1, <2>2, PublishedServer DEF Served, NoEventLost
  <1>20. ASSUME NEW u \in Users, Remove(u), Served PROVE PublishedIsShown'
    <2>1. UNCHANGED <<wire, due, inbox, log>> /\ down \subseteq down'
      BY <1>20 DEF Remove, serverVars, handlerVars, subscriptionVars, publisherVars
    <2>2. /\ stage[socket] = "refusing" => stage'[socket] = "refusing"
          /\ \A t \in Sockets : task[t] = "lost" => task'[t] = "lost"
      BY <1>20 DEF Remove, Shapes, ServerShapes, serverVars, handlerVars, subscriptionVars,
         publisherVars
    <2>3. QED
      BY <1>20, <2>1, <2>2, PublishedServer DEF Served, NoEventLost
  <1>21. ASSUME NEW u \in Users, RevokeLocally(u), Served PROVE PublishedIsShown'
    <2>1. UNCHANGED <<due, inbox, log, stage, task>> /\ down \subseteq down'
      BY <1>21 DEF RevokeLocally, DisconnectUser, Close, subscriptionVars
    <2>2. NoEventLost
      BY <1>21, EventsClosed, CodesGiven DEF RevokeLocally, DisconnectUser
    <2>3. QED
      BY <1>21, <2>1, <2>2, PublishedServer DEF Served
  <1>22. ASSUME NEW u \in Users, PublishRevocation(u), Served PROVE PublishedIsShown'
    <2>1. UNCHANGED <<due, log, stage, task, down, wire>>
      BY <1>22 DEF PublishRevocation, handlerVars
    <2>2. \A t \in Sockets : \A m : Has(inbox[t], m) => Has(inbox'[t], m)
      BY <1>22, DeliveredHas, NoticesDiffer DEF PublishRevocation
    <2>3. QED
      BY <1>22, <2>1, <2>2, PublishedServer DEF Served, NoEventLost
  <1>23. CASE Commit /\ Served
    <2>1. UNCHANGED <<due, inbox, stage, task, down, wire>>
      BY <1>23 DEF Commit, handlerVars, subscriptionVars
    <2>2. QED
      BY <1>23, <2>1, LogGrows, PublishedServer DEF Served, NoEventLost
  <1>24. ASSUME NEW n \in Sequences, Publish(n), Served PROVE PublishedIsShown'
    <2>1. /\ UNCHANGED <<log, stage, task, down, wire, connections, clientVars>>
          /\ inbox' = Delivered(EventNotice(n)) /\ EventNotice(n) \in Notices
          /\ due' = IF PhoneIsServed THEN due \union {n} ELSE due
      BY <1>24, NoticesDiffer DEF Publish, handlerVars, Served
    <2>2. UNCHANGED <<socket, base, cached, fetch, view>>
      BY <2>1 DEF clientVars
    <2>3. \A t \in Sockets : \A m : Has(inbox[t], m) => Has(inbox'[t], m)
      BY <2>1, DeliveredHas
    <2>4. ASSUME Connected', NEW k \in due', k \in due PROVE OnTheWay(k)' \/ Shown(k)'
      <3>1. OnTheWay(k) \/ Shown(k)
        BY <2>1, <2>2, <2>4 DEF PublishedIsShown, Connected, Shown
      <3>2. Shown(k) => Shown(k)'
        BY <2>1, <2>2 DEF Shown, Shows
      <3>3. OnTheWay(k) => OnTheWay(k)'
        BY <2>1, <2>2, <2>3, OnTheWayHas
      <3>4. QED
        BY <3>1, <3>2, <3>3
    <2>5. ASSUME NEW k \in due', k \notin due PROVE OnTheWay(k)'
      <3>1. k = n /\ PhoneIsServed
        BY <2>1, <2>5
      <3>2. PICK t \in Sockets : task[t] = "listening"
        BY <3>1 DEF PhoneIsServed
      <3>3. Has(inbox'[t], EventNotice(k))
        BY <2>1, <3>1, <3>2, DeliveredHas
      <3>4. QED
        BY <3>3, OnTheWayHas
    <2>6. (Connected => \A k \in due : OnTheWay(k) \/ Shown(k))'
      BY <2>4, <2>5
    <2>7. QED
      BY <2>6 DEF PublishedIsShown, Shown
  <1>25. ASSUME NEW n \in Sequences, PublishFails(n), Served PROVE PublishedIsShown'
    <2>1. UNCHANGED <<wire, due, inbox, log>> /\ down \subseteq down'
      BY <1>25 DEF PublishFails, serverVars, handlerVars, subscriptionVars, publisherVars
    <2>2. /\ stage[socket] = "refusing" => stage'[socket] = "refusing"
          /\ \A t \in Sockets : task[t] = "lost" => task'[t] = "lost"
      BY <1>25 DEF PublishFails, Shapes, ServerShapes, serverVars, handlerVars, subscriptionVars,
         publisherVars
    <2>3. QED
      BY <1>25, <2>1, <2>2, PublishedServer DEF Served, NoEventLost
  <1>26. CASE Restart /\ Served
    <2>1. UNCHANGED <<due, socket>> /\ \A s \in Sockets : owner[s] # None => s \in down'
      BY <1>26 DEF Restart, Break, Served, clientVars
    <2>2. ASSUME Connected' PROVE FALSE
      <3>1. socket \in Sockets /\ owner[socket] # None
        BY <2>1, <2>2, MeAssumption, SentinelAssumption DEF Connected, Trying, Shapes, ClientTypeOK
      <3>2. QED
        BY <2>1, <2>2, <3>1 DEF Connected
    <2>3. QED
      BY <2>2 DEF PublishedIsShown
  <1>27. CASE Timer /\ Client
    <2>1. due' = {}
      BY <1>27 DEF Timer, OpenSocket
    <2>2. QED
      BY <2>1 DEF PublishedIsShown
  <1>28. CASE OnOpen /\ Client
    <2>1. /\ UNCHANGED <<due, socket, inbox, stage, task, down, log>>
          /\ NextMessage("open") /\ base \in Nat
      BY <1>28 DEF OnOpen, Client, serverVars, handlerVars, subscriptionVars, Shapes, ClientTypeOK
    <2>2. CASE Refresh(Queries)
      <3>1. \A q \in Queries : \A n : Shows(q, n)'
        BY <2>2, RefreshedShows DEF Refresh
      <3>2. ASSUME NEW n \in due' PROVE Shown(n)'
        <4>1. n \in 1..Len(log)
          <5>1. n \in due /\ n \in 1..MaxEvents /\ MaxEvents \in Nat /\ Len(log) \in Nat
            BY <2>1, <3>2, LogTyped DEF Shapes, DataTypeOK, Sequences
          <5>2. QED
            BY <5>1 DEF Numbered
        <4>2. \A i : log[n].kind = "change" /\ i = log[n].item => i \in Queries
          BY <4>1, LogTyped
        <4>3. \A i : log'[n].kind = "change" /\ i = log'[n].item => Shows(i, n)'
          BY <2>1, <3>1, <4>2
        <4>4. (log[n].kind = "change" /\ n >= base => Shows(log[n].item, n))'
          BY <4>3 DEF Shows
        <4>5. Shows(List, n)'
          BY <3>1 DEF Queries
        <4>6. QED
          BY <4>4, <4>5 DEF Shown
      <3>3. QED
        BY <3>2 DEF PublishedIsShown, Shown
    <2>3. CASE UNCHANGED <<latest, base, cached, fetch>>
      <3>1. \A r \in Sockets : \A n \in Sequences :
              Has(wire[r], EventMessage(n)) => Has(wire'[r], EventMessage(n))
        <4>1. /\ Head(wire[socket]) \in Messages /\ Head(wire[socket]).type = "open"
              /\ \A r \in Sockets : \A x :
                   Has(wire[r], x) => Has(wire'[r], x) \/ (r = socket /\ x = Head(wire[socket]))
          BY <2>1, NextMessageHas
        <4>2. \A n : EventMessage(n) # Head(wire[socket])
          BY <4>1 DEF EventMessage
        <4>3. QED
          BY <4>1, <4>2
      <3>2. socket \in Sockets /\ due \subseteq Sequences
        BY <2>1, NextMessageHas DEF Shapes, DataTypeOK
      <3>3. \A n \in due : OnTheWay(n) => OnTheWay(n)'
        BY <2>1, <3>1, <3>2, OnTheWayHas
      <3>4. QED
        BY <2>1, <2>3, <3>3, LogGrows, ShowsKept, PublishedFrame
    <2>4. QED
      BY <1>28, <2>2, <2>3 DEF OnOpen
  <1>29. CASE OnEvent /\ Client
    <2>1. /\ UNCHANGED <<due, socket, inbox, stage, task, down, log>>
          /\ NextMessage("event") /\ base \in Nat
      BY <1>29 DEF OnEvent, Client, serverVars, handlerVars, subscriptionVars, Shapes, ClientTypeOK
    <2>2. PICK k \in Sequences : k = Head(wire[socket]).seq
      BY <1>29, OnEventNumber
    <2>3. /\ Accepted(k) \/ Stale(k) \/ Gap(k)
          /\ Head(wire[socket]) = EventMessage(k) /\ Has(wire[socket], EventMessage(k))
      BY <1>29, <2>2, OnEventNumber DEF OnEvent
    <2>4. /\ socket \in Sockets
          /\ \A n \in Sequences :
               Has(wire[socket], EventMessage(n)) => Has(wire'[socket], EventMessage(n)) \/ n = k
      BY <2>1, <2>3, NextMessageHas, Different, ZenonT(90)
    <2>5. k \in 1..Len(log) /\ k \in Nat /\ k > 0 /\ k \in 1..MaxEvents
      BY <2>3, <2>4, LogTyped DEF Numbered, Sequences
    <2>6. latest \in Nat /\ latest' \in Nat /\ base' \in Nat /\ latest <= Len(log) /\ Len(log) \in Nat
      BY <2>3, <2>5, LogTyped DEF Accepted, Stale, Gap, Shapes, ClientTypeOK, Tracked
    <2>7. Tracked' /\ base <= base' /\ (latest' >= k) /\ (base' = base \/ base = 0)
      <3>1. Tracked'
        BY TrackedStep
      <3>2. QED
        BY <2>1, <2>3, <2>5, <2>6, <3>1 DEF Accepted, Stale, Gap, Tracked
    <2>8. Shown(k)'
      <3>1. latest' \in 1..MaxEvents /\ k <= latest' /\ List \in Queries /\ latest' <= Len(log')
        BY <2>1, <2>5, <2>6, <2>7, LogTyped DEF Tracked, Queries
      <3>2. Shows(List, k)'
        BY <3>1, <2>5, <2>7, ClientStep DEF Tracked, Shows, ClientTypeOK
      <3>3. (log[k].kind = "change" /\ k >= base => Shows(log[k].item, k))'
        BY <2>5, <2>6, <2>7, <3>1 DEF Tracked
      <3>4. QED
        BY <3>2, <3>3 DEF Shown
    <2>9. ASSUME NEW n \in due', OnTheWay(n) PROVE OnTheWay(n)' \/ Shown(n)'
      <3>1. n \in Sequences
        BY <2>1, <2>9 DEF Shapes, DataTypeOK
      <3>2. CASE n = k
        BY <2>8, <3>2
      <3>3. CASE n # k
        BY <2>1, <2>4, <2>9, <3>1, <3>3, OnTheWayHas
      <3>4. QED
        BY <3>2, <3>3
    <2>10. QED
      BY <2>1, <2>6, <2>7, <2>9, LogGrows, ShowsKept, PublishedFrame
  <1>30. CASE OnClose /\ Client
    <2>1. socket' = None
      BY <1>30 DEF OnClose
    <2>2. QED
      BY <2>1 DEF PublishedIsShown, Connected
  <1>31. CASE Foreground /\ Client
    <2>1. due' = {}
      BY <1>31 DEF Foreground, Connect, OpenSocket
    <2>2. QED
      BY <2>1 DEF PublishedIsShown
  <1>32. CASE Background /\ Client
    <2>1. socket' = None
      BY <1>32 DEF Background, Disconnect
    <2>2. QED
      BY <2>1 DEF PublishedIsShown, Connected
  <1>33. CASE Remount /\ Client
    <2>1. CASE foreground /\ Connect
      BY <2>1 DEF Connect, OpenSocket, PublishedIsShown
    <2>2. CASE ~foreground /\ UNCHANGED <<due, socket>>
      <3>1. socket' = None
        BY <2>2 DEF OneConnection
      <3>2. QED
        BY <3>1 DEF PublishedIsShown, Connected
    <2>3. QED
      BY <1>33, <2>1, <2>2 DEF Remount
  <1>34. CASE Expire /\ Client
    <2>1. /\ UNCHANGED <<due, socket, base, wire, inbox, stage, task, down>>
          /\ base \in Nat
      BY <1>34 DEF Expire, Client, clientVars, serverVars, handlerVars, subscriptionVars, Shapes,
         ClientTypeOK
    <2>2. \A n : OnTheWay(n) => OnTheWay(n)'
      BY <2>1, OnTheWayHas
    <2>3. QED
      BY <2>1, <2>2, LogGrows, ShowsKept, PublishedFrame
  <1>35. ASSUME NEW q \in Queries, Answer(q), Client PROVE PublishedIsShown'
    <2>1. /\ UNCHANGED <<due, socket, base, wire, inbox, stage, task, down>>
          /\ base \in Nat
      BY <1>35 DEF Answer, Client, clientVars, serverVars, handlerVars, subscriptionVars, Shapes,
         ClientTypeOK
    <2>2. \A n : OnTheWay(n) => OnTheWay(n)'
      BY <2>1, OnTheWayHas
    <2>3. QED
      BY <2>1, <2>2, LogGrows, ShowsKept, PublishedFrame
  <1>36. ASSUME NEW q \in Queries, Fails(q), Client PROVE PublishedIsShown'
    <2>1. /\ UNCHANGED <<due, socket, base, wire, inbox, stage, task, down>>
          /\ base \in Nat
      BY <1>36 DEF Fails, Client, clientVars, serverVars, handlerVars, subscriptionVars, Shapes,
         ClientTypeOK
    <2>2. \A n : OnTheWay(n) => OnTheWay(n)'
      BY <2>1, OnTheWayHas
    <2>3. QED
      BY <2>1, <2>2, LogGrows, ShowsKept, PublishedFrame
  <1>37. CASE UNCHANGED vars
    <2>1. UNCHANGED <<due, inbox, stage, task, down, wire, log, clientVars, socket>>
      BY <1>37 DEF vars, serverVars, handlerVars, subscriptionVars, clientVars
    <2>2. QED
      BY <2>1, PublishedServer DEF NoEventLost
  <1>38. QED
    BY <1>1, <1>2, <1>3, <1>4, <1>5, <1>6, <1>7, <1>8, <1>9, <1>10, <1>11, <1>12, <1>13, <1>14,
       <1>15, <1>16, <1>17, <1>18, <1>19, <1>20, <1>21, <1>22, <1>23, <1>24, <1>25, <1>26, <1>27,
       <1>28, <1>29, <1>30, <1>31, <1>32, <1>33, <1>34, <1>35, <1>36, <1>37 DEF Next, ServerNext,
       ClientNext, Served, Client

-----------------------------------------------------------------------------
LEMMA Initially == Init => IInv
  <1> SUFFICES ASSUME Init PROVE IInv
    OBVIOUS
  <1> USE DEF Init, DataInit, ServerInit, ClientInit
  <1>1. DataTypeOK
    <2>1. <<>> \in Seq(Events) /\ <<>> \in Seq(Messages) /\ Len(<<>>) = 0
      OBVIOUS
    <2>2. incidents \in 0..MaxIncidents /\ Len(log) <= MaxEvents
      BY BoundsAssumption
    <2>3. /\ owner \in [Sockets -> Users \union {None}] /\ wire \in [Sockets -> Seq(Messages)]
          /\ expired \in BOOLEAN
      BY <2>1, Zenon
    <2>4. QED
      BY <2>1, <2>2, <2>3, Zenon DEF DataTypeOK
  <1>2. ServerShapes
    <2>1. <<>> \in Seq(Notices)
      OBVIOUS
    <2>2. QED
      BY <2>1 DEF ServerShapes, Stages, Tasks
  <1>3. ClientTypeOK
    <2>1. 0 \in 0..MaxEvents
      BY BoundsAssumption
    <2>2. cached \subseteq Queries
      BY StoriesAssumption
    <2>3. /\ foreground \in BOOLEAN /\ timer \in BOOLEAN /\ enabled \in BOOLEAN
          /\ reconnecting \in BOOLEAN
      BY Zenon
    <2>4. fetch \in [Queries -> {"idle", "sent", "failed"}] /\ view \in [Queries -> 0..MaxEvents]
      BY <2>1
    <2>5. QED
      BY <2>1, <2>2, <2>3, <2>4 DEF ClientTypeOK
  <1>4. Named /\ Registered /\ Listening /\ Trying
    BY DEF Named, Registered, RegistryFollowsHandlers, Listening, Trying
  <1>5. Waiting
    BY SentinelAssumption DEF Waiting, Live
  <1>6. ReferencesCounted
    <2>1. Holders = {}
      BY DEF Holders
    <2>2. QED
      BY <2>1, FS_EmptySet DEF ReferencesCounted
  <1>7. Revoked /\ Closes
    BY EmptyHas DEF Revoked, Closes
  <1>8. OneConnection
    BY MeAssumption, SentinelAssumption DEF OneConnection
  <1>9. Numbered /\ Tracked
    BY EmptyHas, BoundsAssumption DEF Numbered, Tracked, Sequences
  <1>10. DueIsServed /\ PublishedIsShown
    BY DEF DueIsServed, PublishedIsShown
  <1>11. QED
    BY <1>1, <1>2, <1>3, <1>4, <1>5, <1>6, <1>7, <1>8, <1>9, <1>10 DEF IInv, Shapes

LEMMA Preserved == IInv /\ [Next]_vars => IInv'
  <1> SUFFICES ASSUME IInv, [Next]_vars PROVE IInv'
    OBVIOUS
  <1> USE DEF IInv
  <1>1. Shapes'
    BY DataStep, ServerShapesStep, ClientStep DEF Shapes
  <1>2. Named' /\ Waiting' /\ ReferencesCounted'
    BY NamedStep, WaitingStep, CountedStep
  <1>3. Registered' /\ Listening' /\ Revoked'
    BY RegisteredStep, ListeningStep, RevokedStep
  <1>4. Closes' /\ Trying' /\ OneConnection'
    BY ClosesStep, PhoneStep
  <1>5. Numbered' /\ Tracked' /\ DueIsServed'
    BY NumberedStep, TrackedStep, DueIsServedStep
  <1>6. PublishedIsShown'
    BY PublishedStep
  <1>7. QED
    BY <1>1, <1>2, <1>3, <1>4, <1>5, <1>6

(* The inductive invariant holds in every state of every behaviour.        *)
THEOREM Invariance == Spec => []IInv
  BY Initially, Preserved, PTL DEF Spec

-----------------------------------------------------------------------------
(* The values; the count never exceeds the number of connections.          *)
THEOREM TypeCorrect == Spec => []TypeOK
  <1>1. IInv => TypeOK
    <2> SUFFICES ASSUME IInv PROVE TypeOK
      OBVIOUS
    <2>1. refs \in 0..Cardinality(Sockets)
      <3>1. /\ Cardinality(Holders) \in Nat /\ Cardinality(Sockets) \in Nat
            /\ Cardinality(Holders) <= Cardinality(Sockets)
        BY HoldersFinite, BoundsAssumption, FS_CardinalityType
      <3>2. QED
        BY <3>1 DEF IInv, ReferencesCounted
    <2>2. QED
      BY <2>1 DEF IInv, Shapes, ServerShapes, TypeOK, ServerTypeOK
  <1>2. QED
    BY <1>1, Invariance, PTL

(* reference_count is the number of handlers that have acquired and not    *)
(* released, whatever fails in between (services/realtime.py).             *)
THEOREM TheCountIsRight == Spec => []ReferencesCounted
  <1>1. IInv => ReferencesCounted
    BY DEF IInv
  <1>2. QED
    BY <1>1, Invariance, PTL

(* No subscription runs but the coordinator's, and whoever is served has a *)
(* live one (services/realtime.py).                                        *)
THEOREM OnlyOneSubscription == Spec => []NoStraySubscription
  <1>1. IInv => NoStraySubscription
    BY DEF IInv, Waiting, NoStraySubscription
  <1>2. QED
    BY <1>1, Invariance, PTL

(* The registry holds those that are served until they are closed, and     *)
(* nobody whose handler has ended (api/realtime.py).                       *)
THEOREM TheRegistryIsRight == Spec => []RegistryFollowsHandlers
  <1>1. IInv => RegistryFollowsHandlers
    BY DEF IInv, Registered
  <1>2. QED
    BY <1>1, Invariance, PTL

(* The phone has one connection at most, none in the background, and in    *)
(* the foreground goes on trying unless it is told why not                 *)
(* (householdRealtimeClient.ts).                                           *)
THEOREM ThePhoneHasOneConnection == Spec => []OneConnection
  <1>1. IInv => OneConnection
    BY DEF IInv
  <1>2. QED
    BY <1>1, Invariance, PTL

(* What is published while the phone is served is never lost silently,     *)
(* from the commit's notice through Redis, the registry and the wire to    *)
(* the tracker and the queries.                                            *)
THEOREM NothingIsLostSilently == Spec => []PublishedIsShown
  <1>1. IInv => PublishedIsShown
    BY DEF IInv
  <1>2. QED
    BY <1>1, Invariance, PTL

=============================================================================
