---------------------------- MODULE RealtimeData ----------------------------
(* What the realtime server and a phone share: the household's activity,   *)
(* a WebSocket each as the network has it, and the incidents that    *)
(* may happen.  A story is chosen at the start: it fixes inputs that are   *)
(* not worth interleaving.                                                 *)
EXTENDS Integers, Sequences, FiniteSets

CONSTANTS
  Sockets,    \* names of connections
  Users,
  Me,         \* the user of the phone; the others' devices are not modelled
  Items,
  List,       \* the query of a session's items and activity
  MaxEvents,  \* bounds the activity
  MaxIncidents,  \* bounds the incidents
  Stories,    \* what the screen shows, what the members do, how many connections are
              \* opened, and which incidents may happen
  None

IncidentKinds == {"network", "redis", "publish", "crash", "fetch", "token", "factory",
                  "removal", "guest"}

Events == [kind : {"add"}, item : {None}] \union [kind : {"change", "delete"}, item : Items]
Sequences == 1..MaxEvents
Queries == {List} \union Items

ASSUME MeAssumption == Me \in Users
ASSUME SentinelAssumption == None \notin Sockets \union Users \union Items /\ List \notin Items
ASSUME BoundsAssumption == IsFiniteSet(Sockets) /\ MaxEvents \in Nat /\ MaxIncidents \in Nat
ASSUME StoriesAssumption ==
  \A s \in Stories :
    /\ s.screen \subseteq Queries /\ s.may \subseteq IncidentKinds
    /\ s.dials \in 0..Cardinality(Sockets)
    /\ s.script \in Seq(Events) /\ Len(s.script) <= MaxEvents
    /\ \A m, n \in DOMAIN s.script :
         m < n /\ s.script[m].kind = "delete" => s.script[n].item # s.script[m].item

VARIABLES
  story,    \* the story that happens, chosen at the start
  log,      \* committed grocery activity of a session, by sequence_number
  members,  \* users who are members
  expired,  \* whether the phone's access token has expired
  owner,    \* who has opened each socket, or None
  down,     \* sockets that an end has closed, or that broke
  wire,     \* what the server has sent to the phone on each of its sockets
  due,      \* history: what was published while the phone's socket was served
  incidents \* how many incidents have happened

Codes == {1006, 1013, 4401, 4404}

Opened == [type |-> "open"]
EventMessage(n) == [type |-> "event", seq |-> n]
Closed(code) == [type |-> "close", code |-> code]
Messages == {Opened} \union {EventMessage(n) : n \in Sequences} \union {Closed(c) : c \in Codes}

DataTypeOK ==
  /\ story \in Stories
  /\ log \in Seq(Events) /\ Len(log) <= MaxEvents
  /\ members \subseteq Users
  /\ expired \in BOOLEAN
  /\ owner \in [Sockets -> Users \union {None}]
  /\ down \subseteq Sockets
  /\ wire \in [Sockets -> Seq(Messages)]
  /\ due \subseteq Sequences
  /\ incidents \in 0..MaxIncidents

DataInit ==
  /\ story \in Stories
  /\ log = <<>>
  /\ members = Users
  /\ expired = FALSE
  /\ owner = [s \in Sockets |-> None]
  /\ down = {}
  /\ wire = [s \in Sockets |-> <<>>]
  /\ due = {}
  /\ incidents = 0

(* The sockets that may be opened next, as long as the story allows one. *)
Unused ==
  LET dialled == {s \in Sockets : owner[s] # None}
  IN IF Cardinality(dialled) < story.dials THEN Sockets \ dialled ELSE {}

Incident(kind) == kind \in story.may /\ incidents < MaxIncidents /\ incidents' = incidents + 1

(* The phone's open sockets among S are sent the message m. *)
Sent(S, m) ==
  [s \in Sockets |-> IF s \in S \ down /\ owner[s] = Me THEN Append(wire[s], m) ELSE wire[s]]

(* The server closes the sockets S. *)
Close(S, code) == wire' = Sent(S, Closed(code)) /\ down' = down \union S

(* The sockets S break: from some message on, what was sent is lost, and   *)
(* the phone notices later.                                                *)
Break(S) ==
  /\ down' = down \union S
  /\ \E kept \in 0..MaxEvents + 1 :
       wire' = [s \in Sockets |->
                  IF s \in S \ down /\ owner[s] = Me
                  THEN Append([i \in {n \in DOMAIN wire[s] : n <= kept} |-> wire[s][i]], Closed(1006))
                  ELSE wire[s]]

=============================================================================
