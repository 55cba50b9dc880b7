---------------------------- MODULE GroceryLedger ---------------------------
(***************************************************************************)
(* What the grocery endpoints promise a household, without transactions,   *)
(* locks or retries: a session's list changes by one mutation at a time,   *)
(* each against the list as it is at that moment, each with its activity   *)
(* event and its idempotency record, none after the session is finished    *)
(* and none twice for one key.                                             *)
(***************************************************************************)
EXTENDS GroceryData

VARIABLES items, records, events, session

vars == <<items, records, events, session>>

Init ==
  /\ items = SeedItems
  /\ records = [k \in Keys |-> None]
  /\ events = {}
  /\ session = "active"

(* The rows the mutation q of request r may turn row into. *)
Effects(q, r, row) ==
  IF q.op = "add" /\ row.status = "absent"
  THEN {[status |-> "pending", name |-> q.name, assignee |-> q.assignee, version |-> r]}
  ELSE IF q.op = "edit" /\ row.status = "pending"
  THEN {[row EXCEPT !.name = IF q.name = None THEN @ ELSE q.name,
                    !.assignee = IF q.assignee = None THEN @ ELSE q.assignee,
                    !.version = v] : v \in {row.version, r}}
  ELSE IF q.op = "complete" /\ row.status = "pending"
  THEN {[row EXCEPT !.status = "completed", !.version = r]}
  ELSE IF q.op = "reopen" /\ row.status = "completed"
  THEN {[row EXCEPT !.status = "pending", !.version = r]}
  ELSE IF q.op = "delete" /\ row.status = "pending"
  THEN {[row EXCEPT !.status = "deleted"]}
  ELSE {}

(* The mutation of event e takes effect, whole. *)
Apply(e) ==
  /\ session = "active"
  /\ e.req.key # None => records[e.req.key] = None
  /\ e.req.base # None => items[e.item].version = e.req.base
  /\ \A f \in events : f.by # e.by
  /\ \E row \in Effects(e.req, e.by, items[e.item]) :
        items' = [items EXCEPT ![e.item] = row]
  /\ PendingNamesDiffer(items')
  /\ \A n \in {f.seq : f \in events} \union {SeedSeq} : n < e.seq
  /\ e.seq - 1 \in {f.seq : f \in events} \union {SeedSeq}
  /\ events' = events \union {e}
  /\ records' = IF e.req.key = None THEN records
                ELSE [records EXCEPT ![e.req.key] = [req |-> e.req, by |-> e.by]]
  /\ UNCHANGED session

Finish ==
  /\ session = "active"
  /\ session' = "completed"
  /\ UNCHANGED <<items, records, events>>

Next == Finish \/ \E e \in events' \ events : Apply(e)

Spec == Init /\ [][Next]_vars

=============================================================================
