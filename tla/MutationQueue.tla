---------------------------- MODULE MutationQueue ----------------------------
(***************************************************************************)
(* What the offline queue promises, without runs, connections or the       *)
(* coordinator: changes are offered to the server in the order in which    *)
(* they were queued; each stays queued until the server has made it or     *)
(* refused it, or the user gives it up; only one that was handed to the    *)
(* user is overtaken by later ones.  OfflineSync implements it.            *)
(***************************************************************************)
EXTENDS Integers

CONSTANT Mutations  \* queued changes, numbered in the order of created_at

VARIABLES
  queue,    \* the state of each change
  reviewed, \* the changes handed to the user so far
  applied,  \* those the server has made
  refused   \* those the server has said it cannot make

vars == <<queue, reviewed, applied, refused>>

Init ==
  /\ queue = [m \in Mutations |-> "new"]
  /\ reviewed = {} /\ applied = {} /\ refused = {}

(* Whatever was queued before m has left the queue or was handed over. *)
MayBeOffered(m) ==
  /\ queue[m] # "new"
  /\ \A k \in Mutations : k < m => queue[k] = "removed" \/ k \in reviewed

Enqueue(m) ==
  /\ queue[m] = "new"
  /\ \A k \in Mutations : k < m => queue[k] # "new"
  /\ queue' = [queue EXCEPT ![m] = "pending"]
  /\ UNCHANGED <<reviewed, applied, refused>>

Apply(m) ==
  /\ MayBeOffered(m)
  /\ applied' = applied \union {m}
  /\ UNCHANGED <<queue, reviewed, refused>>

Refuse(m) ==
  /\ MayBeOffered(m)
  /\ refused' = refused \union {m}
  /\ UNCHANGED <<queue, reviewed, applied>>

HandOver(m) ==
  /\ MayBeOffered(m)
  /\ queue[m] # "removed"
  /\ queue' = [queue EXCEPT ![m] = "requires_review"]
  /\ reviewed' = reviewed \union {m}
  /\ UNCHANGED <<applied, refused>>

(* A run that began before the change was handed over tries it again. *)
TakeBack(m) ==
  /\ queue[m] = "requires_review"
  /\ queue' = [queue EXCEPT ![m] = "pending"]
  /\ UNCHANGED <<reviewed, applied, refused>>

Acknowledge(m) ==
  /\ queue[m] # "removed"
  /\ m \in applied \union refused
  /\ queue' = [queue EXCEPT ![m] = "removed"]
  /\ UNCHANGED <<reviewed, applied, refused>>

GiveUp(m) ==
  /\ queue[m] = "requires_review"
  /\ queue' = [queue EXCEPT ![m] = "removed"]
  /\ UNCHANGED <<reviewed, applied, refused>>

Next ==
  \E m \in Mutations :
    \/ Enqueue(m) \/ Apply(m) \/ Refuse(m)
    \/ HandOver(m) \/ TakeBack(m) \/ Acknowledge(m) \/ GiveUp(m)

Spec == Init /\ [][Next]_vars

=============================================================================
