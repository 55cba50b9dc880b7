----------------------------- MODULE PushDevices -----------------------------
(***************************************************************************)
(* Push notifications of a phone: who is registered for them.              *)
(*                                                                         *)
(*   features/notifications/installationId.ts     the phone's own id       *)
(*   features/notifications/pushDeviceManager.ts  enable, disable          *)
(*   repositories/push_devices.py                 register, deactivate     *)
(*                                                                         *)
(* On the phone an action is the code between two awaits.  On the server   *)
(* both operations read first, without locks; the ORM then writes the      *)
(* columns that differ from what it read, to the row of that id.           *)
(***************************************************************************)
EXTENDS AccountData

PhoneOf(r) == intent[r].phone

-----------------------------------------------------------------------------
(* The phone: permission, push token, installation id. *)

DenyPermission(r) ==
  /\ pc[r] = "idle" /\ Op(r) = "enable"
  /\ Answer(r, "denied")
  /\ UNCHANGED <<intent, tables, phoneVars>>

(* Mutant of JoinPending: nobody waits for the id another call creates. *)
JoinNobody(r) == FALSE

(* pendingId ??= createAndStore(): one creation at a time. *)
JoinPending(r) == pending[PhoneOf(r)] # None

GetOrCreate(r) ==
  /\ pc[r] = "idle" /\ Op(r) = "enable"
  /\ IF JoinPending(r)
     THEN Go(r, "join") /\ UNCHANGED pending
     ELSE Go(r, "lookup") /\ pending' = [pending EXCEPT ![PhoneOf(r)] = r]
  /\ UNCHANGED <<intent, tables, stored, inst>>

(* The request that creates the id, and those that wait for it. *)
Waiters(r) == {r} \union {q \in Requests : pc[q] = "join" /\ pending[PhoneOf(q)] = r}

Resolve(r, id) ==
  /\ pc' = [q \in Requests |-> IF q \in Waiters(r) THEN "api" ELSE pc[q]]
  /\ inst' = [q \in Requests |-> IF q \in Waiters(r) THEN id ELSE inst[q]]
  /\ pending' = [pending EXCEPT ![PhoneOf(r)] = None]
  /\ UNCHANGED <<intent, tables, seen, held, answer>>

LookUpId(r) ==
  /\ pc[r] = "lookup"
  /\ IF stored[PhoneOf(r)] # None
     THEN Resolve(r, stored[PhoneOf(r)])
     ELSE Go(r, "store") /\ UNCHANGED <<intent, tables, pending, inst>>
  /\ UNCHANGED stored

StoreId(r) ==
  /\ pc[r] = "store"
  /\ stored' = [stored EXCEPT ![PhoneOf(r)] = r]
  /\ Resolve(r, r)

(* Mutant of StoreFails: pendingId is forgotten only after a success. *)
StoreFailsForGood(r) ==
  /\ pc[r] \in {"lookup", "store"}
  /\ pc' = [q \in Requests |-> IF q \in Waiters(r) THEN "done" ELSE pc[q]]
  /\ answer' = [q \in Requests |-> IF q \in Waiters(r) THEN "error" ELSE answer[q]]
  /\ UNCHANGED <<intent, tables, seen, held, phoneVars>>

(* SecureStore rejects, when it is read or when it is written: all who    *)
(* wait for the id fail with it.                                           *)
StoreFails(r) ==
  /\ pc[r] \in {"lookup", "store"}
  /\ pc' = [q \in Requests |-> IF q \in Waiters(r) THEN "done" ELSE pc[q]]
  /\ answer' = [q \in Requests |-> IF q \in Waiters(r) THEN "error" ELSE answer[q]]
  /\ pending' = [pending EXCEPT ![PhoneOf(r)] = None]
  /\ UNCHANGED <<intent, tables, seen, held, stored, inst>>

GetExisting(r) ==
  /\ pc[r] = "idle" /\ Op(r) = "disable"
  /\ \/ Answer(r, "error") /\ UNCHANGED inst                \* SecureStore rejects
     \/ stored[PhoneOf(r)] = None /\ Answer(r, "none") /\ UNCHANGED inst
     \/ /\ stored[PhoneOf(r)] # None
        /\ Go(r, "api") /\ inst' = [inst EXCEPT ![r] = stored[PhoneOf(r)]]
  /\ UNCHANGED <<intent, tables, stored, pending>>

-----------------------------------------------------------------------------
(* register *)

ByInstallation(id) == {d \in Ids : devices[d] # None /\ devices[d].inst = id}
ByToken(push) == {d \in Ids : devices[d] # None /\ devices[d].push = push}

Find(S) == IF S = {} THEN None ELSE CHOOSE d \in S : TRUE
RowAt(d) == IF d = None THEN None ELSE devices[d]

Unauthorized(r) ==
  /\ pc[r] = "api"
  /\ ~Authenticated(r)
  /\ Answer(r, "unauthorized")
  /\ UNCHANGED <<intent, tables, phoneVars>>

FindDevice(r) ==
  /\ pc[r] = "api" /\ Op(r) = "enable"
  /\ Authenticated(r)
  /\ LET device == Find(ByInstallation(inst[r]))
     IN  GoHaving(r, "owner", [device |-> device, row |-> RowAt(device)])
  /\ UNCHANGED <<intent, tables, phoneVars>>

(* The installation is active for another account, with another token. *)
ActiveElsewhere(r) ==
  LET row == seen[r].row
  IN  row # None /\ row.user # intent[r].user /\ row.active /\ row.push # intent[r].push

(* The ORM knows a row it has read before by its id, as it was then. *)
FindTokenOwner(r) ==
  /\ pc[r] = "owner"
  /\ LET device == seen[r].device
         owner == Find(ByToken(intent[r].push))
         target == IF device # None THEN device ELSE IF owner # None THEN owner ELSE r
         read == [target |-> target,
                  row    |-> IF device # None THEN seen[r].row ELSE RowAt(owner),
                  drop   |-> IF device # None /\ owner # device THEN owner ELSE None]
     IN  IF \/ ActiveElsewhere(r)
            \/ owner # None /\ owner # device /\ devices[owner].active
         THEN Answer(r, "conflict")
         ELSE GoHaving(r, IF read.drop = None THEN "write" ELSE "drop", read)
  /\ UNCHANGED <<intent, tables, phoneVars>>

(* The inactive row of the token is deleted first, by its id. *)
DropOwner(r) ==
  /\ pc[r] = "drop"
  /\ ~LockedByOther(r, DeviceRow(seen[r].drop))
  /\ held' = [held EXCEPT ![r] = {DeviceRow(seen[r].drop)}]
  /\ pc' = [pc EXCEPT ![r] = "write"]
  /\ UNCHANGED <<intent, tables, seen, answer, phoneVars>>

Wanted(r) == [user |-> intent[r].user, inst |-> inst[r], push |-> intent[r].push, active |-> TRUE]

(* The row after the UPDATE of the columns that differ from what was read. *)
Updated(r) ==
  LET read == seen[r].row
      now == devices[seen[r].target]
      Column(new, old, current) == IF new # old THEN new ELSE current
  IN  IF read = None THEN Wanted(r)
      ELSE [user   |-> Column(Wanted(r).user, read.user, now.user),
            inst   |-> Column(Wanted(r).inst, read.inst, now.inst),
            push   |-> Column(Wanted(r).push, read.push, now.push),
            active |-> Column(Wanted(r).active, read.active, now.active)]

(* Rows with the installation or the token that the write gives its row. *)
Rivals(r) ==
  (ByInstallation(inst[r]) \union ByToken(intent[r].push)) \ {seen[r].target, seen[r].drop}

NeedsAccount(r) == seen[r].row # None => seen[r].row.user # intent[r].user

(* A lock, a unique key being deleted or a user being deleted is waited for. *)
WriteWaits(r) ==
  \/ LockedByOther(r, DeviceRow(seen[r].target))
  \/ \E d \in Rivals(r) : LockedByOther(r, DeviceRow(d))
  \/ NeedsAccount(r) /\ BeingDeleted(intent[r].user)

Gone(r) == seen[r].row # None /\ devices[seen[r].target] = None

(* The unique columns and the foreign key are told as a conflict; a row    *)
(* that is gone is an error.                                               *)
WriteDevice(r) ==
  /\ pc[r] = "write" /\ Op(r) = "enable"
  /\ ~WriteWaits(r)
  /\ IF Gone(r) THEN Answer(r, "error") /\ UNCHANGED devices
     ELSE IF Rivals(r) # {} \/ (NeedsAccount(r) /\ ~Authenticated(r))
     THEN Answer(r, "conflict") /\ UNCHANGED devices
     ELSE /\ devices' = [d \in Ids |-> IF d = seen[r].target THEN Updated(r)
                                       ELSE IF d = seen[r].drop THEN None ELSE devices[d]]
          /\ Committed(r)
  /\ UNCHANGED <<intent, accounts, sessions, phoneVars>>

-----------------------------------------------------------------------------
(* deactivate_for_user *)

FindOwnDevice(r) ==
  /\ pc[r] = "api" /\ Op(r) = "disable"
  /\ Authenticated(r)
  /\ LET device == Find(ByInstallation(inst[r]))
     IN  IF device = None \/ devices[device].user # intent[r].user \/ ~devices[device].active
         THEN Answer(r, "ok")
         ELSE GoHaving(r, "off", [target |-> device, row |-> devices[device]])
  /\ UNCHANGED <<intent, tables, phoneVars>>

SwitchOff(r) ==
  /\ pc[r] = "off"
  /\ ~LockedByOther(r, DeviceRow(seen[r].target))
  /\ IF Gone(r)
     THEN Answer(r, "error") /\ UNCHANGED devices
     ELSE devices' = [devices EXCEPT ![seen[r].target].active = FALSE] /\ Answer(r, "ok")
  /\ UNCHANGED <<intent, accounts, sessions, phoneVars>>

PushStep(r) ==
  \/ DenyPermission(r) \/ GetOrCreate(r) \/ LookUpId(r) \/ StoreId(r) \/ StoreFails(r)
  \/ GetExisting(r) \/ Unauthorized(r)
  \/ FindDevice(r) \/ FindTokenOwner(r) \/ DropOwner(r) \/ WriteDevice(r)
  \/ FindOwnDevice(r) \/ SwitchOff(r)

=============================================================================
