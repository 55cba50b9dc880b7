------------------------- MODULE OfflineSync_proofs -------------------------
(***************************************************************************)
(* Proofs about OfflineSync, for any number of changes and runs: that it   *)
(* implements MutationQueue, and what holds of the coordinator.            *)
(*                                                                         *)
(* A run reads the queue once.  What it then does is in order although the *)
(* queue has changed since: whatever was queued before its next change was *)
(* settled by the run itself, or had left the queue or been handed to the  *)
(* user when the run read it (InOrder), and none of these comes back.      *)
(***************************************************************************)
EXTENDS OfflineSync, FiniteSetTheorems, WellFoundedInduction, TLAPS

Pending(r) == runs[r].stage \in {"sent", "orphan", "decide", "refresh", "remove", "retry", "review",
                                 "reviewed"}

(* Changes are queued in their order. *)
Numbered == \A k, m \in Mutations : k < m /\ queue[m] # "new" => queue[k] # "new"

Settled(m) == queue[m] = "removed" \/ m \in reviewed

InOrder(r) ==
  /\ \A m \in runs[r].batch : queue[m] # "new"
  /\ \A m \in runs[r].batch \ runs[r].left : queue[m] = "removed"
  /\ \A m \in runs[r].left, k \in Mutations \ runs[r].batch : k < m => Settled(k)

(* A change is removed because the server has made it or refused it. *)
Acknowledged(r) ==
  /\ Pending(r) => runs[r].left # {}
  /\ runs[r].stage = "decide" =>
       /\ runs[r].reply \in Replies
       /\ runs[r].reply = "ok" => Current(r) \in applied
       /\ runs[r].reply \in {"missing", "forbidden"} => Current(r) \in refused
  /\ runs[r].stage \in {"refresh", "remove"} => Current(r) \in applied \union refused

Replay == \A r \in Runs : InOrder(r) /\ Acknowledged(r)

(* The promise the coordinator keeps is that of its own run. *)
Promise ==
  \A r \in Runs :
    /\ runs[r].stage # "free" /\ runs[r].current => syncPromise = r
    /\ syncPromise = r => runs[r].stage # "free" /\ runs[r].current
    /\ runs[r].stage = "orphan" => ~runs[r].current

Stopped ==
  ~active => /\ connectivity = "unknown" /\ status = "stopped"
             /\ ~syncRequested /\ syncPromise = None /\ ~checking

IInv == TypeOK /\ Numbered /\ Replay /\ Promise /\ Stopped

-----------------------------------------------------------------------------
(* The least of a set of numbers. *)

LEMMA MinIsLeast ==
  ASSUME NEW S, S \subseteq Nat, S # {}
  PROVE  Min(S) \in S /\ \A y \in S : Min(S) <= y
  <1> DEFINE Less == OpToRel(<, Nat)
  <1>1. \A y, z \in Nat : y < z => <<y, z>> \in Less
    BY Zenon DEF OpToRel
  <1>2. IsWellFoundedOn(Less, Nat)
    BY NatLessThanWellFounded
  <1> HIDE DEF Less
  <1>3. PICK x \in S : \A y \in S : <<y, x>> \notin Less
    BY <1>2, WFMin
  <1>4. \A y \in S : x <= y
    <2> SUFFICES ASSUME NEW y \in S PROVE ~(y < x)
      OBVIOUS
    <2>1. x \in Nat /\ y \in Nat
      OBVIOUS
    <2>2. QED BY <1>1, <1>3, <2>1
  <1>5. QED
    BY <1>4 DEF Min

LEMMA CurrentIsLeft ==
  ASSUME TypeOK, NEW r \in Runs, runs[r].left # {}
  PROVE  /\ Current(r) \in runs[r].left
         /\ Current(r) \in Mutations
         /\ \A m \in runs[r].left : Current(r) <= m
  <1>1. runs[r].left \subseteq Mutations
    BY DEF TypeOK, Run
  <1>2. QED
    BY <1>1, MinIsLeast, MutationsAssumption DEF Current

(* A limited listing has the oldest: what is older than a row of it is in  *)
(* it as well.                                                             *)
LEMMA OldestFirst ==
  ASSUME NEW state, NEW limit \in Nat, NEW m \in Listed(state, limit),
         NEW k \in InState(state), k < m
  PROVE  k \in Listed(state, limit)
  <1> DEFINE Upto(n) == {j \in InState(state) : j <= n}
  <1>1. InState(state) \subseteq Nat /\ m \in InState(state) /\ Cardinality(Upto(m)) <= limit
    BY MutationsAssumption DEF Listed, InState
  <1>2. IsFiniteSet(Upto(m))
    <2>1. IsFiniteSet(0..m) /\ Upto(m) \subseteq 0..m
      BY <1>1, FS_Interval
    <2>2. QED BY <2>1, FS_Subset
  <1>3. Upto(k) \subseteq Upto(m)
    BY <1>1
  <1>4. Cardinality(Upto(k)) <= Cardinality(Upto(m))
    BY <1>2, <1>3, FS_Subset
  <1>5. IsFiniteSet(Upto(k)) /\ Cardinality(Upto(k)) \in Nat /\ Cardinality(Upto(m)) \in Nat
    BY <1>2, <1>3, FS_Subset, FS_CardinalityType
  <1> HIDE DEF Upto
  <1>6. Cardinality(Upto(k)) <= limit
    BY <1>1, <1>4, <1>5
  <1>7. QED BY <1>6 DEF Upto, Listed

-----------------------------------------------------------------------------
(* The type invariant in parts. *)

Flags == token \in BOOLEAN /\ active \in BOOLEAN /\ syncRequested \in BOOLEAN /\ checking \in BOOLEAN

RunsOK == runs \in [Runs -> Run] /\ \A r \in Runs : runs[r].left \subseteq runs[r].batch

RowsOK ==
  /\ queue \in [Mutations -> {"new", "pending", "requires_review", "removed"}]
  /\ InState("requires_review") \subseteq reviewed
  /\ applied \subseteq Mutations /\ refused \subseteq Mutations
  /\ view \subseteq applied
  /\ conflicts \subseteq Mutations
  /\ resolving \in Mutations \union {None}
  /\ \A m \in applied \union refused \union conflicts : queue[m] # "new"

FieldsOK ==
  /\ connectivity \in Connectivity
  /\ status \in Statuses
  /\ syncPromise \in Runs \union {None}

LEMMA TypeParts == TypeOK <=> Flags /\ RunsOK /\ RowsOK /\ FieldsOK
  BY DEF TypeOK, Flags, RunsOK, RowsOK, FieldsOK

Restarted == [NoRun EXCEPT !.stage = "list", !.current = TRUE]

LEMMA RunTypes ==
  /\ NoRun \in Run /\ NoRun.stage = "free"
  /\ NoRun.batch = {} /\ NoRun.left = {} /\ ~NoRun.current
  /\ Restarted \in Run /\ Restarted.stage = "list"
  /\ Restarted.batch = {} /\ Restarted.left = {} /\ Restarted.current
  BY DEF NoRun, Run, Stages, Restarted

(* The updates of a run's record, field by field. *)
LEMMA Outdated ==
  ASSUME NEW v \in Run
  PROVE  /\ [v EXCEPT !.current = FALSE] \in Run
         /\ [v EXCEPT !.current = FALSE].stage = v.stage
         /\ [v EXCEPT !.current = FALSE].current = FALSE
         /\ [v EXCEPT !.current = FALSE].batch = v.batch
         /\ [v EXCEPT !.current = FALSE].left = v.left
         /\ [v EXCEPT !.current = FALSE].reply = v.reply
  BY DEF Run

LEMMA Moved ==
  ASSUME NEW v \in Run, NEW s \in Stages
  PROVE  /\ [v EXCEPT !.stage = s] \in Run
         /\ [v EXCEPT !.stage = s].stage = s
         /\ [v EXCEPT !.stage = s].current = v.current
         /\ [v EXCEPT !.stage = s].batch = v.batch
         /\ [v EXCEPT !.stage = s].left = v.left
         /\ [v EXCEPT !.stage = s].reply = v.reply
  BY DEF Run

LEMMA Orphaned ==
  ASSUME NEW v \in Run, NEW s \in Stages
  PROVE  /\ [v EXCEPT !.stage = s, !.current = FALSE] \in Run
         /\ [v EXCEPT !.stage = s, !.current = FALSE].stage = s
         /\ [v EXCEPT !.stage = s, !.current = FALSE].current = FALSE
         /\ [v EXCEPT !.stage = s, !.current = FALSE].batch = v.batch
         /\ [v EXCEPT !.stage = s, !.current = FALSE].left = v.left
         /\ [v EXCEPT !.stage = s, !.current = FALSE].reply = v.reply
  BY DEF Run

LEMMA ReplayFrame ==
  ASSUME TypeOK, Replay,
         \A q \in Runs : \/ runs'[q] = runs[q]
                         \/ /\ runs'[q].stage \in {"free", "list"}
                            /\ runs'[q].batch = {} /\ runs'[q].left = {}
                         \/ InOrder(q)' /\ Acknowledged(q)',
         \A m \in Mutations : queue[m] # "new" => queue'[m] # "new",
         \A m \in Mutations : queue[m] = "removed" => queue'[m] = "removed",
         reviewed \subseteq reviewed', applied \subseteq applied', refused \subseteq refused'
  PROVE  Replay'
  <1> SUFFICES ASSUME NEW q \in Runs
               PROVE  InOrder(q)' /\ Acknowledged(q)'
    BY DEF Replay
  <1>1. InOrder(q) /\ Acknowledged(q) /\ runs[q] \in Run
    BY DEF Replay, TypeOK
  <1>2. CASE runs'[q] = runs[q]
    <2>1. InOrder(q)'
      BY <1>1, <1>2 DEF InOrder, Settled, Run
    <2>2. Acknowledged(q)'
      BY <1>1, <1>2 DEF Acknowledged, Pending, Current
    <2>3. QED BY <2>1, <2>2
  <1>3. CASE runs'[q].stage \in {"free", "list"} /\ runs'[q].batch = {} /\ runs'[q].left = {}
    BY <1>3 DEF InOrder, Acknowledged, Pending
  <1>4. QED BY <1>2, <1>3

-----------------------------------------------------------------------------
(* What a step of a run does to the runs and to the coordinator: the run is*)
(* over, or its sender is gone; the coordinator begins the next run in its *)
(* place; or the run goes on under the same generation.                    *)

Over(r) ==
  /\ runs'[r] = NoRun
  /\ syncPromise' = IF syncPromise = r THEN None ELSE syncPromise
  /\ ~runs[r].current => UNCHANGED <<connectivity, status, syncRequested, checking>>

Arrived(r) == runs'[r] = NoRun /\ runs[r].stage = "orphan" /\ UNCHANGED coordinator

BeginsAnew(r) == runs'[r] = Restarted /\ runs[r].current /\ UNCHANGED syncPromise

GoesOn(r) ==
  /\ runs'[r] \in Run
  /\ runs'[r].stage \notin {"free", "orphan"}
  /\ runs'[r].current = runs[r].current
  /\ runs'[r].left \subseteq runs'[r].batch
  /\ UNCHANGED coordinator

StepOf(r) ==
  /\ \A q \in Runs \ {r} : runs'[q] = runs[q]
  /\ UNCHANGED active
  /\ Over(r) \/ Arrived(r) \/ BeginsAnew(r) \/ GoesOn(r)

LEMMA EndStep ==
  ASSUME TypeOK, NEW r \in Runs, NEW outcome, End(r, outcome)
  PROVE  /\ runs' \in [Runs -> Run]
         /\ \A q \in Runs \ {r} : runs'[q] = runs[q]
         /\ UNCHANGED active
         /\ Over(r) \/ BeginsAnew(r)
  <1>1. CASE EndObsolete(r)
    BY <1>1, RunTypes DEF TypeOK, EndObsolete, Leave, Over
  <1>2. CASE EndOffline(r)
    BY <1>2, RunTypes DEF TypeOK, EndOffline, Leave, Obsolete, Over
  <1>3. CASE EndOnline(r, outcome)
    <2>1. CASE Leave(r)
      BY <1>3, <2>1, RunTypes DEF TypeOK, EndOnline, Leave, Obsolete, Over
    <2>2. CASE Begin(r) /\ UNCHANGED syncPromise
      BY <1>3, <2>2, RunTypes DEF TypeOK, EndOnline, Begin, Obsolete, BeginsAnew, Restarted
    <2>3. QED BY <1>3, <2>1, <2>2 DEF EndOnline
  <1>4. QED BY <1>1, <1>2, <1>3 DEF End

LEMMA StepEffect ==
  ASSUME TypeOK, NEW r \in Runs, Step(r)
  PROVE  runs' \in [Runs -> Run] /\ StepOf(r)
  <1> DEFINE v == runs[r]
  <1>0. runs \in [Runs -> Run] /\ v \in Run /\ v.left \subseteq v.batch
    BY DEF TypeOK
  <1>a. ASSUME NEW w \in Run, w.stage \notin {"free", "orphan"}, w.current = v.current, w.left \subseteq w.batch,
               runs' = [runs EXCEPT ![r] = w], UNCHANGED coordinator
        PROVE  runs' \in [Runs -> Run] /\ StepOf(r)
    BY <1>0, <1>a DEF StepOf, GoesOn, coordinator
  <1>b. ASSUME NEW outcome, End(r, outcome)
        PROVE  runs' \in [Runs -> Run] /\ StepOf(r)
    BY <1>b, EndStep DEF StepOf
  <1>c. ASSUME runs' = [runs EXCEPT ![r] = NoRun], v.stage = "orphan", UNCHANGED coordinator
        PROVE  runs' \in [Runs -> Run] /\ StepOf(r)
    BY <1>0, <1>c, RunTypes DEF StepOf, Arrived, coordinator
  <1>d. ASSUME NEW s \in Stages \ {"free", "orphan"}, UNCHANGED coordinator,
               runs' = [runs EXCEPT ![r] = [v EXCEPT !.stage = s]]
        PROVE  runs' \in [Runs -> Run] /\ StepOf(r)
    <2>1. [v EXCEPT !.stage = s] \in Run
      BY <1>0, Moved
    <2>2. QED BY <1>0, <1>a, <1>d, <2>1, Moved, ZenonT(30)
  <1>e. ASSUME NEW s \in Stages \ {"free", "orphan"}, UNCHANGED coordinator, NEW a \in Replies \union {None},
               runs' = [runs EXCEPT ![r] = [v EXCEPT !.stage = s, !.reply = a]]
        PROVE  runs' \in [Runs -> Run] /\ StepOf(r)
    <2> DEFINE w == [v EXCEPT !.stage = s, !.reply = a]
    <2>1. w \in Run /\ w.stage = s /\ w.current = v.current /\ w.left = v.left /\ w.batch = v.batch
      BY <1>0 DEF Run
    <2>2. runs' = [runs EXCEPT ![r] = w] /\ UNCHANGED coordinator
      BY <1>e
    <2> HIDE DEF w
    <2>3. QED BY <1>0, <1>a, <1>e, <2>1, <2>2
  <1> HIDE DEF v
  <1>1. CASE List(r)
    <2>1. CASE \E outcome : End(r, outcome)
      BY <1>b, <2>1
    <2>2. ASSUME NEW batch \in SUBSET Mutations,
                 runs' = [runs EXCEPT ![r] = [v EXCEPT !.stage = "next", !.batch = batch, !.left = batch]],
                 UNCHANGED coordinator
          PROVE  runs' \in [Runs -> Run] /\ StepOf(r)
      <3> DEFINE w == [v EXCEPT !.stage = "next", !.batch = batch, !.left = batch]
      <3>1. w \in Run /\ w.stage = "next" /\ w.current = v.current /\ w.left = w.batch
        BY <1>0 DEF Stages, Run
      <3>2. runs' = [runs EXCEPT ![r] = w]
        BY <2>2
      <3> HIDE DEF w
      <3>3. QED BY <1>0, <1>a, <2>2, <3>1, <3>2
    <2>3. CASE ~ \E outcome : End(r, outcome)
      <3>1. PICK limit \in ReplayLimits :
              /\ runs' = [runs EXCEPT ![r] = [v EXCEPT !.stage = "next", !.batch = Listed("pending", limit),
                                                       !.left = Listed("pending", limit)]]
              /\ UNCHANGED coordinator
        BY <1>1, <2>3 DEF List, v
      <3>2. Listed("pending", limit) \in SUBSET Mutations
        BY DEF Listed, InState
      <3>3. QED BY <2>2, <3>1, <3>2
    <2>4. QED BY <2>1, <2>3
  <1>2. CASE SendNext(r)
    <2>1. CASE runs' = [runs EXCEPT ![r] = [v EXCEPT !.stage = "decide", !.reply = "invalid"]]
      BY <1>2, <1>e, <2>1 DEF SendNext, Stages, Replies
    <2>2. CASE runs' = [runs EXCEPT ![r] = [v EXCEPT !.stage = "sent"]]
      BY <1>2, <1>d, <2>2 DEF SendNext, Stages
    <2>3. QED BY <1>2, <2>1, <2>2 DEF SendNext, Move, v
  <1>3. CASE FinishBatch(r) \/ PauseWithoutToken(r) \/ RecordRetry(r) \/ FinishReview(r)
    BY <1>3, <1>b DEF FinishBatch, PauseWithoutToken, RecordRetry, FinishReview
  <1>4. CASE Serve(r) \/ Decline(r)
    <2>1. PICK reply \in Replies : Reply(r, reply) /\ UNCHANGED coordinator
      BY <1>4 DEF Serve, Decline, Replies
    <2>2. CASE v.stage = "orphan"
      BY <1>c, <2>1, <2>2 DEF Reply, v
    <2>3. CASE v.stage # "orphan"
      <3>1. runs' = [runs EXCEPT ![r] = [v EXCEPT !.stage = "decide", !.reply = reply]]
        BY <2>1, <2>3 DEF Reply, v
      <3>2. QED BY <1>e, <2>1, <3>1 DEF Stages
    <2>4. QED BY <2>2, <2>3
  <1>5. CASE Decide(r)
    <2>1. CASE \E outcome : End(r, outcome)
      BY <1>b, <2>1
    <2>2. CASE \E s \in {"refresh", "retry", "review"} :
                 /\ runs' = [runs EXCEPT ![r] = [v EXCEPT !.stage = s, !.reply = None]]
                 /\ UNCHANGED coordinator
      BY <1>e, <2>2 DEF Stages
    <2>3. QED BY <1>5, <2>1, <2>2 DEF Decide, Decision, v
  <1>6. CASE Refresh(r) \/ RequireReview(r)
    BY <1>6, <1>d DEF Refresh, RequireReview, Move, v, Stages
  <1>7. CASE RemoveRow(r)
    <2> DEFINE L == v.left \ {Current(r)}
               w == [v EXCEPT !.stage = "next", !.left = L]
    <2>1. L \in SUBSET Mutations /\ L \subseteq v.batch
      BY <1>0 DEF Run
    <2>2. w \in Run /\ w.stage = "next" /\ w.current = v.current /\ w.left = L /\ w.batch = v.batch
      BY <1>0, <2>1 DEF Stages, Run
    <2>3. runs' = [runs EXCEPT ![r] = w]
      BY <1>7 DEF RemoveRow, v
    <2> HIDE DEF w, L
    <2>4. QED BY <1>0, <1>7, <1>a, <2>1, <2>2, <2>3 DEF RemoveRow
  <1>8. CASE Throw(r)
    BY <1>0, <1>8, RunTypes DEF Throw, Leave, Obsolete, Over, StepOf, v
  <1>9. QED
    BY <1>1, <1>2, <1>3, <1>4, <1>5, <1>6, <1>7, <1>8 DEF Step

LEMMA StepStarted ==
  ASSUME NEW r \in Runs, Step(r)
  PROVE  runs[r].stage # "free"
  BY DEF Step, List, SendNext, FinishBatch, PauseWithoutToken, Serve, Decline, Decide, Refresh,
         RemoveRow, RecordRetry, RequireReview, FinishReview, Throw

(* The queue only moves on. *)
Forward ==
  /\ \A m \in Mutations : /\ queue[m] # "new" => queue'[m] # "new"
                          /\ queue[m] = "removed" => queue'[m] = "removed"
  /\ reviewed \subseteq reviewed' /\ applied \subseteq applied' /\ refused \subseteq refused'

LEMMA ReplayStepFrame ==
  ASSUME TypeOK, Replay, NEW r \in Runs, Step(r), Forward,
         GoesOn(r) => InOrder(r)' /\ Acknowledged(r)'
  PROVE  Replay'
  <1>1. StepOf(r)
    BY StepEffect
  <1>2. \A q \in Runs : \/ runs'[q] = runs[q]
                        \/ /\ runs'[q].stage \in {"free", "list"}
                           /\ runs'[q].batch = {} /\ runs'[q].left = {}
                        \/ InOrder(q)' /\ Acknowledged(q)'
    <2>1. ASSUME ~GoesOn(r)
          PROVE  runs'[r].stage \in {"free", "list"} /\ runs'[r].batch = {} /\ runs'[r].left = {}
      BY <1>1, <2>1, RunTypes DEF StepOf, Over, Arrived, BeginsAnew
    <2>2. QED BY <1>1, <2>1 DEF StepOf
  <1>3. QED BY <1>2, ReplayFrame DEF Forward

LEMMA InOrderKept ==
  ASSUME TypeOK, NEW r \in Runs, InOrder(r), Forward,
         runs'[r].batch = runs[r].batch, runs'[r].left = runs[r].left
  PROVE  InOrder(r)'
  <1>1. runs[r].batch \subseteq Mutations /\ runs[r].left \subseteq Mutations
    BY DEF TypeOK, Run
  <1>2. QED BY <1>1 DEF InOrder, Settled, Forward

(* The reply to the change a run is at, and what the run makes of it. *)
LEMMA AcknowledgedNext ==
  ASSUME NEW r \in Runs, runs[r].left # {}, runs'[r].left = runs[r].left,
         runs'[r].stage = "decide" =>
           /\ runs'[r].reply \in Replies
           /\ runs'[r].reply = "ok" => Current(r) \in applied'
           /\ runs'[r].reply \in {"missing", "forbidden"} => Current(r) \in refused',
         runs'[r].stage \in {"refresh", "remove"} => Current(r) \in applied' \union refused'
  PROVE  Acknowledged(r)'
  <1>1. Current(r)' = Current(r)
    BY DEF Current
  <1>2. QED BY <1>1 DEF Acknowledged, Pending

(* A run that goes on has not ended. *)
LEMMA EndKinds ==
  ASSUME TypeOK, NEW r \in Runs, GoesOn(r)
  PROVE  /\ \A outcome : ~End(r, outcome)
         /\ ~Leave(r)
  <1>1. ~Leave(r)
    BY RunTypes DEF Leave, TypeOK, GoesOn
  <1>2. ASSUME NEW outcome, End(r, outcome) PROVE FALSE
    <2>1. EndOnline(r, outcome) /\ syncRequested
      BY <1>1, <1>2 DEF End, EndObsolete, EndOffline, EndOnline
    <2>2. syncRequested' = FALSE
      BY <2>1 DEF EndOnline
    <2>3. syncRequested' = syncRequested
      BY DEF GoesOn, coordinator
    <2>4. QED BY <2>1, <2>2, <2>3
  <1>3. QED BY <1>1, <1>2

-----------------------------------------------------------------------------
LEMMA FlagsStep ==
  ASSUME TypeOK, [Next]_vars
  PROVE  Flags'
  <1> USE DEF TypeOK, Flags, coordinator, panel, server, rows, End, EndObsolete, EndOffline,
     EndOnline, Leave, Obsolete
  <1>1. ASSUME NEW m \in Mutations, Enqueue(m) PROVE Flags'
    BY <1>1, Zenon DEF Enqueue
  <1>2. ASSUME NEW m \in Mutations, KeepFamilyVersion(m) PROVE Flags'
    BY <1>2, Zenon DEF KeepFamilyVersion
  <1>3. CASE RequestSync
    BY <1>3, Zenon DEF RequestSync, Request, Drain, Begin
  <1>4. CASE Start
    BY <1>4, Zenon DEF Start
  <1>5. CASE Stop
    BY <1>5, Zenon DEF Stop
  <1>6. CASE CheckFails
    BY <1>6, Zenon DEF CheckFails
  <1>7. ASSUME NEW c \in Reports, Event(c) PROVE Flags'
    BY <1>7, Zenon DEF Event, HandleConnectivity, Request, Drain, Begin
  <1>8. ASSUME NEW c \in Reports, Checked(c) PROVE Flags'
    BY <1>8, Zenon DEF Checked, HandleConnectivity, Request, Drain, Begin
  <1>9. ASSUME NEW r \in Runs, List(r) PROVE Flags'
    BY <1>9, Zenon DEF List
  <1>10. ASSUME NEW r \in Runs, SendNext(r) PROVE Flags'
    BY <1>10, Zenon DEF SendNext, Move
  <1>11. ASSUME NEW r \in Runs, FinishBatch(r) PROVE Flags'
    BY <1>11, Zenon DEF FinishBatch
  <1>12. ASSUME NEW r \in Runs, PauseWithoutToken(r) PROVE Flags'
    BY <1>12, Zenon DEF PauseWithoutToken
  <1>13. ASSUME NEW r \in Runs, Serve(r) PROVE Flags'
    BY <1>13, Zenon DEF Serve, Reply
  <1>14. ASSUME NEW r \in Runs, Decline(r) PROVE Flags'
    BY <1>14, Zenon DEF Decline, Reply
  <1>15. ASSUME NEW r \in Runs, Decide(r) PROVE Flags'
    BY <1>15, Zenon DEF Decide, Decision
  <1>16. ASSUME NEW r \in Runs, Refresh(r) PROVE Flags'
    BY <1>16, Zenon DEF Refresh, Move, Refetch
  <1>17. ASSUME NEW r \in Runs, RemoveRow(r) PROVE Flags'
    BY <1>17, Zenon DEF RemoveRow, SetRow
  <1>18. ASSUME NEW r \in Runs, RecordRetry(r) PROVE Flags'
    BY <1>18, Zenon DEF RecordRetry, SetRow
  <1>19. ASSUME NEW r \in Runs, RequireReview(r) PROVE Flags'
    BY <1>19, Zenon DEF RequireReview, SetRow, Move
  <1>20. ASSUME NEW r \in Runs, FinishReview(r) PROVE Flags'
    BY <1>20, Zenon DEF FinishReview, Refetch
  <1>21. ASSUME NEW r \in Runs, Throw(r) PROVE Flags'
    BY <1>21, Zenon DEF Throw, Leave
  <1>22. CASE ListConflicts
    BY <1>22, Zenon DEF ListConflicts
  <1>23. CASE Resolve
    BY <1>23, Zenon DEF Resolve, Refetch
  <1>24. CASE ResolveFails
    BY <1>24, Zenon DEF ResolveFails
  <1>25. CASE ChangeToken
    BY <1>25, Zenon DEF ChangeToken
  <1>26. CASE Kill
    BY <1>26, Zenon DEF Kill
  <1>27. CASE UNCHANGED vars
    BY <1>27 DEF vars
  <1>28. QED
    BY <1>1, <1>2, <1>3, <1>4, <1>5, <1>6, <1>7, <1>8, <1>9, <1>10, <1>11, <1>12, <1>13, <1>14,
       <1>15, <1>16, <1>17, <1>18, <1>19, <1>20, <1>21, <1>22, <1>23, <1>24, <1>25, <1>26,
       <1>27 DEF Next, Step

LEMMA RunsStep ==
  ASSUME TypeOK, [Next]_vars
  PROVE  RunsOK'
  <1> USE DEF TypeOK, RunsOK, coordinator, panel, server, rows
  <1>1. ASSUME NEW m \in Mutations, Enqueue(m) PROVE RunsOK'
    BY <1>1 DEF Enqueue
  <1>2. ASSUME NEW m \in Mutations, KeepFamilyVersion(m) PROVE RunsOK'
    BY <1>2 DEF KeepFamilyVersion
  <1>3. CASE RequestSync
    <2>1. \/ UNCHANGED runs
        \/ \E r \in Runs : runs' = [runs EXCEPT ![r] = Restarted]
      BY <1>3, Zenon DEF RequestSync, HandleConnectivity, Request, Drain, Begin, Restarted
    <2>2. QED BY <2>1, RunTypes
  <1>4. CASE Start
    BY <1>4 DEF Start
  <1>5. CASE Stop
    <2>1. \A q \in Runs : runs'[q] = [runs[q] EXCEPT !.current = FALSE]
      BY <1>5 DEF Stop
    <2>2. QED BY <1>5, <2>1, Outdated DEF Stop
  <1>6. CASE CheckFails
    BY <1>6 DEF CheckFails
  <1>7. ASSUME NEW c \in Reports, Event(c) PROVE RunsOK'
    <2>1. \/ UNCHANGED runs
        \/ \E r \in Runs : runs' = [runs EXCEPT ![r] = Restarted]
      BY <1>7, Zenon DEF Event, HandleConnectivity, Request, Drain, Begin, Restarted
    <2>2. QED BY <2>1, RunTypes
  <1>8. ASSUME NEW c \in Reports, Checked(c) PROVE RunsOK'
    <2>1. \/ UNCHANGED runs
        \/ \E r \in Runs : runs' = [runs EXCEPT ![r] = Restarted]
      BY <1>8, Zenon DEF Checked, HandleConnectivity, Request, Drain, Begin, Restarted
    <2>2. QED BY <2>1, RunTypes
  <1>9. ASSUME NEW r \in Runs, Step(r) PROVE RunsOK'
    <2>1. runs' \in [Runs -> Run] /\ StepOf(r)
      BY <1>9, StepEffect
    <2>2. runs'[r].left \subseteq runs'[r].batch
      BY <2>1, RunTypes DEF StepOf, Over, Arrived, BeginsAnew, GoesOn
    <2>3. QED BY <2>1, <2>2 DEF StepOf
  <1>10. CASE ListConflicts
    BY <1>10 DEF ListConflicts
  <1>11. CASE Resolve
    BY <1>11 DEF Resolve, Refetch
  <1>12. CASE ResolveFails
    BY <1>12 DEF ResolveFails
  <1>13. CASE ChangeToken
    BY <1>13 DEF ChangeToken
  <1>14. CASE Kill
    <2>1. \A q \in Runs : \/ runs'[q] = NoRun
                          \/ runs'[q] = [runs[q] EXCEPT !.stage = "orphan", !.current = FALSE]
      BY <1>14 DEF Kill
    <2>2. \A q \in Runs : runs'[q] \in Run /\ runs'[q].left \subseteq runs'[q].batch
      <3>1. SUFFICES ASSUME NEW q \in Runs
                     PROVE  runs'[q] \in Run /\ runs'[q].left \subseteq runs'[q].batch
        OBVIOUS
      <3>2. CASE runs'[q] = NoRun
        BY <3>2, RunTypes
      <3>3. CASE runs'[q] = [runs[q] EXCEPT !.stage = "orphan", !.current = FALSE]
        <4>1. runs[q] \in Run /\ runs[q].left \subseteq runs[q].batch
          OBVIOUS
        <4>2. QED BY ONLY <3>3, <4>1 DEF Run, Stages
      <3>4. QED BY <2>1, <3>2, <3>3
    <2>3. QED BY <1>14, <2>2 DEF Kill
  <1>15. CASE UNCHANGED vars
    BY <1>15 DEF vars
  <1>16. QED
    BY <1>1, <1>2, <1>3, <1>4, <1>5, <1>6, <1>7, <1>8, <1>9, <1>10, <1>11, <1>12, <1>13, <1>14,
       <1>15 DEF Next

LEMMA FieldsStep ==
  ASSUME TypeOK, [Next]_vars
  PROVE  FieldsOK'
  <1> USE ReportsAssumption DEF TypeOK, FieldsOK, Statuses, Connectivity, StatusFor, Blocking,
     coordinator, panel, server, rows, End, EndObsolete, EndOffline, EndOnline, Leave, Obsolete
  <1>1. ASSUME NEW m \in Mutations, Enqueue(m) PROVE FieldsOK'
    BY <1>1 DEF Enqueue
  <1>2. ASSUME NEW m \in Mutations, KeepFamilyVersion(m) PROVE FieldsOK'
    BY <1>2 DEF KeepFamilyVersion
  <1>3. CASE RequestSync
    BY <1>3 DEF RequestSync, Request, Drain, Begin
  <1>4. CASE Start
    BY <1>4 DEF Start
  <1>5. CASE Stop
    BY <1>5 DEF Stop
  <1>6. CASE CheckFails
    BY <1>6 DEF CheckFails
  <1>7. ASSUME NEW c \in Reports, Event(c) PROVE FieldsOK'
    BY <1>7 DEF Event, HandleConnectivity, Request, Drain, Begin
  <1>8. ASSUME NEW c \in Reports, Checked(c) PROVE FieldsOK'
    BY <1>8 DEF Checked, HandleConnectivity, Request, Drain, Begin
  <1>9. ASSUME NEW r \in Runs, List(r) PROVE FieldsOK'
    BY <1>9 DEF List
  <1>10. ASSUME NEW r \in Runs, SendNext(r) PROVE FieldsOK'
    BY <1>10 DEF SendNext, Move
  <1>11. ASSUME NEW r \in Runs, FinishBatch(r) PROVE FieldsOK'
    BY <1>11 DEF FinishBatch
  <1>12. ASSUME NEW r \in Runs, PauseWithoutToken(r) PROVE FieldsOK'
    BY <1>12 DEF PauseWithoutToken
  <1>13. ASSUME NEW r \in Runs, Serve(r) PROVE FieldsOK'
    BY <1>13 DEF Serve, Reply
  <1>14. ASSUME NEW r \in Runs, Decline(r) PROVE FieldsOK'
    BY <1>14 DEF Decline, Reply
  <1>15. ASSUME NEW r \in Runs, Decide(r) PROVE FieldsOK'
    BY <1>15 DEF Decide, Decision
  <1>16. ASSUME NEW r \in Runs, Refresh(r) PROVE FieldsOK'
    BY <1>16 DEF Refresh, Move, Refetch
  <1>17. ASSUME NEW r \in Runs, RemoveRow(r) PROVE FieldsOK'
    BY <1>17 DEF RemoveRow, SetRow
  <1>18. ASSUME NEW r \in Runs, RecordRetry(r) PROVE FieldsOK'
    BY <1>18 DEF RecordRetry, SetRow
  <1>19. ASSUME NEW r \in Runs, RequireReview(r) PROVE FieldsOK'
    BY <1>19 DEF RequireReview, SetRow, Move
  <1>20. ASSUME NEW r \in Runs, FinishReview(r) PROVE FieldsOK'
    BY <1>20 DEF FinishReview, Refetch
  <1>21. ASSUME NEW r \in Runs, Throw(r) PROVE FieldsOK'
    BY <1>21 DEF Throw, Leave
  <1>22. CASE ListConflicts
    BY <1>22 DEF ListConflicts
  <1>23. CASE Resolve
    BY <1>23 DEF Resolve, Refetch
  <1>24. CASE ResolveFails
    BY <1>24 DEF ResolveFails
  <1>25. CASE ChangeToken
    BY <1>25 DEF ChangeToken
  <1>26. CASE Kill
    BY <1>26 DEF Kill
  <1>27. CASE UNCHANGED vars
    BY <1>27 DEF vars
  <1>28. QED
    BY <1>1, <1>2, <1>3, <1>4, <1>5, <1>6, <1>7, <1>8, <1>9, <1>10, <1>11, <1>12, <1>13, <1>14,
       <1>15, <1>16, <1>17, <1>18, <1>19, <1>20, <1>21, <1>22, <1>23, <1>24, <1>25, <1>26,
       <1>27 DEF Next, Step

LEMMA RowsStep ==
  ASSUME TypeOK, Replay, [Next]_vars
  PROVE  RowsOK'
  <1> USE NoneAssumption DEF TypeOK, RowsOK, InState, Replay, InOrder, coordinator, panel, server,
     rows
  <1>1. ASSUME NEW m \in Mutations, Enqueue(m) PROVE RowsOK'
    BY <1>1 DEF Enqueue
  <1>2. ASSUME NEW m \in Mutations, KeepFamilyVersion(m) PROVE RowsOK'
    BY <1>2 DEF KeepFamilyVersion
  <1>3. CASE RequestSync
    BY <1>3 DEF RequestSync, Request, Drain, Begin
  <1>4. CASE Start
    BY <1>4 DEF Start
  <1>5. CASE Stop
    BY <1>5 DEF Stop
  <1>6. CASE CheckFails
    BY <1>6 DEF CheckFails
  <1>7. ASSUME NEW c \in Reports, Event(c) PROVE RowsOK'
    BY <1>7 DEF Event, HandleConnectivity, Request, Drain, Begin
  <1>8. ASSUME NEW c \in Reports, Checked(c) PROVE RowsOK'
    BY <1>8 DEF Checked, HandleConnectivity, Request, Drain, Begin
  <1>9. ASSUME NEW r \in Runs, List(r) PROVE RowsOK'
    BY <1>9 DEF List
  <1>10. ASSUME NEW r \in Runs, SendNext(r) PROVE RowsOK'
    BY <1>10 DEF SendNext, Move
  <1>11. ASSUME NEW r \in Runs, FinishBatch(r) PROVE RowsOK'
    BY <1>11 DEF FinishBatch
  <1>12. ASSUME NEW r \in Runs, PauseWithoutToken(r) PROVE RowsOK'
    BY <1>12 DEF PauseWithoutToken
  <1>13. ASSUME NEW r \in Runs, Serve(r) PROVE RowsOK'
    <2>1. Current(r) \in Mutations /\ queue[Current(r)] # "new"
      BY <1>13, CurrentIsLeft DEF Serve, Acknowledged, Pending, InOrder
    <2>2. QED BY <1>13, <2>1 DEF Serve
  <1>14. ASSUME NEW r \in Runs, Decline(r) PROVE RowsOK'
    <2>1. Current(r) \in Mutations /\ queue[Current(r)] # "new"
      BY <1>14, CurrentIsLeft DEF Decline, Acknowledged, Pending, InOrder
    <2>2. QED BY <1>14, <2>1 DEF Decline
  <1>15. ASSUME NEW r \in Runs, Decide(r) PROVE RowsOK'
    BY <1>15 DEF Decide, Decision
  <1>16. ASSUME NEW r \in Runs, Refresh(r) PROVE RowsOK'
    BY <1>16 DEF Refresh, Move, Refetch
  <1>17. ASSUME NEW r \in Runs, RemoveRow(r) PROVE RowsOK'
    BY <1>17 DEF RemoveRow, SetRow
  <1>18. ASSUME NEW r \in Runs, RecordRetry(r) PROVE RowsOK'
    BY <1>18 DEF RecordRetry, SetRow
  <1>19. ASSUME NEW r \in Runs, RequireReview(r) PROVE RowsOK'
    BY <1>19 DEF RequireReview, SetRow, Move
  <1>20. ASSUME NEW r \in Runs, FinishReview(r) PROVE RowsOK'
    BY <1>20 DEF FinishReview, Refetch
  <1>21. ASSUME NEW r \in Runs, Throw(r) PROVE RowsOK'
    BY <1>21 DEF Throw, Leave
  <1>22. CASE ListConflicts
    <2>1. /\ UNCHANGED <<queue, reviewed, applied, refused, view, resolving>>
          /\ conflicts' \subseteq InState("requires_review")
      BY <1>22 DEF ListConflicts, Listed
    <2>2. QED BY <2>1
  <1>23. CASE Resolve
    BY <1>23 DEF Resolve, Refetch
  <1>24. CASE ResolveFails
    BY <1>24 DEF ResolveFails
  <1>25. CASE ChangeToken
    BY <1>25 DEF ChangeToken
  <1>26. CASE Kill
    BY <1>26 DEF Kill
  <1>27. CASE UNCHANGED vars
    BY <1>27 DEF vars
  <1>28. QED
    BY <1>1, <1>2, <1>3, <1>4, <1>5, <1>6, <1>7, <1>8, <1>9, <1>10, <1>11, <1>12, <1>13, <1>14,
       <1>15, <1>16, <1>17, <1>18, <1>19, <1>20, <1>21, <1>22, <1>23, <1>24, <1>25, <1>26,
       <1>27 DEF Next, Step

LEMMA NumberedStep ==
  ASSUME TypeOK, Replay, Numbered, [Next]_vars
  PROVE  Numbered'
  <1> USE DEF TypeOK, Numbered, coordinator, panel, server, rows
  <1>1. ASSUME NEW m \in Mutations, Enqueue(m) PROVE Numbered'
    BY <1>1 DEF Enqueue
  <1>2. ASSUME NEW m \in Mutations, KeepFamilyVersion(m) PROVE Numbered'
    BY <1>2 DEF KeepFamilyVersion
  <1>3. CASE RequestSync
    BY <1>3 DEF RequestSync, Request, Drain, Begin
  <1>4. CASE Start
    BY <1>4 DEF Start
  <1>5. CASE Stop
    BY <1>5 DEF Stop
  <1>6. CASE CheckFails
    BY <1>6 DEF CheckFails
  <1>7. ASSUME NEW c \in Reports, Event(c) PROVE Numbered'
    BY <1>7 DEF Event, HandleConnectivity, Request, Drain, Begin
  <1>8. ASSUME NEW c \in Reports, Checked(c) PROVE Numbered'
    BY <1>8 DEF Checked, HandleConnectivity, Request, Drain, Begin
  <1>9. ASSUME NEW r \in Runs, List(r) PROVE Numbered'
    BY <1>9 DEF List
  <1>10. ASSUME NEW r \in Runs, SendNext(r) PROVE Numbered'
    BY <1>10 DEF SendNext, Move
  <1>11. ASSUME NEW r \in Runs, FinishBatch(r) PROVE Numbered'
    BY <1>11 DEF FinishBatch
  <1>12. ASSUME NEW r \in Runs, PauseWithoutToken(r) PROVE Numbered'
    BY <1>12 DEF PauseWithoutToken
  <1>13. ASSUME NEW r \in Runs, Serve(r) PROVE Numbered'
    BY <1>13 DEF Serve, Reply
  <1>14. ASSUME NEW r \in Runs, Decline(r) PROVE Numbered'
    BY <1>14 DEF Decline, Reply
  <1>15. ASSUME NEW r \in Runs, Decide(r) PROVE Numbered'
    BY <1>15 DEF Decide, Decision
  <1>16. ASSUME NEW r \in Runs, Refresh(r) PROVE Numbered'
    BY <1>16 DEF Refresh, Move, Refetch
  <1>17. ASSUME NEW r \in Runs, RemoveRow(r) PROVE Numbered'
    <2>1. \A m \in Mutations : queue[m] # "new" <=> queue'[m] # "new"
      <3>1. Current(r) \in Mutations /\ queue[Current(r)] # "new"
        BY <1>17, CurrentIsLeft DEF RemoveRow, Replay, Acknowledged, Pending, InOrder
      <3>2. QED BY <1>17, <3>1 DEF RemoveRow, SetRow
    <2>2. QED BY <2>1
  <1>18. ASSUME NEW r \in Runs, RecordRetry(r) PROVE Numbered'
    <2>1. \A m \in Mutations : queue[m] # "new" <=> queue'[m] # "new"
      <3>1. Current(r) \in Mutations /\ queue[Current(r)] # "new"
        BY <1>18, CurrentIsLeft DEF RecordRetry, Replay, Acknowledged, Pending, InOrder
      <3>2. QED BY <1>18, <3>1 DEF RecordRetry, SetRow
    <2>2. QED BY <2>1
  <1>19. ASSUME NEW r \in Runs, RequireReview(r) PROVE Numbered'
    <2>1. \A m \in Mutations : queue[m] # "new" <=> queue'[m] # "new"
      <3>1. Current(r) \in Mutations /\ queue[Current(r)] # "new"
        BY <1>19, CurrentIsLeft DEF RequireReview, Replay, Acknowledged, Pending, InOrder
      <3>2. QED BY <1>19, <3>1 DEF RequireReview, SetRow
    <2>2. QED BY <2>1
  <1>20. ASSUME NEW r \in Runs, FinishReview(r) PROVE Numbered'
    BY <1>20 DEF FinishReview, Refetch
  <1>21. ASSUME NEW r \in Runs, Throw(r) PROVE Numbered'
    BY <1>21 DEF Throw, Leave
  <1>22. CASE ListConflicts
    BY <1>22 DEF ListConflicts
  <1>23. CASE Resolve
    BY <1>23 DEF Resolve, Refetch
  <1>24. CASE ResolveFails
    BY <1>24 DEF ResolveFails
  <1>25. CASE ChangeToken
    BY <1>25 DEF ChangeToken
  <1>26. CASE Kill
    BY <1>26 DEF Kill
  <1>27. CASE UNCHANGED vars
    BY <1>27 DEF vars
  <1>28. QED
    BY <1>1, <1>2, <1>3, <1>4, <1>5, <1>6, <1>7, <1>8, <1>9, <1>10, <1>11, <1>12, <1>13, <1>14,
       <1>15, <1>16, <1>17, <1>18, <1>19, <1>20, <1>21, <1>22, <1>23, <1>24, <1>25, <1>26,
       <1>27 DEF Next, Step

LEMMA PromiseStep ==
  ASSUME TypeOK, Promise, Stopped, [Next]_vars
  PROVE  Promise'
  <1> USE DEF TypeOK, Promise, coordinator, panel, server, rows
  <1>1. ASSUME NEW m \in Mutations, Enqueue(m) PROVE Promise'
    BY <1>1 DEF Enqueue
  <1>2. ASSUME NEW m \in Mutations, KeepFamilyVersion(m) PROVE Promise'
    BY <1>2 DEF KeepFamilyVersion
  <1>3. CASE RequestSync
    <2>1. CASE UNCHANGED <<runs, syncPromise>>
      BY <2>1
    <2>2. CASE syncPromise = None /\ Drain
      <3>1. PICK r \in Runs : runs' = [runs EXCEPT ![r] = Restarted] /\ syncPromise' = r
        BY <2>2 DEF Drain, Begin, Restarted
      <3>2. \A q \in Runs : ~(runs[q].stage # "free" /\ runs[q].current)
        BY <2>2, NoneAssumption
      <3>3. QED BY <3>1, <3>2, RunTypes
    <2>3. QED BY <1>3, <2>1, <2>2, Zenon DEF RequestSync, HandleConnectivity, Request
  <1>4. CASE Start
    BY <1>4 DEF Start
  <1>5. CASE Stop
    <2>1. \A q \in Runs : runs'[q] = [runs[q] EXCEPT !.current = FALSE]
      BY <1>5 DEF Stop
    <2>2. \A q \in Runs : ~runs'[q].current
      <3>1. \A q \in Runs : runs[q] \in Run
        BY DEF TypeOK
      <3>2. QED BY ONLY <2>1, <3>1, Outdated
    <2>3. QED BY <1>5, <2>2, NoneAssumption DEF Stop
  <1>6. CASE CheckFails
    BY <1>6 DEF CheckFails
  <1>7. ASSUME NEW c \in Reports, Event(c) PROVE Promise'
    <2>1. CASE UNCHANGED <<runs, syncPromise>>
      BY <2>1
    <2>2. CASE syncPromise = None /\ Drain
      <3>1. PICK r \in Runs : runs' = [runs EXCEPT ![r] = Restarted] /\ syncPromise' = r
        BY <2>2 DEF Drain, Begin, Restarted
      <3>2. \A q \in Runs : ~(runs[q].stage # "free" /\ runs[q].current)
        BY <2>2, NoneAssumption
      <3>3. QED BY <3>1, <3>2, RunTypes
    <2>3. QED BY <1>7, <2>1, <2>2, Zenon DEF Event, HandleConnectivity, Request
  <1>8. ASSUME NEW c \in Reports, Checked(c) PROVE Promise'
    <2>1. CASE UNCHANGED <<runs, syncPromise>>
      BY <2>1
    <2>2. CASE syncPromise = None /\ Drain
      <3>1. PICK r \in Runs : runs' = [runs EXCEPT ![r] = Restarted] /\ syncPromise' = r
        BY <2>2 DEF Drain, Begin, Restarted
      <3>2. \A q \in Runs : ~(runs[q].stage # "free" /\ runs[q].current)
        BY <2>2, NoneAssumption
      <3>3. QED BY <3>1, <3>2, RunTypes
    <2>3. QED BY <1>8, <2>1, <2>2, Zenon DEF Checked, HandleConnectivity, Request
  <1>9. ASSUME NEW r \in Runs, Step(r) PROVE Promise'
    <2>1. StepOf(r)
      BY <1>9, StepEffect
    <2>2. CASE Over(r)
      BY <2>1, <2>2, RunTypes, NoneAssumption DEF StepOf, Over
    <2>3. CASE Arrived(r)
      BY <2>1, <2>3, RunTypes, NoneAssumption DEF StepOf, Arrived, coordinator
    <2>4. CASE BeginsAnew(r)
      BY <2>1, <2>4, RunTypes, NoneAssumption, StepStarted, <1>9 DEF StepOf, BeginsAnew
    <2>5. CASE GoesOn(r)
      BY <2>1, <2>5, StepStarted, <1>9 DEF StepOf, GoesOn, coordinator
    <2>6. QED BY <2>1, <2>2, <2>3, <2>4, <2>5 DEF StepOf
  <1>10. CASE ListConflicts
    BY <1>10 DEF ListConflicts
  <1>11. CASE Resolve
    BY <1>11 DEF Resolve, Refetch
  <1>12. CASE ResolveFails
    BY <1>12 DEF ResolveFails
  <1>13. CASE ChangeToken
    BY <1>13 DEF ChangeToken
  <1>14. CASE Kill
    <2>1. \A q \in Runs : \/ runs'[q] = NoRun
                          \/ runs'[q] = [runs[q] EXCEPT !.stage = "orphan", !.current = FALSE]
      BY <1>14 DEF Kill
    <2>2. \A q \in Runs : ~runs'[q].current
      <3>1. \A v \in Run : ~[v EXCEPT !.stage = "orphan", !.current = FALSE].current
        BY DEF Run
      <3>2. \A q \in Runs : runs[q] \in Run
        OBVIOUS
      <3>3. QED BY ONLY <2>1, <3>1, <3>2, RunTypes
    <2>3. QED BY <1>14, <2>2, NoneAssumption DEF Kill
  <1>15. CASE UNCHANGED vars
    BY <1>15 DEF vars
  <1>16. QED
    BY <1>1, <1>2, <1>3, <1>4, <1>5, <1>6, <1>7, <1>8, <1>9, <1>10, <1>11, <1>12, <1>13, <1>14,
       <1>15 DEF Next

LEMMA StoppedStep ==
  ASSUME TypeOK, Promise, Stopped, [Next]_vars
  PROVE  Stopped'
  <1> USE DEF TypeOK, Promise, Stopped, coordinator, panel, server, rows
  <1>1. ASSUME NEW m \in Mutations, Enqueue(m) PROVE Stopped'
    BY <1>1, Zenon DEF Enqueue
  <1>2. ASSUME NEW m \in Mutations, KeepFamilyVersion(m) PROVE Stopped'
    BY <1>2, Zenon DEF KeepFamilyVersion
  <1>3. CASE RequestSync
    BY <1>3, Zenon DEF RequestSync, Request, Drain, Begin
  <1>4. CASE Start
    BY <1>4, Zenon DEF Start
  <1>5. CASE Stop
    BY <1>5, Zenon DEF Stop
  <1>6. CASE CheckFails
    BY <1>6, Zenon DEF CheckFails
  <1>7. ASSUME NEW c \in Reports, Event(c) PROVE Stopped'
    BY <1>7, Zenon DEF Event, HandleConnectivity, Request, Drain, Begin
  <1>8. ASSUME NEW c \in Reports, Checked(c) PROVE Stopped'
    BY <1>8, Zenon DEF Checked, HandleConnectivity, Request, Drain, Begin
  <1>9. ASSUME NEW r \in Runs, Step(r) PROVE Stopped'
    <2>1. StepOf(r)
      BY <1>9, StepEffect
    <2>2. SUFFICES ASSUME ~active
                   PROVE  UNCHANGED coordinator
      BY <2>1 DEF StepOf, coordinator
    <2>3. ~runs[r].current
      BY <2>2, StepStarted, <1>9, NoneAssumption
    <2>4. QED BY <2>1, <2>2, <2>3, RunTypes DEF StepOf, Over, Arrived, BeginsAnew, GoesOn,
    coordinator
  <1>10. CASE ListConflicts
    BY <1>10, Zenon DEF ListConflicts
  <1>11. CASE Resolve
    BY <1>11, Zenon DEF Resolve, Refetch
  <1>12. CASE ResolveFails
    BY <1>12, Zenon DEF ResolveFails
  <1>13. CASE ChangeToken
    BY <1>13, Zenon DEF ChangeToken
  <1>14. CASE Kill
    BY <1>14, Zenon DEF Kill
  <1>15. CASE UNCHANGED vars
    BY <1>15 DEF vars
  <1>16. QED
    BY <1>1, <1>2, <1>3, <1>4, <1>5, <1>6, <1>7, <1>8, <1>9, <1>10, <1>11, <1>12, <1>13, <1>14,
       <1>15 DEF Next

LEMMA ReplayStep ==
  ASSUME TypeOK, Numbered, Replay, [Next]_vars
  PROVE  Replay'
  <1>1. ASSUME NEW m \in Mutations, Enqueue(m) PROVE Replay'
    BY <1>1, ReplayFrame DEF Enqueue, TypeOK, server
  <1>2. ASSUME NEW m \in Mutations, KeepFamilyVersion(m) PROVE Replay'
    <2>1. UNCHANGED <<runs, queue, reviewed, applied, refused>>
      BY <1>2 DEF KeepFamilyVersion, rows, server, coordinator, panel
    <2>2. QED BY <2>1 DEF Replay, InOrder, Acknowledged, Pending, Settled, Current
  <1>3. CASE RequestSync
    <2>1. \A q \in Runs : \/ runs'[q] = runs[q]
                          \/ runs'[q].stage = "list" /\ runs'[q].batch = {} /\ runs'[q].left = {}
      <3>1. runs \in [Runs -> Run]
        BY DEF TypeOK
      <3>2. \/ UNCHANGED runs
            \/ \E r \in Runs : runs' = [runs EXCEPT ![r] = Restarted]
        BY <1>3, Zenon DEF RequestSync, HandleConnectivity, Request, Drain, Begin, Restarted
      <3>3. QED BY ONLY <3>1, <3>2, RunTypes
    <2>2. UNCHANGED <<queue, reviewed, applied, refused>>
      BY <1>3 DEF RequestSync, rows, server
    <2>3. QED BY <2>1, <2>2, ReplayFrame
  <1>4. CASE Start
    <2>1. UNCHANGED <<runs, queue, reviewed, applied, refused>>
      BY <1>4 DEF Start, rows, server, coordinator, panel
    <2>2. QED BY <2>1 DEF Replay, InOrder, Acknowledged, Pending, Settled, Current
  <1>5. CASE Stop
    <2>1. \A q \in Runs : runs'[q] = [runs[q] EXCEPT !.current = FALSE]
      BY <1>5 DEF Stop, TypeOK
    <2>2. ASSUME NEW q \in Runs
          PROVE  InOrder(q)' /\ Acknowledged(q)'
      <3>1. /\ runs'[q].stage = runs[q].stage /\ runs'[q].batch = runs[q].batch
            /\ runs'[q].left = runs[q].left /\ runs'[q].reply = runs[q].reply
        BY <2>1, Outdated DEF TypeOK
      <3>2. UNCHANGED <<queue, reviewed, applied, refused>>
        BY <1>5 DEF Stop, rows, server
      <3>3. QED BY <3>1, <3>2 DEF Replay, InOrder, Acknowledged, Pending, Settled, Current
    <2>3. QED BY <2>2 DEF Replay
  <1>6. CASE CheckFails
    <2>1. UNCHANGED <<runs, queue, reviewed, applied, refused>>
      BY <1>6 DEF CheckFails, rows, server, coordinator, panel
    <2>2. QED BY <2>1 DEF Replay, InOrder, Acknowledged, Pending, Settled, Current
  <1>7. ASSUME NEW c \in Reports, Event(c) PROVE Replay'
    <2>1. \A q \in Runs : \/ runs'[q] = runs[q]
                          \/ runs'[q].stage = "list" /\ runs'[q].batch = {} /\ runs'[q].left = {}
      <3>1. runs \in [Runs -> Run]
        BY DEF TypeOK
      <3>2. \/ UNCHANGED runs
            \/ \E r \in Runs : runs' = [runs EXCEPT ![r] = Restarted]
        BY <1>7, Zenon DEF Event, HandleConnectivity, Request, Drain, Begin, Restarted
      <3>3. QED BY ONLY <3>1, <3>2, RunTypes
    <2>2. UNCHANGED <<queue, reviewed, applied, refused>>
      BY <1>7 DEF Event, rows, server
    <2>3. QED BY <2>1, <2>2, ReplayFrame
  <1>8. ASSUME NEW c \in Reports, Checked(c) PROVE Replay'
    <2>1. \A q \in Runs : \/ runs'[q] = runs[q]
                          \/ runs'[q].stage = "list" /\ runs'[q].batch = {} /\ runs'[q].left = {}
      <3>1. runs \in [Runs -> Run]
        BY DEF TypeOK
      <3>2. \/ UNCHANGED runs
            \/ \E r \in Runs : runs' = [runs EXCEPT ![r] = Restarted]
        BY <1>8, Zenon DEF Checked, HandleConnectivity, Request, Drain, Begin, Restarted
      <3>3. QED BY ONLY <3>1, <3>2, RunTypes
    <2>2. UNCHANGED <<queue, reviewed, applied, refused>>
      BY <1>8 DEF Checked, rows, server
    <2>3. QED BY <2>1, <2>2, ReplayFrame
  <1>9. ASSUME NEW r \in Runs, List(r) PROVE Replay'
    <2>1. Forward
      BY <1>9 DEF List, Forward, rows, server
    <2>2. ASSUME GoesOn(r)
          PROVE  InOrder(r)' /\ Acknowledged(r)'
      <3>1. PICK limit \in ReplayLimits :
              runs'[r] = [runs[r] EXCEPT !.stage = "next", !.batch = Listed("pending", limit),
                                         !.left = Listed("pending", limit)]
        BY <1>9, <2>2, EndKinds DEF List, TypeOK
      <3> DEFINE batch == Listed("pending", limit)
      <3>0. batch \subseteq InState("pending")
        BY DEF Listed
      <3>2. runs'[r].batch = batch /\ runs'[r].left = batch /\ runs'[r].stage = "next"
        BY <3>1 DEF TypeOK, Run
      <3>3. UNCHANGED <<queue, reviewed>>
        BY <1>9 DEF List, rows
      <3>4. ASSUME NEW m \in batch, NEW k \in Mutations \ batch, k < m
            PROVE  Settled(k)
        <4>1. k \notin InState("pending")
          BY <3>4, LimitsAssumption, OldestFirst
        <4>2. queue[k] \notin {"new", "pending"}
          BY <3>0, <3>4, <4>1 DEF InState, Numbered
        <4>3. QED BY <3>4, <4>2 DEF Settled, InState, TypeOK
      <3> HIDE DEF batch
      <3>5. InOrder(r)'
        BY <3>0, <3>2, <3>3, <3>4 DEF InOrder, InState, Settled
      <3>6. QED BY <3>2, <3>5 DEF Acknowledged, Pending
    <2>3. QED BY <1>9, <2>1, <2>2, ReplayStepFrame DEF Step
  <1>10. ASSUME NEW r \in Runs, SendNext(r) PROVE Replay'
    <2>1. Forward
      BY <1>10 DEF SendNext, Forward, rows, server
    <2>2. ASSUME GoesOn(r)
          PROVE  InOrder(r)' /\ Acknowledged(r)'
      <3>0. InOrder(r) /\ Acknowledged(r) /\ runs \in [Runs -> Run] /\ runs[r] \in Run
        BY DEF Replay, TypeOK
      <3>1. \/ runs'[r] = [runs[r] EXCEPT !.stage = "decide", !.reply = "invalid"]
            \/ runs'[r] = [runs[r] EXCEPT !.stage = "sent"]
        BY <1>10, <3>0 DEF SendNext, Move
      <3>2. runs'[r].batch = runs[r].batch /\ runs'[r].left = runs[r].left
        BY ONLY <3>0, <3>1 DEF Run
      <3>3. \/ runs'[r].stage = "sent"
            \/ runs'[r].stage = "decide" /\ runs'[r].reply = "invalid" 
        BY ONLY <3>0, <3>1 DEF Run
      <3>4. runs[r].left # {}
        BY <1>10 DEF SendNext
      <3>5. InOrder(r)'
        BY <2>1, <3>0, <3>2, InOrderKept
      <3>6. Acknowledged(r)'
        BY <3>2, <3>3, <3>4, AcknowledgedNext DEF Replies
      <3>7. QED BY <3>5, <3>6
    <2>3. QED BY <1>10, <2>1, <2>2, ReplayStepFrame DEF Step
  <1>11. ASSUME NEW r \in Runs, FinishBatch(r) PROVE Replay'
    <2>1. ~GoesOn(r)
      BY <1>11, EndKinds DEF FinishBatch
    <2>2. QED BY <1>11, <2>1, ReplayStepFrame DEF FinishBatch, Forward, rows, server, Step
  <1>12. ASSUME NEW r \in Runs, PauseWithoutToken(r) PROVE Replay'
    <2>1. ~GoesOn(r)
      BY <1>12, EndKinds DEF PauseWithoutToken
    <2>2. QED BY <1>12, <2>1, ReplayStepFrame DEF PauseWithoutToken, Forward, rows, server, Step
  <1>13. ASSUME NEW r \in Runs, Serve(r) PROVE Replay'
    <2>1. Forward
      BY <1>13 DEF Serve, Forward, rows, server
    <2>2. ASSUME GoesOn(r)
          PROVE  InOrder(r)' /\ Acknowledged(r)'
      <3>0. InOrder(r) /\ Acknowledged(r) /\ runs \in [Runs -> Run] /\ runs[r] \in Run
        BY DEF Replay, TypeOK
      <3>a. PICK reply \in {"ok", "lost"} : Reply(r, reply)
        BY <1>13 DEF Serve, Replies
      <3>b. runs[r].stage # "orphan"
        BY <2>2, <3>0, <3>a, RunTypes DEF Reply, GoesOn
      <3>1. runs'[r] = [runs[r] EXCEPT !.stage = "decide", !.reply = reply]
        BY <3>0, <3>a, <3>b DEF Reply
      <3>2. runs'[r].batch = runs[r].batch /\ runs'[r].left = runs[r].left
        BY ONLY <3>0, <3>1 DEF Run
      <3>3. runs'[r].stage = "decide" /\ runs'[r].reply = reply
        BY ONLY <3>0, <3>1 DEF Run
      <3>4. runs[r].left # {}
        BY <1>13, <3>0 DEF Serve, Acknowledged, Pending
      <3>5. InOrder(r)'
        BY <2>1, <3>0, <3>2, InOrderKept
      <3>6. Acknowledged(r)'
        <4>1. Current(r) \in applied'
          BY <1>13 DEF Serve
        <4>2. QED BY <3>2, <3>3, <3>4, <3>a, <4>1, AcknowledgedNext DEF Replies
      <3>7. QED BY <3>5, <3>6
    <2>3. QED BY <1>13, <2>1, <2>2, ReplayStepFrame DEF Step
  <1>14. ASSUME NEW r \in Runs, Decline(r) PROVE Replay'
    <2>1. Forward
      BY <1>14 DEF Decline, Forward, rows, server
    <2>2. ASSUME GoesOn(r)
          PROVE  InOrder(r)' /\ Acknowledged(r)'
      <3>0. InOrder(r) /\ Acknowledged(r) /\ runs \in [Runs -> Run] /\ runs[r] \in Run
        BY DEF Replay, TypeOK
      <3>a. PICK reply \in Replies \ {"ok"} : Reply(r, reply)
                                 /\ (reply \in {"missing", "forbidden"} => Current(r) \in refused')
        BY <1>14 DEF Decline, Replies
      <3>b. runs[r].stage # "orphan"
        BY <2>2, <3>0, <3>a, RunTypes DEF Reply, GoesOn
      <3>1. runs'[r] = [runs[r] EXCEPT !.stage = "decide", !.reply = reply]
        BY <3>0, <3>a, <3>b DEF Reply
      <3>2. runs'[r].batch = runs[r].batch /\ runs'[r].left = runs[r].left
        BY ONLY <3>0, <3>1 DEF Run
      <3>3. runs'[r].stage = "decide" /\ runs'[r].reply = reply
        BY ONLY <3>0, <3>1 DEF Run
      <3>4. runs[r].left # {}
        BY <1>14, <3>0 DEF Decline, Acknowledged, Pending
      <3>5. InOrder(r)'
        BY <2>1, <3>0, <3>2, InOrderKept
      <3>6. Acknowledged(r)'
        BY <3>2, <3>3, <3>4, <3>a, AcknowledgedNext DEF Replies
      <3>7. QED BY <3>5, <3>6
    <2>3. QED BY <1>14, <2>1, <2>2, ReplayStepFrame DEF Step
  <1>15. ASSUME NEW r \in Runs, Decide(r) PROVE Replay'
    <2>1. Forward
      BY <1>15 DEF Decide, Forward, rows, server
    <2>2. ASSUME GoesOn(r)
          PROVE  InOrder(r)' /\ Acknowledged(r)'
      <3>0. InOrder(r) /\ Acknowledged(r) /\ runs \in [Runs -> Run] /\ runs[r] \in Run
        BY DEF Replay, TypeOK
      <3>a. Decision(runs[r].reply) \in {"refresh", "retry", "review"}
        BY <1>15, <2>2, EndKinds DEF Decide, Decision
      <3>1. runs'[r] = [runs[r] EXCEPT !.stage = Decision(runs[r].reply), !.reply = None]
        BY <1>15, <2>2, <3>0, EndKinds DEF Decide
      <3>2. runs'[r].batch = runs[r].batch /\ runs'[r].left = runs[r].left
        BY ONLY <3>0, <3>1 DEF Run
      <3>3. runs'[r].stage = Decision(runs[r].reply)
        BY ONLY <3>0, <3>1 DEF Run
      <3>4. runs[r].left # {}
        BY <1>15, <3>0 DEF Decide, Acknowledged, Pending
      <3>5. InOrder(r)'
        BY <2>1, <3>0, <3>2, InOrderKept
      <3>6. Acknowledged(r)'
        <4>1. UNCHANGED <<applied, refused>> /\ runs[r].stage = "decide"
          BY <1>15 DEF Decide, server
        <4>2. Decision(runs[r].reply) = "refresh" => Current(r) \in applied \union refused
          BY <3>0, <4>1 DEF Acknowledged, Decision, Replies
        <4>3. QED BY <3>2, <3>3, <3>4, <3>a, <4>1, <4>2, AcknowledgedNext
      <3>7. QED BY <3>5, <3>6
    <2>3. QED BY <1>15, <2>1, <2>2, ReplayStepFrame DEF Step
  <1>16. ASSUME NEW r \in Runs, Refresh(r) PROVE Replay'
    <2>1. Forward
      BY <1>16 DEF Refresh, Forward, rows, server
    <2>2. ASSUME GoesOn(r)
          PROVE  InOrder(r)' /\ Acknowledged(r)'
      <3>0. InOrder(r) /\ Acknowledged(r) /\ runs \in [Runs -> Run] /\ runs[r] \in Run
        BY DEF Replay, TypeOK
      <3>1. runs'[r] = [runs[r] EXCEPT !.stage = "remove"]
        BY <1>16, <3>0 DEF Refresh, Move
      <3>2. runs'[r].batch = runs[r].batch /\ runs'[r].left = runs[r].left
        BY ONLY <3>0, <3>1 DEF Run
      <3>3. runs'[r].stage = "remove" 
        BY ONLY <3>0, <3>1 DEF Run
      <3>4. runs[r].left # {}
        BY <1>16, <3>0 DEF Refresh, Acknowledged, Pending
      <3>5. InOrder(r)'
        BY <2>1, <3>0, <3>2, InOrderKept
      <3>6. Acknowledged(r)'
        <4>1. UNCHANGED <<applied, refused>> /\ runs[r].stage = "refresh"
          BY <1>16 DEF Refresh, rows, server
        <4>2. Current(r) \in applied \union refused
          BY <3>0, <4>1 DEF Acknowledged
        <4>3. QED BY <3>2, <3>3, <3>4, <4>1, <4>2, AcknowledgedNext
      <3>7. QED BY <3>5, <3>6
    <2>3. QED BY <1>16, <2>1, <2>2, ReplayStepFrame DEF Step
  <1>17. ASSUME NEW r \in Runs, RemoveRow(r) PROVE Replay'
    <2>1. Current(r) \in runs[r].left /\ Current(r) \in Mutations
      BY <1>17, CurrentIsLeft DEF RemoveRow, Replay, Acknowledged, Pending
    <2>2. Forward
      BY <1>17, <2>1 DEF RemoveRow, Forward, server, SetRow, TypeOK
    <2>3. ASSUME GoesOn(r)
          PROVE  InOrder(r)' /\ Acknowledged(r)'
      <3>1. runs'[r] = [runs[r] EXCEPT !.stage = "next", !.left = runs[r].left \ {Current(r)}]
        BY <1>17 DEF RemoveRow, TypeOK
      <3>2. /\ runs'[r].batch = runs[r].batch /\ runs'[r].left = runs[r].left \ {Current(r)}
            /\ runs'[r].stage = "next"
        BY <3>1 DEF TypeOK, Run
      <3>3. queue'[Current(r)] = "removed"
        BY <1>17, <2>1 DEF RemoveRow, SetRow, TypeOK
      <3>4. runs[r].batch \subseteq Mutations /\ InOrder(r)
        BY DEF TypeOK, Run, Replay
      <3>5. InOrder(r)'
        BY <2>2, <3>2, <3>3, <3>4 DEF InOrder, Forward, Settled
      <3>6. QED BY <3>2, <3>5 DEF Acknowledged, Pending
    <2>4. QED BY <1>17, <2>2, <2>3, ReplayStepFrame DEF Step
  <1>18. ASSUME NEW r \in Runs, RecordRetry(r) PROVE Replay'
    <2>1. ~GoesOn(r)
      BY <1>18, EndKinds DEF RecordRetry
    <2>2. Forward
      BY <1>18 DEF RecordRetry, Forward, server, SetRow, TypeOK
    <2>3. QED BY <1>18, <2>1, <2>2, ReplayStepFrame DEF Step
  <1>19. ASSUME NEW r \in Runs, RequireReview(r) PROVE Replay'
    <2>1. Forward
      BY <1>19, CurrentIsLeft DEF RequireReview, Forward, server, SetRow, TypeOK, Replay,
         Acknowledged, Pending
    <2>2. ASSUME GoesOn(r)
          PROVE  InOrder(r)' /\ Acknowledged(r)'
      <3>0. InOrder(r) /\ Acknowledged(r) /\ runs \in [Runs -> Run] /\ runs[r] \in Run
        BY DEF Replay, TypeOK
      <3>1. runs'[r] = [runs[r] EXCEPT !.stage = "reviewed"]
        BY <1>19, <3>0 DEF RequireReview, Move
      <3>2. runs'[r].batch = runs[r].batch /\ runs'[r].left = runs[r].left
        BY ONLY <3>0, <3>1 DEF Run
      <3>3. runs'[r].stage = "reviewed" 
        BY ONLY <3>0, <3>1 DEF Run
      <3>4. runs[r].left # {}
        BY <1>19, <3>0 DEF RequireReview, Acknowledged, Pending
      <3>5. InOrder(r)'
        BY <2>1, <3>0, <3>2, InOrderKept
      <3>6. Acknowledged(r)'
        BY <3>2, <3>3, <3>4, AcknowledgedNext
      <3>7. QED BY <3>5, <3>6
    <2>3. QED BY <1>19, <2>1, <2>2, ReplayStepFrame DEF Step
  <1>20. ASSUME NEW r \in Runs, FinishReview(r) PROVE Replay'
    <2>1. ~GoesOn(r)
      BY <1>20, EndKinds DEF FinishReview
    <2>2. QED BY <1>20, <2>1, ReplayStepFrame DEF FinishReview, Forward, rows, server, Step
  <1>21. ASSUME NEW r \in Runs, Throw(r) PROVE Replay'
    <2>1. ~GoesOn(r)
      BY <1>21, EndKinds DEF Throw
    <2>2. QED BY <1>21, <2>1, ReplayStepFrame DEF Throw, Forward, rows, server, Step
  <1>22. CASE ListConflicts
    <2>1. UNCHANGED <<runs, queue, reviewed, applied, refused>>
      BY <1>22 DEF ListConflicts, rows, server, coordinator, panel
    <2>2. QED BY <2>1 DEF Replay, InOrder, Acknowledged, Pending, Settled, Current
  <1>23. CASE Resolve
    BY <1>23, ReplayFrame DEF Resolve, TypeOK, server
  <1>24. CASE ResolveFails
    <2>1. UNCHANGED <<runs, queue, reviewed, applied, refused>>
      BY <1>24 DEF ResolveFails, rows, server, coordinator, panel
    <2>2. QED BY <2>1 DEF Replay, InOrder, Acknowledged, Pending, Settled, Current
  <1>25. CASE ChangeToken
    <2>1. UNCHANGED <<runs, queue, reviewed, applied, refused>>
      BY <1>25 DEF ChangeToken, rows, server, coordinator, panel
    <2>2. QED BY <2>1 DEF Replay, InOrder, Acknowledged, Pending, Settled, Current
  <1>26. CASE Kill
    <2>1. \A q \in Runs :
            \/ runs'[q] = NoRun
            \/ /\ runs[q].stage \in {"sent", "orphan"}
               /\ runs'[q] = [runs[q] EXCEPT !.stage = "orphan", !.current = FALSE]
      BY <1>26 DEF Kill, TypeOK
    <2>2. UNCHANGED <<queue, reviewed, applied, refused>>
      BY <1>26 DEF Kill, rows, server
    <2>3. ASSUME NEW q \in Runs, runs'[q] # NoRun
          PROVE  InOrder(q)' /\ Acknowledged(q)'
      <3>1. /\ runs[q].stage \in {"sent", "orphan"} /\ runs'[q].stage = "orphan"
            /\ runs'[q].batch = runs[q].batch /\ runs'[q].left = runs[q].left
        <4>1. runs[q] \in Run
          BY DEF TypeOK
        <4>2. /\ runs[q].stage \in {"sent", "orphan"}
              /\ runs'[q] = [runs[q] EXCEPT !.stage = "orphan", !.current = FALSE]
          BY <2>1, <2>3
        <4>3. QED BY ONLY <4>1, <4>2 DEF Run
      <3>2. QED BY <2>2, <3>1 DEF Replay, InOrder, Acknowledged, Pending, Settled, Current
    <2>4. QED BY <2>2, <2>3, ReplayFrame, RunTypes
  <1>27. CASE UNCHANGED vars
    BY <1>27 DEF vars, rows, server, coordinator, panel, Replay, InOrder, Acknowledged, Pending,
       Settled, Current
  <1>28. QED
    BY <1>1, <1>2, <1>3, <1>4, <1>5, <1>6, <1>7, <1>8, <1>9, <1>10, <1>11, <1>12, <1>13, <1>14,
       <1>15, <1>16, <1>17, <1>18, <1>19, <1>20, <1>21, <1>22, <1>23, <1>24, <1>25, <1>26,
       <1>27 DEF Next, Step

-----------------------------------------------------------------------------
(* The invariant. *)

LEMMA Initially == Init => IInv
  <1> SUFFICES ASSUME Init PROVE IInv
    OBVIOUS
  <1>1. \A r \in Runs : runs[r] = NoRun
    BY DEF Init
  <1>2. RunsOK
    BY <1>1, RunTypes DEF Init, RunsOK
  <1>3. Flags
    BY Zenon DEF Init, Flags
  <1>4. RowsOK /\ FieldsOK
    BY DEF Init, RowsOK, FieldsOK, InState, Connectivity, Statuses
  <1>5. TypeOK
    BY <1>2, <1>3, <1>4, TypeParts
  <1>6. Replay
    BY <1>1, RunTypes DEF Replay, InOrder, Acknowledged, Pending
  <1>7. Numbered
    BY DEF Init, Numbered
  <1>8. Promise
    BY <1>1, RunTypes, NoneAssumption DEF Init, Promise
  <1>9. Stopped
    BY DEF Init, Stopped
  <1>10. QED BY <1>5, <1>6, <1>7, <1>8, <1>9 DEF IInv

LEMMA Inductive == IInv /\ [Next]_vars => IInv'
  <1> SUFFICES ASSUME IInv, [Next]_vars PROVE IInv'
    OBVIOUS
  <1>1. TypeOK /\ Numbered /\ Replay /\ Promise /\ Stopped
    BY DEF IInv
  <1>2. (Flags /\ RunsOK /\ RowsOK /\ FieldsOK)'
    BY <1>1, FlagsStep, RunsStep, RowsStep, FieldsStep
  <1>3. TypeOK'
    BY <1>2, TypeParts, PTL
  <1>4. Numbered' /\ Replay' /\ Promise' /\ Stopped'
    BY <1>1, NumberedStep, ReplayStep, PromiseStep, StoppedStep
  <1>5. QED BY <1>3, <1>4 DEF IInv

(* The inductive invariant holds in every state of every behaviour.        *)
THEOREM Invariance == Spec => []IInv
  BY Initially, Inductive, PTL DEF Spec

(* The types of the queue, of the coordinator's fields and of the runs; a   *)
(* change is shown, applied or refused only when it was queued.             *)
THEOREM TypeCorrect == Spec => []TypeOK
  <1>1. IInv => TypeOK
    BY DEF IInv
  <1>2. QED BY <1>1, Invariance, PTL

(* replayPendingGroceryMutations: a run sends the changes it has read one   *)
(* after the other; those before the one it is at have left the queue.      *)
THEOREM ChangesAreSentInTurn == Spec => []RunsAreFifo
  <1>1. IInv => RunsAreFifo
    BY DEF IInv, Replay, InOrder, RunsAreFifo
  <1>2. QED BY <1>1, Invariance, PTL

(* HouseholdSyncCoordinator: of the runs in flight, however many a stop and *)
(* a start have left, at most one belongs to the current generation, and it *)
(* is the one requestSync returns.                                          *)
THEOREM OneRunIsCurrent == Spec => []OneCurrentRun
  <1>1. IInv => OneCurrentRun
    BY DEF IInv, Promise, OneCurrentRun
  <1>2. QED BY <1>1, Invariance, PTL

-----------------------------------------------------------------------------
(* Late results. *)

LEMMA ObsoleteRunsStep ==
  ASSUME IInv, [Next]_vars, NEW q \in Runs,
         runs[q].stage # "free", ~runs[q].current, runs'[q] # runs[q], active' = active
  PROVE  UNCHANGED coordinator
  <1>0. TypeOK /\ Promise /\ Stopped /\ runs \in [Runs -> Run]
    BY DEF IInv, TypeOK
  <1>1. ASSUME NEW m \in Mutations, Enqueue(m) \/ KeepFamilyVersion(m) PROVE UNCHANGED coordinator
    BY <1>1 DEF Enqueue, KeepFamilyVersion
  <1>2. CASE RequestSync \/ \E c \in Reports : Event(c) \/ Checked(c)
    <2>1. \/ UNCHANGED runs
          \/ \E r \in Runs : runs[r].stage = "free" /\ runs' = [runs EXCEPT ![r] = Restarted]
      BY <1>2, Zenon DEF RequestSync, Event, Checked, HandleConnectivity, Request, Drain, Begin,
         Restarted
    <2>2. runs'[q] = runs[q]
      BY <1>0, <2>1
    <2>3. QED BY <2>2
  <1>3. CASE Start \/ Stop
    BY <1>3 DEF Start, Stop
  <1>4. CASE CheckFails \/ ListConflicts \/ Resolve \/ ResolveFails \/ ChangeToken
    BY <1>4 DEF CheckFails, ListConflicts, Resolve, ResolveFails, ChangeToken
  <1>5. ASSUME NEW r \in Runs, Step(r) PROVE UNCHANGED coordinator
    <2>1. StepOf(r)
      BY <1>0, <1>5, StepEffect
    <2>2. r = q
      BY <2>1 DEF StepOf
    <2>3. syncPromise # r
      BY <1>0, <2>2 DEF Promise
    <2>4. QED BY <2>1, <2>2, <2>3 DEF StepOf, Over, Arrived, BeginsAnew, GoesOn, coordinator
  <1>6. CASE Kill
    <2>a. active = FALSE
      BY <1>6 DEF Kill
    <2>1. ~active
      BY <2>a
    <2>2. UNCHANGED <<connectivity, status, syncPromise>>
      BY <1>0, <1>6, <2>1 DEF Kill, Stopped
    <2>3. UNCHANGED <<syncRequested, checking>>
      BY <1>0, <1>6, <2>1, Zenon DEF Kill, Stopped, TypeOK
    <2>4. QED BY <2>2, <2>3 DEF coordinator
  <1>7. CASE UNCHANGED vars
    BY <1>7 DEF vars
  <1>8. QED BY <1>1, <1>2, <1>3, <1>4, <1>5, <1>6, <1>7 DEF Next

(* A run that a stop has made obsolete changes nothing of the coordinator   *)
(* any more, whatever its answer and whether it was started again.          *)
THEOREM LateResultsChangeNothing == Spec => ObsoleteRunsAreIgnored
  <1>2. IInv /\ [Next]_vars =>
          [\A r \in Runs :
             (/\ runs[r].stage # "free" /\ ~runs[r].current
              /\ runs'[r] # runs[r]
              /\ active' = active)
               => UNCHANGED coordinator]_vars
    BY ObsoleteRunsStep
  <1>3. QED BY <1>2, Invariance, PTL DEF Spec, ObsoleteRunsAreIgnored

-----------------------------------------------------------------------------
(* The refinement. *)

LEMMA Offered ==
  ASSUME IInv, NEW r \in Runs, runs[r].left # {}
  PROVE  Current(r) \in Mutations /\ Queue!MayBeOffered(Current(r))
  <1>1. /\ Current(r) \in runs[r].left /\ Current(r) \in Mutations
        /\ \A m \in runs[r].left : Current(r) <= m
    BY CurrentIsLeft DEF IInv
  <1>2. InOrder(r) /\ runs[r].left \subseteq runs[r].batch
    BY DEF IInv, Replay, TypeOK
  <1>3. queue[Current(r)] # "new"
    BY <1>1, <1>2 DEF InOrder
  <1>4. ASSUME NEW k \in Mutations, k < Current(r)
        PROVE  Settled(k)
    <2>1. k \notin runs[r].left
      <3>1. k \in Nat /\ Current(r) \in Nat
        BY <1>1, MutationsAssumption
      <3>2. ~(Current(r) <= k)
        BY <1>4, <3>1
      <3>3. QED BY <1>1, <3>2
    <2>2. CASE k \in runs[r].batch
      BY <1>2, <2>1, <2>2 DEF InOrder, Settled
    <2>3. CASE k \notin runs[r].batch
      BY <1>1, <1>2, <1>4, <2>3 DEF InOrder
    <2>4. QED BY <2>2, <2>3
  <1>5. QED BY <1>1, <1>3, <1>4 DEF Queue!MayBeOffered, Settled

LEMMA QueueStep ==
  ASSUME IInv, [Next]_vars
  PROVE  [Queue!Next]_(Queue!vars)
  <1>0. TypeOK /\ Replay /\ queue \in [Mutations -> {"new", "pending", "requires_review", "removed"}]
    BY DEF IInv, TypeOK
  <1> DEFINE Same == UNCHANGED <<queue, reviewed, applied, refused>>
  <1>a. Same => UNCHANGED Queue!vars
    BY DEF Queue!vars
  <1>1. ASSUME NEW m \in Mutations, Enqueue(m) PROVE Queue!Next
    BY <1>1 DEF Enqueue, Queue!Next, Queue!Enqueue, server
  <1>2. CASE \/ RequestSync \/ Start \/ Stop \/ CheckFails \/ ListConflicts \/ ResolveFails
             \/ ChangeToken \/ Kill
             \/ \E m \in Mutations : KeepFamilyVersion(m)
             \/ \E c \in Reports : Event(c) \/ Checked(c)
    <2>1. Same
      BY <1>2 DEF RequestSync, Start, Stop, CheckFails, ListConflicts, ResolveFails, ChangeToken, 
         Kill, KeepFamilyVersion, Event, Checked, rows, server
    <2>2. QED BY <1>a, <2>1
  <1>3. CASE Resolve
    <2>1. resolving \in Mutations /\ UNCHANGED <<reviewed, applied, refused>>
      BY <1>0, <1>3 DEF Resolve, TypeOK, server
    <2>2. CASE queue[resolving] = "requires_review"
      <3>1. queue' = [queue EXCEPT ![resolving] = "removed"]
        BY <1>3, <2>2 DEF Resolve
      <3>2. Queue!GiveUp(resolving)
        BY <2>1, <2>2, <3>1 DEF Queue!GiveUp
      <3>3. QED BY <2>1, <3>2 DEF Queue!Next
    <2>3. CASE queue[resolving] # "requires_review"
      <3>1. queue' = queue
        BY <1>0, <1>3, <2>3 DEF Resolve
      <3>2. QED BY <1>a, <2>1, <3>1
    <2>4. QED BY <2>2, <2>3
  <1>4. ASSUME NEW r \in Runs, Step(r) PROVE [Queue!Next]_(Queue!vars)
    <2> DEFINE m == Current(r)
    <2>0. Pending(r) => runs[r].left # {}
      BY <1>0 DEF Replay, Acknowledged
    <2>a. Pending(r) => m \in Mutations /\ Queue!MayBeOffered(m)
      BY <2>0, Offered
    <2>b. ASSUME NEW state, SetRow(m, state), m \in Mutations
          PROVE  /\ queue[m] = "removed" => queue' = queue
                 /\ queue[m] # "removed" => queue' = [queue EXCEPT ![m] = state]
      BY <1>0, <2>b DEF SetRow
    <2>c. runs[r].stage \in {"refresh", "remove"} => m \in applied \union refused
      BY <1>0 DEF Replay, Acknowledged
    <2> HIDE DEF m
    <2>1. CASE List(r) \/ SendNext(r) \/ FinishBatch(r) \/ PauseWithoutToken(r) \/ Decide(r)
               \/ Refresh(r) \/ FinishReview(r) \/ Throw(r)
      <3>1. Same
        BY <2>1 DEF List, SendNext, FinishBatch, PauseWithoutToken, Decide, Refresh, FinishReview,
           Throw, rows, server
      <3>2. QED BY <1>a, <3>1
    <2>2. CASE Serve(r)
      <3>1. Pending(r) /\ applied' = applied \union {m} /\ UNCHANGED <<queue, reviewed, refused>>
        BY <2>2 DEF Serve, Pending, rows, m
      <3>2. QED BY <2>a, <3>1 DEF Queue!Next, Queue!Apply
    <2>3. CASE Decline(r)
      <3>1. /\ Pending(r) /\ UNCHANGED <<queue, reviewed, applied>>
            /\ refused' = refused \/ refused' = refused \union {m}
        BY <2>3 DEF Decline, Pending, rows, m
      <3>2. CASE refused' = refused
        BY <1>a, <3>1, <3>2
      <3>3. CASE refused' = refused \union {m}
        BY <2>a, <3>1, <3>3 DEF Queue!Next, Queue!Refuse
      <3>4. QED BY <3>1, <3>2, <3>3
    <2>4. CASE RemoveRow(r)
      <3>1. /\ Pending(r) /\ m \in applied \union refused
            /\ SetRow(m, "removed") /\ UNCHANGED <<reviewed, applied, refused>>
        BY <2>4, <2>c DEF RemoveRow, Pending, server, m
      <3>2. CASE queue[m] = "removed"
        BY <1>a, <2>a, <2>b, <3>1, <3>2
      <3>3. CASE queue[m] # "removed"
        BY <2>a, <2>b, <3>1, <3>3 DEF Queue!Next, Queue!Acknowledge
      <3>4. QED BY <3>2, <3>3
    <2>5. CASE RecordRetry(r)
      <3>1. Pending(r) /\ SetRow(m, "pending") /\ UNCHANGED <<reviewed, applied, refused>>
        BY <2>5 DEF RecordRetry, Pending, server, m
      <3>2. m \in Mutations /\ queue[m] # "new"
        BY <2>a, <3>1 DEF Queue!MayBeOffered
      <3>3. CASE queue[m] \in {"removed", "pending"}
        <4>1. queue' = queue
          BY <1>0, <2>b, <3>1, <3>2, <3>3
        <4>2. QED BY <1>a, <3>1, <4>1
      <3>4. CASE queue[m] = "requires_review"
        BY <2>b, <3>1, <3>2, <3>4 DEF Queue!Next, Queue!TakeBack
      <3>5. QED BY <1>0, <3>2, <3>3, <3>4
    <2>6. CASE RequireReview(r)
      <3>1. /\ Pending(r) /\ SetRow(m, "requires_review") /\ UNCHANGED <<applied, refused>>
            /\ reviewed' = reviewed \union (IF queue[m] = "removed" THEN {} ELSE {m})
        BY <2>6 DEF RequireReview, Pending, server, m
      <3>2. CASE queue[m] = "removed"
        <4>1. reviewed' = reviewed /\ queue' = queue
          BY <2>a, <2>b, <3>1, <3>2
        <4>2. QED BY <1>a, <3>1, <4>1
      <3>3. CASE queue[m] # "removed"
        BY <2>a, <2>b, <3>1, <3>3 DEF Queue!Next, Queue!HandOver
      <3>4. QED BY <3>2, <3>3
    <2>7. QED
      BY <1>4, <2>1, <2>2, <2>3, <2>4, <2>5, <2>6 DEF Step
  <1>5. CASE UNCHANGED vars
    BY <1>5 DEF vars, rows, server, Queue!vars
  <1> HIDE DEF Same
  <1>6. QED
    BY <1>1, <1>2, <1>3, <1>4, <1>5 DEF Next

(* The runs, the coordinator, lost answers, stops and kills implement the   *)
(* queue: whatever the interleaving, a change is offered to the server only *)
(* when those queued before it were settled, and leaves the queue only when *)
(* the server has made or refused it or the user has given it up.           *)
THEOREM QueueIsImplemented == Spec => ImplementsQueue
  <1>1. Init => Queue!Init
    BY DEF Init, Queue!Init
  <1>2. IInv /\ [Next]_vars => [Queue!Next]_(Queue!vars)
    BY QueueStep
  <1>3. QED BY <1>1, <1>2, Invariance, PTL DEF Spec, ImplementsQueue, Queue!Spec

=============================================================================
