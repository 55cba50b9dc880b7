------------------------- MODULE GroceryItems_proofs ------------------------
(***************************************************************************)
(* Proofs about GroceryItems, for any number of users, items, names, keys  *)
(* and requests.                                                           *)
(***************************************************************************)
EXTENDS GroceryItems, FiniteSetTheorems, TLAPS

-----------------------------------------------------------------------------
(* Types.  Most steps end a transaction by Answer, Goto or RollbackTo. *)

LEMMA ReleaseType ==
  ASSUME TypeOK, NEW r \in Requests, Release(r)
  PROVE  /\ memberLock' \in [Users -> Requests \union {None}]
         /\ sessionLock' \in Requests \union {None}
  BY DEF TypeOK, Release

LEMMA AnswerType ==
  ASSUME TypeOK, NEW r \in Requests, NEW a \in Answers, pc[r] # "idle", Answer(r, a)
  PROVE  TypeOK'
  <1>1. /\ memberLock' \in [Users -> Requests \union {None}]
        /\ sessionLock' \in Requests \union {None}
    BY ReleaseType DEF Answer
  <1>2. QED
    BY <1>1 DEF TypeOK, Answer, Goto, Stages

LEMMA RollbackType ==
  ASSUME TypeOK, NEW r \in Requests, NEW s \in {"replay", "readback"},
         pc[r] # "idle", RollbackTo(r, s)
  PROVE  TypeOK'
  <1>1. /\ memberLock' \in [Users -> Requests \union {None}]
        /\ sessionLock' \in Requests \union {None}
    BY ReleaseType DEF RollbackTo
  <1>2. QED
    BY <1>1 DEF TypeOK, RollbackTo, Goto, Stages

LEMMA AskedIsMutation ==
  ASSUME TypeOK, NEW r \in Requests, pc[r] # "idle"
  PROVE  /\ req[r] \in Mutations
         /\ req[r].op \in Ops
         /\ req[r].user \in Users
         /\ req[r].key \in Keys \union {None}
         /\ req[r].base \in Versions \union {None}
         /\ req[r].name \in Names \union {None}
         /\ req[r].assignee \in Users \union {None}
         /\ req[r].op = "add" => req[r].name \in Names /\ req[r].item = None
         /\ req[r].op \in ItemOps => req[r].item \in Items
         /\ req[r].op = "finish" => req[r].key = None
         /\ req[r].base # None => req[r].op \in ItemOps
  BY DEF TypeOK, Mutations, MutationFields, WellFormed

LEMMA ReplayAnswerType == \A r : ReplayAnswer(r) \in Answers
  BY DEF ReplayAnswer, Answers

LEMMA VerdictType ==
  \A r : Verdict(r) # "proceed" => Verdict(r) \in Answers
  BY ReplayAnswerType DEF Verdict, Answers

LEMMA SubmitType ==
  ASSUME TypeOK, NEW r \in Requests, Submit(r)
  PROVE  TypeOK'
  <1>0. PICK q \in Intents : \E b \in Bases(q) :
          req' = [req EXCEPT ![r] =
                    [op |-> q.op, user |-> q.user, item |-> q.item, name |-> q.name,
                     assignee |-> q.assignee, key |-> q.key, base |-> b]]
    BY DEF Submit
  <1>1. PICK b \in Bases(q) :
          req' = [req EXCEPT ![r] =
                    [op |-> q.op, user |-> q.user, item |-> q.item, name |-> q.name,
                     assignee |-> q.assignee, key |-> q.key, base |-> b]]
    BY <1>0
  <1>2. q \in IntentType /\ WellFormed(q) /\ (q.versioned => q.op \in ItemOps)
    BY IntentAssumption
  <1>3. b \in Versions \union {None} /\ (b # None => q.op \in ItemOps)
    <2>1. CASE ~q.versioned
      BY <2>1 DEF Bases
    <2>2. CASE q.versioned
      <3>1. q.item \in Items
        BY <1>2, <2>2 DEF WellFormed
      <3>2. items[q.item].version \in Versions
        BY <3>1 DEF TypeOK, Rows
      <3>3. \A p \in Requests : pc[p] # "idle" => req[p].base \in Versions \union {None}
        BY AskedIsMutation
      <3>4. QED
        BY <1>2, <2>2, <3>2, <3>3 DEF Bases
    <2>3. QED BY <2>1, <2>2
  <1>4. req'[r] \in Mutations /\ req'[r] # None
    <2>1. [op |-> q.op, user |-> q.user, item |-> q.item, name |-> q.name,
           assignee |-> q.assignee, key |-> q.key, base |-> b] \in Mutations
      BY <1>2, <1>3 DEF IntentType, Mutations, MutationFields, WellFormed
    <2>2. QED BY <1>1, <2>1, NoneIsNoRecord DEF TypeOK
  <1>5. pc' \in [Requests -> Stages] /\ pc[r] = "idle" /\ pc'[r] \in {"members", "prepare"}
        /\ \A p \in Requests \ {r} : pc'[p] = pc[p] /\ req'[p] = req[p]
    BY <1>1 DEF Submit, Goto, TypeOK, Stages
  <1>6. req' \in [Requests -> Mutations \union {None}]
    BY <1>1, <1>4 DEF TypeOK
  <1>7. QED
    BY <1>4, <1>5, <1>6 DEF TypeOK, Submit

(* While events are numbered without gap, max + 1 is one more than there   *)
(* are events.                                                             *)
Numbered == IsFiniteSet(events) /\ ActivityNumbered

LEMMA NextSequenceValue ==
  ASSUME Numbered
  PROVE  /\ Cardinality(events) \in Nat
         /\ NextSequence = SeedSeq + Cardinality(events) + 1
         /\ SequenceNumbers = (SeedSeq + 1) .. (SeedSeq + Cardinality(events))
  <1> DEFINE n == Cardinality(events)
  <1>1. n \in Nat /\ SeedSeq \in Nat
    BY FS_CardinalityType, SeedAssumption DEF Numbered
  <1>2. SequenceNumbers = (SeedSeq + 1) .. (SeedSeq + n)
    BY DEF Numbered, ActivityNumbered
  <1>3. SequenceNumbers \union {SeedSeq} = SeedSeq .. (SeedSeq + n)
    BY <1>1, <1>2
  <1>4. Max(SeedSeq .. (SeedSeq + n)) = SeedSeq + n
    <2>1. SeedSeq + n \in SeedSeq .. (SeedSeq + n)
      BY <1>1
    <2>2. \A y \in SeedSeq .. (SeedSeq + n) : SeedSeq + n >= y
      BY <1>1
    <2>3. \A x \in SeedSeq .. (SeedSeq + n) :
            (\A y \in SeedSeq .. (SeedSeq + n) : x >= y) => x = SeedSeq + n
      BY <1>1
    <2>4. QED
      BY <2>1, <2>2, <2>3 DEF Max
  <1>5. QED
    BY <1>1, <1>2, <1>3, <1>4 DEF NextSequence

LEMMA RowAfterType ==
  ASSUME TypeOK, NEW r \in Requests, pc[r] # "idle", req[r].op # "finish"
  PROVE  RowAfter(r) \in Rows
  <1>1. /\ req[r].op \in Ops
        /\ req[r].name \in Names \union {None}
        /\ req[r].assignee \in Users \union {None}
        /\ req[r].op \in ItemOps => req[r].item \in Items
    BY AskedIsMutation
  <1>2. r \in Versions
    BY DEF Versions
  <1>3. CASE req[r].op = "add"
    BY <1>1, <1>2, <1>3 DEF RowAfter, Rows
  <1>4. CASE req[r].op \in ItemOps
    <2>1. Row(r) \in Rows
      BY <1>1, <1>4 DEF TypeOK, Row
    <2>2. NameAfter(r) \in Names \union {None}
      BY <1>1, <2>1 DEF NameAfter, Rows
    <2>3. CASE req[r].op = "edit"
      BY <1>1, <1>2, <2>1, <2>2, <2>3 DEF RowAfter, Rows
    <2>4. CASE req[r].op = "complete"
      BY <1>2, <2>1, <2>4 DEF RowAfter, Rows
    <2>5. CASE req[r].op = "reopen"
      BY <1>2, <2>1, <2>5 DEF RowAfter, Rows
    <2>6. CASE req[r].op = "delete"
      BY <1>2, <2>1, <2>6 DEF RowAfter, Rows
    <2>7. QED BY <1>4, <2>3, <2>4, <2>5, <2>6 DEF ItemOps
  <1>5. QED BY <1>1, <1>3, <1>4 DEF Ops, ItemOps

-----------------------------------------------------------------------------
(* The inductive invariant.  A request that holds the session's row and    *)
(* the memberships it wanted (Holding) is alone in doing so, hence what it *)
(* has checked and staged stays true until it commits.                     *)

Holding(r) == pc[r] \in {"assignee", "stage", "commit"}

(* Locks keep members in place and requests apart. *)
Locks ==
  /\ \A u \in Users : memberLock[u] # None => u \in members
  /\ \A r \in Requests : Holding(r) =>
       /\ sessionLock = r
       /\ \A u \in WantedRows(r) : memberLock[u] = r
  /\ \A r \in Requests :
       pc[r] \in {"stage", "commit"} /\ req[r].op = "edit" /\ req[r].assignee # None
         => memberLock[req[r].assignee] = r

(* What Check found is still so. *)
Checked ==
  \A r \in Requests : Holding(r) =>
    /\ session = "active"
    /\ pc[r] # "commit" => req[r].op # "finish"
    /\ req[r].op # "finish" => Verdict(r) = "proceed"

(* What Stage found is still so, and it staged what follows from it. *)
StagedIsCurrent ==
  \A r \in Requests : pc[r] = "commit" /\ req[r].op # "finish" =>
    /\ ~Recorded(r) /\ ~NameTaken(r) /\ ~NoTransition(r)
    /\ staged[r].item \in Target(r)
    /\ staged[r].row = RowAfter(r)
    /\ staged[r].seq = NextSequence

(* Events are those of requests past their commit, one for each at most. *)
EventsAreCommits ==
  /\ \A e \in events : pc[e.by] \in {"refresh", "publish", "done"}
  /\ \A e, f \in events : e.by = f.by => e = f

(* What will be published is the number of the request's own event, and    *)
(* what has been is the number of an event whose request is done.          *)
Publishing ==
  /\ \A r \in Requests : pc[r] \in {"refresh", "publish"} =>
       \E e \in events : e.by = r /\ e.seq = staged[r].seq
  /\ \A n \in DOMAIN feed : \E e \in events : e.seq = feed[n] /\ pc[e.by] = "done"
  /\ \A m, n \in DOMAIN feed : feed[m] = feed[n] => m = n

IInv ==
  /\ TypeOK
  /\ Numbered
  /\ Locks
  /\ Checked
  /\ StagedIsCurrent
  /\ UniquePendingName
  /\ EventsAreCommits
  /\ KeyAppliedAtMostOnce
  /\ Publishing

-----------------------------------------------------------------------------
(* What a step of a request leaves alone. *)

Step(p) == Submit(p) \/ Handle(p) \/ DeadlockAbort(p) \/ Crash(p)

LEMMA NoneIsNobody == None \notin Requests /\ None \notin Users
  BY SentinelAssumption DEF Versions

(* Only these steps are more than Answer or RollbackTo. *)
Moves(p) ==
  \/ Submit(p)
  \/ Prepare(p) /\ ~Recorded(p)
  \/ LockMember(p)
  \/ Check(p)
  \/ LockAssignee(p)
  \/ Stage(p)
  \/ Commit(p)
  \/ Refresh(p) /\ items[staged[p].item].status # "deleted"
  \/ Publish(p)
  \/ FinishSession(p) /\ session = "active"
  \/ CommitFinish(p)

LEMMA StepShapes ==
  ASSUME TypeOK, NEW p \in Requests, Step(p)
  PROVE  \/ Moves(p)
         \/ pc[p] \notin {"idle", "done"} /\ \E a \in Answers : Answer(p, a)
         \/ pc[p] = "stage" /\ \E s \in {"replay", "readback"} : RollbackTo(p, s)
  <1>1. CASE Prepare(p)
    BY <1>1, ReplayAnswerType DEF Prepare, Moves, Answers
  <1>2. CASE Refuse(p)
    BY <1>2, VerdictType DEF Refuse, MayLockSession
  <1>3. CASE DenyMember(p) \/ DenyAssignee(p) \/ RejectName(p) \/ LoadReplay(p) \/ DeadlockAbort(p)
    BY <1>3, ReplayAnswerType
       DEF DenyMember, DenyAssignee, RejectName, LoadReplay, DeadlockAbort, Answers
  <1>4. CASE BeginDuplicate(p) \/ FindNoTransition(p)
    BY <1>4 DEF BeginDuplicate, FindNoTransition
  <1>5. CASE ReadBack(p) \/ Refresh(p)
    BY <1>5 DEF ReadBack, Refresh, Moves, Answers
  <1>6. CASE FinishSession(p)
    BY <1>6 DEF FinishSession, MayLockSession, Moves, Answers
  <1>7. CASE Crash(p)
    BY <1>7 DEF Crash, TypeOK, Answers
  <1>8. CASE \/ Submit(p) \/ LockMember(p) \/ Check(p) \/ LockAssignee(p) \/ Stage(p)
             \/ Commit(p) \/ Publish(p) \/ CommitFinish(p)
    BY <1>8 DEF Moves
  <1>9. QED
    BY <1>1, <1>2, <1>3, <1>4, <1>5, <1>6, <1>7, <1>8 DEF Step, Handle

(* Local state of other requests, and their locks. *)
LEMMA OthersKept ==
  ASSUME TypeOK, NEW p \in Requests, Step(p), NEW r \in Requests \ {p}
  PROVE  /\ pc'[r] = pc[r] /\ req'[r] = req[r] /\ staged'[r] = staged[r]
         /\ \A u \in Users : memberLock[u] = r => memberLock'[u] = r
         /\ sessionLock = r => sessionLock' = r
  <1>1. /\ pc \in [Requests -> Stages]
        /\ memberLock \in [Users -> Requests \union {None}]
        /\ DOMAIN staged = Requests /\ DOMAIN req = Requests
    BY DEF TypeOK
  <1>2. CASE \E a \in Answers : Answer(p, a)
    BY <1>1, <1>2 DEF Answer, Release, Goto
  <1>3. CASE \E s \in {"replay", "readback"} : RollbackTo(p, s)
    BY <1>1, <1>3 DEF RollbackTo, Release, Goto
  <1>4. CASE Submit(p)
    BY <1>1, <1>4 DEF Submit, Goto
  <1>5. CASE Prepare(p) /\ ~Recorded(p)
    BY <1>1, <1>5 DEF Prepare, Goto
  <1>6. CASE LockMember(p)
    BY <1>1, <1>6, NoneIsNobody DEF LockMember
  <1>7. CASE Check(p)
    BY <1>1, <1>7, NoneIsNobody DEF Check, MayLockSession, Goto
  <1>8. CASE LockAssignee(p)
    BY <1>1, <1>8, NoneIsNobody DEF LockAssignee, Goto
  <1>9. CASE Stage(p)
    BY <1>1, <1>9 DEF Stage, Goto
  <1>10. CASE Commit(p)
    BY <1>1, <1>10 DEF Commit, Release, Goto
  <1>11. CASE Publish(p)
    BY <1>1, <1>11 DEF Publish, Goto
  <1>12. CASE CommitFinish(p)
    BY <1>1, <1>12 DEF CommitFinish, Release, Goto
  <1>13. CASE Refresh(p) /\ items[staged[p].item].status # "deleted"
    BY <1>1, <1>13 DEF Refresh, Goto
  <1>14. CASE FinishSession(p) /\ session = "active"
    BY <1>1, <1>14, NoneIsNobody DEF FinishSession, MayLockSession, Goto
  <1>15. QED
    BY StepShapes, <1>2, <1>3, <1>4, <1>5, <1>6, <1>7, <1>8, <1>9, <1>10, <1>11, <1>12,
       <1>13, <1>14 DEF Moves

(* The tables change only by a commit, and no step of a request changes    *)
(* who is a member.                                                        *)
LEMMA TablesKept ==
  ASSUME TypeOK, NEW p \in Requests, Step(p)
  PROVE  /\ members' = members
         /\ Commit(p) \/ CommitFinish(p) \/ UNCHANGED <<items, records, events, session>>
         /\ Publish(p) \/ UNCHANGED feed
  <1>1. CASE \E a \in Answers : Answer(p, a)
    BY <1>1 DEF Answer
  <1>2. CASE \E s \in {"replay", "readback"} : RollbackTo(p, s)
    BY <1>2 DEF RollbackTo
  <1>3. CASE Moves(p)
    BY <1>3 DEF Moves, Submit, Prepare, LockMember, Check, LockAssignee, Stage, Commit, Refresh,
                Publish, FinishSession, CommitFinish
  <1>4. QED
    BY StepShapes, <1>1, <1>2, <1>3

(* The four ways to hold the session, or to go on holding it. *)
LEMMA IntoHolding ==
  ASSUME TypeOK, NEW p \in Requests, Step(p), Holding(p)'
  PROVE  Check(p) \/ LockAssignee(p) \/ Stage(p) \/ (FinishSession(p) /\ session = "active")
  <1>1. pc \in [Requests -> Stages] /\ pc'[p] \in {"assignee", "stage", "commit"}
    BY DEF TypeOK, Holding
  <1>2. CASE \E a \in Answers : Answer(p, a)
    BY <1>1, <1>2 DEF Answer, Goto
  <1>3. CASE \E s \in {"replay", "readback"} : RollbackTo(p, s)
    BY <1>1, <1>3 DEF RollbackTo, Goto
  <1>4. CASE Submit(p) \/ (Prepare(p) /\ ~Recorded(p))
    BY <1>1, <1>4 DEF Submit, Prepare, Goto
  <1>5. CASE LockMember(p)
    BY <1>1, <1>5 DEF LockMember
  <1>6. CASE Commit(p) \/ Publish(p) \/ CommitFinish(p)
    BY <1>1, <1>6 DEF Commit, Publish, CommitFinish, Goto
  <1>7. CASE Refresh(p) /\ items[staged[p].item].status # "deleted"
    BY <1>1, <1>7 DEF Refresh, Goto
  <1>8. QED
    BY StepShapes, <1>2, <1>3, <1>4, <1>5, <1>6, <1>7 DEF Moves

(* Once a request has committed it only goes on to publish and be done. *)
LEMMA PastCommit ==
  ASSUME TypeOK, NEW p \in Requests, Step(p)
  PROVE  /\ pc[p] = "publish" => pc'[p] = "done"
         /\ pc[p] # "done"
         /\ pc[p] = "refresh" => pc'[p] \in {"publish", "done"} /\ (pc'[p] = "publish" => staged'[p] = staged[p])
         /\ pc'[p] \in {"refresh", "publish"} => Commit(p) \/ pc[p] = "refresh"
         /\ pc[p] # "idle" => req'[p] = req[p]
  <1>1. pc \in [Requests -> Stages]
    BY DEF TypeOK
  <1>2. CASE pc[p] \notin {"idle", "done"} /\ \E a \in Answers : Answer(p, a)
    BY <1>1, <1>2 DEF Answer, Goto
  <1>3. CASE pc[p] = "stage" /\ \E s \in {"replay", "readback"} : RollbackTo(p, s)
    BY <1>1, <1>3 DEF RollbackTo, Goto
  <1>4. CASE Submit(p) \/ (Prepare(p) /\ ~Recorded(p))
    BY <1>1, <1>4 DEF Submit, Prepare, Goto
  <1>5. CASE LockMember(p) \/ Check(p) \/ LockAssignee(p) \/ Stage(p)
    BY <1>1, <1>5 DEF LockMember, Check, MayLockSession, LockAssignee, Stage, Goto
  <1>6. CASE Commit(p) \/ CommitFinish(p)
    BY <1>1, <1>6 DEF Commit, CommitFinish, Goto
  <1>7. CASE Refresh(p) /\ items[staged[p].item].status # "deleted"
    BY <1>1, <1>7 DEF Refresh, Goto
  <1>8. CASE Publish(p)
    BY <1>1, <1>8 DEF Publish, Goto
  <1>9. CASE FinishSession(p) /\ session = "active"
    BY <1>1, <1>9 DEF FinishSession, MayLockSession, Goto
  <1>10. CASE Moves(p)
    BY <1>4, <1>5, <1>6, <1>7, <1>8, <1>9, <1>10 DEF Moves
  <1>11. QED
    BY StepShapes, <1>2, <1>3, <1>10

(* What a request checks and stages depends on the tables and on its text. *)
LEMMA SameChecks ==
  ASSUME NEW r \in Requests, UNCHANGED <<items, records, events, session>>, req'[r] = req[r]
  PROVE  /\ Verdict(r)' = Verdict(r)
         /\ Recorded(r)' = Recorded(r)
         /\ NameTaken(r)' = NameTaken(r)
         /\ NoTransition(r)' = NoTransition(r)
         /\ Target(r)' = Target(r)
         /\ RowAfter(r)' = RowAfter(r)
         /\ NextSequence' = NextSequence
  <1>1. Row(r)' = Row(r) /\ NameAfter(r)' = NameAfter(r)
    BY DEF Row, NameAfter
  <1>2. Recorded(r)' = Recorded(r) /\ ReplayAnswer(r)' = ReplayAnswer(r)
    BY DEF Recorded, ReplayAnswer, SameRequest
  <1>3. Verdict(r)' = Verdict(r)
    BY <1>1, <1>2 DEF Verdict, OnItem, Stale
  <1>4. NameTaken(r)' = NameTaken(r) /\ NoTransition(r)' = NoTransition(r)
    BY <1>1 DEF NameTaken, NoTransition, Pending
  <1>5. Target(r)' = Target(r)
    BY DEF Target
  <1>6. RowAfter(r)' = RowAfter(r)
    BY <1>1 DEF RowAfter, ChangesNothing
  <1>7. NextSequence' = NextSequence
    BY DEF NextSequence, SequenceNumbers
  <1>8. QED
    BY <1>2, <1>3, <1>4, <1>5, <1>6, <1>7

-----------------------------------------------------------------------------
(* A step of a request preserves each part of the invariant. *)

LEMMA TargetType ==
  ASSUME TypeOK, NEW r \in Requests, pc[r] # "idle", req[r].op # "finish"
  PROVE  Target(r) \subseteq Items
  BY AskedIsMutation DEF Target, Ops, ItemOps

LEMMA StageType ==
  ASSUME TypeOK, Numbered, NEW r \in Requests, Stage(r), req[r].op # "finish"
  PROVE  TypeOK'
  <1>1. pc[r] = "stage"
    BY DEF Stage
  <1>2. PICK i \in Target(r) :
          staged' = [staged EXCEPT ![r] = [item |-> i, row |-> RowAfter(r), seq |-> NextSequence]]
    BY DEF Stage
  <1>3. [item |-> i, row |-> RowAfter(r), seq |-> NextSequence] \in Writes
    BY <1>1, TargetType, RowAfterType, NextSequenceValue, SeedAssumption DEF Writes
  <1>4. staged' \in [Requests -> Writes \union {None}] /\ staged'[r] # None
    BY <1>2, <1>3, NoneIsNoRecord DEF TypeOK
  <1>5. /\ pc' \in [Requests -> Stages]
        /\ \A p \in Requests \ {r} : pc'[p] = pc[p] /\ staged'[p] = staged[p]
    BY <1>2 DEF Stage, Goto, TypeOK, Stages
  <1>6. QED
    BY <1>1, <1>4, <1>5 DEF TypeOK, Stage

LEMMA CommitType ==
  ASSUME TypeOK, NEW r \in Requests, Commit(r)
  PROVE  TypeOK'
  <1>1. pc[r] = "commit" /\ staged[r] \in Writes /\ req[r] \in Mutations
    BY AskedIsMutation DEF TypeOK, Commit
  <1>2. items' \in [Items -> Rows]
    BY <1>1 DEF Commit, TypeOK, Writes
  <1>3. events' \subseteq Events
    BY <1>1 DEF Commit, TypeOK, Writes, Events
  <1>4. records' \in [Keys -> Records \union {None}]
    <2>1. [req |-> req[r], by |-> r] \in Records
      BY <1>1 DEF Records
    <2>2. QED
      BY <2>1 DEF Commit, TypeOK
  <1>5. /\ memberLock' \in [Users -> Requests \union {None}]
        /\ sessionLock' \in Requests \union {None}
    BY ReleaseType DEF Commit
  <1>6. /\ answer' \in [Requests -> Answers \union {None}]
        /\ pc' \in [Requests -> Stages]
        /\ \A p \in Requests \ {r} : pc'[p] = pc[p]
    BY DEF Commit, TypeOK, Goto, Stages, Answers
  <1>7. staged[r] # None
    BY DEF Commit, TypeOK
  <1>8. QED
    BY <1>1, <1>2, <1>3, <1>4, <1>5, <1>6, <1>7 DEF TypeOK, Commit

LEMMA TypeStep ==
  ASSUME TypeOK, Numbered, Checked, NEW p \in Requests, Step(p)
  PROVE  TypeOK'
  <1>1. CASE Submit(p)
    BY <1>1, SubmitType
  <1>2. CASE Prepare(p) /\ ~Recorded(p)
    BY <1>2 DEF Prepare, Goto, TypeOK, Stages
  <1>3. CASE LockMember(p)
    BY <1>3 DEF LockMember, TypeOK
  <1>4. CASE Check(p)
    BY <1>4 DEF Check, MayLockSession, Goto, TypeOK, Stages
  <1>5. CASE LockAssignee(p)
    BY <1>5 DEF LockAssignee, Goto, TypeOK, Stages
  <1>6. CASE Stage(p)
    <2>1. req[p].op # "finish"
      BY <1>6 DEF Stage, Checked, Holding
    <2>2. QED
      BY <1>6, <2>1, StageType
  <1>7. CASE Commit(p)
    BY <1>7, CommitType
  <1>8. CASE Refresh(p) /\ items[staged[p].item].status # "deleted"
    BY <1>8 DEF Refresh, Goto, TypeOK, Stages, Answers
  <1>9. CASE Publish(p)
    <2>1. staged[p].seq \in Nat /\ feed \in Seq(Nat)
      BY <1>9 DEF Publish, TypeOK, Writes
    <2>2. feed' \in Seq(Nat)
      BY <1>9, <2>1 DEF Publish
    <2>3. QED
      BY <1>9, <2>2 DEF Publish, Goto, TypeOK, Stages
  <1>10. CASE FinishSession(p) /\ session = "active"
    BY <1>10 DEF FinishSession, MayLockSession, Goto, TypeOK, Stages
  <1>11. CASE CommitFinish(p)
    <2>1. /\ memberLock' \in [Users -> Requests \union {None}]
          /\ sessionLock' \in Requests \union {None}
      BY <1>11, ReleaseType DEF CommitFinish
    <2>2. QED
      BY <1>11, <2>1 DEF CommitFinish, Goto, TypeOK, Stages, Answers
  <1>12. CASE pc[p] \notin {"idle", "done"} /\ \E a \in Answers : Answer(p, a)
    BY <1>12, AnswerType
  <1>13. CASE pc[p] = "stage" /\ \E s \in {"replay", "readback"} : RollbackTo(p, s)
    BY <1>13, RollbackType
  <1>14. CASE Moves(p)
    BY <1>1, <1>2, <1>3, <1>4, <1>5, <1>6, <1>7, <1>8, <1>9, <1>10, <1>11, <1>14 DEF Moves
  <1>15. QED
    BY StepShapes, <1>12, <1>13, <1>14

LEMMA LocksStep ==
  ASSUME TypeOK, Locks, NEW p \in Requests, Step(p)
  PROVE  Locks'
  <1>1. \A u \in Users : memberLock'[u] # None => u \in members'
    <2>1. members' = members
      BY TablesKept
    <2>2. CASE \E a \in Answers : Answer(p, a)
      BY <2>1, <2>2 DEF Answer, Release, Locks
    <2>3. CASE \E s \in {"replay", "readback"} : RollbackTo(p, s)
      BY <2>1, <2>3 DEF RollbackTo, Release, Locks
    <2>4. CASE LockMember(p)
      BY <2>1, <2>4 DEF LockMember, RowsToLock, Locks, TypeOK
    <2>5. CASE LockAssignee(p)
      BY <2>1, <2>5 DEF LockAssignee, Locks, TypeOK
    <2>6. CASE Commit(p) \/ CommitFinish(p)
      BY <2>1, <2>6 DEF Commit, CommitFinish, Release, Locks
    <2>7. CASE Moves(p) /\ ~LockMember(p) /\ ~LockAssignee(p) /\ ~Commit(p) /\ ~CommitFinish(p)
      <3>1. UNCHANGED memberLock
        BY <2>7 DEF Moves, Submit, Prepare, Check, Stage, Refresh, Publish, FinishSession
      <3>2. QED
        BY <2>1, <3>1 DEF Locks
    <2>8. QED
      BY StepShapes, <2>2, <2>3, <2>4, <2>5, <2>6, <2>7
  <1>2. ASSUME NEW r \in Requests, Holding(r)'
        PROVE  /\ sessionLock' = r
               /\ \A u \in WantedRows(r)' : memberLock'[u] = r
               /\ pc'[r] \in {"stage", "commit"} /\ req'[r].op = "edit" /\ req'[r].assignee # None
                    => memberLock'[req'[r].assignee] = r
    <2>1. CASE r # p
      <3>1. /\ pc'[r] = pc[r] /\ req'[r] = req[r]
            /\ \A u \in Users : memberLock[u] = r => memberLock'[u] = r
            /\ sessionLock = r => sessionLock' = r
        BY <2>1, OthersKept
      <3>2. Holding(r) /\ WantedRows(r)' = WantedRows(r) /\ req[r] \in Mutations
        BY <1>2, <3>1, AskedIsMutation DEF Holding, WantedRows
      <3>3. WantedRows(r) \subseteq Users /\ req[r].assignee \in Users \union {None}
        BY <3>2, AskedIsMutation DEF WantedRows, Holding
      <3>4. QED
        BY <1>2, <3>1, <3>2, <3>3 DEF Locks
    <2>2. CASE r = p
      <3>1. CASE Check(p)
        <4>1. /\ sessionLock' = p /\ req' = req /\ memberLock' = memberLock
              /\ pc[p] = "members" /\ pc'[p] \in {"assignee", "stage"}
              /\ req[p].op = "edit" /\ req[p].assignee # None => pc'[p] = "assignee"
              /\ RowsToLock(p) = {} /\ WantedRows(p) \subseteq members
          BY <3>1 DEF Check, MayLockSession, Goto, TypeOK
        <4>2. WantedRows(p)' = WantedRows(p)
          BY <4>1 DEF WantedRows
        <4>3. QED
          BY <2>2, <4>1, <4>2 DEF RowsToLock
      <3>2. CASE LockAssignee(p)
        <4>1. /\ sessionLock' = sessionLock /\ req' = req /\ pc[p] = "assignee"
              /\ req[p].assignee \in Users
              /\ memberLock' = [memberLock EXCEPT ![req[p].assignee] = p]
          BY <3>2 DEF LockAssignee, TypeOK
        <4>2. WantedRows(p)' = WantedRows(p) /\ WantedRows(p) \subseteq Users
          BY <4>1, AskedIsMutation DEF WantedRows
        <4>3. sessionLock = p /\ \A u \in WantedRows(p) : memberLock[u] = p
          BY <4>1 DEF Locks, Holding
        <4>4. QED
          BY <2>2, <4>1, <4>2, <4>3 DEF TypeOK
      <3>3. CASE Stage(p)
        <4>1. /\ sessionLock' = sessionLock /\ req' = req /\ memberLock' = memberLock
              /\ pc[p] = "stage"
          BY <3>3 DEF Stage
        <4>2. WantedRows(p)' = WantedRows(p)
          BY <4>1 DEF WantedRows
        <4>3. QED
          BY <2>2, <4>1, <4>2 DEF Locks, Holding
      <3>4. CASE FinishSession(p) /\ session = "active"
        <4>1. /\ sessionLock' = p /\ req' = req /\ memberLock' = memberLock
              /\ pc[p] = "members" /\ req[p].op = "finish"
              /\ RowsToLock(p) = {} /\ WantedRows(p) \subseteq members
          BY <3>4 DEF FinishSession, MayLockSession
        <4>2. WantedRows(p)' = WantedRows(p)
          BY <4>1 DEF WantedRows
        <4>3. QED
          BY <2>2, <4>1, <4>2 DEF RowsToLock
      <3>5. QED
        BY <1>2, <2>2, <3>1, <3>2, <3>3, <3>4, IntoHolding
    <2>3. QED
      BY <2>1, <2>2
  <1>3. QED
    BY <1>1, <1>2 DEF Locks, Holding

(* Nobody else holds the session while p commits. *)
LEMMA CommitterIsAlone ==
  ASSUME Locks, NEW p \in Requests, Commit(p) \/ CommitFinish(p), NEW r \in Requests \ {p}
  PROVE  ~Holding(r)
  BY DEF Locks, Holding, Commit, CommitFinish

LEMMA CheckedStep ==
  ASSUME TypeOK, Locks, Checked, NEW p \in Requests, Step(p)
  PROVE  Checked'
  <1> SUFFICES ASSUME NEW r \in Requests, Holding(r)'
               PROVE  /\ session' = "active"
                      /\ pc'[r] # "commit" => req'[r].op # "finish"
                      /\ req'[r].op # "finish" => Verdict(r)' = "proceed"
    BY DEF Checked
  <1>1. CASE r # p
    <2>1. pc'[r] = pc[r] /\ req'[r] = req[r] /\ Holding(r)
      BY <1>1, OthersKept DEF Holding
    <2>2. UNCHANGED <<items, records, events, session>>
      BY <1>1, <2>1, TablesKept, CommitterIsAlone
    <2>3. QED
      BY <2>1, <2>2, SameChecks DEF Checked
  <1>2. CASE r = p
    <2>1. UNCHANGED <<items, records, events, session, req>>
      BY <1>2, IntoHolding DEF Check, LockAssignee, Stage, FinishSession, Answer
    <2>2. Verdict(p)' = Verdict(p)
      BY <2>1, SameChecks
    <2>3. CASE Check(p)
      BY <1>2, <2>1, <2>2, <2>3 DEF Check, Verdict
    <2>4. CASE LockAssignee(p) \/ Stage(p)
      <3>1. Holding(p) /\ pc[p] # "commit"
        BY <2>4 DEF Holding, LockAssignee, Stage
      <3>2. QED
        BY <1>2, <2>1, <2>2, <3>1 DEF Checked
    <2>5. CASE FinishSession(p) /\ session = "active"
      <3>1. pc'[p] = "commit" /\ req[p].op = "finish"
        BY <2>5 DEF FinishSession, MayLockSession, Goto, TypeOK
      <3>2. QED
        BY <1>2, <2>1, <2>5, <3>1
    <2>6. QED
      BY <1>2, <2>3, <2>4, <2>5, IntoHolding
  <1>3. QED
    BY <1>1, <1>2

LEMMA StagedStep ==
  ASSUME TypeOK, Locks, Checked, StagedIsCurrent, NEW p \in Requests, Step(p)
  PROVE  StagedIsCurrent'
  <1> SUFFICES ASSUME NEW r \in Requests, pc'[r] = "commit", req'[r].op # "finish"
               PROVE  /\ ~Recorded(r)' /\ ~NameTaken(r)' /\ ~NoTransition(r)'
                      /\ staged'[r].item \in Target(r)'
                      /\ staged'[r].row = RowAfter(r)'
                      /\ staged'[r].seq = NextSequence'
    BY DEF StagedIsCurrent
  <1>1. CASE r # p
    <2>1. pc'[r] = pc[r] /\ req'[r] = req[r] /\ staged'[r] = staged[r] /\ Holding(r)
      BY <1>1, OthersKept DEF Holding
    <2>2. UNCHANGED <<items, records, events, session>>
      BY <1>1, <2>1, TablesKept, CommitterIsAlone
    <2>3. QED
      BY <2>1, <2>2, SameChecks DEF StagedIsCurrent
  <1>2. CASE r = p
    <2>1. Check(p) \/ LockAssignee(p) \/ Stage(p) \/ (FinishSession(p) /\ session = "active")
      BY <1>2, IntoHolding DEF Holding
    <2>2. ~Check(p)
      BY <1>2 DEF Check, Goto, TypeOK
    <2>3. ~LockAssignee(p)
      BY <1>2 DEF LockAssignee, Goto, TypeOK
    <2>4. ~(FinishSession(p) /\ session = "active")
      BY <1>2 DEF FinishSession
    <2>5. Stage(p)
      BY <2>1, <2>2, <2>3, <2>4
    <2>6. UNCHANGED <<items, records, events, session, req>>
      BY <2>5 DEF Stage
    <2>7. PICK i \in Target(p) :
            staged' = [staged EXCEPT ![p] = [item |-> i, row |-> RowAfter(p), seq |-> NextSequence]]
      BY <2>5 DEF Stage
    <2>8. staged'[p] = [item |-> i, row |-> RowAfter(p), seq |-> NextSequence]
      BY <2>7 DEF TypeOK
    <2>9. ~Recorded(p) /\ ~NameTaken(p) /\ ~NoTransition(p)
      BY <2>5 DEF Stage
    <2>10. QED
      BY <1>2, <2>6, <2>8, <2>9, SameChecks
  <1>3. QED
    BY <1>1, <1>2

(* The row an item operation is about, as Check and Stage left it. *)
LEMMA CommittedRow ==
  ASSUME IInv, NEW p \in Requests, Commit(p)
  PROVE  /\ pc[p] = "commit" /\ req[p] \in Mutations /\ session = "active"
         /\ ~Recorded(p) /\ ~NameTaken(p)
         /\ staged[p].item \in Items
         /\ staged[p].row = RowAfter(p)
         /\ staged[p].seq = NextSequence
         /\ req[p].op = "add" => items[staged[p].item].status = "absent"
         /\ req[p].op \in ItemOps => staged[p].item = req[p].item
         /\ req[p].op \in {"edit", "complete", "delete"} => Row(p).status = "pending"
         /\ req[p].op = "reopen" => Row(p).status = "completed"
         /\ req[p].op \in ItemOps => ~Stale(p)
  <1>1. /\ pc[p] = "commit" /\ req[p].op # "finish" /\ Holding(p)
        /\ req[p] \in Mutations /\ req[p].op \in Ops
    BY AskedIsMutation DEF Commit, Holding, IInv
  <1>2. /\ ~Recorded(p) /\ ~NameTaken(p) /\ ~NoTransition(p)
        /\ staged[p].item \in Target(p)
        /\ staged[p].row = RowAfter(p)
        /\ staged[p].seq = NextSequence
    BY <1>1 DEF IInv, StagedIsCurrent
  <1>3. session = "active" /\ Verdict(p) = "proceed"
    BY <1>1 DEF IInv, Checked
  <1>4. staged[p].item \in Items
    BY <1>1, <1>2, TargetType DEF IInv
  <1>5. req[p].op \in ItemOps =>
          ~Stale(p) /\ (req[p].op \in {"edit", "delete"} => Row(p).status = "pending")
    BY <1>3, ReplayAnswerType DEF Verdict, OnItem, ReplayAnswer
  <1>6. /\ req[p].op = "complete" => Row(p).status = "pending"
        /\ req[p].op = "reopen" => Row(p).status = "completed"
    BY <1>2 DEF NoTransition
  <1>7. /\ req[p].op = "add" => items[staged[p].item].status = "absent"
        /\ req[p].op \in ItemOps => staged[p].item = req[p].item
    BY <1>2 DEF Target, ItemOps
  <1>8. QED
    BY <1>1, <1>2, <1>3, <1>4, <1>5, <1>6, <1>7 DEF ItemOps

LEMMA UniqueNameStep ==
  ASSUME IInv, NEW p \in Requests, Step(p)
  PROVE  UniquePendingName'
  <1>1. CASE UNCHANGED items
    BY <1>1 DEF IInv, UniquePendingName, PendingNamesDiffer, Pending
  <1>2. CASE Commit(p)
    <2> DEFINE i == staged[p].item
    <2>1. /\ i \in Items /\ items' = [items EXCEPT ![i] = RowAfter(p)]
          /\ items \in [Items -> Rows]
      BY <1>2, CommittedRow DEF Commit, IInv, TypeOK
    <2>2. req[p] \in Mutations /\ pc[p] # "idle" /\ req[p].op \in Ops /\ req[p].op # "finish"
      BY <1>2, AskedIsMutation DEF IInv, Commit
    <2>3. RowAfter(p).status = "pending" =>
            req[p].op \in {"add", "edit", "reopen"} /\ RowAfter(p).name = NameAfter(p)
      <3>1. CASE req[p].op = "add"
        <4>1. req[p].name # None
          BY <2>2, <3>1, AskedIsMutation, SentinelAssumption DEF IInv
        <4>2. QED
          BY <3>1, <4>1 DEF RowAfter, NameAfter
      <3>2. CASE req[p].op \in ItemOps
        <4>1. Row(p) \in Rows
          BY <2>1, <2>2, <3>2, AskedIsMutation DEF Row, IInv
        <4>2. CASE req[p].op = "edit"
          BY <4>1, <4>2 DEF RowAfter, Rows
        <4>3. CASE req[p].op = "reopen"
          <5>1. req[p].name = None
            BY <2>2, <4>3 DEF Mutations, WellFormed
          <5>2. QED
            BY <4>1, <4>3, <5>1 DEF RowAfter, Rows, NameAfter
        <4>4. CASE req[p].op \in {"complete", "delete"}
          BY <4>1, <4>4 DEF RowAfter, Rows
        <4>5. QED
          BY <3>2, <4>2, <4>3, <4>4 DEF ItemOps
      <3>3. QED
        BY <2>2, <3>1, <3>2 DEF Ops, ItemOps
    <2>4. ASSUME NEW j \in Items \ {i}, RowAfter(p).status = "pending", Pending(items, j)
          PROVE  items[j].name # RowAfter(p).name
      <3>1. j # req[p].item
        <4>1. CASE req[p].op = "add"
          <5>1. req[p].item = None
            BY <2>2, <4>1, AskedIsMutation DEF IInv
          <5>2. QED
            BY <5>1, SentinelAssumption
        <4>2. CASE req[p].op # "add"
          BY <1>2, <2>2, <4>2, CommittedRow DEF Ops, ItemOps
        <4>3. QED
          BY <4>1, <4>2
      <3>2. ~NameTaken(p)
        BY <1>2, CommittedRow
      <3>3. QED
        BY <2>3, <2>4, <3>1, <3>2 DEF NameTaken
    <2>5. SUFFICES ASSUME NEW x \in Items, NEW y \in Items, x # y,
                          Pending(items', x), Pending(items', y)
                   PROVE  items'[x].name # items'[y].name
      BY DEF UniquePendingName, PendingNamesDiffer
    <2>6. CASE x # i /\ y # i
      BY <2>1, <2>5, <2>6 DEF IInv, UniquePendingName, PendingNamesDiffer, Pending
    <2>7. CASE x = i
      BY <2>1, <2>4, <2>5, <2>7 DEF Pending
    <2>8. CASE y = i
      BY <2>1, <2>4, <2>5, <2>8 DEF Pending
    <2>9. QED
      BY <2>6, <2>7, <2>8
  <1>3. QED
    BY <1>1, <1>2, TablesKept DEF IInv, CommitFinish

(* The event that Commit adds. *)
NewEvent(p) == [seq |-> staged[p].seq, item |-> staged[p].item, req |-> req[p], by |-> p]

LEMMA NewEventIsNew ==
  ASSUME IInv, NEW p \in Requests, Commit(p)
  PROVE  /\ events' = events \union {NewEvent(p)}
         /\ NewEvent(p).seq = SeedSeq + Cardinality(events) + 1
         /\ NewEvent(p) \notin events
         /\ \A e \in events : e.seq # NewEvent(p).seq /\ e.by # p
  <1>1. events' = events \union {NewEvent(p)}
    BY DEF Commit, NewEvent
  <1>2. /\ NewEvent(p).seq = SeedSeq + Cardinality(events) + 1
        /\ SequenceNumbers = (SeedSeq + 1) .. (SeedSeq + Cardinality(events))
        /\ SeedSeq + Cardinality(events) \in Nat
    BY CommittedRow, NextSequenceValue, SeedAssumption DEF NewEvent, IInv
  <1>3. ASSUME NEW e \in events
        PROVE  e.seq # NewEvent(p).seq /\ e.by # p
    <2>1. e.seq \in SequenceNumbers
      BY DEF SequenceNumbers
    <2>2. e.seq # NewEvent(p).seq
      BY <1>2, <2>1
    <2>3. pc[e.by] # "commit" /\ pc[p] = "commit"
      BY DEF IInv, EventsAreCommits, Commit
    <2>4. QED
      BY <2>2, <2>3
  <1>4. QED
    BY <1>1, <1>2, <1>3

LEMMA NumberedStep ==
  ASSUME IInv, NEW p \in Requests, Step(p)
  PROVE  Numbered'
  <1>1. CASE UNCHANGED events
    BY <1>1 DEF IInv, Numbered, ActivityNumbered, SequenceNumbers
  <1>2. CASE Commit(p)
    <2> DEFINE n == Cardinality(events)
    <2>1. IsFiniteSet(events') /\ Cardinality(events') = n + 1 /\ n \in Nat
      BY <1>2, NewEventIsNew, FS_AddElement, FS_CardinalityType DEF IInv, Numbered
    <2>2. \A e, f \in events' : e.seq = f.seq => e = f
      BY <1>2, NewEventIsNew DEF IInv, Numbered, ActivityNumbered
    <2>3. SequenceNumbers' = SequenceNumbers \union {SeedSeq + n + 1}
      BY <1>2, NewEventIsNew DEF SequenceNumbers
    <2>4. SequenceNumbers = (SeedSeq + 1) .. (SeedSeq + n) /\ SeedSeq \in Nat
      BY SeedAssumption DEF IInv, Numbered, ActivityNumbered
    <2>5. SequenceNumbers' = (SeedSeq + 1) .. (SeedSeq + (n + 1))
      BY <2>1, <2>3, <2>4
    <2>6. QED
      BY <2>1, <2>2, <2>5 DEF Numbered, ActivityNumbered
  <1>3. QED
    BY <1>1, <1>2, TablesKept DEF IInv, CommitFinish

LEMMA EventsStep ==
  ASSUME IInv, NEW p \in Requests, Step(p)
  PROVE  EventsAreCommits'
  <1>1. \A e \in events : e.by \in Requests
    BY DEF IInv, TypeOK, Events
  <1>2. ASSUME NEW e \in events
        PROVE  pc'[e.by] \in {"refresh", "publish", "done"}
    <2>1. pc[e.by] \in {"refresh", "publish", "done"}
      BY DEF IInv, EventsAreCommits
    <2>2. QED
      BY <1>1, <2>1, OthersKept, PastCommit DEF IInv
  <1>3. CASE UNCHANGED events
    BY <1>2, <1>3 DEF IInv, EventsAreCommits
  <1>4. CASE Commit(p)
    <2>1. pc'[p] \in {"refresh", "publish"}
      BY <1>4 DEF Commit, Goto, IInv, TypeOK
    <2>2. NewEvent(p).by = p
      BY DEF NewEvent
    <2>3. QED
      BY <1>2, <1>4, <2>1, <2>2, NewEventIsNew DEF IInv, EventsAreCommits
  <1>5. QED
    BY <1>3, <1>4, TablesKept DEF IInv, CommitFinish

LEMMA KeyStep ==
  ASSUME IInv, NEW p \in Requests, Step(p)
  PROVE  KeyAppliedAtMostOnce'
  <1>1. CASE UNCHANGED <<events, records>>
    BY <1>1 DEF IInv, KeyAppliedAtMostOnce
  <1>2. CASE Commit(p)
    <2> DEFINE k == req[p].key
    <2>1. /\ events' = events \union {NewEvent(p)} /\ ~Recorded(p)
          /\ NewEvent(p).req = req[p] /\ NewEvent(p).by = p
          /\ k \in Keys \union {None}
          /\ records \in [Keys -> Records \union {None}]
      BY <1>2, NewEventIsNew, CommittedRow, AskedIsMutation DEF NewEvent, IInv, TypeOK, Commit
    <2>2. KeyAppliedAtMostOnce
      BY DEF IInv
    <2>3. CASE k = None
      <3>1. records' = records
        BY <1>2, <2>3 DEF Commit
      <3>2. QED
        BY <2>1, <2>2, <2>3, <3>1 DEF KeyAppliedAtMostOnce
    <2>4. CASE k # None
      <3>1. /\ k \in Keys /\ records[k] = None
            /\ records' = [records EXCEPT ![k] = [req |-> req[p], by |-> p]]
        BY <1>2, <2>1, <2>4 DEF Commit, Recorded
      <3>2. \A e \in events : e.req.key # k
        <4>1. SUFFICES ASSUME NEW e \in events, e.req.key = k
                       PROVE  FALSE
          OBVIOUS
        <4>2. records[e.req.key] = [req |-> e.req, by |-> e.by]
          BY <2>2, <2>4, <4>1 DEF KeyAppliedAtMostOnce
        <4>3. e.req \in Mutations /\ e.by \in Requests
          BY DEF IInv, TypeOK, Events
        <4>4. [req |-> e.req, by |-> e.by] \in Records
          BY <4>3 DEF Records
        <4>5. QED
          BY <3>1, <4>1, <4>2, <4>4, NoneIsNoRecord
      <3>3. \A e \in events : e.req.key \in Keys \union {None}
        BY DEF IInv, TypeOK, Events, Mutations, MutationFields
      <3>4. \A e \in events : e.req.key # None => records'[e.req.key] = [req |-> e.req, by |-> e.by]
        BY <2>1, <2>2, <3>1, <3>2, <3>3 DEF KeyAppliedAtMostOnce
      <3>5. records'[k] = [req |-> req[p], by |-> p]
        BY <2>1, <3>1
      <3>6. \A l \in Keys : records'[l] # None => \E e \in events' : e.req.key = l
        BY <2>1, <2>2, <3>1 DEF KeyAppliedAtMostOnce
      <3>7. \A e, f \in events' : e.req.key # None /\ e.req.key = f.req.key => e = f
        BY <2>1, <2>2, <3>2 DEF KeyAppliedAtMostOnce
      <3>8. QED
        BY <2>1, <3>4, <3>5, <3>6, <3>7 DEF KeyAppliedAtMostOnce
    <2>5. QED
      BY <2>3, <2>4
  <1>3. QED
    BY <1>1, <1>2, TablesKept DEF CommitFinish, IInv

LEMMA PublishingStep ==
  ASSUME IInv, NEW p \in Requests, Step(p)
  PROVE  Publishing'
  <1>1. events \subseteq events' /\ \A e \in events : e.by \in Requests
    BY TablesKept DEF IInv, TypeOK, Events, Commit, CommitFinish
  <1>2. ASSUME NEW r \in Requests, pc'[r] \in {"refresh", "publish"}
        PROVE  \E e \in events' : e.by = r /\ e.seq = staged'[r].seq
    <2>1. CASE r # p
      BY <1>1, <1>2, <2>1, OthersKept DEF IInv, Publishing
    <2>2. CASE r = p /\ Commit(p)
      <3>1. staged' = staged /\ NewEvent(p) \in events'
        BY <2>2, NewEventIsNew DEF Commit
      <3>2. QED
        BY <2>2, <3>1 DEF NewEvent
    <2>3. CASE r = p /\ pc[p] = "refresh" /\ pc'[p] = "publish"
      <3>1. staged'[p] = staged[p]
        BY <2>3, PastCommit DEF IInv
      <3>2. QED
        BY <1>1, <2>3, <3>1 DEF IInv, Publishing
    <2>4. QED
      BY <1>2, <2>1, <2>2, <2>3, PastCommit DEF IInv
  <1>3. \A n \in DOMAIN feed : \E e \in events' : e.seq = feed[n] /\ pc'[e.by] = "done"
    <2>1. \A e \in events : pc[e.by] = "done" => pc'[e.by] = "done"
      BY <1>1, OthersKept, PastCommit DEF IInv
    <2>2. QED
      BY <1>1, <2>1 DEF IInv, Publishing
  <1>4. CASE UNCHANGED feed
    BY <1>2, <1>3, <1>4 DEF Publishing, IInv
  <1>5. CASE Publish(p) /\ feed' = Append(feed, staged[p].seq)
    <2>1. UNCHANGED events /\ pc[p] = "publish" /\ pc'[p] = "done"
      BY <1>5 DEF Publish, Goto, IInv, TypeOK
    <2>2. PICK e \in events : e.by = p /\ e.seq = staged[p].seq
      BY <2>1 DEF IInv, Publishing
    <2>3. feed \in Seq(Nat) /\ e.seq \in Nat
      BY DEF IInv, TypeOK, Events
    <2>4. /\ DOMAIN feed' = 1 .. (Len(feed) + 1) /\ DOMAIN feed = 1 .. Len(feed)
          /\ Len(feed) \in Nat
          /\ \A n \in DOMAIN feed : feed'[n] = feed[n]
          /\ feed'[Len(feed) + 1] = e.seq
      BY <1>5, <2>2, <2>3
    <2>5. \A n \in DOMAIN feed : feed[n] # e.seq
      <3>1. SUFFICES ASSUME NEW n \in DOMAIN feed, feed[n] = e.seq
                     PROVE  FALSE
        OBVIOUS
      <3>2. PICK f \in events : f.seq = feed[n] /\ pc[f.by] = "done"
        BY DEF IInv, Publishing
      <3>3. f = e
        BY <3>1, <3>2 DEF IInv, Numbered, ActivityNumbered
      <3>4. QED
        BY <2>1, <2>2, <3>2, <3>3
    <2>6. \A n \in DOMAIN feed' : \E f \in events' : f.seq = feed'[n] /\ pc'[f.by] = "done"
      BY <1>3, <2>1, <2>2, <2>4
    <2>7. \A m, n \in DOMAIN feed' : feed'[m] = feed'[n] => m = n
      BY <2>4, <2>5 DEF IInv, Publishing
    <2>8. QED
      BY <1>2, <2>6, <2>7 DEF Publishing
  <1>6. QED
    BY <1>4, <1>5, TablesKept DEF IInv, Publish

(* A membership that is removed was not locked, so no request relied on it.*)
LEMMA RemoveMemberStep ==
  ASSUME IInv, NEW u \in Users, RemoveMember(u)
  PROVE  IInv'
  <1>1. /\ UNCHANGED <<items, records, events, session, memberLock, sessionLock, req, pc,
                       staged, answer, feed>>
        /\ members' = members \ {u} /\ memberLock[u] = None
    BY DEF RemoveMember
  <1>2. TypeOK' /\ Locks'
    BY <1>1 DEF IInv, TypeOK, Locks, Holding, WantedRows
  <1>3. Numbered' /\ UniquePendingName' /\ KeyAppliedAtMostOnce'
    BY <1>1 DEF IInv, Numbered, ActivityNumbered, SequenceNumbers, UniquePendingName,
                PendingNamesDiffer, Pending, KeyAppliedAtMostOnce
  <1>4. EventsAreCommits' /\ Publishing'
    BY <1>1 DEF IInv, EventsAreCommits, Publishing
  <1>5. Checked' /\ StagedIsCurrent'
    BY <1>1, SameChecks DEF IInv, Checked, StagedIsCurrent, Holding
  <1>6. QED
    BY <1>2, <1>3, <1>4, <1>5 DEF IInv

LEMMA StutterStep ==
  ASSUME IInv, UNCHANGED vars
  PROVE  IInv'
  <1>1. TypeOK' /\ Locks'
    BY DEF IInv, TypeOK, Locks, Holding, WantedRows, vars
  <1>2. Numbered' /\ UniquePendingName' /\ KeyAppliedAtMostOnce'
    BY DEF IInv, Numbered, ActivityNumbered, SequenceNumbers, UniquePendingName,
           PendingNamesDiffer, Pending, KeyAppliedAtMostOnce, vars
  <1>3. EventsAreCommits' /\ Publishing'
    BY DEF IInv, EventsAreCommits, Publishing, vars
  <1>4. Checked' /\ StagedIsCurrent'
    BY SameChecks DEF IInv, Checked, StagedIsCurrent, Holding, vars
  <1>5. QED
    BY <1>1, <1>2, <1>3, <1>4 DEF IInv

LEMMA InitIInv == Init => IInv
  <1> SUFFICES ASSUME Init PROVE IInv
    OBVIOUS
  <1>1. TypeOK
    BY SeedAssumption DEF Init, TypeOK, Stages
  <1>2. Numbered
    <2>1. IsFiniteSet(events) /\ Cardinality(events) = 0
      BY FS_EmptySet DEF Init
    <2>2. SequenceNumbers = (SeedSeq + 1) .. (SeedSeq + 0)
      BY SeedAssumption DEF Init, SequenceNumbers
    <2>3. QED
      BY <2>1, <2>2 DEF Init, Numbered, ActivityNumbered
  <1>3. Locks /\ Checked /\ StagedIsCurrent
    BY DEF Init, Locks, Checked, StagedIsCurrent, Holding
  <1>4. UniquePendingName
    BY SeedAssumption DEF Init, UniquePendingName
  <1>5. EventsAreCommits /\ KeyAppliedAtMostOnce /\ Publishing
    BY DEF Init, EventsAreCommits, KeyAppliedAtMostOnce, Publishing
  <1>6. QED
    BY <1>1, <1>2, <1>3, <1>4, <1>5 DEF IInv

LEMMA NextIInv ==
  ASSUME IInv, [Next]_vars
  PROVE  IInv'
  <1>1. ASSUME NEW p \in Requests, Step(p)
        PROVE  IInv'
    <2>1. TypeOK' /\ Locks' /\ Checked' /\ StagedIsCurrent'
      BY <1>1, TypeStep, LocksStep, CheckedStep, StagedStep DEF IInv
    <2>2. Numbered' /\ UniquePendingName' /\ EventsAreCommits' /\ KeyAppliedAtMostOnce' /\ Publishing'
      BY <1>1, NumberedStep, UniqueNameStep, EventsStep, KeyStep, PublishingStep
    <2>3. QED
      BY <2>1, <2>2 DEF IInv
  <1>2. ASSUME NEW u \in Users, RemoveMember(u)
        PROVE  IInv'
    BY <1>2, RemoveMemberStep
  <1>3. CASE UNCHANGED vars
    BY <1>3, StutterStep
  <1>4. QED
    BY <1>1, <1>2, <1>3 DEF Next, Step

-----------------------------------------------------------------------------
(* What the code promises. *)

(* The strengthened invariant holds throughout. *)
THEOREM Invariance == Spec => []IInv
  <1>1. Init => IInv
    BY InitIInv
  <1>2. IInv /\ [Next]_vars => IInv'
    BY NextIInv
  <1>3. QED
    BY <1>1, <1>2, PTL DEF Spec

(* Every variable keeps its type; a committed row is a well-formed row.    *)
THEOREM TypeCorrect == Spec => []TypeOK
  BY Invariance, PTL DEF IInv

(* No two pending items of a session ever share a name, whatever adds,     *)
(* edits and reopens run at once: create_grocery_item and its siblings.    *)
THEOREM NamesStayUnique == Spec => []UniquePendingName
  BY Invariance, PTL DEF IInv

(* _add_activity_event numbers a session's events 1, 2, 3, ... without     *)
(* gaps, although it computes max + 1.                                     *)
THEOREM EventsStayNumbered == Spec => []ActivityNumbered
  <1>1. IInv => ActivityNumbered
    BY DEF IInv, Numbered
  <1>2. QED
    BY Invariance, <1>1, PTL

(* An Idempotency-Key takes effect at most once, with its record. *)
THEOREM KeysApplyOnce == Spec => []KeyAppliedAtMostOnce
  BY Invariance, PTL DEF IInv

(* The background task publishes committed events, none of them twice.     *)
THEOREM EventsPublishOnce == Spec => []PublishedOnce
  <1>1. IInv => PublishedOnce
    BY DEF IInv, Publishing, PublishedOnce, SequenceNumbers
  <1>2. QED
    BY Invariance, <1>1, PTL

(* The steps that change a table. *)
LEMMA WhoCommits ==
  ASSUME IInv, [Next]_vars
  PROVE  \/ UNCHANGED <<items, records, events, session>>
         \/ \E p \in Requests : (Commit(p) \/ CommitFinish(p)) /\ members' = members
  <1>1. CASE \E p \in Requests : Step(p)
    BY <1>1, TablesKept DEF IInv
  <1>2. CASE \E u \in Users : RemoveMember(u)
    BY <1>2 DEF RemoveMember
  <1>3. CASE UNCHANGED vars
    BY <1>3 DEF vars
  <1>4. QED
    BY <1>1, <1>2, <1>3 DEF Next, Step

(* Nothing is written to a session that complete_shopping_session has      *)
(* finished, even by a mutation that had found it active.                  *)
THEOREM FinishedSessionsFreeze == Spec => FinishedIsFrozen
  <1>1. ASSUME IInv, [Next]_vars
        PROVE  [session = "completed" => UNCHANGED <<items, records, events, session>>]_db
    <2>1. ASSUME NEW p \in Requests, Commit(p) \/ CommitFinish(p)
          PROVE  session = "active"
      BY <1>1, <2>1 DEF IInv, Checked, Holding, Commit, CommitFinish
    <2>2. QED
      BY <1>1, <2>1, WhoCommits
  <1>2. QED
    BY Invariance, <1>1, PTL DEF Spec, FinishedIsFrozen

(* A mutation that carries X-Base-Updated-At commits on that version. *)
THEOREM UpdatesAreNotLost == Spec => NoLostUpdate
  <1>1. ASSUME IInv, [Next]_vars
        PROVE  [\A e \in events' \ events :
                   e.req.base # None => items[e.item].version = e.req.base]_db
    <2>1. ASSUME NEW p \in Requests, Commit(p), req[p].base # None
          PROVE  items[staged[p].item].version = req[p].base
      <3>1. pc[p] # "idle" /\ req[p].op \in ItemOps
        BY <1>1, <2>1, AskedIsMutation DEF IInv, Commit
      <3>2. staged[p].item = req[p].item /\ ~Stale(p)
        BY <1>1, <2>1, <3>1, CommittedRow
      <3>3. QED
        BY <2>1, <3>2 DEF Stale, Row
    <2>2. ASSUME NEW p \in Requests, CommitFinish(p)
          PROVE  UNCHANGED events
      BY <2>2 DEF CommitFinish
    <2>3. ASSUME NEW p \in Requests, Commit(p), NEW e \in events' \ events
          PROVE  e.req.base # None => items[e.item].version = e.req.base
      <3>1. e = NewEvent(p)
        BY <1>1, <2>3, NewEventIsNew
      <3>2. e.req = req[p] /\ e.item = staged[p].item
        BY <3>1 DEF NewEvent
      <3>3. QED
        BY <2>1, <2>3, <3>2
    <2>4. QED
      BY <1>1, <2>2, <2>3, WhoCommits
  <1>2. QED
    BY Invariance, <1>1, PTL DEF Spec, NoLostUpdate

(* A change commits only while its author and the user it assigns are      *)
(* members: what lock_for_users locked cannot have been deleted since.     *)
THEOREM CommitsByMembers == Spec => WritersAreMembers
  <1>1. ASSUME IInv, [Next]_vars
        PROVE  [\A e \in events' \ events :
                   {e.req.user, e.req.assignee} \ {None} \subseteq members]_db
    <2>1. ASSUME NEW p \in Requests, Commit(p)
          PROVE  {req[p].user, req[p].assignee} \ {None} \subseteq members
      <3>1. /\ pc[p] = "commit" /\ req[p] \in Mutations
            /\ req[p].user \in Users /\ req[p].assignee \in Users \union {None}
        BY <1>1, <2>1, AskedIsMutation DEF IInv, Commit
      <3>2. \A u \in Users : memberLock[u] = p => u \in members
        BY <1>1, NoneIsNobody DEF IInv, Locks
      <3>3. \A u \in WantedRows(p) : memberLock[u] = p
        BY <1>1, <3>1 DEF IInv, Locks, Holding
      <3>4. req[p].user \in members
        BY <3>1, <3>2, <3>3 DEF WantedRows
      <3>5. req[p].assignee # None => req[p].assignee \in members
        <4>1. CASE req[p].op = "add"
          BY <3>1, <3>2, <3>3, <4>1 DEF WantedRows
        <4>2. CASE req[p].op = "edit"
          BY <1>1, <3>1, <3>2, <4>2 DEF IInv, Locks
        <4>3. CASE req[p].op \notin {"add", "edit"}
          BY <3>1, <4>3 DEF Mutations, WellFormed
        <4>4. QED
          BY <4>1, <4>2, <4>3
      <3>6. QED
        BY <3>4, <3>5
    <2>2. ASSUME NEW p \in Requests, CommitFinish(p)
          PROVE  UNCHANGED events
      BY <2>2 DEF CommitFinish
    <2>3. ASSUME NEW p \in Requests, Commit(p), NEW e \in events' \ events
          PROVE  {e.req.user, e.req.assignee} \ {None} \subseteq members
      <3>1. e = NewEvent(p)
        BY <1>1, <2>3, NewEventIsNew
      <3>2. e.req = req[p] /\ e.item = staged[p].item
        BY <3>1 DEF NewEvent
      <3>3. QED
        BY <2>1, <2>3, <3>2
    <2>4. QED
      BY <1>1, <2>2, <2>3, WhoCommits
  <1>2. QED
    BY Invariance, <1>1, PTL DEF Spec, WritersAreMembers

-----------------------------------------------------------------------------
(* GroceryItems implements GroceryLedger: a commit is a step of the ledger *)
(* and everything else a request does leaves the tables alone.             *)

LEMMA CommitHasEffect ==
  ASSUME IInv, NEW p \in Requests, Commit(p)
  PROVE  RowAfter(p) \in Ledger!Effects(req[p], p, items[staged[p].item])
  <1>1. req[p].op \in Ops /\ req[p].op # "finish" /\ pc[p] # "idle"
    BY AskedIsMutation DEF IInv, Commit
  <1>2. CASE req[p].op = "add"
    BY <1>2, CommittedRow DEF RowAfter, Ledger!Effects
  <1>3. CASE req[p].op \in ItemOps
    <2>1. /\ items[staged[p].item] = Row(p) /\ Row(p) \in Rows
          /\ req[p].op \in {"edit", "complete", "delete"} => Row(p).status = "pending"
          /\ req[p].op = "reopen" => Row(p).status = "completed"
      BY <1>3, CommittedRow, AskedIsMutation DEF Row, IInv, TypeOK
    <2>2. CASE req[p].op = "edit"
      <3>1. RowAfter(p) = [Row(p) EXCEPT
                             !.name = IF req[p].name = None THEN @ ELSE req[p].name,
                             !.assignee = IF req[p].assignee = None THEN @ ELSE req[p].assignee,
                             !.version = IF ChangesNothing(p) THEN Row(p).version ELSE p]
        BY <2>1, <2>2 DEF RowAfter, NameAfter, Rows
      <3>2. QED
        BY <2>1, <2>2, <3>1 DEF Ledger!Effects
    <2>3. CASE req[p].op = "complete"
      BY <2>1, <2>3 DEF RowAfter, Ledger!Effects
    <2>4. CASE req[p].op = "reopen"
      BY <2>1, <2>4 DEF RowAfter, Ledger!Effects
    <2>5. CASE req[p].op = "delete"
      BY <2>1, <2>5 DEF RowAfter, Ledger!Effects
    <2>6. QED
      BY <1>3, <2>2, <2>3, <2>4, <2>5 DEF ItemOps
  <1>4. QED
    BY <1>1, <1>2, <1>3 DEF Ops, ItemOps

LEMMA CommitApplies ==
  ASSUME IInv, UniquePendingName', NEW p \in Requests, Commit(p)
  PROVE  Ledger!Apply(NewEvent(p))
  <1> DEFINE e == NewEvent(p)
  <1>1. e.req = req[p] /\ e.by = p /\ e.item = staged[p].item /\ e.seq = staged[p].seq
    BY DEF NewEvent
  <1>2. session = "active" /\ ~Recorded(p) /\ staged[p].row = RowAfter(p)
    BY CommittedRow
  <1>3. e.req.key # None => records[e.req.key] = None
    BY <1>1, <1>2 DEF Recorded
  <1>4. e.req.base # None => items[e.item].version = e.req.base
    <2>1. req[p].base # None => req[p].op \in ItemOps
      BY AskedIsMutation DEF IInv, Commit
    <2>2. QED
      BY <1>1, <2>1, CommittedRow DEF Stale, Row
  <1>5. \A f \in events : f.by # e.by
    BY <1>1, NewEventIsNew
  <1>6. \E row \in Ledger!Effects(e.req, e.by, items[e.item]) : items' = [items EXCEPT ![e.item] = row]
    BY <1>1, <1>2, CommitHasEffect DEF Commit
  <1>7. Ledger!PendingNamesDiffer(items')
    BY DEF UniquePendingName, PendingNamesDiffer, Pending, Ledger!PendingNamesDiffer, Ledger!Pending
  <1>8. /\ \A n \in {f.seq : f \in events} \union {SeedSeq} : n < e.seq
        /\ e.seq - 1 \in {f.seq : f \in events} \union {SeedSeq}
    <2>1. /\ e.seq = SeedSeq + Cardinality(events) + 1
          /\ SequenceNumbers = (SeedSeq + 1) .. (SeedSeq + Cardinality(events))
          /\ Cardinality(events) \in Nat /\ SeedSeq \in Nat
      BY NewEventIsNew, NextSequenceValue, SeedAssumption DEF IInv
    <2>2. SequenceNumbers \union {SeedSeq} = SeedSeq .. (SeedSeq + Cardinality(events))
      BY <2>1
    <2>3. {f.seq : f \in events} = SequenceNumbers
      BY DEF SequenceNumbers
    <2>4. /\ \A n \in SequenceNumbers \union {SeedSeq} : n < e.seq
          /\ e.seq - 1 \in SequenceNumbers \union {SeedSeq}
      BY <2>1, <2>2
    <2>5. QED
      BY <2>3, <2>4, Zenon
  <1>9. events' = events \union {e}
    BY NewEventIsNew
  <1>10. /\ records' = IF e.req.key = None THEN records
                       ELSE [records EXCEPT ![e.req.key] = [req |-> e.req, by |-> e.by]]
         /\ UNCHANGED session
    BY <1>1 DEF Commit
  <1>11. QED
    BY <1>2, <1>3, <1>4, <1>5, <1>6, <1>7, <1>8, <1>9, <1>10 DEF Ledger!Apply

(* Seen through its tables, the transactional code is the ledger.          *)
THEOREM Refinement == Spec => ImplementsLedger
  <1>1. Init => Ledger!Init
    BY DEF Init, Ledger!Init
  <1>2. ASSUME IInv, IInv', [Next]_vars
        PROVE  [Ledger!Next]_Ledger!vars
    <2>1. CASE UNCHANGED <<items, records, events, session>>
      BY <2>1 DEF Ledger!vars
    <2>2. ASSUME NEW p \in Requests, Commit(p)
          PROVE  Ledger!Next
      <3>1. Ledger!Apply(NewEvent(p)) /\ NewEvent(p) \in events' \ events
        BY <1>2, <2>2, CommitApplies, NewEventIsNew DEF IInv
      <3>2. QED
        BY <3>1 DEF Ledger!Next
    <2>3. ASSUME NEW p \in Requests, CommitFinish(p)
          PROVE  Ledger!Next
      <3>1. session = "active"
        BY <1>2, <2>3 DEF IInv, Checked, Holding, CommitFinish
      <3>2. QED
        BY <2>3, <3>1 DEF CommitFinish, Ledger!Finish, Ledger!Next
    <2>4. QED
      BY <1>2, <2>1, <2>2, <2>3, WhoCommits
  <1>3. QED
    BY Invariance, <1>1, <1>2, PTL DEF Spec, ImplementsLedger, Ledger!Spec

=============================================================================
