------------------------- MODULE VoiceRecorder_proofs -------------------------
(* Proofs about VoiceRecorder, for any number of recordings. *)
EXTENDS VoiceRecorder, TLAPS

-----------------------------------------------------------------------------
(* The inductive invariant. *)

(* A recording that is being begun fits; those after it are untouched.     *)
Bounded ==
  /\ at["start"] # "nothing" => current < MaxRecordings
  /\ \A n \in Recordings : n > current => handed[n] = 0

(* A task that begins leaves the phase in which tasks begin; the clean-up  *)
(* begins only then, and nothing begins after it.                          *)
Idle ==
  /\ phase = "recording" => ~busy
  /\ at["unmount"] \in {"nothing", "stop", "release"}
  /\ at["unmount"] # "nothing" => ~mounted /\ ~busy

(* While the permission is asked for, the session is off.                  *)
Asking ==
  at["start"] \in {"permission", "prompt"} /\ session => "session" \in stuck

(* What is being recorded, or stopped to be handed over, is still wanted,  *)
(* and it is handed over after the microphone has stopped.                 *)
Wanted ==
  /\ phase = "recording" \/ (\E t \in Finalizing : at[t] \in {"stop", "release"}) =>
       current \in Recordings /\ handed[current] = 0 /\ current \notin discarded
  /\ \A t \in Finalizing : at[t] = "release" => ~native

IInv == TypeOK /\ Bounded /\ Idle /\ Asking /\ Wanted /\ NothingIsLeftOn

-----------------------------------------------------------------------------
LEMMA CountsStep ==
  ASSUME TypeOK, Bounded, Wanted, [Next]_vars
  PROVE  (Flags /\ Places /\ Counts)'
  <1> USE MaxRecordingsAssumption
      DEF TypeOK, Flags, Places, Counts, OneTask, Bounded, Wanted, Tasks, Recordings, Await, Finish, Fail, Free, device, history, hook
  <1>1. CASE Start
    BY <1>1 DEF Start
  <1>2. CASE Prompt
    BY <1>2 DEF Prompt
  <1>3. CASE Granted
    BY <1>3 DEF Granted
  <1>4. CASE Denied
    BY <1>4 DEF Denied
  <1>5. CASE Enabled
    BY <1>5 DEF Enabled
  <1>6. CASE Prepared
    <2>1. Flags'
      BY <1>6, Zenon DEF Prepared, MayRecord
    <2>2. Places'
      <3>1. \/ at' = [at EXCEPT !["start"] = "nothing"] /\ phase' = "recording"
            \/ at' = [at EXCEPT !["start"] = "fail"] /\ phase' = phase
        BY <1>6, Zenon DEF Prepared
      <3>2. \/ stuck' = stuck
            \/ stuck' = stuck \ {"microphone"}
            \/ stuck' = {"microphone", "session"}
        BY <1>6, Zenon DEF Prepared
      <3>3. stuck' \subseteq {"microphone", "session"}
        BY <3>2
      <3>4. QED BY <3>1, <3>3
    <2>3. Counts'
      BY <1>6 DEF Prepared, MayRecord
    <2>4. QED BY <2>1, <2>2, <2>3
  <1>7. CASE PressButton
    <2>1. Flags'
      BY <1>7, Zenon DEF PressButton, Begin
    <2>2. Places'
      BY <1>7 DEF PressButton, Begin
    <2>3. Counts'
      BY <1>7 DEF PressButton, Begin
    <2>4. QED BY <2>1, <2>2, <2>3 DEF Flags, Places, Counts
  <1>8. CASE Reset
    BY <1>8 DEF Reset
  <1>9. ASSUME NEW t \in Tasks, Stopped(t) PROVE (Flags /\ Places /\ Counts)'
    BY <1>9 DEF Stopped
  <1>10. ASSUME NEW t \in Tasks, NotStopped(t) PROVE (Flags /\ Places /\ Counts)'
    BY <1>10 DEF NotStopped
  <1>11. ASSUME NEW t \in Tasks, HandOver(t) PROVE (Flags /\ Places /\ Counts)'
    <2>1. Flags'
      BY <1>11, Zenon DEF HandOver, Finalizing
    <2>2. Places'
      BY <1>11 DEF HandOver, Finalizing
    <2>3. Counts'
      BY <1>11 DEF HandOver, Finalizing
    <2>4. QED BY <2>1, <2>2, <2>3 DEF Flags, Places, Counts
  <1>12. ASSUME NEW t \in Tasks, Released(t) PROVE (Flags /\ Places /\ Counts)'
    <2>1. Flags'
      BY <1>12, Zenon DEF Released
    <2>2. Places'
      BY <1>12 DEF Released
    <2>3. Counts'
      BY <1>12 DEF Released
    <2>4. QED BY <2>1, <2>2, <2>3 DEF Flags, Places, Counts
  <1>13. ASSUME NEW t \in Tasks, Rejected(t) PROVE (Flags /\ Places /\ Counts)'
    BY <1>13 DEF Rejected
  <1>14. ASSUME NEW t \in Tasks, Failed(t) PROVE (Flags /\ Places /\ Counts)'
    <2>1. Flags'
      BY <1>14, Zenon DEF Failed
    <2>2. Places'
      BY <1>14 DEF Failed
    <2>3. Counts'
      BY <1>14 DEF Failed
    <2>4. QED BY <2>1, <2>2, <2>3 DEF Flags, Places, Counts
  <1>15. CASE Leave
    <2>1. Flags'
      BY <1>15, Zenon DEF Leave, Begin
    <2>2. Places' /\ Counts'
      <3>1. CASE mounted /\ phase = "recording"
        <4>1. Begin("cancel") /\ current \in 1 .. MaxRecordings
          BY <1>15, <3>1 DEF Leave
        <4>2. QED BY <4>1 DEF Begin
      <3>2. CASE ~(mounted /\ phase = "recording")
        BY <1>15, <3>2 DEF Leave
      <3>3. QED BY <3>1, <3>2
    <2>3. QED BY <2>1, <2>2
  <1>16. CASE Return
    BY <1>16 DEF Return
  <1>17. CASE NativeStops
    BY <1>17 DEF NativeStops
  <1>18. CASE Poll
    <2>1. Flags'
      BY <1>18, Zenon DEF Poll, Ended
    <2>2. Places'
      BY <1>18 DEF Poll, Ended
    <2>3. Counts'
      BY <1>18 DEF Poll, Ended
    <2>4. QED BY <2>1, <2>2, <2>3 DEF Flags, Places, Counts
  <1>19. CASE Unmount
    <2>1. Flags'
      BY <1>19, Zenon DEF Unmount
    <2>2. Places'
      BY <1>19 DEF Unmount
    <2>3. Counts'
      BY <1>19 DEF Unmount
    <2>4. QED BY <2>1, <2>2, <2>3 DEF Flags, Places, Counts
  <1>20. CASE UNCHANGED vars
    BY <1>20 DEF vars
  <1>21. QED
    BY <1>1, <1>2, <1>3, <1>4, <1>5, <1>6, <1>7, <1>8, <1>9, <1>10, <1>11, <1>12, <1>13, <1>14, <1>15, <1>16, <1>17, <1>18, <1>19, <1>20 DEF Next

LEMMA OneTaskStep ==
  ASSUME TypeOK, Idle, [Next]_vars
  PROVE  OneTask'
  <1> USE DEF TypeOK, Flags, Places, Counts, OneTask, Idle, Tasks, Await, Finish, Fail, Free, device, history, hook
  <1>1. CASE Start
    BY <1>1 DEF Start
  <1>2. CASE Prompt
    BY <1>2 DEF Prompt
  <1>3. CASE Granted
    BY <1>3 DEF Granted
  <1>4. CASE Denied
    BY <1>4 DEF Denied
  <1>5. CASE Enabled
    BY <1>5 DEF Enabled
  <1>6. CASE Prepared
    BY <1>6 DEF Prepared, MayRecord
  <1>7. CASE PressButton
    BY <1>7 DEF PressButton, Begin
  <1>8. CASE Reset
    BY <1>8 DEF Reset
  <1>9. ASSUME NEW t \in Tasks, Stopped(t) PROVE OneTask'
    BY <1>9 DEF Stopped
  <1>10. ASSUME NEW t \in Tasks, NotStopped(t) PROVE OneTask'
    BY <1>10 DEF NotStopped
  <1>11. ASSUME NEW t \in Tasks, HandOver(t) PROVE OneTask'
    BY <1>11 DEF HandOver, Finalizing
  <1>12. ASSUME NEW t \in Tasks, Released(t) PROVE OneTask'
    BY <1>12 DEF Released
  <1>13. ASSUME NEW t \in Tasks, Rejected(t) PROVE OneTask'
    BY <1>13 DEF Rejected
  <1>14. ASSUME NEW t \in Tasks, Failed(t) PROVE OneTask'
    BY <1>14 DEF Failed
  <1>15. CASE Leave
    BY <1>15 DEF Leave, Begin
  <1>16. CASE Return
    BY <1>16 DEF Return
  <1>17. CASE NativeStops
    BY <1>17 DEF NativeStops
  <1>18. CASE Poll
    BY <1>18 DEF Poll, Ended
  <1>19. CASE Unmount
    BY <1>19 DEF Unmount
  <1>20. CASE UNCHANGED vars
    BY <1>20 DEF vars
  <1>21. QED
    BY <1>1, <1>2, <1>3, <1>4, <1>5, <1>6, <1>7, <1>8, <1>9, <1>10, <1>11, <1>12, <1>13, <1>14, <1>15, <1>16, <1>17, <1>18, <1>19, <1>20 DEF Next

LEMMA BoundedStep ==
  ASSUME TypeOK, Bounded, [Next]_vars
  PROVE  Bounded'
  <1> USE MaxRecordingsAssumption
      DEF TypeOK, Flags, Places, Counts, OneTask, Bounded, Tasks, Recordings, Await, Finish, Fail, Free, device, history, hook
  <1>1. CASE Start
    BY <1>1 DEF Start
  <1>2. CASE Prompt
    BY <1>2 DEF Prompt
  <1>3. CASE Granted
    BY <1>3 DEF Granted
  <1>4. CASE Denied
    BY <1>4 DEF Denied
  <1>5. CASE Enabled
    BY <1>5 DEF Enabled
  <1>6. CASE Prepared
    BY <1>6 DEF Prepared, MayRecord
  <1>7. CASE PressButton
    BY <1>7 DEF PressButton, Begin
  <1>8. CASE Reset
    BY <1>8 DEF Reset
  <1>9. ASSUME NEW t \in Tasks, Stopped(t) PROVE Bounded'
    BY <1>9 DEF Stopped
  <1>10. ASSUME NEW t \in Tasks, NotStopped(t) PROVE Bounded'
    BY <1>10 DEF NotStopped
  <1>11. ASSUME NEW t \in Tasks, HandOver(t) PROVE Bounded'
    BY <1>11 DEF HandOver, Finalizing
  <1>12. ASSUME NEW t \in Tasks, Released(t) PROVE Bounded'
    BY <1>12 DEF Released
  <1>13. ASSUME NEW t \in Tasks, Rejected(t) PROVE Bounded'
    BY <1>13 DEF Rejected
  <1>14. ASSUME NEW t \in Tasks, Failed(t) PROVE Bounded'
    BY <1>14 DEF Failed
  <1>15. CASE Leave
    BY <1>15 DEF Leave, Begin
  <1>16. CASE Return
    BY <1>16 DEF Return
  <1>17. CASE NativeStops
    BY <1>17 DEF NativeStops
  <1>18. CASE Poll
    BY <1>18 DEF Poll, Ended
  <1>19. CASE Unmount
    BY <1>19 DEF Unmount
  <1>20. CASE UNCHANGED vars
    BY <1>20 DEF vars
  <1>21. QED
    BY <1>1, <1>2, <1>3, <1>4, <1>5, <1>6, <1>7, <1>8, <1>9, <1>10, <1>11, <1>12, <1>13, <1>14, <1>15, <1>16, <1>17, <1>18, <1>19, <1>20 DEF Next

LEMMA IdleStep ==
  ASSUME TypeOK, Idle, [Next]_vars
  PROVE  Idle'
  <1> USE MaxRecordingsAssumption
      DEF TypeOK, Flags, Places, Counts, OneTask, Idle, Tasks, Recordings, Await, Finish, Fail, Free, device, history, hook
  <1>1. CASE Start
    BY <1>1 DEF Start
  <1>2. CASE Prompt
    BY <1>2 DEF Prompt
  <1>3. CASE Granted
    BY <1>3 DEF Granted
  <1>4. CASE Denied
    BY <1>4 DEF Denied
  <1>5. CASE Enabled
    BY <1>5 DEF Enabled
  <1>6. CASE Prepared
    BY <1>6 DEF Prepared, MayRecord
  <1>7. CASE PressButton
    BY <1>7 DEF PressButton, Begin
  <1>8. CASE Reset
    BY <1>8 DEF Reset
  <1>9. ASSUME NEW t \in Tasks, Stopped(t) PROVE Idle'
    BY <1>9 DEF Stopped
  <1>10. ASSUME NEW t \in Tasks, NotStopped(t) PROVE Idle'
    BY <1>10 DEF NotStopped
  <1>11. ASSUME NEW t \in Tasks, HandOver(t) PROVE Idle'
    BY <1>11 DEF HandOver, Finalizing
  <1>12. ASSUME NEW t \in Tasks, Released(t) PROVE Idle'
    BY <1>12 DEF Released
  <1>13. ASSUME NEW t \in Tasks, Rejected(t) PROVE Idle'
    BY <1>13 DEF Rejected
  <1>14. ASSUME NEW t \in Tasks, Failed(t) PROVE Idle'
    BY <1>14 DEF Failed
  <1>15. CASE Leave
    BY <1>15 DEF Leave, Begin
  <1>16. CASE Return
    BY <1>16 DEF Return
  <1>17. CASE NativeStops
    BY <1>17 DEF NativeStops
  <1>18. CASE Poll
    BY <1>18 DEF Poll, Ended
  <1>19. CASE Unmount
    BY <1>19 DEF Unmount
  <1>20. CASE UNCHANGED vars
    BY <1>20 DEF vars
  <1>21. QED
    BY <1>1, <1>2, <1>3, <1>4, <1>5, <1>6, <1>7, <1>8, <1>9, <1>10, <1>11, <1>12, <1>13, <1>14, <1>15, <1>16, <1>17, <1>18, <1>19, <1>20 DEF Next

LEMMA AskingStep ==
  ASSUME TypeOK, Idle, Asking, NothingIsLeftOn, [Next]_vars
  PROVE  Asking'
  <1> USE DEF TypeOK, Flags, Places, Counts, OneTask, Idle, Asking, NothingIsLeftOn, Tasks, Await, Finish, Fail, Free, device, history, hook
  <1>1. CASE Start
    BY <1>1 DEF Start
  <1>2. CASE Prompt
    BY <1>2 DEF Prompt
  <1>3. CASE Granted
    BY <1>3 DEF Granted
  <1>4. CASE Denied
    BY <1>4 DEF Denied
  <1>5. CASE Enabled
    BY <1>5 DEF Enabled
  <1>6. CASE Prepared
    BY <1>6 DEF Prepared, MayRecord
  <1>7. CASE PressButton
    BY <1>7 DEF PressButton, Begin
  <1>8. CASE Reset
    BY <1>8 DEF Reset
  <1>9. ASSUME NEW t \in Tasks, Stopped(t) PROVE Asking'
    BY <1>9 DEF Stopped
  <1>10. ASSUME NEW t \in Tasks, NotStopped(t) PROVE Asking'
    BY <1>10 DEF NotStopped
  <1>11. ASSUME NEW t \in Tasks, HandOver(t) PROVE Asking'
    BY <1>11 DEF HandOver, Finalizing
  <1>12. ASSUME NEW t \in Tasks, Released(t) PROVE Asking'
    BY <1>12 DEF Released
  <1>13. ASSUME NEW t \in Tasks, Rejected(t) PROVE Asking'
    BY <1>13 DEF Rejected
  <1>14. ASSUME NEW t \in Tasks, Failed(t) PROVE Asking'
    BY <1>14 DEF Failed
  <1>15. CASE Leave
    BY <1>15 DEF Leave, Begin
  <1>16. CASE Return
    BY <1>16 DEF Return
  <1>17. CASE NativeStops
    BY <1>17 DEF NativeStops
  <1>18. CASE Poll
    BY <1>18 DEF Poll, Ended
  <1>19. CASE Unmount
    BY <1>19 DEF Unmount
  <1>20. CASE UNCHANGED vars
    BY <1>20 DEF vars
  <1>21. QED
    BY <1>1, <1>2, <1>3, <1>4, <1>5, <1>6, <1>7, <1>8, <1>9, <1>10, <1>11, <1>12, <1>13, <1>14, <1>15, <1>16, <1>17, <1>18, <1>19, <1>20 DEF Next

LEMMA WantedStep ==
  ASSUME TypeOK, Bounded, Idle, Wanted, [Next]_vars
  PROVE  Wanted'
  <1> USE MaxRecordingsAssumption
      DEF TypeOK, Flags, Places, Counts, OneTask, Bounded, Idle, Wanted, Finalizing, Tasks, Recordings, Await, Finish, Fail, Free, device, history, hook
  <1>1. CASE Start
    BY <1>1 DEF Start
  <1>2. CASE Prompt
    BY <1>2 DEF Prompt
  <1>3. CASE Granted
    BY <1>3 DEF Granted
  <1>4. CASE Denied
    BY <1>4 DEF Denied
  <1>5. CASE Enabled
    BY <1>5 DEF Enabled
  <1>6. CASE Prepared
    BY <1>6 DEF Prepared, MayRecord
  <1>7. CASE PressButton
    BY <1>7 DEF PressButton, Begin
  <1>8. CASE Reset
    BY <1>8 DEF Reset
  <1>9. ASSUME NEW t \in Tasks, Stopped(t) PROVE Wanted'
    BY <1>9 DEF Stopped
  <1>10. ASSUME NEW t \in Tasks, NotStopped(t) PROVE Wanted'
    BY <1>10 DEF NotStopped
  <1>11. ASSUME NEW t \in Tasks, HandOver(t) PROVE Wanted'
    BY <1>11 DEF HandOver
  <1>12. ASSUME NEW t \in Tasks, Released(t) PROVE Wanted'
    BY <1>12 DEF Released
  <1>13. ASSUME NEW t \in Tasks, Rejected(t) PROVE Wanted'
    BY <1>13 DEF Rejected
  <1>14. ASSUME NEW t \in Tasks, Failed(t) PROVE Wanted'
    BY <1>14 DEF Failed
  <1>15. CASE Leave
    BY <1>15 DEF Leave, Begin
  <1>16. CASE Return
    BY <1>16 DEF Return
  <1>17. CASE NativeStops
    BY <1>17 DEF NativeStops
  <1>18. CASE Poll
    BY <1>18 DEF Poll, Ended
  <1>19. CASE Unmount
    BY <1>19 DEF Unmount
  <1>20. CASE UNCHANGED vars
    BY <1>20 DEF vars
  <1>21. QED
    BY <1>1, <1>2, <1>3, <1>4, <1>5, <1>6, <1>7, <1>8, <1>9, <1>10, <1>11, <1>12, <1>13, <1>14, <1>15, <1>16, <1>17, <1>18, <1>19, <1>20 DEF Next

LEMMA OffStep ==
  ASSUME TypeOK, Idle, Asking, NothingIsLeftOn, [Next]_vars
  PROVE  NothingIsLeftOn'
  <1> USE MaxRecordingsAssumption
      DEF TypeOK, Flags, Places, Counts, OneTask, NothingIsLeftOn, Idle, Asking, Tasks, Recordings, Await, Finish, Fail, Free, device, history, hook
  <1>1. CASE Start
    BY <1>1 DEF Start
  <1>2. CASE Prompt
    BY <1>2 DEF Prompt
  <1>3. CASE Granted
    BY <1>3 DEF Granted
  <1>4. CASE Denied
    BY <1>4 DEF Denied
  <1>5. CASE Enabled
    BY <1>5 DEF Enabled
  <1>6. CASE Prepared
    BY <1>6 DEF Prepared, MayRecord
  <1>7. CASE PressButton
    BY <1>7 DEF PressButton, Begin
  <1>8. CASE Reset
    BY <1>8 DEF Reset
  <1>9. ASSUME NEW t \in Tasks, Stopped(t) PROVE NothingIsLeftOn'
    BY <1>9 DEF Stopped
  <1>10. ASSUME NEW t \in Tasks, NotStopped(t) PROVE NothingIsLeftOn'
    BY <1>10 DEF NotStopped
  <1>11. ASSUME NEW t \in Tasks, HandOver(t) PROVE NothingIsLeftOn'
    BY <1>11 DEF HandOver, Finalizing
  <1>12. ASSUME NEW t \in Tasks, Released(t) PROVE NothingIsLeftOn'
    BY <1>12 DEF Released
  <1>13. ASSUME NEW t \in Tasks, Rejected(t) PROVE NothingIsLeftOn'
    BY <1>13 DEF Rejected
  <1>14. ASSUME NEW t \in Tasks, Failed(t) PROVE NothingIsLeftOn'
    <2>1. CASE session' = FALSE
      BY <1>14, <2>1 DEF Failed
    <2>2. CASE UNCHANGED session /\ stuck' = stuck \union {"session"}
      BY <1>14, <2>2 DEF Failed
    <2>3. QED BY <1>14, <2>1, <2>2 DEF Failed
  <1>15. CASE Leave
    BY <1>15 DEF Leave, Begin
  <1>16. CASE Return
    BY <1>16 DEF Return
  <1>17. CASE NativeStops
    BY <1>17 DEF NativeStops
  <1>18. CASE Poll
    BY <1>18 DEF Poll, Ended
  <1>19. CASE Unmount
    BY <1>19 DEF Unmount
  <1>20. CASE UNCHANGED vars
    BY <1>20 DEF vars
  <1>21. QED
    BY <1>1, <1>2, <1>3, <1>4, <1>5, <1>6, <1>7, <1>8, <1>9, <1>10, <1>11, <1>12, <1>13, <1>14, <1>15, <1>16, <1>17, <1>18, <1>19, <1>20 DEF Next

-----------------------------------------------------------------------------
LEMMA Initially == Init => IInv
  <1> SUFFICES ASSUME Init
               PROVE  IInv
    OBVIOUS
  <1> USE MaxRecordingsAssumption DEF Init, Tasks, Recordings
  <1>1. TypeOK
    <2>1. Flags
      BY Zenon DEF Flags
    <2>2. Places
      BY DEF Places
    <2>3. Counts
      BY DEF Counts
    <2>4. OneTask
      BY DEF OneTask
    <2>5. QED BY <2>1, <2>2, <2>3, <2>4 DEF TypeOK
  <1>2. Bounded /\ Idle /\ Asking /\ Wanted /\ NothingIsLeftOn
    BY DEF Bounded, Idle, Asking, Wanted, Finalizing, NothingIsLeftOn
  <1>3. QED BY <1>1, <1>2 DEF IInv

LEMMA Inductive == IInv /\ [Next]_vars => IInv'
  BY CountsStep, OneTaskStep, BoundedStep, IdleStep, AskingStep, WantedStep, OffStep
     DEF IInv, TypeOK

LEMMA Invariance == Spec => []IInv
  BY Initially, Inductive, PTL DEF Spec

(* The tasks of the hook exclude each other whatever the user, the app's   *)
(* state and the native recorder do: operationInProgressRef is enough.     *)
THEOREM TypeCorrect == Spec => []TypeOK
  <1>1. IInv => TypeOK
    BY DEF IInv
  <1>2. QED
    BY <1>1, Invariance, PTL

(* Every way a recording ends turns the microphone and the audio session   *)
(* off, unless a native call fails or the hook is gone by then.            *)
THEOREM EverythingIsTurnedOff == Spec => []NothingIsLeftOn
  <1>1. IInv => NothingIsLeftOn
    BY DEF IInv
  <1>2. QED
    BY <1>1, Invariance, PTL

LEMMA HandOverStep ==
  ASSUME IInv, [Next]_vars, NEW n \in Recordings, handed'[n] # handed[n]
  PROVE  handed[n] = 0 /\ n \notin discarded /\ ~native
  <1> USE DEF IInv, history, device, hook
  <1>1. CASE \E t \in Tasks : HandOver(t)
    BY <1>1, MaxRecordingsAssumption
       DEF HandOver, Wanted, TypeOK, Counts, Places, Recordings, Await, Finish, Fail
  <1>2. CASE ~\E t \in Tasks : HandOver(t)
    <2>1. UNCHANGED handed
      BY <1>2, Zenon
         DEF Next, vars, Start, Prompt, Granted, Denied, Enabled, Prepared, PressButton, Begin, Reset,
             Stopped, NotStopped, Released, Rejected, Failed, Leave, Return, NativeStops, Poll, Unmount
    <2>2. QED BY <2>1
  <1>3. QED BY <1>1, <1>2

(* finalizeStoppedRecording: onRecordingReady gets each recording at most  *)
(* once, after the microphone stopped, and never one that was cancelled.   *)
THEOREM HandedOverOnce == Spec => OnlyFinishedIsHandedOver
  <1>1. IInv /\ [Next]_vars =>
          [\A n \in Recordings : handed'[n] # handed[n] =>
             handed[n] = 0 /\ n \notin discarded /\ ~native]_vars
    BY HandOverStep
  <1>2. QED
    BY <1>1, Invariance, PTL DEF Spec, OnlyFinishedIsHandedOver

=============================================================================
