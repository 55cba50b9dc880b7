---------------------------- MODULE VoiceRecorder ----------------------------
(***************************************************************************)
(* The recording of a spoken grocery list: hooks/useVoiceRecorder.ts, with *)
(* the polling of hooks/useExpoVoiceRecorder.ts.                           *)
(*                                                                         *)
(* Four tasks of the hook and the clean-up of its unmounting await native  *)
(* calls, each of which may fail; an action is the code from one await to  *)
(* the next, with the effects of the render it causes.  The user, the      *)
(* app's state, the native recorder, which stops by itself at its limit or *)
(* when it is interrupted, and the poll of its state interleave with them. *)
(***************************************************************************)
EXTENDS Integers

CONSTANT MaxRecordings  \* bound: recordings begun

ASSUME MaxRecordingsAssumption == MaxRecordings \in Nat

VARIABLES
  phase,     \* phaseRef, and the phase the screen shows
  busy,      \* operationInProgressRef
  observed,  \* observedNativeRecordingRef
  shown,     \* the recording on the screen, or 0
  at,        \* what each task awaits
  active,    \* is the app in the foreground?
  mounted,
  native,    \* is the microphone recording?
  polled,    \* recorderState.isRecording, polled every 200 ms
  session,   \* does the audio mode allow recording?
  current,   \* history: the number of the last recording
  handed,    \* history: how often onRecordingReady was given each recording
  discarded, \* history: those cancelled by the user or on leaving the foreground
  stuck      \* history: what a failed stop or release, or a recording begun
             \* after the hook was unmounted, has left on

hook == <<phase, busy, observed, shown, at>>
device == <<native, polled, session>>
history == <<handed, discarded, stuck>>
vars == <<hook, active, mounted, device, current, history>>

Tasks == {"start", "stop", "cancel", "limit", "unmount"}
Recordings == 1 .. MaxRecordings

Init ==
  /\ phase = "idle" /\ busy = FALSE /\ observed = FALSE /\ shown = 0
  /\ at = [t \in Tasks |-> "nothing"]
  /\ active = TRUE /\ mounted = TRUE
  /\ native = FALSE /\ polled = FALSE /\ session = FALSE
  /\ current = 0
  /\ handed = [n \in Recordings |-> 0]
  /\ discarded = {} /\ stuck = {}

(* The tasks exclude each other; only the clean-up minds nobody. *)
OneTask ==
  /\ busy <=> \E t \in Tasks \ {"unmount"} : at[t] # "nothing"
  /\ \A t, u \in Tasks \ {"unmount"} : at[t] # "nothing" /\ at[u] # "nothing" => t = u

Flags ==
  /\ busy \in BOOLEAN /\ observed \in BOOLEAN
  /\ active \in BOOLEAN /\ mounted \in BOOLEAN
  /\ native \in BOOLEAN /\ polled \in BOOLEAN /\ session \in BOOLEAN

Places ==
  /\ phase \in {"idle", "requesting_permission", "preparing", "recording", "stopping", "recorded", "error"}
  /\ at \in [Tasks -> {"nothing", "permission", "prompt", "enable", "prepare", "stop", "release", "fail"}]
  /\ stuck \subseteq {"microphone", "session"}

Counts ==
  /\ current \in 0 .. MaxRecordings
  /\ shown \in 0 .. current
  /\ handed \in [Recordings -> Nat]
  /\ discarded \subseteq 1 .. current

TypeOK == Flags /\ Places /\ Counts /\ OneTask

-----------------------------------------------------------------------------

Await(t, call) == at' = [at EXCEPT ![t] = call]
Finish(t, next) == Await(t, "nothing") /\ phase' = next /\ busy' = FALSE

(* failRecording, up to its await. *)
Fail(t) == Await(t, "fail") /\ UNCHANGED <<phase, busy, shown>>

(* Mutant of Free: a second task may begin. *)
FreeUnchecked == TRUE
(* operationInProgressRef keeps every other task from beginning. *)
Free == ~busy

Start ==
  /\ mounted /\ Free /\ phase # "recording"
  /\ current < MaxRecordings
  /\ Await("start", "permission")
  /\ phase' = "requesting_permission" /\ busy' = TRUE /\ shown' = 0
  /\ UNCHANGED <<observed, active, mounted, device, current, history>>

(* ensureMicrophonePermission: only a permission that may be asked for is. *)
Prompt ==
  /\ at["start"] = "permission"
  /\ Await("start", "prompt")
  /\ UNCHANGED <<phase, busy, observed, shown, active, mounted, device, current, history>>

Granted ==
  /\ at["start"] \in {"permission", "prompt"}
  /\ IF active THEN Await("start", "enable") /\ phase' = "preparing" /\ UNCHANGED <<busy, shown>>
               ELSE Fail("start")
  /\ UNCHANGED <<observed, active, mounted, device, current, history>>

Denied ==
  /\ at["start"] \in {"permission", "prompt"}
  /\ Finish("start", "error")
  /\ UNCHANGED <<observed, shown, active, mounted, device, current, history>>

Enabled ==
  /\ at["start"] = "enable"
  /\ Await("start", "prepare")
  /\ session' = TRUE
  /\ UNCHANGED <<phase, busy, observed, shown, active, mounted, native, polled, current, history>>

(* Mutant of MayRecord: the app's state is not looked at again. *)
MayRecordUnchecked == TRUE
(* The app did not leave the foreground while the recorder was prepared. *)
MayRecord == active

(* record(); the effect of the render sees what was polled last. *)
Prepared ==
  /\ at["start"] = "prepare"
  /\ IF MayRecord
       THEN /\ Finish("start", "recording")
            /\ observed' = (mounted /\ polled)
            /\ native' = TRUE /\ current' = current + 1
            /\ stuck' = IF mounted THEN stuck \ {"microphone"} ELSE {"microphone", "session"}
            /\ UNCHANGED shown
       ELSE Fail("start") /\ UNCHANGED <<observed, native, current, stuck>>
  /\ UNCHANGED <<active, mounted, polled, session, handed, discarded>>

(* stopRecording and cancelRecording. *)
Begin(t) ==
  /\ Free /\ phase = "recording"
  /\ Await(t, "stop")
  /\ phase' = "stopping" /\ busy' = TRUE
  /\ discarded' = IF t = "cancel" THEN discarded \union {current} ELSE discarded
  /\ UNCHANGED <<observed, shown, mounted, device, current, handed, stuck>>

PressButton ==
  /\ mounted
  /\ \E t \in {"stop", "cancel"} : Begin(t)
  /\ UNCHANGED active

(* recorder.stop() of stopRecording, cancelRecording and the clean-up. *)
Stopped(t) ==
  /\ at[t] = "stop"
  /\ native' = FALSE /\ stuck' = stuck \ {"microphone"}
  /\ Await(t, "release")
  /\ UNCHANGED <<phase, busy, observed, shown, active, mounted, polled, session, current, handed, discarded>>

NotStopped(t) ==
  /\ at[t] = "stop"
  /\ stuck' = stuck \union {"microphone"}
  /\ IF t = "unmount" THEN Await(t, "release") /\ UNCHANGED <<phase, busy, shown>> ELSE Fail(t)
  /\ UNCHANGED <<observed, active, mounted, device, current, handed, discarded>>

(* Mutant of Finalizing: cancelling finalizes what it stops. *)
FinalizingAll == {"stop", "limit", "cancel"}
(* Who calls finalizeStoppedRecording. *)
Finalizing == {"stop", "limit"}

(* finalizeStoppedRecording after its await; there may be no URI. *)
HandOver(t) ==
  /\ t \in Finalizing /\ at[t] = "release"
  /\ session' = FALSE /\ stuck' = stuck \ {"session"}
  /\ \/ /\ Finish(t, "recorded")
        /\ shown' = current
        /\ handed' = [handed EXCEPT ![current] = @ + 1]
     \/ Fail(t) /\ UNCHANGED handed
  /\ UNCHANGED <<observed, active, mounted, native, polled, current, discarded>>

Released(t) ==
  /\ t \in {"cancel", "unmount"} /\ at[t] = "release"
  /\ session' = FALSE /\ stuck' = stuck \ {"session"}
  /\ IF t = "cancel" THEN Finish(t, "idle") /\ shown' = 0
                     ELSE Await(t, "nothing") /\ UNCHANGED <<phase, busy, shown>>
  /\ UNCHANGED <<observed, active, mounted, native, polled, current, handed, discarded>>

(* A native call to start, or to release the session, is rejected. *)
Rejected(t) ==
  /\ at[t] \in {"permission", "prompt", "enable", "prepare", "release"}
  /\ IF t = "unmount" THEN Await(t, "nothing") /\ UNCHANGED <<phase, busy, shown>> ELSE Fail(t)
  /\ stuck' = IF t = "unmount" THEN stuck \union {"session"} ELSE stuck
  /\ UNCHANGED <<observed, active, mounted, device, current, handed, discarded>>

(* failRecording after its await, whether or not the release succeeded. *)
Failed(t) ==
  /\ at[t] = "fail"
  /\ \/ session' = FALSE /\ stuck' = stuck \ {"session"}
     \/ UNCHANGED session /\ stuck' = stuck \union {"session"}
  /\ Finish(t, "error")
  /\ shown' = 0
  /\ UNCHANGED <<observed, active, mounted, native, polled, current, handed, discarded>>

Reset ==
  /\ mounted /\ Free /\ phase # "recording"
  /\ phase' = "idle" /\ shown' = 0
  /\ UNCHANGED <<busy, observed, at, active, mounted, device, current, history>>

-----------------------------------------------------------------------------

(* The listener of the app's state cancels. *)
Leave ==
  /\ active /\ active' = FALSE
  /\ IF mounted /\ phase = "recording" THEN Begin("cancel")
     ELSE UNCHANGED <<hook, mounted, device, current, history>>

Return ==
  /\ ~active /\ active' = TRUE
  /\ UNCHANGED <<hook, mounted, device, current, history>>

(* The limit of 30 seconds, or an interruption. *)
NativeStops ==
  /\ native /\ native' = FALSE
  /\ stuck' = stuck \ {"microphone"}
  /\ UNCHANGED <<hook, active, mounted, polled, session, current, handed, discarded>>

(* The recorder was seen recording, and is not being stopped by the user. *)
Ended == observed /\ Free

(* useAudioRecorderState; the effect follows what was polled. *)
Poll ==
  /\ mounted
  /\ polled' = native
  /\ observed' = (observed \/ (phase = "recording" /\ native))
  /\ IF phase = "recording" /\ ~native /\ Ended
       THEN Await("limit", "release") /\ phase' = "stopping" /\ busy' = TRUE
       ELSE UNCHANGED <<at, phase, busy>>
  /\ UNCHANGED <<shown, active, mounted, native, session, current, history>>

Unmount ==
  /\ mounted /\ mounted' = FALSE
  /\ IF phase = "recording" THEN Await("unmount", "stop") ELSE UNCHANGED at
  /\ UNCHANGED <<phase, busy, observed, shown, active, device, current, history>>

Next ==
  \/ Start \/ Prompt \/ Granted \/ Denied \/ Enabled \/ Prepared
  \/ PressButton \/ Reset
  \/ \E t \in Tasks : Stopped(t) \/ NotStopped(t) \/ HandOver(t) \/ Released(t) \/ Rejected(t) \/ Failed(t)
  \/ Leave \/ Return \/ NativeStops \/ Poll \/ Unmount

Spec == Init /\ [][Next]_vars

-----------------------------------------------------------------------------

(* A recording is handed over once, after the microphone has stopped, and  *)
(* never when it was cancelled or interrupted by leaving the foreground.   *)
OnlyFinishedIsHandedOver ==
  [][\A n \in Recordings : handed'[n] # handed[n] =>
       handed[n] = 0 /\ n \notin discarded /\ ~native]_vars

(* The microphone is on only while the screen shows it in the foreground,  *)
(* or is being turned off; the session that allows it outlives neither the *)
(* recording nor the task that deals with it.  Excepted is what a failed   *)
(* native call leaves on, or a recording that began after the hook was     *)
(* unmounted.                                                              *)
NothingIsLeftOn ==
  /\ native => \/ phase = "recording" /\ mounted /\ active
               \/ \E t \in Tasks : at[t] = "stop"
               \/ "microphone" \in stuck
  /\ session => \/ phase = "recording" /\ mounted
                \/ \E t \in Tasks : at[t] # "nothing"
                \/ "session" \in stuck

=============================================================================
