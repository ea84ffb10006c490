-------------------------------- MODULE TVRec --------------------------------
(***************************************************************************)
(* libmythtv/TVRec: one capture card's recorder state machine.  The event  *)
(* thread (RunTV) changes the state and carries out tuning requests; the   *)
(* scheduler thread calls StartRecording, a frontend's thread the Live TV  *)
(* calls; the recorder's thread switches files.                            *)
(*                                                                         *)
(* stateChangeLock is held by the event thread from one sleep to the next, *)
(* except while it stops a recorder or waits for one to start: LockFree.   *)
(* What a caller does between two waits is one action.                     *)
(*                                                                         *)
(* ProgramInfo objects are told apart by who points at them: a pointer is  *)
(* "null", or the object is curRecording ("current"), was dropped without  *)
(* delete ("lost") or was deleted ("deleted").  faults collects the        *)
(* dereferences of NULL and of deleted objects.                            *)
(***************************************************************************)
EXTENDS Integers, Sequences, FiniteSets

CONSTANTS
  Programs,    \* what the scheduler may record
  NULL,        \* no program, no recording
  Uses,        \* which of the programs the scheduler records, beside which calls
  NeedSignal,  \* SignalMonitor::IsRequired: a digital tuner
  Failures,    \* what may fail: some of "tune", "monitor", "file", "setup",
               \*   "recorder" (one that was set up runs into an error)
  MaxRequests  \* bound: tuning requests that may be queued

LiveTV == "LiveTV"       \* a program of Live TV, chosen by the time of day
Calls == {"SpawnLiveTV", "StopLiveTV", "SetChannel", "StopRecording", "Cancel"}

ASSUME TVRecAssumption ==
  /\ NULL \notin Programs /\ LiveTV \notin Programs \cup {NULL}
  /\ Uses \subseteq [programs : SUBSET Programs, calls : SUBSET Calls]
  /\ Failures \subseteq {"tune", "monitor", "file", "setup", "recorder"}
  /\ NeedSignal \in BOOLEAN
  /\ MaxRequests \in Nat \ {0}

VARIABLES
  internalState, changeState, desiredNextState,
  stateFlags, tuningRequests, lastTuningRequest,
  curRecording,            \* NULL, or its program and whether it has failed
  pseudoLiveTVRecording,   \* what Live TV's file is kept as, or NULL
  recordEnd,               \* recordEndTime has passed
  pending,                 \* pendingRecordings[cardid]
  tvchain, ringBuffer,     \* whether there is one
  recorder,                \* NULL, or what it is doing
  nextRecording,           \* the program of the recorder's next file, or NULL
  requestPause,            \* PauseRecorder has asked it to pause
  m_switchingBuffer,
  epc, spc, fpc,           \* event thread, scheduler thread, frontend's thread
  rcinfo, cancelNext, retval,   \* locals and result of StartRecording
  requestType,             \* local of SetChannel
  use,                     \* one of Uses: what the callers do in this behaviour
  faults

state   == <<internalState, changeState, desiredNextState>>
tuning  == <<stateFlags, tuningRequests, lastTuningRequest>>
live    == <<pseudoLiveTVRecording, tvchain>>
rec     == <<recorder, nextRecording, requestPause, m_switchingBuffer>>
sched   == <<spc, rcinfo, cancelNext, retval>>
front   == <<fpc, requestType>>
vars == <<state, tuning, curRecording, live, recordEnd, pending, ringBuffer, rec,
          epc, sched, front, use, faults>>

Init ==
  /\ internalState = "None" /\ changeState = FALSE /\ desiredNextState = "None"
  /\ stateFlags = {} /\ tuningRequests = <<>>
  /\ lastTuningRequest = [flags |-> {}, program |-> "null", sameMultiplex |-> FALSE]
  /\ curRecording = NULL /\ pseudoLiveTVRecording = NULL
  /\ recordEnd = FALSE /\ pending = "none"
  /\ tvchain = FALSE /\ ringBuffer = FALSE
  /\ recorder = NULL /\ nextRecording = NULL /\ requestPause = FALSE
  /\ m_switchingBuffer = FALSE
  /\ epc = "loop" /\ spc = "idle" /\ fpc = "idle"
  /\ rcinfo = NULL /\ cancelNext = FALSE /\ retval = "none"
  /\ requestType = {}
  /\ use \in Uses /\ faults = {}

-----------------------------------------------------------------------------

GetState == IF changeState THEN "ChangingState" ELSE internalState

\* The single slot for the next state.
ChangeState(s) == desiredNextState' = s /\ changeState' = TRUE

\* What a step of tuning that fails does.
Revert_not == UNCHANGED <<desiredNextState, changeState>>
Revert == ChangeState("None")

Recording(s) == s \in {"RecordingOnly", "WatchingLiveTV"}
RemoveRecording(s) == IF Recording(s) THEN "None" ELSE "Error"

Request(fs, ptr) == [flags |-> fs, program |-> ptr, sameMultiplex |-> FALSE]
RecFlags == {"LiveTV", "Recording"}
NoRecFlags == {"CloseRec", "KillRec"}
PendingActions_tuning == {"WaitingForSignal", "NeedToStartRecorder"}
PendingActions == {"WaitingForRecPause", "WaitingForSignal", "NeedToStartRecorder"}

NewRecording(p) == [program |-> p, failed |-> FALSE]

\* curRecording becomes r; what the requests point at is now "deleted" or "lost".
SetCurRecording(r, was) ==
  LET moved(q) == IF q.program = "current" THEN [q EXCEPT !.program = was] ELSE q
  IN  /\ curRecording' = r
      /\ lastTuningRequest' = moved(lastTuningRequest)
      /\ tuningRequests' = [i \in DOMAIN tuningRequests |-> moved(tuningRequests[i])]

\* The dereferences of an operation: those named by a TRUE condition are faults.
Faults(fs) == faults' = faults \cup fs
If(cond, name) == IF cond THEN {name} ELSE {}
May(failure) == IF failure \in Failures THEN BOOLEAN ELSE {TRUE}

LockFree == epc \in {"sleep", "stopping", "finishing", "starting"}

\* WaitForEventThreadSleep returns (every caller waits as long as it takes).
Slept == LockFree /\ tuningRequests = <<>> /\ ~changeState

-----------------------------------------------------------------------------
(* The event thread                                                        *)

\* The requests that end a recording and Live TV.
CloseRecording_keep == {"KillRingBuffer"}
CloseRecording == {"CloseRec", "KillRingBuffer"}
CloseLiveTV_keep == {"KillRingBuffer"}
CloseLiveTV == {"KillRec", "KillRingBuffer"}

\* HandleStateChange: the request that goes with a transition.
Transition(from, to) ==
  CASE from = "None" /\ to = "WatchingLiveTV" -> <<Request({"LiveTV"}, "null")>>
    [] from = "WatchingLiveTV" /\ to = "None" ->
         <<Request(CloseLiveTV, "null")>>
    [] from = "None" /\ to = "RecordingOnly" ->
         <<Request({"Recording"}, IF curRecording = NULL THEN "null" ELSE "current")>>
    [] from = "RecordingOnly" /\ to = "None" ->
         <<Request(CloseRecording, "null")>>
    [] OTHER -> <<>>

Allowed_any(from, to) == from # to
Allowed(from, to) == Transition(from, to) # <<>>
                     \/ (from = "WatchingLiveTV" /\ to = "RecordingOnly")

\* The slot is emptied, also when the change is refused.
Handled_refuse == changeState' = ~Allowed(internalState, desiredNextState)
Handled == changeState' = FALSE

HandleStateChange ==
  /\ epc = "loop" /\ changeState
  /\ tuningRequests' = tuningRequests \o Transition(internalState, desiredNextState)
  /\ internalState' = IF Allowed(internalState, desiredNextState)
                      THEN desiredNextState ELSE internalState
  /\ pseudoLiveTVRecording' =
       IF Allowed(internalState, desiredNextState)
          /\ desiredNextState = "RecordingOnly"
       THEN NULL ELSE pseudoLiveTVRecording
  /\ Handled
  /\ stateFlags' = stateFlags \ {"CancelNextRecording"}
  /\ epc' = "tune"
  /\ UNCHANGED <<desiredNextState, lastTuningRequest, curRecording, tvchain,
                 recordEnd, pending, ringBuffer, rec, sched, front, faults>>

NoStateChange ==
  /\ epc = "loop" /\ ~changeState
  /\ epc' = "tune"
  /\ UNCHANGED <<state, tuning, curRecording, live, recordEnd, pending, ringBuffer,
                 rec, sched, front, faults>>

request == Head(tuningRequests)

\* TuningOnSameMultiplex: the recorder may already receive the channel.
MayBeSame ==
  /\ NeedSignal /\ recorder # NULL /\ "SignalMonitorRunning" \notin stateFlags
  /\ request.program = "null" /\ request.flags \cap RecFlags # {}

\* HandleTuning takes a request; TuningShutdowns up to the recorder's teardown.
TuningShutdowns ==
  /\ epc = "tune" /\ tuningRequests # <<>>
  /\ LET noRec == request.flags \cap NoRecFlags # {}
         dummy == noRec /\ "DummyRecorderRunning" \in stateFlags
     IN  /\ stateFlags' = stateFlags \ ({"WaitingForSignal", "SignalMonitorRunning"}
                                         \cup If(dummy, "DummyRecorderRunning"))
         /\ Faults(If(dummy /\ curRecording = NULL, "no curRecording")
                   \cup If(request.program = "deleted"
                           \/ ("CloseRec" \in request.flags
                               /\ lastTuningRequest.program = "deleted"),
                           "program deleted"))
         /\ epc' = IF noRec /\ "RecorderRunning" \in stateFlags
                   THEN "stopping" ELSE "shut"
  /\ \E same \in {FALSE} \cup {MayBeSame} :
       tuningRequests' = [tuningRequests EXCEPT ![1].sameMultiplex = same]
  /\ UNCHANGED <<state, lastTuningRequest, curRecording, live, recordEnd, pending,
                 ringBuffer, rec, sched, front>>

NoRequest ==
  /\ epc = "tune" /\ tuningRequests = <<>>
  /\ epc' = "pause"
  /\ UNCHANGED <<state, tuning, curRecording, live, recordEnd, pending, ringBuffer,
                 rec, sched, front, faults>>

\* TeardownRecorder, called without the lock: it stops and joins the recorder,
\* which may be in its callback RingBufferChanged ...
StopRecorder ==
  /\ epc = "stopping"
  /\ recorder \notin {"switching", "changed"}
  /\ Faults(If(curRecording = NULL, "no curRecording"))
  /\ recorder' = NULL /\ nextRecording' = NULL /\ requestPause' = FALSE
  /\ stateFlags' = stateFlags \ {"RecorderRunning"}
  /\ epc' = "finishing"
  /\ UNCHANGED <<state, tuningRequests, lastTuningRequest, curRecording, live,
                 recordEnd, pending, ringBuffer, m_switchingBuffer, sched, front>>

\* ... and finishes what then is curRecording.
FinishedRecording ==
  /\ epc = "finishing"
  /\ SetCurRecording(NULL, "deleted")
  /\ epc' = "shut"
  /\ UNCHANGED <<state, stateFlags, live, recordEnd, pending, ringBuffer, rec,
                 sched, front, faults>>

\* The rest of TuningShutdowns; dequeue; the start of what is asked for.
HandleTuning ==
  /\ epc = "shut"
  /\ LET kill == ringBuffer /\ "KillRingBuffer" \in request.flags
         pause == request.flags \cap RecFlags # {} /\ recorder # NULL
     IN  /\ ringBuffer' = (ringBuffer /\ ~kill)
         /\ stateFlags' = (stateFlags \ (PendingActions
                                          \cup If(kill, "DummyRecorderRunning")))
                          \cup If(pause, "WaitingForRecPause")
         /\ epc' = CASE request.flags \cap RecFlags = {} -> "pause"
                     [] request.flags \cap RecFlags # {} /\ ~pause -> "frequency"
                     [] pause -> "pause"
  /\ lastTuningRequest' = request /\ tuningRequests' = Tail(tuningRequests)
  /\ UNCHANGED <<state, curRecording, live, recordEnd, pending, rec, sched, front,
                 faults>>

\* Waits for the recorder to pause before it tunes.
RecPause ==
  /\ epc = "pause"
  /\ LET waiting == "WaitingForRecPause" \in stateFlags
     IN  /\ Faults(If(waiting /\ recorder = NULL, "no recorder"))
         /\ epc' = CASE ~waiting -> "signal"
                     [] waiting /\ recorder = "paused" -> "frequency"
                     [] OTHER -> "check"
         /\ stateFlags' = IF epc' = "frequency"
                          THEN stateFlags \ {"WaitingForRecPause"} ELSE stateFlags
  /\ UNCHANGED <<state, tuningRequests, lastTuningRequest, curRecording, live,
                 recordEnd, pending, ringBuffer, rec, sched, front>>

TuningSameMultiplex ==
  /\ epc = "frequency" /\ lastTuningRequest.sameMultiplex
  /\ stateFlags' = stateFlags \cup {"NeedToStartRecorder"}
  /\ epc' = "signal"
  /\ UNCHANGED <<state, tuningRequests, lastTuningRequest, curRecording, live,
                 recordEnd, pending, ringBuffer, rec, sched, front, faults>>

\* The channel cannot be set.
TuningFails ==
  /\ epc = "frequency" /\ ~lastTuningRequest.sameMultiplex /\ "tune" \in Failures
  /\ curRecording' = IF curRecording = NULL THEN NULL
                     ELSE [curRecording EXCEPT !.failed = TRUE]
  /\ IF internalState # "None"
     THEN Revert /\ UNCHANGED tuningRequests
     ELSE /\ tuningRequests' = Append(tuningRequests, Request({"KillRec"}, "null"))
          /\ UNCHANGED <<changeState, desiredNextState>>
  /\ epc' = "signal"
  /\ UNCHANGED <<internalState, stateFlags, lastTuningRequest, live, recordEnd,
                 pending, ringBuffer, rec, sched, front, faults>>

\* GetProgramRingBufferForLiveTV: the program of a new file, if there can be one.
LiveProgram == IF pseudoLiveTVRecording = NULL THEN LiveTV ELSE pseudoLiveTVRecording

\* Create- or SwitchLiveTVRingBuffer(discont, FALSE): a new file for program p.
ReplaceRecording_later(p) == UNCHANGED <<curRecording, lastTuningRequest, tuningRequests>>
ReplaceRecording(p) == SetCurRecording(NewRecording(p), "deleted")
NewLiveFile(p) == ReplaceRecording(p) /\ ringBuffer' = TRUE

\* A digital tuner gets a dummy file for Live TV, and a signal monitor.
TuningFrequency ==
  /\ epc = "frequency" /\ ~lastTuningRequest.sameMultiplex
  /\ LET liveTV == "LiveTV" \in lastTuningRequest.flags
         dummy == NeedSignal /\ liveTV
     IN  \E file \in May("file"), monitor \in May("monitor") :
           /\ Faults(If(dummy /\ ~tvchain, "no tvchain"))
           /\ IF dummy /\ (~file \/ ~tvchain)
              THEN /\ Revert
                   /\ stateFlags' = stateFlags \
                                      (IF ringBuffer THEN {} ELSE PendingActions)
                   /\ UNCHANGED <<tuningRequests, lastTuningRequest, curRecording,
                                  ringBuffer>>
              ELSE /\ stateFlags' = (stateFlags \ {"WaitingForSignal"}) \cup
                        UNION {IF dummy THEN {"DummyRecorderRunning", "RingBufferReady"}
                                        ELSE {},
                               If(NeedSignal, "SignalMonitorRunning"),
                               If(NeedSignal /\ monitor, "WaitingForSignal"),
                               If(~NeedSignal \/ monitor, "NeedToStartRecorder")}
                   /\ IF dummy THEN NewLiveFile(LiveTV)
                      ELSE UNCHANGED <<tuningRequests, lastTuningRequest,
                                       curRecording, ringBuffer>>
                   /\ UNCHANGED <<changeState, desiredNextState>>
  /\ epc' = "signal"
  /\ UNCHANGED <<internalState, live, recordEnd, pending, rec, sched, front>>

\* There may be no signal yet.
TuningSignalCheck ==
  /\ epc = "signal"
  /\ \E good \in BOOLEAN :
       LET waiting == "WaitingForSignal" \in stateFlags
       IN  /\ epc' = IF (waiting /\ ~good) \/ "NeedToStartRecorder" \notin stateFlags
                     THEN "check" ELSE "recorder"
           /\ stateFlags' = IF waiting /\ good
                            THEN stateFlags \ {"SignalMonitorRunning", "WaitingForSignal"}
                            ELSE stateFlags
  /\ UNCHANGED <<state, tuningRequests, lastTuningRequest, curRecording, live,
                 recordEnd, pending, ringBuffer, rec, sched, front, faults>>

\* TuningNewRecorder up to the start of the recorder's thread.  For Live TV the
\* file is made here, unless there is a dummy's that is replaced.
TuningNewRecorder ==
  /\ epc = "recorder" /\ recorder = NULL
  /\ LET dummy == "DummyRecorderRunning" \in stateFlags
         record == "Recording" \in lastTuningRequest.flags
     IN  \E liveFile \in May("file"), recFile \in May("file"), setup \in May("setup") :
           LET chained == tvchain /\ liveFile
               opening == record /\ (tvchain => chained)
               ring == CASE tvchain /\ ~liveFile -> ringBuffer
                         [] opening -> recFile
                         [] OTHER -> ringBuffer \/ chained
               opened == ring /\ (tvchain => chained)
           IN  /\ Faults(If(dummy /\ curRecording = NULL, "no curRecording")
                         \cup If(opening /\ ~tvchain /\ lastTuningRequest.program
                                   \in {"deleted", "null"}, "program deleted"))
               /\ ringBuffer' = ring
               /\ IF opened /\ ~setup
                  THEN SetCurRecording(NULL, "deleted")   \* TeardownRecorder(true)
                  ELSE IF chained
                       THEN ReplaceRecording(LiveProgram)
                       ELSE UNCHANGED <<curRecording, tuningRequests, lastTuningRequest>>
               /\ IF opened /\ setup
                  THEN /\ recorder' = "starting" /\ epc' = "starting"
                       /\ UNCHANGED <<changeState, desiredNextState>>
                  ELSE /\ epc' = "check" /\ Revert
                       /\ UNCHANGED recorder
               /\ stateFlags' = (stateFlags \ UNION
                    {{"DummyRecorderRunning"},
                     IF (tvchain /\ ~chained /\ ~ringBuffer) \/ (opening /\ ~recFile)
                     THEN PendingActions ELSE {}})
                      \cup If(tvchain /\ ~ringBuffer, "RingBufferReady")
  /\ UNCHANGED <<internalState, live, recordEnd, pending, nextRecording, requestPause,
                 m_switchingBuffer, sched, front>>

StartedFlags_ready == {"RingBufferReady"}
StartedFlags == {"RecorderRunning", "RingBufferReady"}

\* The recorder, awaited without the lock, has come up, or has run into an error:
\* its flag is set all the same, and nobody reverts the state.
RecorderStarted ==
  /\ epc = "starting"
  /\ \E up \in May("recorder") : recorder' = IF up THEN "recording" ELSE "errored"
  /\ stateFlags' = (stateFlags \ {"NeedToStartRecorder"})
                     \cup StartedFlags
  /\ epc' = "check"
  /\ UNCHANGED <<state, tuningRequests, lastTuningRequest, curRecording, live,
                 recordEnd, pending, ringBuffer, nextRecording, requestPause,
                 m_switchingBuffer, sched, front, faults>>

\* TuningRestartRecorder: the recorder goes on with a new file for Live TV.
TuningRestartRecorder ==
  /\ epc = "recorder" /\ recorder # NULL
  /\ LET dummy == "DummyRecorderRunning" \in stateFlags
     IN  \E file \in May("file") :
           /\ Faults(If((dummy \/ pseudoLiveTVRecording # NULL) /\ ~tvchain,
                        "no tvchain")
                     \cup If(pseudoLiveTVRecording # NULL /\ curRecording = NULL
                               /\ ~(tvchain /\ file), "no curRecording"))
           /\ IF tvchain /\ file
              THEN /\ NewLiveFile(LiveProgram)
                   /\ m_switchingBuffer' = (dummy /\ m_switchingBuffer)
                   /\ nextRecording' = IF dummy THEN nextRecording ELSE NULL
                   /\ UNCHANGED <<changeState, desiredNextState>>
              ELSE /\ Revert
                   /\ UNCHANGED <<curRecording, tuningRequests, lastTuningRequest,
                                  ringBuffer, m_switchingBuffer, nextRecording>>
           /\ stateFlags' = (stateFlags \ {"DummyRecorderRunning", "NeedToStartRecorder"})
                              \cup If(tvchain /\ file /\ ~dummy, "RingBufferReady")
  /\ requestPause' = FALSE
  /\ recorder' = IF recorder = "paused" THEN "recording" ELSE recorder
  /\ epc' = "check"
  /\ UNCHANGED <<internalState, live, recordEnd, pending, sched, front>>

\* CheckForRecGroupChange: the user may have marked the Live TV recording to be
\* kept, or have abandoned the one that is being kept.
RecGroup(keep) ==
  IF curRecording = NULL THEN pseudoLiveTVRecording
  ELSE IF ~keep THEN NULL
       ELSE IF pseudoLiveTVRecording = NULL THEN curRecording.program
            ELSE pseudoLiveTVRecording

\* A pending recording grows stale, or is canceled because Live TV is kept.
HandlePendingRecordings ==
  /\ epc = "check"
  /\ \/ UNCHANGED <<pending, pseudoLiveTVRecording>>
     \/ pending # "none" /\ pending' = "none" /\ UNCHANGED pseudoLiveTVRecording
     \/ /\ pending = "asked" /\ GetState = "WatchingLiveTV"
        /\ \E keep \in BOOLEAN : pseudoLiveTVRecording' = RecGroup(keep)
        /\ pending' \in {"asked"} \cup If(pseudoLiveTVRecording' # NULL, "canceled")
  /\ epc' = "end"
  /\ UNCHANGED <<state, tuning, curRecording, tvchain, recordEnd, ringBuffer, rec,
                 sched, front, faults>>

\* The loop sleeps only when there is nothing to do.
Sleep == epc' = IF tuningRequests' = <<>> /\ ~changeState' THEN "sleep" ELSE "loop"

Ended_finish == "FinishRecording" \in stateFlags
Ended == recordEnd \/ "FinishRecording" \in stateFlags

RecordingEnds ==
  /\ epc = "end" /\ GetState = "RecordingOnly" /\ Ended
  /\ ChangeState("None")
  /\ stateFlags' = stateFlags \ {"FinishRecording"}
  /\ UNCHANGED <<internalState, tuningRequests, lastTuningRequest, curRecording, live,
                 recordEnd, pending, ringBuffer, rec, sched, front, faults>>
  /\ Sleep

\* What Live TV was kept as is over: Live TV goes on.
KeptEnds ==
  /\ epc = "end" /\ GetState = "WatchingLiveTV"
  /\ pseudoLiveTVRecording # NULL /\ Ended
  /\ pseudoLiveTVRecording' = NULL
  /\ UNCHANGED <<state, tuning, curRecording, tvchain, recordEnd, pending,
                 ringBuffer, rec, sched, front, faults>>
  /\ Sleep

ProgramOver ==
  /\ GetState = "WatchingLiveTV" /\ pseudoLiveTVRecording = NULL
  /\ pending = "none" /\ curRecording # NULL

\* The end of a program of Live TV: SwitchLiveTVRingBuffer(false, true).
ProgramEnds ==
  /\ epc = "end" /\ ProgramOver /\ ~m_switchingBuffer
  /\ m_switchingBuffer' = TRUE
  /\ \E file \in May("file") :
       IF tvchain /\ file
       THEN /\ nextRecording' = IF recorder = NULL THEN NULL ELSE LiveProgram
            /\ stateFlags' = stateFlags \cup If(recorder # NULL, "RingBufferReady")
            /\ UNCHANGED <<changeState, desiredNextState>>
       ELSE Revert /\ UNCHANGED <<nextRecording, stateFlags>>
  /\ UNCHANGED <<internalState, tuningRequests, lastTuningRequest, curRecording, live,
                 recordEnd, pending, ringBuffer, recorder, requestPause, sched, front,
                 faults>>
  /\ Sleep

NothingEnds ==
  /\ epc = "end"
  /\ ~(GetState = "RecordingOnly" /\ Ended)
  /\ ~(GetState = "WatchingLiveTV" /\ pseudoLiveTVRecording # NULL /\ Ended)
  /\ UNCHANGED <<state, tuning, curRecording, live, recordEnd, pending, ringBuffer,
                 rec, sched, front, faults>>
  /\ Sleep

\* triggerEventLoop, or its timeout of a second.
Wake ==
  /\ epc = "sleep"
  /\ epc' = "loop"
  /\ UNCHANGED <<state, tuning, curRecording, live, recordEnd, pending, ringBuffer,
                 rec, sched, front, faults>>

\* The clock passes recordEndTime.
Expire ==
  /\ ~recordEnd
  /\ internalState = "RecordingOnly" \/ pseudoLiveTVRecording # NULL
  /\ recordEnd' = TRUE
  /\ UNCHANGED <<state, tuning, curRecording, live, pending, ringBuffer, rec, epc,
                 sched, front, faults>>

-----------------------------------------------------------------------------
(* The recorder's thread                                                   *)

RecorderPaused ==
  /\ recorder = "recording" /\ requestPause
  /\ recorder' = "paused"
  /\ UNCHANGED <<state, tuning, curRecording, live, recordEnd, pending, ringBuffer,
                 nextRecording, requestPause, m_switchingBuffer, epc, sched, front,
                 faults>>

\* Its device or its stream fails: its thread ends, and it is kept.
RecorderFails ==
  /\ recorder = "recording" /\ "recorder" \in Failures
  /\ recorder' = "errored"
  /\ UNCHANGED <<state, tuning, curRecording, live, recordEnd, pending, ringBuffer,
                 nextRecording, requestPause, m_switchingBuffer, epc, sched, front,
                 faults>>

\* At a key frame it goes over to the next file and calls RingBufferChanged,
CheckForRingBufferSwitch ==
  /\ recorder = "recording" /\ nextRecording # NULL
  /\ recorder' = "switching"
  /\ UNCHANGED <<state, tuning, curRecording, live, recordEnd, pending, ringBuffer,
                 nextRecording, requestPause, m_switchingBuffer, epc, sched, front,
                 faults>>

\* which sets ringBuffer with the lock
CallbackEnters_slept == Slept
CallbackEnters == LockFree
SetRingBuffer ==
  /\ recorder = "switching" /\ CallbackEnters
  /\ ringBuffer' = TRUE
  /\ stateFlags' = stateFlags \ If(ringBuffer, "DummyRecorderRunning")
  /\ recorder' = "changed"
  /\ UNCHANGED <<state, tuningRequests, lastTuningRequest, curRecording, live,
                 recordEnd, pending, nextRecording, requestPause, m_switchingBuffer,
                 epc, sched, front, faults>>

\* and curRecording without.
RingBufferChanged ==
  /\ recorder = "changed"
  /\ SetCurRecording(NewRecording(nextRecording), "deleted")
  /\ nextRecording' = NULL /\ m_switchingBuffer' = FALSE
  /\ recorder' = "recording"
  /\ UNCHANGED <<state, stateFlags, live, recordEnd, pending, ringBuffer,
                 requestPause, epc, sched, front, faults>>

-----------------------------------------------------------------------------
(* The scheduler's thread                                                  *)

\* Everything but the calls' own variables and the slot for the next state.
event == <<tuningRequests, lastTuningRequest, ringBuffer, rec, epc>>

RecordPending ==
  /\ spc = "idle" /\ LockFree
  /\ pending' = "asked"
  /\ UNCHANGED <<state, stateFlags, event, curRecording, live, recordEnd, sched,
                 front, faults>>

\* FinishRecording, at any time.
FinishRecording ==
  /\ LockFree
  /\ stateFlags' = stateFlags \cup {"FinishRecording"}
  /\ UNCHANGED <<state, event, curRecording, live, recordEnd, pending, sched, front,
                 faults>>

StartRecording(p) ==
  /\ spc = "idle" /\ LockFree
  /\ spc' = "flush" /\ rcinfo' = p /\ cancelNext' = FALSE /\ retval' = "none"
  /\ UNCHANGED <<state, stateFlags, event, curRecording, live, recordEnd, pending,
                 front, faults>>

Updating ==
  /\ internalState # "WatchingLiveTV"
  /\ curRecording # NULL /\ curRecording.program = rcinfo

\* The program is already being recorded: its end may have changed.
UpdateRecording ==
  /\ spc = "flush" /\ Slept /\ Updating
  /\ recordEnd' = FALSE
  /\ stateFlags' = stateFlags \ {"CancelNextRecording"}
  /\ spc' = "idle" /\ rcinfo' = NULL /\ retval' = "rsRecording"
  /\ UNCHANGED <<state, event, curRecording, live, pending, cancelNext, front, faults>>

CheckPending ==
  /\ spc = "flush" /\ Slept /\ ~Updating
  /\ cancelNext' = (pending = "canceled")
  /\ spc' = "decide"
  /\ UNCHANGED <<state, stateFlags, event, curRecording, live, recordEnd, pending,
                 rcinfo, retval, front, faults>>

\* A recording in its post-roll gives way: StopRecording, without the lock.
PostRoll ==
  /\ spc = "decide" /\ Slept
  /\ ~cancelNext /\ GetState = "RecordingOnly"
  /\ spc' = "stop"
  /\ UNCHANGED <<state, stateFlags, event, curRecording, live, recordEnd, pending,
                 rcinfo, cancelNext, retval, front, faults>>

Decide ==
  /\ \/ spc = "decide" /\ Slept /\ (cancelNext \/ GetState # "RecordingOnly")
     \/ spc = "stopped" /\ LockFree
  /\ \/ /\ ~cancelNext /\ GetState = "None"
        /\ tvchain' = FALSE /\ recordEnd' = FALSE
        /\ SetCurRecording(NewRecording(rcinfo), "lost")
        /\ stateFlags' = stateFlags \ {"CancelNextRecording"}
        /\ ChangeState("RecordingOnly")
        /\ retval' = "rsRecording"
        /\ UNCHANGED pseudoLiveTVRecording
     \/ /\ ~cancelNext /\ GetState = "WatchingLiveTV"
        /\ pseudoLiveTVRecording' = rcinfo /\ recordEnd' = FALSE
        /\ retval' = "rsRecording"
        /\ UNCHANGED <<stateFlags, tuningRequests, lastTuningRequest, curRecording,
                       tvchain, changeState, desiredNextState>>
     \/ /\ cancelNext \/ GetState \notin {"None", "WatchingLiveTV"}
        /\ retval' = IF cancelNext THEN "rsCancelled" ELSE "rsTunerBusy"
        /\ UNCHANGED <<stateFlags, tuningRequests, lastTuningRequest, curRecording,
                       live, recordEnd, changeState, desiredNextState>>
  /\ pending' = "none"
  /\ spc' = "await"
  /\ UNCHANGED <<internalState, ringBuffer, rec, epc, rcinfo, cancelNext, front, faults>>

StartReturns ==
  /\ spc = "await" /\ Slept
  /\ retval' = IF curRecording # NULL /\ curRecording.failed /\ retval = "rsRecording"
               THEN "rsFailed" ELSE retval
  /\ spc' = "idle" /\ rcinfo' = NULL
  /\ UNCHANGED <<state, stateFlags, event, curRecording, live, recordEnd, pending,
                 cancelNext, front, faults>>

-----------------------------------------------------------------------------
(* StopRecording, by the scheduler's thread and by a frontend's.           *)

\* The thread whose program counter was pc and becomes pc2.
Goes(from, to) ==
  \/ /\ spc = from
     /\ spc' = IF to = "idle" THEN "stopped" ELSE to
     /\ UNCHANGED <<rcinfo, cancelNext, retval, front>>
  \/ fpc = from /\ fpc' = to /\ UNCHANGED <<requestType, sched>>

\* Its test is made without the lock.
StopTest ==
  /\ Goes("stop", IF Recording(GetState) THEN "change" ELSE "idle")
  /\ UNCHANGED <<state, stateFlags, event, curRecording, live, recordEnd, pending, faults>>

StopChange ==
  /\ LockFree
  /\ Goes("change", "stopWait")
  /\ ChangeState(RemoveRecording(GetState))
  /\ UNCHANGED <<internalState, stateFlags, event, curRecording, live, recordEnd,
                 pending, faults>>

StopReturns ==
  /\ Slept
  /\ Goes("stopWait", "idle")
  /\ stateFlags' = stateFlags \ {"CancelNextRecording"}
  /\ UNCHANGED <<state, event, curRecording, live, recordEnd, pending, faults>>

-----------------------------------------------------------------------------
(* A frontend's thread                                                     *)

StopRecording ==
  /\ "StopRecording" \in use.calls /\ fpc = "idle"
  /\ fpc' = "stop"
  /\ UNCHANGED <<state, stateFlags, event, curRecording, live, recordEnd, pending,
                 sched, requestType, faults>>

\* Only a cancellation, which goes through RecordPending, takes the lock.
CancelNextRecording(cancel) ==
  /\ "Cancel" \in use.calls /\ fpc = "idle" /\ pending # "none"
  /\ cancel => LockFree
  /\ pending' = IF cancel THEN "canceled" ELSE "asked"
  /\ UNCHANGED <<state, stateFlags, event, curRecording, live, recordEnd, sched,
                 front, faults>>

SpawnLiveTV ==
  /\ "SpawnLiveTV" \in use.calls /\ fpc = "idle" /\ LockFree
  /\ tvchain' = TRUE
  /\ ChangeState("WatchingLiveTV")
  /\ fpc' = "spawnWait"
  /\ UNCHANGED <<internalState, stateFlags, event, curRecording,
                 pseudoLiveTVRecording, recordEnd, pending, sched, requestType, faults>>

SpawnReturns ==
  /\ fpc = "spawnWait" /\ Slept
  /\ stateFlags' = stateFlags \cup {"CancelNextRecording"}
  /\ fpc' = "idle"
  /\ UNCHANGED <<state, event, curRecording, live, recordEnd, pending, sched,
                 requestType, faults>>

StopLiveTV ==
  /\ "StopLiveTV" \in use.calls /\ fpc = "idle" /\ LockFree
  /\ internalState = "WatchingLiveTV"
  /\ \E keep \in BOOLEAN : pseudoLiveTVRecording' = RecGroup(keep)
  /\ recordEnd' = (recordEnd /\ pseudoLiveTVRecording' = NULL)
  /\ stateFlags' = stateFlags \ If(pseudoLiveTVRecording = NULL
                                    /\ pseudoLiveTVRecording' # NULL, "CancelNextRecording")
  /\ ChangeState(IF pseudoLiveTVRecording' = NULL THEN "None" ELSE "RecordingOnly")
  /\ fpc' = "stopLiveWait"
  /\ UNCHANGED <<internalState, event, curRecording, tvchain, pending, sched,
                 requestType, faults>>

StopLiveReturns ==
  /\ fpc = "stopLiveWait" /\ Slept
  /\ tvchain' = FALSE
  /\ fpc' = "idle"
  /\ UNCHANGED <<state, stateFlags, event, curRecording, pseudoLiveTVRecording,
                 recordEnd, pending, sched, requestType, faults>>

\* PauseRecorder and then SetChannel, which finds out the kind of request.
PauseRecorder ==
  /\ "SetChannel" \in use.calls /\ fpc = "idle" /\ LockFree
  /\ internalState = "WatchingLiveTV"
  /\ requestPause' = (recorder # NULL)
  /\ fpc' = "detect"
  /\ UNCHANGED <<state, tuning, curRecording, live, recordEnd, pending, ringBuffer,
                 recorder, nextRecording, m_switchingBuffer, epc, sched, requestType,
                 faults>>

SetChannel ==
  /\ fpc = "detect" /\ Slept /\ Len(tuningRequests) < MaxRequests
  /\ requestType' = lastTuningRequest.flags \cap (RecFlags \cup NoRecFlags)
  /\ stateFlags' = stateFlags \ {"RingBufferReady"}
  /\ tuningRequests' = Append(tuningRequests, Request(requestType', "null"))
  /\ fpc' = "channelWait"
  /\ UNCHANGED <<state, lastTuningRequest, curRecording, live, recordEnd, pending,
                 ringBuffer, rec, epc, sched, faults>>

SetChannelReturns ==
  /\ fpc = "channelWait" /\ Slept
  /\ requestType \cap RecFlags = {} \/ "RingBufferReady" \in stateFlags
  /\ fpc' = "idle" /\ requestType' = {}
  /\ UNCHANGED <<state, stateFlags, event, curRecording, live, recordEnd, pending,
                 sched, faults>>

-----------------------------------------------------------------------------

EventStep == UNCHANGED use /\ (
  \/ HandleStateChange \/ NoStateChange \/ TuningShutdowns \/ NoRequest
  \/ FinishedRecording \/ HandleTuning \/ RecPause
  \/ TuningSameMultiplex \/ TuningFails \/ TuningFrequency
  \/ TuningSignalCheck \/ TuningNewRecorder
  \/ RecorderStarted \/ TuningRestartRecorder \/ HandlePendingRecordings
  \/ RecordingEnds \/ KeptEnds \/ ProgramEnds \/ NothingEnds \/ Wake \/ StopRecorder )

RecorderStep == UNCHANGED use /\ (
  RecorderPaused \/ CheckForRingBufferSwitch \/ SetRingBuffer \/ RingBufferChanged )

Failing == UNCHANGED use /\ RecorderFails

StopStep == UNCHANGED use /\ (StopTest \/ StopChange \/ StopReturns)
SchedStep == UNCHANGED use /\ (
  UpdateRecording \/ CheckPending \/ PostRoll \/ Decide \/ StartReturns )
FrontStep == UNCHANGED use /\ (
  SpawnReturns \/ StopLiveReturns \/ SetChannel \/ SetChannelReturns )

Call == UNCHANGED use /\ (
  \/ RecordPending \/ FinishRecording \/ \E p \in use.programs : StartRecording(p)
  \/ StopRecording \/ \E cancel \in BOOLEAN : CancelNextRecording(cancel)
  \/ SpawnLiveTV \/ StopLiveTV \/ PauseRecorder )

Next == EventStep \/ RecorderStep \/ SchedStep \/ StopStep \/ FrontStep \/ Call
        \/ (Expire /\ UNCHANGED use) \/ Failing

Spec == Init /\ [][Next]_vars

\* Every thread runs; the callers' waits see the event thread asleep.
Fairness ==
  /\ WF_vars(EventStep) /\ SF_vars(RecorderStep)
  /\ SF_vars(SchedStep \/ (StopStep /\ spc' # spc))
  /\ SF_vars(FrontStep \/ (StopStep /\ fpc' # fpc))

FairSpec == Spec /\ Fairness

-----------------------------------------------------------------------------
(* Properties                                                              *)

States == {"None", "WatchingLiveTV", "RecordingOnly"}
Flags == {"CancelNextRecording", "FinishRecording", "DummyRecorderRunning",
          "RecorderRunning", "RingBufferReady", "SignalMonitorRunning"}
         \cup PendingActions
Requests == [flags : SUBSET (RecFlags \cup NoRecFlags \cup {"KillRingBuffer"}),
             program : {"null", "current", "lost", "deleted"},
             sameMultiplex : BOOLEAN]
AllPrograms == Programs \cup {LiveTV}
Recorders == {"starting", "recording", "paused", "switching", "changed", "errored"}
Recordings == [program : AllPrograms, failed : BOOLEAN]

ASSUME NullAssumption == NULL \notin Recorders \cup Recordings

TypeOK ==
  /\ internalState \in States /\ changeState \in BOOLEAN
  /\ desiredNextState \in States \cup {"Error"}
  /\ stateFlags \subseteq Flags
  /\ tuningRequests \in Seq(Requests) /\ lastTuningRequest \in Requests
  /\ curRecording \in {NULL} \cup Recordings
  /\ pseudoLiveTVRecording \in {NULL} \cup AllPrograms
  /\ recordEnd \in BOOLEAN /\ pending \in {"none", "asked", "canceled"}
  /\ tvchain \in BOOLEAN /\ ringBuffer \in BOOLEAN
  /\ recorder \in {NULL} \cup Recorders
  /\ nextRecording \in {NULL} \cup AllPrograms
  /\ requestPause \in BOOLEAN /\ m_switchingBuffer \in BOOLEAN
  /\ rcinfo \in {NULL} \cup Programs /\ cancelNext \in BOOLEAN
  /\ retval \in {"none", "rsRecording", "rsCancelled", "rsTunerBusy", "rsFailed"}
  /\ requestType \subseteq RecFlags \cup NoRecFlags
  /\ use \in Uses
  /\ faults \subseteq {"no curRecording", "no recorder", "no tvchain", "program deleted"}

-----------------------------------------------------------------------------
(* Safety                                                                  *)

\* The event thread sleeps and has nothing to do.
Idle == epc = "sleep" /\ tuningRequests = <<>> /\ ~changeState

\* The card has a recorder at work, or the event thread still has to start one.
Recorded == recorder \notin {NULL, "errored"} \/ PendingActions \cap stateFlags # {}

\* A card that rests in None (HandleStateChange sets internalState at once, and
\* tears the recorder down later, by a request) has no recorder, no file, and no
\* tuning left over that would start one.
IdleIsIdle ==
  Idle /\ internalState = "None" =>
    recorder = NULL /\ ~ringBuffer /\ PendingActions \cap stateFlags = {}

\* kFlagRecorderRunning, which TuningShutdowns goes by, tells whether there is a
\* recorder whenever somebody else can hold stateChangeLock.
FlagTells ==
  LockFree /\ epc # "starting" =>
    ("RecorderRunning" \in stateFlags <=> recorder # NULL)

\* A recorder that records has a file to write to.
RecorderHasFile == Idle /\ recorder # NULL => ringBuffer

\* A card does not rest in RecordingOnly or WatchingLiveTV without recording: when
\* tuning, the file or the setup of the recorder fails, the state is reverted.  (A
\* recorder that is set up and then fails stays: TuningNewRecorder does not ask
\* which of the two it has awaited (tv_rec.cpp:4088), and RunTV never looks.)
CardIsServed ==
  Idle /\ internalState # "None" => Recorded \/ recorder = "errored"

\* Live TV's recorder always has a curRecording, through channel changes, program
\* ends and switches of the file: RunTV and TeardownRecorder dereference it.
RecorderHasRecording == recorder # NULL => curRecording # NULL

\* No step of the event thread dereferences a NULL recorder (HandleTuning, when it
\* waits for a pause) or a NULL curRecording (TuningShutdowns, TeardownRecorder).
NoNullDereference == faults \cap {"no recorder", "no curRecording"} = {}

-----------------------------------------------------------------------------
(* Liveness                                                                *)

\* The calls that wait for the event thread's sleep return: StartRecording, and
\* StopRecording (even when the state it asks for is refused), SpawnLiveTV and
\* StopLiveTV.
CallsReturn ==
  /\ spc # "idle" ~> spc = "idle"
  /\ fpc \in {"stop", "change", "stopWait", "spawnWait", "stopLiveWait"} ~> fpc = "idle"

\* A recording whose time is over is ended, unless it is extended.
RecordingIsEnded ==
  internalState = "RecordingOnly" /\ recordEnd
    ~> internalState # "RecordingOnly" \/ ~recordEnd

\* TeardownRecorder joins the recorder's thread, also when it is in
\* RingBufferChanged and wants stateChangeLock.
TeardownEnds == epc = "stopping" ~> epc = "shut"

-----------------------------------------------------------------------------
(* What the comments of the code say and the code does not do              *)

\* "The dequeue isn't safe to do until now because we release the
\* stateChangeLock to teardown a recorder" (HandleTuning): no other thread
\* replaces the curRecording that TeardownRecorder is about to finish.
TeardownUndisturbed ==
  [][curRecording' # curRecording /\ epc \in {"stopping", "finishing"}
       => recorder = "changed" \/ (epc = "finishing" /\ curRecording' = NULL)]_vars

\* "+1 if the recording started successfully" (StartRecording): a StartRecording
\* that says a recording goes on extends one that does.
ExtendsWhatRecords == [][UpdateRecording => internalState = "RecordingOnly"]_vars

=============================================================================
