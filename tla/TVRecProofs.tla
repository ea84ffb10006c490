---------------------------- MODULE TVRecProofs ----------------------------
(***************************************************************************)
(* Proofs about TVRec: its type invariant holds; a card that rests in None *)
(* is idle, and one that does not is served; and Live TV or a scheduler,   *)
(* one at a time, never find a recorder without its curRecording.          *)
(***************************************************************************)
EXTENDS TVRec, TLAPS

-----------------------------------------------------------------------------
(* The inductive invariant of the card                                     *)

EventPcs == {"loop", "tune", "stopping", "finishing", "shut", "pause", "frequency",
             "signal", "recorder", "starting", "check", "end", "sleep"}
SchedPcs == {"idle", "flush", "decide", "stop", "change", "stopWait", "stopped", "await"}
FrontPcs == {"idle", "stop", "change", "stopWait", "spawnWait", "stopLiveWait", "detect",
             "channelWait"}

\* Where the threads are, and the program of a StartRecording under way.
PcsOK ==
  /\ epc \in EventPcs /\ spc \in SchedPcs /\ fpc \in FrontPcs
  /\ spc # "idle" => rcinfo \in use.programs

\* The recorder, and the flags that tell of it.
ComesUp == epc = "starting" <=> recorder = "starting"
Told == epc # "starting" => ("RecorderRunning" \in stateFlags <=> recorder # NULL)
Switches == recorder \in {"switching", "changed"} => nextRecording # NULL
HasFile == recorder # NULL => ringBuffer
MayStart ==
  epc = "frequency" \/ "NeedToStartRecorder" \in stateFlags =>
    recorder \in {NULL, "paused", "starting"}
Waits ==
  "WaitingForSignal" \in stateFlags =>
    "NeedToStartRecorder" \in stateFlags /\ epc \notin {"recorder", "starting"}
Starts == epc = "recorder" => "NeedToStartRecorder" \in stateFlags
Pauses ==
  "WaitingForRecPause" \in stateFlags => recorder # NULL \/ epc \in {"finishing", "shut"}
Dummy ==
  "DummyRecorderRunning" \in stateFlags =>
    curRecording # NULL /\ epc \notin {"stopping", "finishing"}

RecorderOK ==
  ComesUp /\ Told /\ Switches /\ HasFile /\ MayStart /\ Waits /\ Starts /\ Pauses /\ Dummy

\* What a request asks for: a recorder, its end, the end of its file.
Opens(r) == r.flags \cap RecFlags # {}
Closes(r) == r.flags \cap NoRecFlags # {}
Kills(r) == "KillRingBuffer" \in r.flags

RequestsOK ==
  /\ \A i \in DOMAIN tuningRequests :
       /\ Opens(tuningRequests[i]) => ~Closes(tuningRequests[i]) /\ ~Kills(tuningRequests[i])
       /\ Kills(tuningRequests[i]) => Closes(tuningRequests[i])
  /\ Opens(lastTuningRequest) => ~Closes(lastTuningRequest)

\* The request that the event thread works on stays in the queue until it is done with
\* the recorder that was there.
HeadOK ==
  /\ epc \in {"stopping", "finishing", "shut"} => tuningRequests # <<>>
  /\ epc \in {"stopping", "finishing"} => Kills(tuningRequests[1])
  /\ epc = "finishing" => recorder = NULL
  /\ epc = "shut" /\ Closes(tuningRequests[1]) => recorder = NULL

\* No recorder, no file, and no tuning that would start one.
Quiet ==
  /\ recorder = NULL /\ ~ringBuffer /\ PendingActions \cap stateFlags = {}
  /\ epc \notin {"frequency", "recorder", "starting"}

\* The card is quiet by the time that the event thread takes request i.
QuietBefore(i) ==
  \/ Quiet /\ \A j \in 1..(i - 1) : ~Opens(tuningRequests[j])
  \/ \E k \in 1..(i - 1) :
       Kills(tuningRequests[k]) /\ \A j \in (k + 1)..(i - 1) : ~Opens(tuningRequests[j])

\* In None the card is or becomes quiet, in another state the last request opens it, and a
\* request to close that leaves the file alone finds neither recorder nor file.
QueueOK ==
  /\ internalState = "None" => /\ QuietBefore(Len(tuningRequests) + 1)
                               /\ tuningRequests = <<>> => ~Opens(lastTuningRequest)
  /\ internalState # "None" =>
       IF tuningRequests = <<>> THEN Opens(lastTuningRequest)
       ELSE Opens(tuningRequests[Len(tuningRequests)])
  /\ \A i \in DOMAIN tuningRequests :
       Closes(tuningRequests[i]) /\ ~Kills(tuningRequests[i]) => QuietBefore(i)

CardInv == TypeOK /\ PcsOK /\ RecorderOK /\ RequestsOK /\ HeadOK /\ QueueOK

-----------------------------------------------------------------------------
(* The queue of tuning requests                                            *)

QueueTyped == tuningRequests \in Seq(Requests) /\ lastTuningRequest \in Requests

\* The requests ask for the same as before,
SameFlags ==
  /\ Len(tuningRequests') = Len(tuningRequests)
  /\ \A i \in 1..Len(tuningRequests) : tuningRequests'[i].flags = tuningRequests[i].flags
  /\ lastTuningRequest'.flags = lastTuningRequest.flags

\* there is one more,
Appended(fs) ==
  /\ Len(tuningRequests') = Len(tuningRequests) + 1
  /\ \A i \in 1..Len(tuningRequests) : tuningRequests'[i].flags = tuningRequests[i].flags
  /\ tuningRequests'[Len(tuningRequests) + 1].flags = fs
  /\ lastTuningRequest'.flags = lastTuningRequest.flags

\* or one less.
Dequeued ==
  /\ Len(tuningRequests') = Len(tuningRequests) - 1
  /\ \A i \in 1..(Len(tuningRequests) - 1) :
       tuningRequests'[i].flags = tuningRequests[i + 1].flags
  /\ lastTuningRequest'.flags = tuningRequests[1].flags

\* Sequences as functions.
LEMMA SeqFacts ==
  ASSUME NEW S, NEW s \in Seq(S)
  PROVE  /\ Len(s) \in Nat /\ DOMAIN s = 1..Len(s) /\ s \in [1..Len(s) -> S]
         /\ \A i \in 1..Len(s) : s[i] \in S
         /\ s = <<>> <=> Len(s) = 0
OBVIOUS

\* A function on 1..n is a sequence of length n.
LEMMA FunSeq ==
  ASSUME NEW S, NEW n \in Nat, NEW f \in [1..n -> S]
  PROVE  f \in Seq(S) /\ Len(f) = n
OBVIOUS

\* What a request points at does not matter for what it asks for.
LEMMA Moved ==
  ASSUME QueueTyped, NEW r, NEW was \in {"lost", "deleted"}, SetCurRecording(r, was)
  PROVE  curRecording' = r /\ QueueTyped' /\ SameFlags
<1> DEFINE moved(q) == IF q.program = "current" THEN [q EXCEPT !.program = was] ELSE q
<1>1. ASSUME NEW q \in Requests PROVE moved(q) \in Requests /\ moved(q).flags = q.flags
  BY <1>1 DEF Requests
<1>2. /\ curRecording' = r
      /\ lastTuningRequest' = moved(lastTuningRequest)
      /\ tuningRequests' = [i \in DOMAIN tuningRequests |-> moved(tuningRequests[i])]
  BY DEF SetCurRecording
<1> HIDE DEF moved
<1>3. /\ Len(tuningRequests) \in Nat /\ DOMAIN tuningRequests = 1..Len(tuningRequests)
      /\ \A i \in 1..Len(tuningRequests) : tuningRequests[i] \in Requests
  BY SeqFacts DEF QueueTyped
<1>4. tuningRequests' \in [1..Len(tuningRequests) -> Requests]
  BY <1>1, <1>2, <1>3
<1>5. tuningRequests' \in Seq(Requests) /\ Len(tuningRequests') = Len(tuningRequests)
  BY <1>3, <1>4, FunSeq
<1>6. lastTuningRequest' \in Requests /\ lastTuningRequest'.flags = lastTuningRequest.flags
  BY <1>1, <1>2 DEF QueueTyped
<1>7. \A i \in 1..Len(tuningRequests) : tuningRequests'[i].flags = tuningRequests[i].flags
  BY <1>1, <1>2, <1>3
<1> QED BY <1>2, <1>5, <1>6, <1>7 DEF QueueTyped, SameFlags

\* A request at the end of the queue.
LEMMA OneMore ==
  ASSUME QueueTyped, NEW r \in Requests,
         tuningRequests' = Append(tuningRequests, r), lastTuningRequest' = lastTuningRequest
  PROVE  QueueTyped' /\ Appended(r.flags)
<1>1. /\ Len(tuningRequests') = Len(tuningRequests) + 1
      /\ \A i \in 1..Len(tuningRequests) : tuningRequests'[i] = tuningRequests[i]
      /\ tuningRequests'[Len(tuningRequests) + 1] = r
      /\ tuningRequests' \in Seq(Requests)
  BY DEF QueueTyped
<1> QED BY <1>1 DEF QueueTyped, Appended

\* The queue after a request was dealt with.
LEMMA OneLess ==
  ASSUME QueueTyped, tuningRequests # <<>>,
         tuningRequests' = Tail(tuningRequests), lastTuningRequest' = Head(tuningRequests)
  PROVE  QueueTyped' /\ Dequeued
<1>1. /\ Len(tuningRequests) \in Nat /\ Len(tuningRequests) # 0
      /\ tuningRequests[1] \in Requests
  BY SeqFacts DEF QueueTyped
<1>2. Head(tuningRequests) = tuningRequests[1]
  BY DEF QueueTyped
<1>3. /\ tuningRequests' \in Seq(Requests)
      /\ Len(tuningRequests') = Len(tuningRequests) - 1
      /\ \A i \in 1..(Len(tuningRequests) - 1) : tuningRequests'[i] = tuningRequests[i + 1]
  BY <1>1 DEF QueueTyped
<1> QED BY <1>1, <1>2, <1>3 DEF QueueTyped, Dequeued


-----------------------------------------------------------------------------
(* Types                                                                   *)

StateTyped ==
  /\ internalState \in States /\ changeState \in BOOLEAN
  /\ desiredNextState \in States \cup {"Error"}
FlagsTyped == stateFlags \subseteq Flags
FileTyped ==
  /\ curRecording \in {NULL} \cup Recordings
  /\ pseudoLiveTVRecording \in {NULL} \cup AllPrograms
  /\ recordEnd \in BOOLEAN /\ pending \in {"none", "asked", "canceled"}
  /\ tvchain \in BOOLEAN /\ ringBuffer \in BOOLEAN
RecorderTyped ==
  /\ recorder \in {NULL} \cup Recorders /\ nextRecording \in {NULL} \cup AllPrograms
  /\ requestPause \in BOOLEAN /\ m_switchingBuffer \in BOOLEAN
CallsTyped ==
  /\ rcinfo \in {NULL} \cup Programs /\ cancelNext \in BOOLEAN
  /\ retval \in {"none", "rsRecording", "rsCancelled", "rsTunerBusy", "rsFailed"}
  /\ requestType \subseteq RecFlags \cup NoRecFlags
  /\ use \in Uses
FaultsTyped ==
  faults \subseteq {"no curRecording", "no recorder", "no tvchain", "program deleted"}

\* The parts of the type invariant.
LEMMA TypeParts ==
  TypeOK <=> /\ StateTyped /\ FlagsTyped /\ QueueTyped /\ FileTyped /\ RecorderTyped
             /\ CallsTyped /\ FaultsTyped
BY DEF TypeOK, StateTyped, FlagsTyped, QueueTyped, FileTyped, RecorderTyped, CallsTyped,
       FaultsTyped

\* A scheduled program is a program.
LEMMA UsePrograms ==
  ASSUME TypeOK, PcsOK
  PROVE  /\ use.programs \subseteq Programs /\ use.programs \subseteq AllPrograms
         /\ use.calls \subseteq Calls
         /\ spc # "idle" => rcinfo \in Programs /\ rcinfo \in AllPrograms
<1>1. use \in [programs : SUBSET Programs, calls : SUBSET Calls]
  BY TVRecAssumption DEF TypeOK
<1>2. use.programs \subseteq Programs /\ use.calls \subseteq Calls
  BY <1>1
<1> QED BY <1>2 DEF PcsOK, AllPrograms

\* A recording that begins is a recording, of its program.
LEMMA NewRecordings ==
  ASSUME NEW p \in AllPrograms
  PROVE  NewRecording(p) \in Recordings /\ NewRecording(p) # NULL
         /\ NewRecording(p).program = p
<1>1. NewRecording(p) \in Recordings /\ NewRecording(p).program = p
  BY DEF NewRecording, Recordings
<1> QED BY <1>1, NullAssumption

\* The program of Live TV is one.
LEMMA LivePrograms == TypeOK => LiveProgram \in AllPrograms
BY DEF TypeOK, LiveProgram, AllPrograms

\* The requests that the card makes are requests.
LEMMA RequestTyped ==
  ASSUME NEW fs \in SUBSET (RecFlags \cup NoRecFlags \cup {"KillRingBuffer"}),
         NEW ptr \in {"null", "current"}
  PROVE  Request(fs, ptr) \in Requests /\ Request(fs, ptr).flags = fs
BY DEF Request, Requests

\* So is the recording group of a file of Live TV.
LEMMA GroupTyped ==
  ASSUME TypeOK, NEW keep \in BOOLEAN
  PROVE  RecGroup(keep) \in {NULL} \cup AllPrograms
BY DEF RecGroup, TypeOK, Recordings

-----------------------------------------------------------------------------
(* What each step does to the queue                                        *)

\* A step that leaves the queue alone.
LEMMA Same ==
  ASSUME UNCHANGED <<tuningRequests, lastTuningRequest>>
  PROVE  SameFlags /\ (QueueTyped => QueueTyped')
BY DEF SameFlags, QueueTyped

\* A change to None asks for the end of the file, one to another state for a recorder.
ToNone ==
  /\ Allowed(internalState, desiredNextState) /\ desiredNextState = "None"
  /\ internalState \in {"WatchingLiveTV", "RecordingOnly"}
  /\ \E fs \in {CloseLiveTV, CloseRecording} : Appended(fs)
FromNone ==
  /\ Allowed(internalState, desiredNextState) /\ internalState = "None"
  /\ desiredNextState \in {"WatchingLiveTV", "RecordingOnly"}
  /\ Appended(IF desiredNextState = "RecordingOnly" THEN {"Recording"} ELSE {"LiveTV"})
Stays ==
  /\ SameFlags
  /\ Allowed(internalState, desiredNextState) =>
       internalState = "WatchingLiveTV" /\ desiredNextState = "RecordingOnly"

\* HandleStateChange queues the request that its transition needs.
LEMMA StateChangeQueue ==
  ASSUME TypeOK, HandleStateChange
  PROVE  QueueTyped' /\ (ToNone \/ FromNone \/ Stays)
<1> DEFINE tr == Transition(internalState, desiredNextState)
<1>1. QueueTyped /\ StateTyped
  BY TypeParts
<1>2. /\ tuningRequests' = tuningRequests \o tr
      /\ lastTuningRequest' = lastTuningRequest
  BY DEF HandleStateChange
<1>3. ASSUME NEW r \in Requests, tr = <<r>>
      PROVE  QueueTyped' /\ Appended(r.flags)
  <2>1. tuningRequests' = Append(tuningRequests, r)
    BY <1>1, <1>2, <1>3 DEF QueueTyped
  <2> QED BY <1>1, <1>2, <2>1, OneMore
<1>4. CASE internalState = "WatchingLiveTV" /\ desiredNextState = "None"
  <2>1. tr = <<Request(CloseLiveTV, "null")>>
    BY <1>4 DEF Transition
  <2>2. /\ Request(CloseLiveTV, "null") \in Requests
        /\ Request(CloseLiveTV, "null").flags = CloseLiveTV
    BY RequestTyped DEF CloseLiveTV, NoRecFlags
  <2>3. QueueTyped' /\ Appended(CloseLiveTV)
    BY <1>3, <2>1, <2>2
  <2>4. tr # <<>>
    BY <2>1
  <2> QED BY <1>4, <2>3, <2>4 DEF ToNone, Allowed
<1>5. CASE internalState = "RecordingOnly" /\ desiredNextState = "None"
  <2>1. tr = <<Request(CloseRecording, "null")>>
    BY <1>5 DEF Transition
  <2>2. /\ Request(CloseRecording, "null") \in Requests
        /\ Request(CloseRecording, "null").flags = CloseRecording
    BY RequestTyped DEF CloseRecording, NoRecFlags
  <2>3. QueueTyped' /\ Appended(CloseRecording)
    BY <1>3, <2>1, <2>2
  <2>4. tr # <<>>
    BY <2>1
  <2> QED BY <1>5, <2>3, <2>4 DEF ToNone, Allowed
<1>6. CASE internalState = "None" /\ desiredNextState = "WatchingLiveTV"
  <2>1. tr = <<Request({"LiveTV"}, "null")>>
    BY <1>6 DEF Transition
  <2>2. Request({"LiveTV"}, "null") \in Requests /\ Request({"LiveTV"}, "null").flags = {"LiveTV"}
    BY RequestTyped DEF RecFlags
  <2>3. QueueTyped' /\ Appended({"LiveTV"})
    BY <1>3, <2>1, <2>2
  <2>4. tr # <<>>
    BY <2>1
  <2> QED BY <1>6, <2>3, <2>4 DEF FromNone, Allowed
<1>7. CASE internalState = "None" /\ desiredNextState = "RecordingOnly"
  <2> DEFINE ptr == IF curRecording = NULL THEN "null" ELSE "current"
  <2>1. tr = <<Request({"Recording"}, ptr)>>
    BY <1>7 DEF Transition
  <2>2. /\ Request({"Recording"}, ptr) \in Requests
        /\ Request({"Recording"}, ptr).flags = {"Recording"}
    BY RequestTyped DEF RecFlags
  <2>3. QueueTyped' /\ Appended({"Recording"})
    BY <1>3, <2>1, <2>2
  <2>4. tr # <<>>
    BY <2>1
  <2> QED BY <1>7, <2>3, <2>4 DEF FromNone, Allowed
<1>8. CASE /\ ~(internalState = "WatchingLiveTV" /\ desiredNextState = "None")
           /\ ~(internalState = "RecordingOnly" /\ desiredNextState = "None")
           /\ ~(internalState = "None" /\ desiredNextState = "WatchingLiveTV")
           /\ ~(internalState = "None" /\ desiredNextState = "RecordingOnly")
  <2>1. tr = <<>>
    BY <1>8 DEF Transition
  <2>2. tuningRequests' = tuningRequests
    BY <1>1, <1>2, <2>1 DEF QueueTyped
  <2> QED BY <1>1, <1>2, <2>1, <2>2, Same DEF Stays, Allowed
<1> QED BY <1>4, <1>5, <1>6, <1>7, <1>8

\* Steps that leave the queue and the last request alone.
Unqueued ==
  \/ NoStateChange \/ NoRequest \/ RecPause \/ TuningSameMultiplex \/ TuningSignalCheck
  \/ RecorderStarted \/ HandlePendingRecordings \/ RecordingEnds \/ KeptEnds \/ ProgramEnds
  \/ NothingEnds \/ Wake \/ StopRecorder \/ RecorderPaused \/ CheckForRingBufferSwitch
  \/ SetRingBuffer \/ RecorderFails \/ StopTest \/ StopChange \/ StopReturns \/ UpdateRecording
  \/ CheckPending \/ PostRoll \/ StartReturns \/ SpawnReturns \/ StopLiveReturns
  \/ SetChannelReturns \/ RecordPending \/ FinishRecording
  \/ \E p \in use.programs : StartRecording(p)
  \/ StopRecording \/ \E cancel \in BOOLEAN : CancelNextRecording(cancel)
  \/ SpawnLiveTV \/ StopLiveTV \/ PauseRecorder \/ Expire

\* Most steps leave the queue alone.
LEMMA UnqueuedSame ==
  ASSUME TypeOK, Unqueued
  PROVE  QueueTyped' /\ SameFlags
<1>1. UNCHANGED <<tuningRequests, lastTuningRequest>>
  <2>1. CASE NoStateChange
    BY <2>1 DEF NoStateChange, tuning, event
  <2>2. CASE NoRequest
    BY <2>2 DEF NoRequest, tuning, event
  <2>3. CASE RecPause
    BY <2>3 DEF RecPause, tuning, event
  <2>4. CASE TuningSameMultiplex
    BY <2>4 DEF TuningSameMultiplex, tuning, event
  <2>5. CASE TuningSignalCheck
    BY <2>5 DEF TuningSignalCheck, tuning, event
  <2>6. CASE RecorderStarted
    BY <2>6 DEF RecorderStarted, tuning, event
  <2>7. CASE HandlePendingRecordings
    BY <2>7 DEF HandlePendingRecordings, tuning, event
  <2>8. CASE RecordingEnds
    BY <2>8 DEF RecordingEnds, tuning, event
  <2>9. CASE KeptEnds
    BY <2>9 DEF KeptEnds, tuning, event
  <2>10. CASE ProgramEnds
    BY <2>10 DEF ProgramEnds, tuning, event
  <2>11. CASE NothingEnds
    BY <2>11 DEF NothingEnds, tuning, event
  <2>12. CASE Wake
    BY <2>12 DEF Wake, tuning, event
  <2>13. CASE StopRecorder
    BY <2>13 DEF StopRecorder, tuning, event
  <2>14. CASE RecorderPaused
    BY <2>14 DEF RecorderPaused, tuning, event
  <2>fails. CASE RecorderFails
    BY <2>fails DEF RecorderFails, tuning, event
  <2>15. CASE CheckForRingBufferSwitch
    BY <2>15 DEF CheckForRingBufferSwitch, tuning, event
  <2>16. CASE SetRingBuffer
    BY <2>16 DEF SetRingBuffer, tuning, event
  <2>17. CASE StopTest
    BY <2>17 DEF StopTest, tuning, event
  <2>18. CASE StopChange
    BY <2>18 DEF StopChange, tuning, event
  <2>19. CASE StopReturns
    BY <2>19 DEF StopReturns, tuning, event
  <2>20. CASE UpdateRecording
    BY <2>20 DEF UpdateRecording, tuning, event
  <2>21. CASE CheckPending
    BY <2>21 DEF CheckPending, tuning, event
  <2>22. CASE PostRoll
    BY <2>22 DEF PostRoll, tuning, event
  <2>23. CASE StartReturns
    BY <2>23 DEF StartReturns, tuning, event
  <2>24. CASE SpawnReturns
    BY <2>24 DEF SpawnReturns, tuning, event
  <2>25. CASE StopLiveReturns
    BY <2>25 DEF StopLiveReturns, tuning, event
  <2>26. CASE SetChannelReturns
    BY <2>26 DEF SetChannelReturns, tuning, event
  <2>27. CASE RecordPending
    BY <2>27 DEF RecordPending, tuning, event
  <2>28. CASE FinishRecording
    BY <2>28 DEF FinishRecording, tuning, event
  <2>29. CASE StopRecording
    BY <2>29 DEF StopRecording, tuning, event
  <2>30. CASE SpawnLiveTV
    BY <2>30 DEF SpawnLiveTV, tuning, event
  <2>31. CASE StopLiveTV
    BY <2>31 DEF StopLiveTV, tuning, event
  <2>32. CASE PauseRecorder
    BY <2>32 DEF PauseRecorder, tuning, event
  <2>33. CASE Expire
    BY <2>33 DEF Expire, tuning, event
  <2>34. CASE \E p \in use.programs : StartRecording(p)
    BY <2>34 DEF StartRecording, event
  <2>35. CASE \E cancel \in BOOLEAN : CancelNextRecording(cancel)
    BY <2>35 DEF CancelNextRecording, event
  <2> QED BY <2>fails,
       <2>1, <2>2, <2>3, <2>4, <2>5, <2>6, <2>7, <2>8, <2>9, <2>10, <2>11, <2>12,
         <2>13, <2>14, <2>15, <2>16, <2>17, <2>18, <2>19, <2>20, <2>21, <2>22, <2>23,
         <2>24, <2>25, <2>26, <2>27, <2>28, <2>29, <2>30, <2>31, <2>32, <2>33, <2>34,
         <2>35 DEF Unqueued
<1> QED BY <1>1, Same, TypeParts

\* A shut-down notes in the request whether the multiplex is the same.
LEMMA ShutdownsSame ==
  ASSUME TypeOK, TuningShutdowns
  PROVE  QueueTyped' /\ SameFlags
<1>1. PICK same \in {FALSE} \cup {MayBeSame} :
        tuningRequests' = [tuningRequests EXCEPT ![1].sameMultiplex = same]
  BY DEF TuningShutdowns
<1>2. same \in BOOLEAN
  BY DEF MayBeSame
<1>3. /\ QueueTyped /\ lastTuningRequest' = lastTuningRequest /\ tuningRequests # <<>>
  BY TypeParts DEF TuningShutdowns
<1>4. /\ Len(tuningRequests) \in Nat /\ Len(tuningRequests) # 0
      /\ DOMAIN tuningRequests = 1..Len(tuningRequests)
      /\ \A i \in 1..Len(tuningRequests) : tuningRequests[i] \in Requests
      /\ tuningRequests \in [1..Len(tuningRequests) -> Requests]
  BY <1>3, SeqFacts DEF QueueTyped
<1> DEFINE head == [tuningRequests[1] EXCEPT !.sameMultiplex = same]
<1>5. head \in Requests /\ head.flags = tuningRequests[1].flags
  BY <1>2, <1>4 DEF Requests
<1>6. tuningRequests' = [tuningRequests EXCEPT ![1] = head]
  BY <1>1
<1> HIDE DEF head
<1>7. /\ tuningRequests' \in [1..Len(tuningRequests) -> Requests]
      /\ \A i \in 1..Len(tuningRequests) : tuningRequests'[i].flags = tuningRequests[i].flags
  BY <1>4, <1>5, <1>6
<1>8. tuningRequests' \in Seq(Requests) /\ Len(tuningRequests') = Len(tuningRequests)
  BY <1>4, <1>7, FunSeq
<1> QED BY <1>3, <1>7, <1>8 DEF QueueTyped, SameFlags

\* The end of a recording leaves no curRecording,
LEMMA FinishedSame ==
  ASSUME TypeOK, FinishedRecording
  PROVE  QueueTyped' /\ SameFlags /\ curRecording' = NULL
BY Moved, TypeParts DEF FinishedRecording

\* and a switch of the file that of the next file.
LEMMA ChangedSame ==
  ASSUME TypeOK, RingBufferChanged
  PROVE  QueueTyped' /\ SameFlags /\ curRecording' = NewRecording(nextRecording)
BY Moved, TypeParts DEF RingBufferChanged

\* StartRecording sets the program that it was called for, or nothing.
LEMMA DecideSame ==
  ASSUME TypeOK, Decide
  PROVE  /\ QueueTyped' /\ SameFlags
         /\ curRecording' # curRecording => curRecording' = NewRecording(rcinfo)
<1>1. CASE SetCurRecording(NewRecording(rcinfo), "lost")
  BY <1>1, Moved, TypeParts
<1>2. CASE UNCHANGED <<tuningRequests, lastTuningRequest, curRecording>>
  BY <1>2, Same, TypeParts
<1> QED BY <1>1, <1>2 DEF Decide

\* A new file for Live TV.
LEMMA NewFileSame ==
  ASSUME TypeOK, NEW p, ReplaceRecording(p)
  PROVE  QueueTyped' /\ SameFlags /\ curRecording' = NewRecording(p)
BY Moved, TypeParts DEF ReplaceRecording

\* A change of channels keeps curRecording, or gives Live TV a new file.
LEMMA FrequencySame ==
  ASSUME TypeOK, TuningFrequency
  PROVE  /\ QueueTyped' /\ SameFlags
         /\ curRecording' # curRecording => curRecording' = NewRecording(LiveTV)
<1>1. CASE NewLiveFile(LiveTV)
  BY <1>1, NewFileSame DEF NewLiveFile
<1>2. CASE UNCHANGED <<tuningRequests, lastTuningRequest, curRecording>>
  BY <1>2, Same, TypeParts
<1> QED BY <1>1, <1>2 DEF TuningFrequency

\* What a new recorder finds and leaves, given what fails.
Chained(liveFile) == tvchain /\ liveFile
Opening(liveFile) ==
  "Recording" \in lastTuningRequest.flags /\ (tvchain => Chained(liveFile))
Ring(liveFile, recFile) ==
  CASE tvchain /\ ~liveFile -> ringBuffer
    [] Opening(liveFile) -> recFile
    [] OTHER -> ringBuffer \/ Chained(liveFile)
Opened(liveFile, recFile) == Ring(liveFile, recFile) /\ (tvchain => Chained(liveFile))

NewRecorder(liveFile, recFile, setup) ==
  /\ ringBuffer' = Ring(liveFile, recFile)
  /\ IF Opened(liveFile, recFile) /\ ~setup
     THEN SetCurRecording(NULL, "deleted")
     ELSE IF Chained(liveFile)
          THEN ReplaceRecording(LiveProgram)
          ELSE UNCHANGED <<curRecording, tuningRequests, lastTuningRequest>>
  /\ IF Opened(liveFile, recFile) /\ setup
     THEN /\ recorder' = "starting" /\ epc' = "starting"
          /\ UNCHANGED <<changeState, desiredNextState>>
     ELSE epc' = "check" /\ Revert /\ UNCHANGED recorder

\* NewRecorder is TuningNewRecorder, with the choices of what fails as parameters.
LEMMA NewRecorderIs ==
  ASSUME TuningNewRecorder
  PROVE  \E liveFile \in BOOLEAN, recFile \in BOOLEAN, setup \in BOOLEAN :
           NewRecorder(liveFile, recFile, setup)
<1>1. /\ \A x \in May("file") : x \in BOOLEAN
      /\ \A x \in May("setup") : x \in BOOLEAN
  BY DEF May
<1>2. \E liveFile \in May("file"), recFile \in May("file"), setup \in May("setup") :
        NewRecorder(liveFile, recFile, setup)
  BY DEF TuningNewRecorder, NewRecorder, Chained, Opening, Ring, Opened
<1> QED BY <1>1, <1>2

\* A new recorder has curRecording as it was, a new file, or none when it fails.
LEMMA NewRecorderSame ==
  ASSUME TypeOK, TuningNewRecorder
  PROVE  QueueTyped' /\ SameFlags
         /\ curRecording' \in {NULL, curRecording, NewRecording(LiveProgram)}
<1>1. CASE ReplaceRecording(LiveProgram)
  BY <1>1, NewFileSame
<1>2. CASE UNCHANGED <<tuningRequests, lastTuningRequest, curRecording>>
  BY <1>2, Same, TypeParts
<1>3. CASE SetCurRecording(NULL, "deleted")
  BY <1>3, Moved, TypeParts
<1> QED BY <1>1, <1>2, <1>3 DEF TuningNewRecorder

\* A restart keeps curRecording, or gives Live TV a new file.
LEMMA RestartSame ==
  ASSUME TypeOK, TuningRestartRecorder
  PROVE  /\ QueueTyped' /\ SameFlags
         /\ curRecording' # curRecording => curRecording' = NewRecording(LiveProgram)
<1>1. CASE NewLiveFile(LiveProgram)
  BY <1>1, NewFileSame DEF NewLiveFile
<1>2. CASE UNCHANGED <<tuningRequests, lastTuningRequest, curRecording>>
  BY <1>2, Same, TypeParts
<1> QED BY <1>1, <1>2 DEF TuningRestartRecorder

\* A failure queues a request only in None, where it asks for the end.
LEMMA FailsQueue ==
  ASSUME TypeOK, TuningFails
  PROVE  /\ QueueTyped'
         /\ IF internalState = "None" THEN Appended({"KillRec"}) ELSE SameFlags
<1>1. CASE internalState = "None"
  <2>1. /\ Request({"KillRec"}, "null") \in Requests
        /\ Request({"KillRec"}, "null").flags = {"KillRec"}
    BY RequestTyped DEF NoRecFlags
  <2>2. /\ tuningRequests' = Append(tuningRequests, Request({"KillRec"}, "null"))
        /\ lastTuningRequest' = lastTuningRequest
    BY <1>1 DEF TuningFails
  <2> QED BY <1>1, <2>1, <2>2, OneMore, TypeParts
<1>2. CASE internalState # "None"
  BY <1>2, Same, TypeParts DEF TuningFails
<1> QED BY <1>1, <1>2

\* SetChannel queues what the last request asked for.
LEMMA SetChannelQueue ==
  ASSUME TypeOK, SetChannel
  PROVE  /\ QueueTyped' /\ tuningRequests = <<>>
         /\ Appended(lastTuningRequest.flags \cap (RecFlags \cup NoRecFlags))
<1> DEFINE fs == lastTuningRequest.flags \cap (RecFlags \cup NoRecFlags)
<1>1. Request(fs, "null") \in Requests /\ Request(fs, "null").flags = fs
  BY RequestTyped
<1>2. /\ tuningRequests' = Append(tuningRequests, Request(fs, "null"))
      /\ lastTuningRequest' = lastTuningRequest /\ tuningRequests = <<>>
  BY DEF SetChannel, Slept
<1> HIDE DEF fs
<1>3. QueueTyped' /\ Appended(fs)
  BY <1>1, <1>2, OneMore, TypeParts
<1> QED BY <1>2, <1>3 DEF fs

\* HandleTuning takes the first request off the queue when it is done with it.
LEMMA TuningQueue ==
  ASSUME TypeOK, HeadOK, HandleTuning
  PROVE  QueueTyped' /\ tuningRequests # <<>> /\ Dequeued /\ request = tuningRequests[1]
<1>1. tuningRequests # <<>> /\ QueueTyped
  BY TypeParts DEF HandleTuning, HeadOK
<1>2. tuningRequests' = Tail(tuningRequests) /\ lastTuningRequest' = Head(tuningRequests)
  BY DEF HandleTuning, request
<1>3. request = tuningRequests[1]
  BY <1>1 DEF request, QueueTyped
<1> QED BY <1>1, <1>2, <1>3, OneLess

\* Groups of variables that a step leaves alone together.
file == <<curRecording, pseudoLiveTVRecording, recordEnd, pending, tvchain, ringBuffer>>
calls == <<rcinfo, cancelNext, retval, requestType, use>>
pcs == <<epc, spc, fpc, rcinfo, use>>

\* The types of all variables but the queue, and PcsOK.
Typed ==
  /\ StateTyped /\ FlagsTyped /\ FileTyped /\ RecorderTyped /\ CallsTyped /\ FaultsTyped
  /\ PcsOK

\* Variables that a step leaves alone keep their types.
LEMMA Untouched ==
  ASSUME Typed
  PROVE  /\ UNCHANGED state => StateTyped'
         /\ UNCHANGED stateFlags => FlagsTyped'
         /\ UNCHANGED file => FileTyped'
         /\ UNCHANGED rec => RecorderTyped'
         /\ UNCHANGED calls => CallsTyped'
         /\ UNCHANGED faults => FaultsTyped'
         /\ UNCHANGED pcs => PcsOK'
<1>1. UNCHANGED state => StateTyped'
  BY DEF Typed, StateTyped, state
<1>2. UNCHANGED stateFlags => FlagsTyped'
  BY DEF Typed, FlagsTyped
<1>3. UNCHANGED file => FileTyped'
  BY DEF Typed, FileTyped, file
<1>4. UNCHANGED rec => RecorderTyped'
  BY DEF Typed, RecorderTyped, rec
<1>5. UNCHANGED calls => CallsTyped'
  BY DEF Typed, CallsTyped, calls
<1>6. UNCHANGED faults => FaultsTyped'
  BY DEF Typed, FaultsTyped
<1>7. UNCHANGED pcs => PcsOK'
  BY DEF Typed, PcsOK, pcs
<1> QED BY <1>1, <1>2, <1>3, <1>4, <1>5, <1>6, <1>7

\* Every variable keeps its type.
LEMMA TypeStep ==
  ASSUME TypeOK, PcsOK, RecorderOK, HeadOK, Next
  PROVE  TypeOK' /\ PcsOK'
<1>queue. QueueTyped'
  BY UnqueuedSame, ShutdownsSame, FinishedSame, ChangedSame, DecideSame, FrequencySame,
     NewRecorderSame, RestartSame, FailsQueue, SetChannelQueue, TuningQueue, StateChangeQueue
     DEF Next, EventStep, RecorderStep, StopStep, SchedStep, FrontStep, Call, Failing, Unqueued
<1>all. SUFFICES Typed'
  BY <1>queue, TypeParts, PTL DEF Typed
<1>typed. Typed
  BY TypeParts DEF Typed
<1>use. use' = use /\ use.programs \subseteq Programs
  BY UsePrograms DEF Next, EventStep, RecorderStep, StopStep, SchedStep, FrontStep, Call, Failing
<1>1. CASE HandleStateChange
  <2>1. UNCHANGED <<rec, calls, faults>>
    BY <1>1, <1>use DEF HandleStateChange, rec, sched, front, calls
  <2>2. StateTyped'
    <3>1. Allowed(internalState, desiredNextState) => desiredNextState \in States
      BY <1>1, StateChangeQueue DEF ToNone, FromNone, Stays, States
    <3>2. internalState' \in States /\ desiredNextState' \in States \cup {"Error"}
      BY <1>1, <1>typed, <3>1 DEF Typed, StateTyped, HandleStateChange
    <3>3. changeState' \in BOOLEAN
      BY <1>1 DEF HandleStateChange, Handled
    <3> QED BY <3>2, <3>3 DEF StateTyped
  <2>3. FlagsTyped'
    BY <1>1, <1>typed, <1>use DEF Typed, HandleStateChange, rec, sched, front, FlagsTyped,
       Flags, PendingActions
  <2>4. FileTyped'
    BY <1>1, <1>typed, <1>use DEF Typed, HandleStateChange, rec, sched, front, FileTyped
  <2>5. PcsOK'
    BY <1>1, <1>typed, <1>use DEF Typed, HandleStateChange, rec, sched, front, PcsOK,
       EventPcs, SchedPcs, FrontPcs
  <2> QED BY <1>typed, <2>1, <2>2, <2>3, <2>4, <2>5, Untouched DEF Typed
<1>2. CASE NoStateChange
  <2>1. UNCHANGED <<state, stateFlags, file, rec, calls, faults>>
    BY <1>2, <1>use DEF NoStateChange, state, tuning, live, rec, sched, front, file, calls
  <2>2. PcsOK'
    BY <1>2, <1>typed, <1>use DEF Typed, NoStateChange, state, tuning, live, rec, sched,
       front, PcsOK, EventPcs, SchedPcs, FrontPcs
  <2> QED BY <1>typed, <2>1, <2>2, Untouched DEF Typed
<1>3. CASE TuningShutdowns
  <2>1. UNCHANGED <<state, file, rec, calls>>
    BY <1>3, <1>use DEF TuningShutdowns, state, live, rec, sched, front, file, calls
  <2>2. FlagsTyped'
    BY <1>3, <1>typed, <1>use DEF Typed, TuningShutdowns, state, live, rec, sched, front,
       FlagsTyped, Flags, PendingActions, If
  <2>3. FaultsTyped'
    BY <1>3, <1>typed, <1>use DEF Typed, TuningShutdowns, state, live, rec, sched, front,
       FaultsTyped, Faults, If
  <2>4. PcsOK'
    BY <1>3, <1>typed, <1>use DEF Typed, TuningShutdowns, state, live, rec, sched, front,
       PcsOK, EventPcs, SchedPcs, FrontPcs
  <2> QED BY <1>typed, <2>1, <2>2, <2>3, <2>4, Untouched DEF Typed
<1>4. CASE NoRequest
  <2>1. UNCHANGED <<state, stateFlags, file, rec, calls, faults>>
    BY <1>4, <1>use DEF NoRequest, state, tuning, live, rec, sched, front, file, calls
  <2>2. PcsOK'
    BY <1>4, <1>typed, <1>use DEF Typed, NoRequest, state, tuning, live, rec, sched, front,
       PcsOK, EventPcs, SchedPcs, FrontPcs
  <2> QED BY <1>typed, <2>1, <2>2, Untouched DEF Typed
<1>5. CASE FinishedRecording
  <2>1. UNCHANGED <<state, stateFlags, rec, calls, faults>>
    BY <1>5, <1>use DEF FinishedRecording, state, live, rec, sched, front, calls
  <2>2. FileTyped'
    BY <1>5, <1>typed, <1>use DEF Typed, FinishedRecording, state, live, rec, sched, front,
       FileTyped, SetCurRecording
  <2>3. PcsOK'
    BY <1>5, <1>typed, <1>use DEF Typed, FinishedRecording, state, live, rec, sched, front,
       PcsOK, EventPcs, SchedPcs, FrontPcs
  <2> QED BY <1>typed, <2>1, <2>2, <2>3, Untouched DEF Typed
<1>6. CASE HandleTuning
  <2>1. UNCHANGED <<state, rec, calls, faults>>
    BY <1>6, <1>use DEF HandleTuning, state, live, rec, sched, front, calls
  <2>2. FlagsTyped'
    BY <1>6, <1>typed, <1>use DEF Typed, HandleTuning, state, live, rec, sched, front,
       FlagsTyped, Flags, PendingActions, If
  <2>3. FileTyped'
    BY <1>6, <1>typed, <1>use DEF Typed, HandleTuning, state, live, rec, sched, front, FileTyped
  <2>4. PcsOK'
    BY <1>6, <1>typed, <1>use DEF Typed, HandleTuning, state, live, rec, sched, front, PcsOK,
       EventPcs, SchedPcs, FrontPcs
  <2> QED BY <1>typed, <2>1, <2>2, <2>3, <2>4, Untouched DEF Typed
<1>7. CASE RecPause
  <2>1. UNCHANGED <<state, file, rec, calls>>
    BY <1>7, <1>use DEF RecPause, state, live, rec, sched, front, file, calls
  <2>2. FlagsTyped'
    BY <1>7, <1>typed, <1>use DEF Typed, RecPause, state, live, rec, sched, front,
       FlagsTyped, Flags, PendingActions, If
  <2>3. FaultsTyped'
    BY <1>7, <1>typed, <1>use DEF Typed, RecPause, state, live, rec, sched, front,
       FaultsTyped, Faults, If
  <2>4. PcsOK'
    BY <1>7, <1>typed, <1>use DEF Typed, RecPause, state, live, rec, sched, front, PcsOK,
       EventPcs, SchedPcs, FrontPcs
  <2> QED BY <1>typed, <2>1, <2>2, <2>3, <2>4, Untouched DEF Typed
<1>8. CASE TuningSameMultiplex
  <2>1. UNCHANGED <<state, file, rec, calls, faults>>
    BY <1>8, <1>use DEF TuningSameMultiplex, state, live, rec, sched, front, file, calls
  <2>2. FlagsTyped'
    BY <1>8, <1>typed, <1>use DEF Typed, TuningSameMultiplex, state, live, rec, sched, front,
       FlagsTyped, Flags, PendingActions
  <2>3. PcsOK'
    BY <1>8, <1>typed, <1>use DEF Typed, TuningSameMultiplex, state, live, rec, sched, front,
       PcsOK, EventPcs, SchedPcs, FrontPcs
  <2> QED BY <1>typed, <2>1, <2>2, <2>3, Untouched DEF Typed
<1>9. CASE TuningFails
  <2>1. UNCHANGED <<stateFlags, rec, calls, faults>>
    BY <1>9, <1>use DEF TuningFails, live, rec, sched, front, calls
  <2>2. StateTyped'
    BY <1>9, <1>typed, <1>use DEF Typed, TuningFails, live, rec, sched, front, StateTyped,
       States, Revert, ChangeState
  <2>3. FileTyped'
    <3>1. curRecording' \in {NULL} \cup Recordings
      BY <1>9, <1>typed DEF Typed, FileTyped, TuningFails, Recordings
    <3>2. UNCHANGED <<pseudoLiveTVRecording, recordEnd, pending, tvchain, ringBuffer>>
      BY <1>9 DEF TuningFails, live
    <3> QED BY <1>typed, <3>1, <3>2 DEF Typed, FileTyped
  <2>4. PcsOK'
    BY <1>9, <1>typed, <1>use DEF Typed, TuningFails, live, rec, sched, front, PcsOK,
       EventPcs, SchedPcs, FrontPcs
  <2> QED BY <1>typed, <2>1, <2>2, <2>3, <2>4, Untouched DEF Typed
<1>10. CASE TuningFrequency
  <2>1. UNCHANGED <<rec, calls>>
    BY <1>10, <1>use DEF TuningFrequency, live, rec, sched, front, calls
  <2>2. StateTyped'
    BY <1>10, <1>typed, <1>use DEF Typed, TuningFrequency, live, rec, sched, front,
       StateTyped, States, Revert, ChangeState
  <2>3. FlagsTyped'
    <3>1. PICK liveFile \in BOOLEAN, monitor \in BOOLEAN, dummy \in BOOLEAN :
             \/ stateFlags' = stateFlags \ (IF ringBuffer THEN {} ELSE PendingActions)
             \/ stateFlags' = (stateFlags \ {"WaitingForSignal"}) \cup
                  UNION {IF dummy THEN {"DummyRecorderRunning", "RingBufferReady"} ELSE {},
                         If(NeedSignal, "SignalMonitorRunning"),
                         If(NeedSignal /\ monitor, "WaitingForSignal"),
                         If(~NeedSignal \/ monitor, "NeedToStartRecorder")}
      BY <1>10, TVRecAssumption DEF TuningFrequency, May
    <3>2. stateFlags' \subseteq stateFlags \cup
            {"DummyRecorderRunning", "RingBufferReady", "SignalMonitorRunning",
             "WaitingForSignal", "NeedToStartRecorder"}
      BY <3>1 DEF If
    <3> QED BY <1>typed, <3>2 DEF Typed, FlagsTyped, Flags, PendingActions
  <2>4. FileTyped'
    <3>1. curRecording' \in {NULL} \cup Recordings
      <4>1. LiveTV \in AllPrograms
        BY DEF AllPrograms
      <4>2. NewRecording(LiveTV) \in Recordings
        BY <4>1, NewRecordings
      <4> QED BY <1>10, <1>typed, <4>2, FrequencySame DEF Typed, FileTyped
    <3>2. ringBuffer' = ringBuffer \/ ringBuffer' = TRUE
      BY <1>10 DEF TuningFrequency, NewLiveFile
    <3>3. UNCHANGED <<pseudoLiveTVRecording, recordEnd, pending, tvchain>>
      BY <1>10 DEF TuningFrequency, live
    <3> QED BY <1>typed, <3>1, <3>2, <3>3 DEF Typed, FileTyped
  <2>5. FaultsTyped'
    BY <1>10, <1>typed, <1>use DEF Typed, TuningFrequency, live, rec, sched, front,
       FaultsTyped, Faults, If
  <2>6. PcsOK'
    BY <1>10, <1>typed, <1>use DEF Typed, TuningFrequency, live, rec, sched, front, PcsOK,
       EventPcs, SchedPcs, FrontPcs
  <2> QED BY <1>typed, <2>1, <2>2, <2>3, <2>4, <2>5, <2>6, Untouched DEF Typed
<1>11. CASE TuningSignalCheck
  <2>1. UNCHANGED <<state, file, rec, calls, faults>>
    BY <1>11, <1>use DEF TuningSignalCheck, state, live, rec, sched, front, file, calls
  <2>2. FlagsTyped'
    BY <1>11, <1>typed, <1>use DEF Typed, TuningSignalCheck, state, live, rec, sched, front,
       FlagsTyped, Flags, PendingActions
  <2>3. PcsOK'
    BY <1>11, <1>typed, <1>use DEF Typed, TuningSignalCheck, state, live, rec, sched, front,
       PcsOK, EventPcs, SchedPcs, FrontPcs
  <2> QED BY <1>typed, <2>1, <2>2, <2>3, Untouched DEF Typed
<1>12. CASE TuningNewRecorder
  <2>1. UNCHANGED <<calls>>
    BY <1>12, <1>use DEF TuningNewRecorder, live, sched, front, calls
  <2>2. StateTyped'
    BY <1>12, <1>typed, <1>use DEF Typed, TuningNewRecorder, live, sched, front, StateTyped,
       States, Revert, Recording, ChangeState
  <2>3. FlagsTyped'
    BY <1>12, <1>typed, <1>use DEF Typed, TuningNewRecorder, live, sched, front, FlagsTyped,
       Flags, PendingActions, If
  <2>4. FileTyped'
    <3>1. curRecording' \in {NULL} \cup Recordings
      <4>1. NewRecording(LiveProgram) \in Recordings
        BY NewRecordings, LivePrograms
      <4> QED BY <1>12, <1>typed, <4>1, NewRecorderSame DEF Typed, FileTyped
    <3>2. ringBuffer' \in BOOLEAN
      <4>1. PICK liveFile \in BOOLEAN, recFile \in BOOLEAN, setup \in BOOLEAN :
              ringBuffer' = Ring(liveFile, recFile)
        BY <1>12, NewRecorderIs DEF NewRecorder
      <4>2. ringBuffer \in BOOLEAN /\ tvchain \in BOOLEAN
        BY <1>typed DEF Typed, FileTyped
      <4>3. CASE tvchain /\ ~liveFile
        BY <4>1, <4>2, <4>3 DEF Ring, Opening, Chained
      <4>4. CASE ~(tvchain /\ ~liveFile)
        BY <4>1, <4>2, <4>4 DEF Ring, Opening, Chained
      <4> QED BY <4>3, <4>4
    <3>3. UNCHANGED <<pseudoLiveTVRecording, recordEnd, pending, tvchain>>
      BY <1>12 DEF TuningNewRecorder, live
    <3> QED BY <1>typed, <3>1, <3>2, <3>3 DEF Typed, FileTyped
  <2>5. RecorderTyped'
    BY <1>12, <1>typed, <1>use DEF Typed, TuningNewRecorder, live, sched, front,
       RecorderTyped, Recorders, If
  <2>6. FaultsTyped'
    BY <1>12, <1>typed, <1>use DEF Typed, TuningNewRecorder, live, sched, front, FaultsTyped,
       Faults, If
  <2>7. PcsOK'
    BY <1>12, <1>typed, <1>use DEF Typed, TuningNewRecorder, live, sched, front, PcsOK,
       EventPcs, SchedPcs, FrontPcs
  <2> QED BY <1>typed, <2>1, <2>2, <2>3, <2>4, <2>5, <2>6, <2>7, Untouched DEF Typed
<1>13. CASE RecorderStarted
  <2>1. UNCHANGED <<state, file, calls, faults>>
    BY <1>13, <1>use DEF RecorderStarted, state, live, sched, front, file, calls
  <2>2. FlagsTyped'
    BY <1>13, <1>typed DEF Typed, FlagsTyped, RecorderStarted, StartedFlags, Flags
  <2>3. RecorderTyped'
    BY <1>13, <1>typed, <1>use DEF Typed, RecorderStarted, state, live, sched, front,
       RecorderTyped, Recorders
  <2>4. PcsOK'
    BY <1>13, <1>typed, <1>use DEF Typed, RecorderStarted, state, live, sched, front, PcsOK,
       EventPcs, SchedPcs, FrontPcs
  <2> QED BY <1>typed, <2>1, <2>2, <2>3, <2>4, Untouched DEF Typed
<1>14. CASE TuningRestartRecorder
  <2>1. UNCHANGED <<calls>>
    BY <1>14, <1>use DEF TuningRestartRecorder, live, sched, front, calls
  <2>2. StateTyped'
    BY <1>14, <1>typed, <1>use DEF Typed, TuningRestartRecorder, live, sched, front,
       StateTyped, States, Revert, ChangeState
  <2>3. FlagsTyped'
    BY <1>14, <1>typed, <1>use DEF Typed, TuningRestartRecorder, live, sched, front,
       FlagsTyped, Flags, PendingActions, If
  <2>4. FileTyped'
    <3>1. curRecording' \in {NULL} \cup Recordings
      <4>1. NewRecording(LiveProgram) \in Recordings
        BY NewRecordings, LivePrograms
      <4> QED BY <1>14, <1>typed, <4>1, RestartSame DEF Typed, FileTyped
    <3>2. ringBuffer' = ringBuffer \/ ringBuffer' = TRUE
      BY <1>14 DEF TuningRestartRecorder, NewLiveFile
    <3>3. UNCHANGED <<pseudoLiveTVRecording, recordEnd, pending, tvchain>>
      BY <1>14 DEF TuningRestartRecorder, live
    <3> QED BY <1>typed, <3>1, <3>2, <3>3 DEF Typed, FileTyped
  <2>5. RecorderTyped'
    BY <1>14, <1>typed, <1>use DEF Typed, TuningRestartRecorder, live, sched, front,
       RecorderTyped, Recorders, If
  <2>6. FaultsTyped'
    BY <1>14, <1>typed, <1>use DEF Typed, TuningRestartRecorder, live, sched, front,
       FaultsTyped, Faults, If
  <2>7. PcsOK'
    BY <1>14, <1>typed, <1>use DEF Typed, TuningRestartRecorder, live, sched, front, PcsOK,
       EventPcs, SchedPcs, FrontPcs
  <2> QED BY <1>typed, <2>1, <2>2, <2>3, <2>4, <2>5, <2>6, <2>7, Untouched DEF Typed
<1>15. CASE HandlePendingRecordings
  <2>1. UNCHANGED <<state, stateFlags, rec, calls, faults>>
    BY <1>15, <1>use DEF HandlePendingRecordings, state, tuning, rec, sched, front, calls
  <2>2. FileTyped'
    <3>1. /\ pseudoLiveTVRecording' \in {NULL} \cup AllPrograms
          /\ pending' \in {"none", "asked", "canceled"}
      <4>1. CASE UNCHANGED <<pending, pseudoLiveTVRecording>>
        BY <1>typed, <4>1 DEF Typed, FileTyped
      <4>2. CASE pending # "none" /\ pending' = "none" /\ UNCHANGED pseudoLiveTVRecording
        BY <1>typed, <4>2 DEF Typed, FileTyped
      <4>3. CASE /\ \E keep \in BOOLEAN : pseudoLiveTVRecording' = RecGroup(keep)
                 /\ pending' \in {"asked"} \cup If(pseudoLiveTVRecording' # NULL, "canceled")
        BY <4>3, GroupTyped DEF If
      <4> QED BY <1>15, <4>1, <4>2, <4>3 DEF HandlePendingRecordings
    <3>2. UNCHANGED <<curRecording, recordEnd, tvchain, ringBuffer>>
      BY <1>15 DEF HandlePendingRecordings
    <3> QED BY <1>typed, <3>1, <3>2 DEF Typed, FileTyped
  <2>3. PcsOK'
    BY <1>15, <1>typed, <1>use DEF Typed, HandlePendingRecordings, state, tuning, rec, sched,
       front, PcsOK, EventPcs, SchedPcs, FrontPcs
  <2> QED BY <1>typed, <2>1, <2>2, <2>3, Untouched DEF Typed
<1>16. CASE RecordingEnds
  <2>1. UNCHANGED <<file, rec, calls, faults>>
    BY <1>16, <1>use DEF RecordingEnds, live, rec, sched, front, file, calls
  <2>2. StateTyped'
    BY <1>16, <1>typed, <1>use DEF Typed, RecordingEnds, live, rec, sched, front, StateTyped,
       States, ChangeState
  <2>3. FlagsTyped'
    BY <1>16, <1>typed, <1>use DEF Typed, RecordingEnds, live, rec, sched, front, FlagsTyped,
       Flags, PendingActions
  <2>4. PcsOK'
    BY <1>16, <1>typed, <1>use DEF Typed, RecordingEnds, live, rec, sched, front, PcsOK,
       EventPcs, SchedPcs, FrontPcs, Sleep
  <2> QED BY <1>typed, <2>1, <2>2, <2>3, <2>4, Untouched DEF Typed
<1>17. CASE KeptEnds
  <2>1. UNCHANGED <<state, stateFlags, rec, calls, faults>>
    BY <1>17, <1>use DEF KeptEnds, state, tuning, rec, sched, front, calls
  <2>2. FileTyped'
    BY <1>17, <1>typed, <1>use DEF Typed, KeptEnds, state, tuning, rec, sched, front, FileTyped
  <2>3. PcsOK'
    BY <1>17, <1>typed, <1>use DEF Typed, KeptEnds, state, tuning, rec, sched, front, PcsOK,
       EventPcs, SchedPcs, FrontPcs, Sleep
  <2> QED BY <1>typed, <2>1, <2>2, <2>3, Untouched DEF Typed
<1>18. CASE ProgramEnds
  <2>1. UNCHANGED <<file, calls, faults>>
    BY <1>18, <1>use DEF ProgramEnds, live, sched, front, file, calls
  <2>2. StateTyped'
    BY <1>18, <1>typed, <1>use DEF Typed, ProgramEnds, live, sched, front, StateTyped,
       States, Revert, ChangeState
  <2>3. FlagsTyped'
    BY <1>18, <1>typed, <1>use DEF Typed, ProgramEnds, live, sched, front, FlagsTyped, Flags,
       PendingActions, If
  <2>4. RecorderTyped'
    <3>1. nextRecording' \in {NULL} \cup AllPrograms
      BY <1>18, <1>typed, LivePrograms DEF Typed, RecorderTyped, ProgramEnds
    <3>2. UNCHANGED <<recorder, requestPause>> /\ m_switchingBuffer' = TRUE
      BY <1>18 DEF ProgramEnds
    <3> QED BY <1>typed, <3>1, <3>2 DEF Typed, RecorderTyped
  <2>5. PcsOK'
    BY <1>18, <1>typed, <1>use DEF Typed, ProgramEnds, live, sched, front, PcsOK, EventPcs,
       SchedPcs, FrontPcs, Sleep
  <2> QED BY <1>typed, <2>1, <2>2, <2>3, <2>4, <2>5, Untouched DEF Typed
<1>19. CASE NothingEnds
  <2>1. UNCHANGED <<state, stateFlags, file, rec, calls, faults>>
    BY <1>19, <1>use DEF NothingEnds, state, tuning, live, rec, sched, front, file, calls
  <2>2. PcsOK'
    BY <1>19, <1>typed, <1>use DEF Typed, NothingEnds, state, tuning, live, rec, sched,
       front, PcsOK, EventPcs, SchedPcs, FrontPcs, Sleep
  <2> QED BY <1>typed, <2>1, <2>2, Untouched DEF Typed
<1>20. CASE Wake
  <2>1. UNCHANGED <<state, stateFlags, file, rec, calls, faults>>
    BY <1>20, <1>use DEF Wake, state, tuning, live, rec, sched, front, file, calls
  <2>2. PcsOK'
    BY <1>20, <1>typed, <1>use DEF Typed, Wake, state, tuning, live, rec, sched, front,
       PcsOK, EventPcs, SchedPcs, FrontPcs
  <2> QED BY <1>typed, <2>1, <2>2, Untouched DEF Typed
<1>21. CASE StopRecorder
  <2>1. UNCHANGED <<state, file, calls>>
    BY <1>21, <1>use DEF StopRecorder, state, live, sched, front, file, calls
  <2>2. FlagsTyped'
    BY <1>21, <1>typed, <1>use DEF Typed, StopRecorder, state, live, sched, front,
       FlagsTyped, Flags, PendingActions, If
  <2>3. RecorderTyped'
    BY <1>21, <1>typed, <1>use DEF Typed, StopRecorder, state, live, sched, front,
       RecorderTyped, Recorders, If
  <2>4. FaultsTyped'
    BY <1>21, <1>typed, <1>use DEF Typed, StopRecorder, state, live, sched, front,
       FaultsTyped, Faults, If
  <2>5. PcsOK'
    BY <1>21, <1>typed, <1>use DEF Typed, StopRecorder, state, live, sched, front, PcsOK,
       EventPcs, SchedPcs, FrontPcs
  <2> QED BY <1>typed, <2>1, <2>2, <2>3, <2>4, <2>5, Untouched DEF Typed
<1>22. CASE RecorderPaused
  <2>1. UNCHANGED <<state, stateFlags, file, calls, faults, pcs>>
    BY <1>22, <1>use DEF RecorderPaused, state, tuning, live, sched, front, file, calls, pcs
  <2>2. RecorderTyped'
    BY <1>22, <1>typed, <1>use DEF Typed, RecorderPaused, state, tuning, live, sched, front,
       RecorderTyped, Recorders
  <2> QED BY <1>typed, <2>1, <2>2, Untouched DEF Typed
<1>fails. CASE RecorderFails
  <2>1. UNCHANGED <<state, stateFlags, file, calls, faults, pcs>>
    BY <1>fails, <1>use DEF RecorderFails, state, tuning, live, sched, front, file, calls, pcs
  <2>2. RecorderTyped'
    BY <1>fails, <1>typed, <1>use DEF Typed, RecorderFails, state, tuning, live, sched, front,
       RecorderTyped, Recorders
  <2> QED BY <1>typed, <2>1, <2>2, Untouched DEF Typed
<1>23. CASE CheckForRingBufferSwitch
  <2>1. UNCHANGED <<state, stateFlags, file, calls, faults, pcs>>
    BY <1>23, <1>use DEF CheckForRingBufferSwitch, state, tuning, live, sched, front, file,
       calls, pcs
  <2>2. RecorderTyped'
    BY <1>23, <1>typed, <1>use DEF Typed, CheckForRingBufferSwitch, state, tuning, live,
       sched, front, RecorderTyped, Recorders
  <2> QED BY <1>typed, <2>1, <2>2, Untouched DEF Typed
<1>24. CASE SetRingBuffer
  <2>1. UNCHANGED <<state, calls, faults, pcs>>
    BY <1>24, <1>use DEF SetRingBuffer, state, live, sched, front, calls, pcs
  <2>2. FlagsTyped'
    BY <1>24, <1>typed, <1>use DEF Typed, SetRingBuffer, state, live, sched, front,
       FlagsTyped, Flags, PendingActions, If
  <2>3. FileTyped'
    BY <1>24, <1>typed, <1>use DEF Typed, SetRingBuffer, state, live, sched, front, FileTyped
  <2>4. RecorderTyped'
    BY <1>24, <1>typed, <1>use DEF Typed, SetRingBuffer, state, live, sched, front,
       RecorderTyped, Recorders, If
  <2> QED BY <1>typed, <2>1, <2>2, <2>3, <2>4, Untouched DEF Typed
<1>25. CASE RingBufferChanged
  <2>1. UNCHANGED <<state, stateFlags, calls, faults, pcs>>
    BY <1>25, <1>use DEF RingBufferChanged, state, live, sched, front, calls, pcs
  <2>2. FileTyped'
    <3>1. nextRecording \in AllPrograms
      BY <1>25, <1>typed DEF Typed, RecorderTyped, RecorderOK, Switches, RingBufferChanged
    <3>2. curRecording' \in Recordings
      BY <1>25, <3>1, ChangedSame, NewRecordings
    <3>3. UNCHANGED <<pseudoLiveTVRecording, recordEnd, pending, tvchain, ringBuffer>>
      BY <1>25 DEF RingBufferChanged, live
    <3> QED BY <1>typed, <3>2, <3>3 DEF Typed, FileTyped
  <2>3. RecorderTyped'
    BY <1>25, <1>typed, <1>use DEF Typed, RingBufferChanged, state, live, sched, front,
       RecorderTyped, Recorders
  <2> QED BY <1>typed, <2>1, <2>2, <2>3, Untouched DEF Typed
<1>26. CASE StopTest
  <2>1. UNCHANGED <<state, stateFlags, file, rec, calls, faults>>
    BY <1>26, <1>use DEF StopTest, state, live, event, rec, sched, front, file, calls, Goes
  <2>2. PcsOK'
    BY <1>26, <1>typed, <1>use DEF Typed, StopTest, state, live, event, rec, sched, front,
       PcsOK, EventPcs, SchedPcs, FrontPcs, Goes
  <2> QED BY <1>typed, <2>1, <2>2, Untouched DEF Typed
<1>27. CASE StopChange
  <2>1. UNCHANGED <<stateFlags, file, rec, calls, faults>>
    BY <1>27, <1>use DEF StopChange, live, event, rec, sched, front, file, calls, Goes
  <2>2. StateTyped'
    BY <1>27, <1>typed, <1>use DEF Typed, StopChange, live, event, rec, sched, front,
       StateTyped, States, ChangeState, RemoveRecording, GetState, Recording
  <2>3. PcsOK'
    BY <1>27, <1>typed, <1>use DEF Typed, StopChange, live, event, rec, sched, front, PcsOK,
       EventPcs, SchedPcs, FrontPcs, Goes
  <2> QED BY <1>typed, <2>1, <2>2, <2>3, Untouched DEF Typed
<1>28. CASE StopReturns
  <2>1. UNCHANGED <<state, file, rec, calls, faults>>
    BY <1>28, <1>use DEF StopReturns, state, live, event, rec, sched, front, file, calls, Goes
  <2>2. FlagsTyped'
    BY <1>28, <1>typed, <1>use DEF Typed, StopReturns, state, live, event, rec, sched, front,
       FlagsTyped, Flags, PendingActions
  <2>3. PcsOK'
    BY <1>28, <1>typed, <1>use DEF Typed, StopReturns, state, live, event, rec, sched, front,
       PcsOK, EventPcs, SchedPcs, FrontPcs, Goes
  <2> QED BY <1>typed, <2>1, <2>2, <2>3, Untouched DEF Typed
<1>29. CASE UpdateRecording
  <2>1. UNCHANGED <<state, rec, faults>>
    BY <1>29, <1>use DEF UpdateRecording, state, live, front, event, rec
  <2>2. FlagsTyped'
    BY <1>29, <1>typed, <1>use DEF Typed, UpdateRecording, state, live, front, event, rec,
       FlagsTyped, Flags, PendingActions
  <2>3. FileTyped'
    BY <1>29, <1>typed, <1>use DEF Typed, UpdateRecording, state, live, front, event, rec,
       FileTyped
  <2>4. CallsTyped'
    BY <1>29, <1>typed, <1>use DEF Typed, UpdateRecording, state, live, front, event, rec,
       CallsTyped
  <2>5. PcsOK'
    BY <1>29, <1>typed, <1>use DEF Typed, UpdateRecording, state, live, front, event, rec,
       PcsOK, EventPcs, SchedPcs, FrontPcs
  <2> QED BY <1>typed, <2>1, <2>2, <2>3, <2>4, <2>5, Untouched DEF Typed
<1>30. CASE CheckPending
  <2>1. UNCHANGED <<state, stateFlags, file, rec, faults>>
    BY <1>30, <1>use DEF CheckPending, state, live, front, event, rec, file
  <2>2. CallsTyped'
    BY <1>30, <1>typed, <1>use DEF Typed, CheckPending, state, live, front, event, rec,
       CallsTyped
  <2>3. PcsOK'
    BY <1>30, <1>typed, <1>use DEF Typed, CheckPending, state, live, front, event, rec,
       PcsOK, EventPcs, SchedPcs, FrontPcs
  <2> QED BY <1>typed, <2>1, <2>2, <2>3, Untouched DEF Typed
<1>31. CASE PostRoll
  <2>1. UNCHANGED <<state, stateFlags, file, rec, calls, faults>>
    BY <1>31, <1>use DEF PostRoll, state, live, front, event, rec, file, calls
  <2>2. PcsOK'
    BY <1>31, <1>typed, <1>use DEF Typed, PostRoll, state, live, front, event, rec, PcsOK,
       EventPcs, SchedPcs, FrontPcs
  <2> QED BY <1>typed, <2>1, <2>2, Untouched DEF Typed
<1>32. CASE Decide
  <2>1. UNCHANGED <<rec, faults>>
    BY <1>32, <1>use DEF Decide, live, rec, front
  <2>2. StateTyped'
    BY <1>32, <1>typed, <1>use DEF Typed, Decide, live, rec, front, StateTyped, States,
       ChangeState, GetState
  <2>3. FlagsTyped'
    BY <1>32, <1>typed, <1>use DEF Typed, Decide, live, rec, front, FlagsTyped, Flags,
       PendingActions
  <2>4. FileTyped'
    <3>1. rcinfo \in AllPrograms
      BY <1>32, UsePrograms DEF Decide
    <3>2. NewRecording(rcinfo) \in Recordings
      BY <3>1, NewRecordings
    <3>3. curRecording' \in {NULL} \cup Recordings
      BY <1>32, <1>typed, <3>2, DecideSame DEF Typed, FileTyped
    <3>4. /\ pseudoLiveTVRecording' \in {pseudoLiveTVRecording, rcinfo}
          /\ tvchain' = tvchain \/ tvchain' = FALSE
          /\ recordEnd' = recordEnd \/ recordEnd' = FALSE
          /\ pending' = "none" /\ ringBuffer' = ringBuffer
      BY <1>32 DEF Decide, live
    <3> QED BY <1>typed, <3>1, <3>3, <3>4 DEF Typed, FileTyped
  <2>5. CallsTyped'
    BY <1>32, <1>typed, <1>use DEF Typed, Decide, live, rec, front, CallsTyped
  <2>6. PcsOK'
    BY <1>32, <1>typed, <1>use DEF Typed, Decide, live, rec, front, PcsOK, EventPcs,
       SchedPcs, FrontPcs
  <2> QED BY <1>typed, <2>1, <2>2, <2>3, <2>4, <2>5, <2>6, Untouched DEF Typed
<1>33. CASE StartReturns
  <2>1. UNCHANGED <<state, stateFlags, file, rec, faults>>
    BY <1>33, <1>use DEF StartReturns, state, live, front, event, rec, file
  <2>2. CallsTyped'
    BY <1>33, <1>typed, <1>use DEF Typed, StartReturns, state, live, front, event, rec,
       CallsTyped
  <2>3. PcsOK'
    BY <1>33, <1>typed, <1>use DEF Typed, StartReturns, state, live, front, event, rec,
       PcsOK, EventPcs, SchedPcs, FrontPcs
  <2> QED BY <1>typed, <2>1, <2>2, <2>3, Untouched DEF Typed
<1>34. CASE SpawnReturns
  <2>1. UNCHANGED <<state, file, rec, calls, faults>>
    BY <1>34, <1>use DEF SpawnReturns, state, live, sched, event, rec, file, calls
  <2>2. FlagsTyped'
    BY <1>34, <1>typed, <1>use DEF Typed, SpawnReturns, state, live, sched, event, rec,
       FlagsTyped, Flags, PendingActions
  <2>3. PcsOK'
    BY <1>34, <1>typed, <1>use DEF Typed, SpawnReturns, state, live, sched, event, rec,
       PcsOK, EventPcs, SchedPcs, FrontPcs
  <2> QED BY <1>typed, <2>1, <2>2, <2>3, Untouched DEF Typed
<1>35. CASE StopLiveReturns
  <2>1. UNCHANGED <<state, stateFlags, rec, calls, faults>>
    BY <1>35, <1>use DEF StopLiveReturns, state, sched, event, rec, calls
  <2>2. FileTyped'
    BY <1>35, <1>typed, <1>use DEF Typed, StopLiveReturns, state, sched, event, rec, FileTyped
  <2>3. PcsOK'
    BY <1>35, <1>typed, <1>use DEF Typed, StopLiveReturns, state, sched, event, rec, PcsOK,
       EventPcs, SchedPcs, FrontPcs
  <2> QED BY <1>typed, <2>1, <2>2, <2>3, Untouched DEF Typed
<1>36. CASE SetChannel
  <2>1. UNCHANGED <<state, file, rec, faults>>
    BY <1>36, <1>use DEF SetChannel, state, live, rec, sched, file
  <2>2. FlagsTyped'
    BY <1>36, <1>typed, <1>use DEF Typed, SetChannel, state, live, rec, sched, FlagsTyped,
       Flags, PendingActions
  <2>3. CallsTyped'
    BY <1>36, <1>typed, <1>use DEF Typed, SetChannel, state, live, rec, sched, CallsTyped
  <2>4. PcsOK'
    BY <1>36, <1>typed, <1>use DEF Typed, SetChannel, state, live, rec, sched, PcsOK,
       EventPcs, SchedPcs, FrontPcs
  <2> QED BY <1>typed, <2>1, <2>2, <2>3, <2>4, Untouched DEF Typed
<1>37. CASE SetChannelReturns
  <2>1. UNCHANGED <<state, stateFlags, file, rec, faults>>
    BY <1>37, <1>use DEF SetChannelReturns, state, live, sched, event, rec, file
  <2>2. CallsTyped'
    BY <1>37, <1>typed, <1>use DEF Typed, SetChannelReturns, state, live, sched, event, rec,
       CallsTyped
  <2>3. PcsOK'
    BY <1>37, <1>typed, <1>use DEF Typed, SetChannelReturns, state, live, sched, event, rec,
       PcsOK, EventPcs, SchedPcs, FrontPcs
  <2> QED BY <1>typed, <2>1, <2>2, <2>3, Untouched DEF Typed
<1>38. CASE RecordPending
  <2>1. UNCHANGED <<state, stateFlags, rec, calls, faults, pcs>>
    BY <1>38, <1>use DEF RecordPending, state, live, sched, front, event, rec, calls, pcs
  <2>2. FileTyped'
    BY <1>38, <1>typed, <1>use DEF Typed, RecordPending, state, live, sched, front, event,
       rec, FileTyped
  <2> QED BY <1>typed, <2>1, <2>2, Untouched DEF Typed
<1>39. CASE FinishRecording
  <2>1. UNCHANGED <<state, file, rec, calls, faults, pcs>>
    BY <1>39, <1>use DEF FinishRecording, state, live, sched, front, event, rec, file, calls,
       pcs
  <2>2. FlagsTyped'
    BY <1>39, <1>typed, <1>use DEF Typed, FinishRecording, state, live, sched, front, event,
       rec, FlagsTyped, Flags, PendingActions
  <2> QED BY <1>typed, <2>1, <2>2, Untouched DEF Typed
<1>40. CASE StopRecording
  <2>1. UNCHANGED <<state, stateFlags, file, rec, calls, faults>>
    BY <1>40, <1>use DEF StopRecording, state, live, sched, event, rec, file, calls
  <2>2. PcsOK'
    BY <1>40, <1>typed, <1>use DEF Typed, StopRecording, state, live, sched, event, rec,
       PcsOK, EventPcs, SchedPcs, FrontPcs
  <2> QED BY <1>typed, <2>1, <2>2, Untouched DEF Typed
<1>41. CASE SpawnLiveTV
  <2>1. UNCHANGED <<stateFlags, rec, calls, faults>>
    BY <1>41, <1>use DEF SpawnLiveTV, sched, event, rec, calls
  <2>2. StateTyped'
    BY <1>41, <1>typed, <1>use DEF Typed, SpawnLiveTV, sched, event, rec, StateTyped, States,
       ChangeState
  <2>3. FileTyped'
    BY <1>41, <1>typed, <1>use DEF Typed, SpawnLiveTV, sched, event, rec, FileTyped
  <2>4. PcsOK'
    BY <1>41, <1>typed, <1>use DEF Typed, SpawnLiveTV, sched, event, rec, PcsOK, EventPcs,
       SchedPcs, FrontPcs
  <2> QED BY <1>typed, <2>1, <2>2, <2>3, <2>4, Untouched DEF Typed
<1>42. CASE StopLiveTV
  <2>1. UNCHANGED <<rec, calls, faults>>
    BY <1>42, <1>use DEF StopLiveTV, sched, event, rec, calls
  <2>5. FlagsTyped'
    BY <1>42, <1>typed DEF Typed, StopLiveTV, FlagsTyped
  <2>2. StateTyped'
    BY <1>42, <1>typed, <1>use DEF Typed, StopLiveTV, sched, event, rec, StateTyped, States,
       ChangeState
  <2>3. FileTyped'
    <3>1. pseudoLiveTVRecording' \in {NULL} \cup AllPrograms
      BY <1>42, GroupTyped DEF StopLiveTV
    <3>2. recordEnd' \in BOOLEAN
      BY <1>42 DEF StopLiveTV
    <3>3. UNCHANGED <<curRecording, pending, tvchain, ringBuffer>>
      BY <1>42 DEF StopLiveTV, event
    <3> QED BY <1>typed, <3>1, <3>2, <3>3 DEF Typed, FileTyped
  <2>4. PcsOK'
    BY <1>42, <1>typed, <1>use DEF Typed, StopLiveTV, sched, event, rec, PcsOK, EventPcs,
       SchedPcs, FrontPcs
  <2> QED BY <1>typed, <2>1, <2>2, <2>3, <2>4, <2>5, Untouched DEF Typed
<1>43. CASE PauseRecorder
  <2>1. UNCHANGED <<state, stateFlags, file, calls, faults>>
    BY <1>43, <1>use DEF PauseRecorder, state, tuning, live, sched, file, calls
  <2>2. RecorderTyped'
    BY <1>43, <1>typed, <1>use DEF Typed, PauseRecorder, state, tuning, live, sched,
       RecorderTyped, Recorders
  <2>3. PcsOK'
    BY <1>43, <1>typed, <1>use DEF Typed, PauseRecorder, state, tuning, live, sched, PcsOK,
       EventPcs, SchedPcs, FrontPcs
  <2> QED BY <1>typed, <2>1, <2>2, <2>3, Untouched DEF Typed
<1>44. CASE Expire
  <2>1. UNCHANGED <<state, stateFlags, rec, calls, faults, pcs>>
    BY <1>44, <1>use DEF Expire, state, tuning, live, rec, sched, front, calls, pcs
  <2>2. FileTyped'
    BY <1>44, <1>typed, <1>use DEF Typed, Expire, state, tuning, live, rec, sched, front,
       FileTyped
  <2> QED BY <1>typed, <2>1, <2>2, Untouched DEF Typed
<1>45. CASE \E p \in use.programs : StartRecording(p)
  <2>0. PICK p \in use.programs : StartRecording(p)
    BY <1>45
  <2>1. UNCHANGED <<state, stateFlags, file, rec, faults>>
    BY <2>0, <1>use DEF StartRecording, state, live, front, event, rec, file
  <2>2. CallsTyped'
    BY <2>0, <1>typed, <1>use DEF Typed, StartRecording, state, live, front, event, rec,
       CallsTyped
  <2>3. PcsOK'
    BY <2>0, <1>typed, <1>use DEF Typed, StartRecording, state, live, front, event, rec,
       PcsOK, EventPcs, SchedPcs, FrontPcs
  <2> QED BY <1>typed, <2>1, <2>2, <2>3, Untouched DEF Typed
<1>46. CASE \E cancel \in BOOLEAN : CancelNextRecording(cancel)
  <2>0. PICK cancel \in BOOLEAN : CancelNextRecording(cancel)
    BY <1>46
  <2>1. UNCHANGED <<state, stateFlags, rec, calls, faults, pcs>>
    BY <2>0, <1>use DEF CancelNextRecording, state, live, sched, front, event, rec, calls, pcs
  <2>2. FileTyped'
    BY <2>0, <1>typed, <1>use DEF Typed, CancelNextRecording, state, live, sched, front,
       event, rec, FileTyped
  <2> QED BY <1>typed, <2>1, <2>2, Untouched DEF Typed
<1> QED BY <1>fails,
       <1>1, <1>2, <1>3, <1>4, <1>5, <1>6, <1>7, <1>8, <1>9, <1>10, <1>11, <1>12, <1>13,
   <1>14, <1>15, <1>16, <1>17, <1>18, <1>19, <1>20, <1>21, <1>22, <1>23, <1>24, <1>25, <1>26,
      <1>27, <1>28, <1>29, <1>30, <1>31, <1>32, <1>33, <1>34, <1>35, <1>36, <1>37, <1>38,
         <1>39, <1>40, <1>41, <1>42, <1>43, <1>44, <1>45, <1>46 DEF Next, EventStep,
            RecorderStep, StopStep, SchedStep, FrontStep, Call, Failing

-----------------------------------------------------------------------------
(* The recorder and its flags                                              *)

\* No recorder is none of the recorders.
LEMMA NullRecorder ==
  /\ "starting" # NULL /\ "recording" # NULL /\ "paused" # NULL
  /\ "switching" # NULL /\ "changed" # NULL /\ "errored" # NULL
BY NullAssumption DEF Recorders

\* A step that leaves the recorder, its flags and its file alone.
LEMMA RecorderSame ==
  ASSUME RecorderOK, UNCHANGED <<epc, recorder, stateFlags, nextRecording, ringBuffer,
     curRecording>>
  PROVE  RecorderOK'
BY DEF RecorderOK, ComesUp, Told, Switches, HasFile, MayStart, Waits, Starts, Pauses, Dummy

\* The recorder and the flags agree after each step.
LEMMA RecorderOKStep ==
  ASSUME CardInv, Next
  PROVE  RecorderOK'
<1>inv. TypeOK /\ PcsOK /\ RecorderOK /\ HeadOK /\ RequestsOK
  BY DEF CardInv
<1>1. CASE StopTest
  BY <1>1, <1>inv, RecorderSame DEF StopTest, state, live, event, rec, sched, front, Goes
<1>2. CASE StopChange
  BY <1>2, <1>inv, RecorderSame DEF StopChange, live, event, rec, sched, front, Goes
<1>3. CASE CheckPending
  BY <1>3, <1>inv, RecorderSame DEF CheckPending, state, live, front, event, rec
<1>4. CASE PostRoll
  BY <1>4, <1>inv, RecorderSame DEF PostRoll, state, live, front, event, rec
<1>5. CASE StartReturns
  BY <1>5, <1>inv, RecorderSame DEF StartReturns, state, live, front, event, rec
<1>6. CASE StopLiveReturns
  BY <1>6, <1>inv, RecorderSame DEF StopLiveReturns, state, sched, event, rec
<1>7. CASE SetChannelReturns
  BY <1>7, <1>inv, RecorderSame DEF SetChannelReturns, state, live, sched, event, rec
<1>8. CASE RecordPending
  BY <1>8, <1>inv, RecorderSame DEF RecordPending, state, live, sched, front, event, rec
<1>9. CASE StopRecording
  BY <1>9, <1>inv, RecorderSame DEF StopRecording, state, live, sched, event, rec
<1>10. CASE SpawnLiveTV
  BY <1>10, <1>inv, RecorderSame DEF SpawnLiveTV, sched, event, rec
<1>11. CASE StopLiveTV
  <2>1. stateFlags' \subseteq stateFlags
        /\ (\A f \in stateFlags \ {"CancelNextRecording"} : f \in stateFlags')
    BY <1>11 DEF StopLiveTV, If
  <2>2. UNCHANGED <<epc, recorder, nextRecording, ringBuffer, curRecording>>
    BY <1>11 DEF StopLiveTV, event, rec
  <2> QED BY <1>inv, <2>1, <2>2 DEF RecorderOK, ComesUp, Told, Switches, HasFile, MayStart,
             Waits, Starts, Pauses, Dummy
<1>12. CASE PauseRecorder
  BY <1>12, <1>inv, RecorderSame DEF PauseRecorder, state, tuning, live, sched
<1>13. CASE Expire
  BY <1>13, <1>inv, RecorderSame DEF Expire, state, tuning, live, rec, sched, front
<1>14. CASE \E p \in use.programs : StartRecording(p)
  BY <1>14, <1>inv, RecorderSame DEF StartRecording, state, live, front, event, rec
<1>15. CASE \E cancel \in BOOLEAN : CancelNextRecording(cancel)
  BY <1>15, <1>inv, RecorderSame DEF CancelNextRecording, state, live, sched, front, event, rec
<1>16. CASE HandleStateChange
  BY <1>16, <1>inv, NullRecorder DEF HandleStateChange, rec, RecorderOK, ComesUp, Told,
     Switches, HasFile, MayStart, Waits, Starts, Pauses, Dummy, PendingActions
<1>17. CASE NoStateChange
  BY <1>17, <1>inv, NullRecorder DEF NoStateChange, tuning, live, rec, RecorderOK, ComesUp,
     Told, Switches, HasFile, MayStart, Waits, Starts, Pauses, Dummy, PendingActions
<1>18. CASE TuningShutdowns
  BY <1>18, <1>inv, NullRecorder DEF TuningShutdowns, live, rec, If, RecorderOK, ComesUp,
     Told, Switches, HasFile, MayStart, Waits, Starts, Pauses, Dummy, PendingActions
<1>19. CASE NoRequest
  BY <1>19, <1>inv, NullRecorder DEF NoRequest, tuning, live, rec, RecorderOK, ComesUp, Told,
     Switches, HasFile, MayStart, Waits, Starts, Pauses, Dummy, PendingActions
<1>20. CASE FinishedRecording
  BY <1>20, <1>inv, NullRecorder DEF FinishedRecording, live, rec, SetCurRecording,
     RecorderOK, ComesUp, Told, Switches, HasFile, MayStart, Waits, Starts, Pauses, Dummy,
        PendingActions
<1>21. CASE HandleTuning
  <2>1. ComesUp'
    BY <1>21, <1>inv, NullRecorder DEF RecorderOK, HandleTuning, live, rec, If,
       PendingActions, ComesUp
  <2>2. Told'
    BY <1>21, <1>inv, NullRecorder DEF RecorderOK, HandleTuning, live, rec, If,
       PendingActions, Told
  <2>3. HasFile'
    <3>1. request = tuningRequests[1] /\ tuningRequests # <<>> /\ UNCHANGED recorder
      BY <1>21, <1>inv, TuningQueue DEF HandleTuning, rec
    <3>2. 1 \in DOMAIN tuningRequests
      BY <1>inv, <3>1, SeqFacts, TypeParts DEF QueueTyped
    <3>3. "KillRingBuffer" \in request.flags => recorder = NULL
      BY <1>21, <1>inv, <3>1, <3>2 DEF HeadOK, RequestsOK, Kills, HandleTuning
    <3>4. recorder # NULL /\ ringBuffer => ringBuffer'
      BY <1>21, <3>3, ZenonT(30) DEF HandleTuning
    <3> QED BY <1>inv, <3>1, <3>4 DEF RecorderOK, HasFile
  <2>4. MayStart'
    BY <1>21, <1>inv, NullRecorder DEF RecorderOK, HandleTuning, live, rec, If,
       PendingActions, MayStart
  <2>5. Waits'
    BY <1>21, <1>inv, NullRecorder DEF RecorderOK, HandleTuning, live, rec, If,
       PendingActions, Waits
  <2>6. Starts'
    BY <1>21, <1>inv, NullRecorder DEF RecorderOK, HandleTuning, live, rec, If,
       PendingActions, Starts
  <2>7. Pauses'
    BY <1>21, <1>inv, NullRecorder DEF RecorderOK, HandleTuning, live, rec, If,
       PendingActions, Pauses
  <2>8. Dummy'
    BY <1>21, <1>inv, NullRecorder DEF RecorderOK, HandleTuning, live, rec, If,
       PendingActions, Dummy
  <2>9. Switches'
    BY <1>21, <1>inv DEF RecorderOK, Switches, HandleTuning, state, live, rec, sched, front
  <2> QED BY <2>1, <2>2, <2>3, <2>4, <2>5, <2>6, <2>7, <2>8, <2>9 DEF RecorderOK
<1>22. CASE RecPause
  BY <1>22, <1>inv, NullRecorder DEF RecPause, live, rec, If, RecorderOK, ComesUp, Told,
     Switches, HasFile, MayStart, Waits, Starts, Pauses, Dummy, PendingActions
<1>23. CASE TuningSameMultiplex
  BY <1>23, <1>inv, NullRecorder DEF TuningSameMultiplex, live, rec, RecorderOK, ComesUp,
     Told, Switches, HasFile, MayStart, Waits, Starts, Pauses, Dummy, PendingActions
<1>24. CASE TuningFails
  <2>1. ComesUp'
    BY <1>24, <1>inv, NullRecorder DEF RecorderOK, TuningFails, live, rec, PendingActions,
       ComesUp
  <2>2. Told'
    BY <1>24, <1>inv, NullRecorder DEF RecorderOK, TuningFails, live, rec, PendingActions, Told
  <2>3. MayStart'
    BY <1>24, <1>inv, NullRecorder DEF RecorderOK, TuningFails, live, rec, PendingActions,
       MayStart
  <2>4. Waits'
    BY <1>24, <1>inv, NullRecorder DEF RecorderOK, TuningFails, live, rec, PendingActions, Waits
  <2>5. Starts'
    BY <1>24, <1>inv, NullRecorder DEF RecorderOK, TuningFails, live, rec, PendingActions,
       Starts
  <2>6. Pauses'
    BY <1>24, <1>inv, NullRecorder DEF RecorderOK, TuningFails, live, rec, PendingActions,
       Pauses
  <2>7. Dummy'
    <3>1. curRecording # NULL => curRecording' # NULL
      BY <1>24, <1>inv, NullAssumption DEF TuningFails, TypeOK, Recordings
    <3>2. UNCHANGED stateFlags /\ epc' = "signal"
      BY <1>24 DEF TuningFails
    <3> QED BY <1>inv, <3>1, <3>2 DEF RecorderOK, Dummy
  <2>8. Switches' /\ HasFile'
    BY <1>24, <1>inv DEF RecorderOK, Switches, HasFile, TuningFails, live, rec, sched, front
  <2> QED BY <2>1, <2>2, <2>3, <2>4, <2>5, <2>6, <2>7, <2>8 DEF RecorderOK
<1>25. CASE TuningFrequency
  <2>0. PICK liveFile \in BOOLEAN, monitor \in BOOLEAN :
          \/ /\ stateFlags' = stateFlags \ (IF ringBuffer THEN {} ELSE PendingActions)
             /\ UNCHANGED <<curRecording, ringBuffer>>
          \/ /\ stateFlags' = (stateFlags \ {"WaitingForSignal"}) \cup
                  UNION {IF NeedSignal /\ "LiveTV" \in lastTuningRequest.flags
                         THEN {"DummyRecorderRunning", "RingBufferReady"} ELSE {},
                         If(NeedSignal, "SignalMonitorRunning"),
                         If(NeedSignal /\ monitor, "WaitingForSignal"),
                         If(~NeedSignal \/ monitor, "NeedToStartRecorder")}
             /\ IF NeedSignal /\ "LiveTV" \in lastTuningRequest.flags
                THEN NewLiveFile(LiveTV) ELSE UNCHANGED <<curRecording, ringBuffer>>
    BY <1>25 DEF TuningFrequency, May
  <2>same. epc = "frequency" /\ epc' = "signal" /\ UNCHANGED <<recorder, nextRecording>>
    BY <1>25 DEF TuningFrequency, rec
  <2>rec. curRecording' = curRecording \/ curRecording' # NULL
    BY <1>25, <1>inv, FrequencySame, NewRecordings DEF AllPrograms
  <2>1. \A f \in {"RecorderRunning", "WaitingForRecPause"} :
          f \in stateFlags' => f \in stateFlags
    BY <2>0 DEF If
  <2>2. "RecorderRunning" \in stateFlags' <=> "RecorderRunning" \in stateFlags
    BY <2>0 DEF If, PendingActions
  <2>3. \/ stateFlags' \subseteq stateFlags
           /\ ("NeedToStartRecorder" \in stateFlags /\ "NeedToStartRecorder" \notin stateFlags'
                 => "WaitingForSignal" \notin stateFlags')
        \/ "WaitingForSignal" \in stateFlags' => "NeedToStartRecorder" \in stateFlags'
    BY <2>0 DEF If, PendingActions
  <2>4. "DummyRecorderRunning" \in stateFlags' =>
          "DummyRecorderRunning" \in stateFlags \/ curRecording' = NewRecording(LiveTV)
    BY <2>0, NewFileSame, <1>inv DEF If, NewLiveFile
  <2>5. ringBuffer' = ringBuffer \/ ringBuffer' = TRUE
    BY <2>0 DEF NewLiveFile
  <2>6. ComesUp' /\ Told' /\ Switches' /\ HasFile'
    BY <1>inv, <2>same, <2>2, <2>5 DEF RecorderOK, ComesUp, Told, Switches, HasFile
  <2>7. MayStart' /\ Starts' /\ Pauses'
    BY <1>inv, <2>same, <2>1 DEF RecorderOK, MayStart, Starts, Pauses
  <2>8. Waits'
    BY <1>inv, <2>same, <2>3 DEF RecorderOK, Waits
  <2>9. NewRecording(LiveTV) # NULL
    BY NewRecordings DEF AllPrograms
  <2>10. Dummy'
    BY <1>inv, <2>same, <2>rec, <2>4, <2>9 DEF RecorderOK, Dummy
  <2> QED BY <2>6, <2>7, <2>8, <2>10 DEF RecorderOK
<1>26. CASE TuningSignalCheck
  BY <1>26, <1>inv, NullRecorder DEF TuningSignalCheck, live, rec, RecorderOK, ComesUp, Told,
     Switches, HasFile, MayStart, Waits, Starts, Pauses, Dummy, PendingActions
<1>27. CASE TuningNewRecorder
  BY <1>27, <1>inv, NullRecorder DEF TuningNewRecorder, live, SetCurRecording, If,
     RecorderOK, ComesUp, Told, Switches, HasFile, MayStart, Waits, Starts, Pauses, Dummy,
        PendingActions
<1>28. CASE RecorderStarted
  <2>1. ComesUp'
    BY <1>28, <1>inv, NullRecorder DEF RecorderOK, RecorderStarted, live, PendingActions,
       ComesUp, StartedFlags
  <2>2. Told'
    BY <1>28, <1>inv, NullRecorder DEF RecorderOK, RecorderStarted, live, PendingActions,
       Told, StartedFlags
  <2>3. Switches'
    BY <1>28, <1>inv, NullRecorder DEF RecorderOK, RecorderStarted, live, PendingActions,
       Switches, StartedFlags
  <2>4. HasFile'
    <3>1. recorder # NULL /\ UNCHANGED ringBuffer
      BY <1>28, <1>inv, NullRecorder DEF RecorderStarted, RecorderOK, ComesUp
    <3> QED BY <1>inv, <3>1 DEF RecorderOK, HasFile
  <2>5. MayStart'
    BY <1>28, <1>inv, NullRecorder DEF RecorderOK, RecorderStarted, live, PendingActions,
       MayStart, StartedFlags
  <2>6. Waits'
    BY <1>28, <1>inv, NullRecorder DEF RecorderOK, RecorderStarted, live, PendingActions,
       Waits, StartedFlags
  <2>7. Starts'
    BY <1>28, <1>inv, NullRecorder DEF RecorderOK, RecorderStarted, live, PendingActions,
       Starts, StartedFlags
  <2>8. Pauses'
    BY <1>28, <1>inv, NullRecorder DEF RecorderOK, RecorderStarted, live, PendingActions,
       Pauses, StartedFlags
  <2>9. Dummy'
    BY <1>28, <1>inv, NullRecorder DEF RecorderOK, RecorderStarted, live, PendingActions,
       Dummy, StartedFlags
  <2> QED BY <2>1, <2>2, <2>3, <2>4, <2>5, <2>6, <2>7, <2>8, <2>9 DEF RecorderOK
<1>29. CASE TuningRestartRecorder
  <2>1. ComesUp'
    BY <1>29, <1>inv, NullRecorder DEF RecorderOK, TuningRestartRecorder, live, If,
       PendingActions, ComesUp
  <2>2. Told'
    BY <1>29, <1>inv, NullRecorder DEF RecorderOK, TuningRestartRecorder, live, If,
       PendingActions, Told
  <2>3. Switches'
    <3>1. recorder \in {"paused", "starting"}
      BY <1>29, <1>inv DEF TuningRestartRecorder, RecorderOK, Starts, MayStart
    <3> QED BY <1>29, <3>1 DEF TuningRestartRecorder, Switches
  <2>4. HasFile'
    <3>1. recorder # NULL /\ (ringBuffer' = ringBuffer \/ ringBuffer' = TRUE)
      BY <1>29 DEF TuningRestartRecorder, NewLiveFile
    <3>2. ringBuffer
      BY <1>inv, <3>1 DEF RecorderOK, HasFile
    <3>3. CASE ringBuffer' = ringBuffer
      BY <3>2, <3>3 DEF HasFile
    <3>4. CASE ringBuffer' = TRUE
      BY <3>4 DEF HasFile
    <3> QED BY <3>1, <3>3, <3>4
  <2>5. MayStart'
    BY <1>29, <1>inv, NullRecorder DEF RecorderOK, TuningRestartRecorder, live, If,
       PendingActions, MayStart
  <2>6. Waits'
    BY <1>29, <1>inv, NullRecorder DEF RecorderOK, TuningRestartRecorder, live, If,
       PendingActions, Waits
  <2>7. Starts'
    BY <1>29, <1>inv, NullRecorder DEF RecorderOK, TuningRestartRecorder, live, If,
       PendingActions, Starts
  <2>8. Pauses'
    BY <1>29, <1>inv, NullRecorder DEF RecorderOK, TuningRestartRecorder, live, If,
       PendingActions, Pauses
  <2>9. Dummy'
    BY <1>29 DEF TuningRestartRecorder, Dummy, If
  <2> QED BY <2>1, <2>2, <2>3, <2>4, <2>5, <2>6, <2>7, <2>8, <2>9 DEF RecorderOK
<1>30. CASE HandlePendingRecordings
  BY <1>30, <1>inv, NullRecorder DEF HandlePendingRecordings, tuning, rec, If, RecorderOK,
     ComesUp, Told, Switches, HasFile, MayStart, Waits, Starts, Pauses, Dummy, PendingActions
<1>31. CASE RecordingEnds
  BY <1>31, <1>inv, NullRecorder DEF RecordingEnds, live, rec, Sleep, RecorderOK, ComesUp,
     Told, Switches, HasFile, MayStart, Waits, Starts, Pauses, Dummy, PendingActions
<1>32. CASE KeptEnds
  BY <1>32, <1>inv, NullRecorder DEF KeptEnds, tuning, rec, Sleep, RecorderOK, ComesUp, Told,
     Switches, HasFile, MayStart, Waits, Starts, Pauses, Dummy, PendingActions
<1>33. CASE ProgramEnds
  <2>1. ComesUp'
    BY <1>33, <1>inv, NullRecorder DEF RecorderOK, ProgramEnds, live, Sleep, If,
       PendingActions, ComesUp
  <2>2. Told'
    BY <1>33, <1>inv, NullRecorder DEF RecorderOK, ProgramEnds, live, Sleep, If,
       PendingActions, Told
  <2>3. Switches'
    <3>1. LiveProgram # NULL /\ UNCHANGED recorder
      BY <1>33, <1>inv, LivePrograms, TVRecAssumption DEF ProgramEnds, LiveProgram
    <3> QED BY <1>33, <1>inv, <3>1, NullRecorder DEF RecorderOK, ProgramEnds, Switches
  <2>4. MayStart'
    BY <1>33, <1>inv, NullRecorder DEF RecorderOK, ProgramEnds, live, Sleep, If,
       PendingActions, MayStart
  <2>5. Waits'
    BY <1>33, <1>inv, NullRecorder DEF RecorderOK, ProgramEnds, live, Sleep, If,
       PendingActions, Waits
  <2>6. Starts'
    BY <1>33, <1>inv, NullRecorder DEF RecorderOK, ProgramEnds, live, Sleep, If,
       PendingActions, Starts
  <2>7. Pauses'
    BY <1>33, <1>inv, NullRecorder DEF RecorderOK, ProgramEnds, live, Sleep, If,
       PendingActions, Pauses
  <2>8. Dummy'
    BY <1>33, <1>inv, NullRecorder DEF RecorderOK, ProgramEnds, live, Sleep, If,
       PendingActions, Dummy
  <2>9. HasFile'
    BY <1>33, <1>inv DEF RecorderOK, HasFile, ProgramEnds, live, sched, front
  <2> QED BY <2>1, <2>2, <2>3, <2>4, <2>5, <2>6, <2>7, <2>8, <2>9 DEF RecorderOK
<1>34. CASE NothingEnds
  BY <1>34, <1>inv, NullRecorder DEF NothingEnds, tuning, live, rec, Sleep, RecorderOK,
     ComesUp, Told, Switches, HasFile, MayStart, Waits, Starts, Pauses, Dummy, PendingActions
<1>35. CASE Wake
  BY <1>35, <1>inv, NullRecorder DEF Wake, tuning, live, rec, RecorderOK, ComesUp, Told,
     Switches, HasFile, MayStart, Waits, Starts, Pauses, Dummy, PendingActions
<1>36. CASE StopRecorder
  BY <1>36, <1>inv, NullRecorder DEF StopRecorder, live, If, RecorderOK, ComesUp, Told,
     Switches, HasFile, MayStart, Waits, Starts, Pauses, Dummy, PendingActions
<1>37. CASE RecorderPaused
  BY <1>37, <1>inv, NullRecorder DEF RecorderPaused, tuning, live, RecorderOK, ComesUp, Told,
     Switches, HasFile, MayStart, Waits, Starts, Pauses, Dummy, PendingActions
<1>fails. CASE RecorderFails
  BY <1>fails, <1>inv, NullRecorder DEF RecorderFails, tuning, live, RecorderOK, ComesUp, Told,
     Switches, HasFile, MayStart, Waits, Starts, Pauses, Dummy, PendingActions
<1>38. CASE CheckForRingBufferSwitch
  BY <1>38, <1>inv, NullRecorder DEF CheckForRingBufferSwitch, tuning, live, RecorderOK,
     ComesUp, Told, Switches, HasFile, MayStart, Waits, Starts, Pauses, Dummy, PendingActions
<1>39. CASE SetRingBuffer
  BY <1>39, <1>inv, NullRecorder DEF SetRingBuffer, live, If, RecorderOK, ComesUp, Told,
     Switches, HasFile, MayStart, Waits, Starts, Pauses, Dummy, PendingActions
<1>40. CASE RingBufferChanged
  <2>1. ComesUp'
    BY <1>40, <1>inv, NullRecorder DEF RecorderOK, RingBufferChanged, live, PendingActions,
       ComesUp
  <2>2. Told'
    BY <1>40, <1>inv, NullRecorder DEF RecorderOK, RingBufferChanged, live, PendingActions, Told
  <2>3. Switches'
    BY <1>40, <1>inv, NullRecorder DEF RecorderOK, RingBufferChanged, live, PendingActions,
       Switches
  <2>4. HasFile'
    BY <1>40, <1>inv, NullRecorder DEF RecorderOK, RingBufferChanged, live, PendingActions,
       HasFile
  <2>5. MayStart'
    BY <1>40, <1>inv, NullRecorder DEF RecorderOK, RingBufferChanged, live, PendingActions,
       MayStart
  <2>6. Pauses'
    BY <1>40, <1>inv, NullRecorder DEF RecorderOK, RingBufferChanged, live, PendingActions,
       Pauses
  <2>7. Dummy'
    <3>1. nextRecording \in AllPrograms
      BY <1>40, <1>inv DEF TypeOK, RecorderOK, Switches, RingBufferChanged
    <3>2. curRecording' # NULL
      BY <1>40, <1>inv, <3>1, ChangedSame, NewRecordings
    <3>3. UNCHANGED <<stateFlags, epc>>
      BY <1>40 DEF RingBufferChanged
    <3> QED BY <1>inv, <3>2, <3>3 DEF RecorderOK, Dummy
  <2>8. Waits' /\ Starts'
    BY <1>40, <1>inv DEF RecorderOK, Waits, Starts, RingBufferChanged, state, live, sched, front
  <2> QED BY <2>1, <2>2, <2>3, <2>4, <2>5, <2>6, <2>7, <2>8 DEF RecorderOK
<1>41. CASE StopReturns
  BY <1>41, <1>inv, NullRecorder DEF StopReturns, live, event, rec, Goes, RecorderOK,
     ComesUp, Told, Switches, HasFile, MayStart, Waits, Starts, Pauses, Dummy, PendingActions
<1>42. CASE UpdateRecording
  BY <1>42, <1>inv, NullRecorder DEF UpdateRecording, live, event, rec, RecorderOK, ComesUp,
     Told, Switches, HasFile, MayStart, Waits, Starts, Pauses, Dummy, PendingActions
<1>43. CASE Decide
  <2>1. Told'
    BY <1>43, <1>inv, NullRecorder DEF RecorderOK, Decide, live, rec, PendingActions, Told
  <2>2. MayStart'
    BY <1>43, <1>inv, NullRecorder DEF RecorderOK, Decide, live, rec, PendingActions, MayStart
  <2>3. Waits'
    BY <1>43, <1>inv, NullRecorder DEF RecorderOK, Decide, live, rec, PendingActions, Waits
  <2>4. Starts'
    BY <1>43, <1>inv, NullRecorder DEF RecorderOK, Decide, live, rec, PendingActions, Starts
  <2>5. Pauses'
    BY <1>43, <1>inv, NullRecorder DEF RecorderOK, Decide, live, rec, PendingActions, Pauses
  <2>6. Dummy'
    <3>1. NewRecording(rcinfo) # NULL
      BY <1>43, <1>inv, UsePrograms, NewRecordings DEF Decide
    <3>2. curRecording' = curRecording \/ curRecording' # NULL
      BY <1>43, <1>inv, <3>1, DecideSame
    <3>3. UNCHANGED epc /\ stateFlags' \subseteq stateFlags
      BY <1>43 DEF Decide
    <3> QED BY <1>inv, <3>2, <3>3 DEF RecorderOK, Dummy
  <2>7. ComesUp' /\ Switches' /\ HasFile'
    BY <1>43, <1>inv DEF RecorderOK, ComesUp, Switches, HasFile, Decide, live, rec, front
  <2> QED BY <2>1, <2>2, <2>3, <2>4, <2>5, <2>6, <2>7 DEF RecorderOK
<1>44. CASE SpawnReturns
  BY <1>44, <1>inv, NullRecorder DEF SpawnReturns, live, event, rec, RecorderOK, ComesUp,
     Told, Switches, HasFile, MayStart, Waits, Starts, Pauses, Dummy, PendingActions
<1>45. CASE SetChannel
  BY <1>45, <1>inv, NullRecorder DEF SetChannel, live, rec, RecorderOK, ComesUp, Told,
     Switches, HasFile, MayStart, Waits, Starts, Pauses, Dummy, PendingActions
<1>46. CASE FinishRecording
  BY <1>46, <1>inv, NullRecorder DEF FinishRecording, live, event, rec, RecorderOK, ComesUp,
     Told, Switches, HasFile, MayStart, Waits, Starts, Pauses, Dummy, PendingActions
<1> QED BY <1>fails,
       <1>1, <1>2, <1>3, <1>4, <1>5, <1>6, <1>7, <1>8, <1>9, <1>10, <1>11, <1>12, <1>13,
   <1>14, <1>15, <1>16, <1>17, <1>18, <1>19, <1>20, <1>21, <1>22, <1>23, <1>24, <1>25, <1>26,
      <1>27, <1>28, <1>29, <1>30, <1>31, <1>32, <1>33, <1>34, <1>35, <1>36, <1>37, <1>38,
         <1>39, <1>40, <1>41, <1>42, <1>43, <1>44, <1>45, <1>46 DEF Next, EventStep,
            RecorderStep, StopStep, SchedStep, FrontStep, Call, Failing

-----------------------------------------------------------------------------
(* The queue and the request at its head                                   *)

\* The steps that change what is queued, or the state.
Queues == HandleStateChange \/ TuningFails \/ SetChannel \/ HandleTuning

\* Every other step leaves what is queued, and the state, alone.
LEMMA QueueSteps ==
  ASSUME TypeOK, Next, ~Queues
  PROVE  SameFlags /\ UNCHANGED internalState
<1>1. SameFlags
  BY UnqueuedSame, ShutdownsSame, FinishedSame, ChangedSame, DecideSame, FrequencySame,
     NewRecorderSame, RestartSame
     DEF Next, EventStep, RecorderStep, StopStep, SchedStep, FrontStep, Call, Failing,
          Unqueued, Queues
<1>2. UNCHANGED internalState
  <2>1. CASE NoStateChange
    BY <2>1 DEF NoStateChange, state
  <2>2. CASE TuningShutdowns
    BY <2>2 DEF TuningShutdowns, state
  <2>3. CASE NoRequest
    BY <2>3 DEF NoRequest, state
  <2>4. CASE FinishedRecording
    BY <2>4 DEF FinishedRecording, state
  <2>5. CASE RecPause
    BY <2>5 DEF RecPause, state
  <2>6. CASE TuningSameMultiplex
    BY <2>6 DEF TuningSameMultiplex, state
  <2>7. CASE TuningFrequency
    BY <2>7 DEF TuningFrequency
  <2>8. CASE TuningSignalCheck
    BY <2>8 DEF TuningSignalCheck, state
  <2>9. CASE TuningNewRecorder
    BY <2>9 DEF TuningNewRecorder
  <2>10. CASE RecorderStarted
    BY <2>10 DEF RecorderStarted, state
  <2>11. CASE TuningRestartRecorder
    BY <2>11 DEF TuningRestartRecorder
  <2>12. CASE HandlePendingRecordings
    BY <2>12 DEF HandlePendingRecordings, state
  <2>13. CASE RecordingEnds
    BY <2>13 DEF RecordingEnds
  <2>14. CASE KeptEnds
    BY <2>14 DEF KeptEnds, state
  <2>15. CASE ProgramEnds
    BY <2>15 DEF ProgramEnds
  <2>16. CASE NothingEnds
    BY <2>16 DEF NothingEnds, state
  <2>17. CASE Wake
    BY <2>17 DEF Wake, state
  <2>18. CASE StopRecorder
    BY <2>18 DEF StopRecorder, state
  <2>19. CASE RecorderPaused
    BY <2>19 DEF RecorderPaused, state
  <2>fails. CASE RecorderFails
    BY <2>fails DEF RecorderFails, state
  <2>20. CASE CheckForRingBufferSwitch
    BY <2>20 DEF CheckForRingBufferSwitch, state
  <2>21. CASE SetRingBuffer
    BY <2>21 DEF SetRingBuffer, state
  <2>22. CASE RingBufferChanged
    BY <2>22 DEF RingBufferChanged, state
  <2>23. CASE StopTest
    BY <2>23 DEF StopTest, state
  <2>24. CASE StopChange
    BY <2>24 DEF StopChange
  <2>25. CASE StopReturns
    BY <2>25 DEF StopReturns, state
  <2>26. CASE UpdateRecording
    BY <2>26 DEF UpdateRecording, state
  <2>27. CASE CheckPending
    BY <2>27 DEF CheckPending, state
  <2>28. CASE PostRoll
    BY <2>28 DEF PostRoll, state
  <2>29. CASE Decide
    BY <2>29 DEF Decide
  <2>30. CASE StartReturns
    BY <2>30 DEF StartReturns, state
  <2>31. CASE SpawnReturns
    BY <2>31 DEF SpawnReturns, state
  <2>32. CASE StopLiveReturns
    BY <2>32 DEF StopLiveReturns, state
  <2>33. CASE SetChannelReturns
    BY <2>33 DEF SetChannelReturns, state
  <2>34. CASE RecordPending
    BY <2>34 DEF RecordPending, state
  <2>35. CASE FinishRecording
    BY <2>35 DEF FinishRecording, state
  <2>36. CASE StopRecording
    BY <2>36 DEF StopRecording, state
  <2>37. CASE SpawnLiveTV
    BY <2>37 DEF SpawnLiveTV
  <2>38. CASE StopLiveTV
    BY <2>38 DEF StopLiveTV
  <2>39. CASE PauseRecorder
    BY <2>39 DEF PauseRecorder, state
  <2>40. CASE Expire
    BY <2>40 DEF Expire, state
  <2>41. CASE \E p \in use.programs : StartRecording(p)
    BY <2>41 DEF StartRecording, state
  <2>42. CASE \E cancel \in BOOLEAN : CancelNextRecording(cancel)
    BY <2>42 DEF CancelNextRecording, state
  <2> QED BY <2>fails,
       <2>1, <2>2, <2>3, <2>4, <2>5, <2>6, <2>7, <2>8, <2>9, <2>10, <2>11, <2>12,
     <2>13, <2>14, <2>15, <2>16, <2>17, <2>18, <2>19, <2>20, <2>21, <2>22, <2>23, <2>24,
        <2>25, <2>26, <2>27, <2>28, <2>29, <2>30, <2>31, <2>32, <2>33, <2>34, <2>35, <2>36,
           <2>37, <2>38, <2>39, <2>40, <2>41, <2>42 DEF Next, EventStep, RecorderStep,
              StopStep, SchedStep, FrontStep, Call, Failing, Queues
<1> QED BY <1>1, <1>2

\* A card that is quiet stays so until a request to open it is dealt with.
LEMMA QuietStays ==
  ASSUME Next, Quiet, ~HandleTuning
  PROVE  Quiet'
<1>1. CASE HandleStateChange
  BY <1>1 DEF HandleStateChange, rec, Quiet, PendingActions
<1>2. CASE NoStateChange
  BY <1>2 DEF NoStateChange, tuning, rec, Quiet, PendingActions
<1>3. CASE TuningShutdowns
  BY <1>3 DEF TuningShutdowns, rec, If, Quiet, PendingActions
<1>4. CASE NoRequest
  BY <1>4 DEF NoRequest, tuning, rec, Quiet, PendingActions
<1>5. CASE FinishedRecording
  BY <1>5 DEF FinishedRecording, rec, Quiet, PendingActions
<1>6. CASE RecPause
  BY <1>6 DEF RecPause, rec, If, Quiet, PendingActions
<1>7. CASE TuningSameMultiplex
  BY <1>7 DEF TuningSameMultiplex, rec, Quiet, PendingActions
<1>8. CASE TuningFails
  BY <1>8 DEF TuningFails, rec, Quiet, PendingActions
<1>9. CASE TuningFrequency
  BY <1>9 DEF TuningFrequency, rec, If, Quiet, PendingActions
<1>10. CASE TuningSignalCheck
  BY <1>10 DEF TuningSignalCheck, rec, Quiet, PendingActions
<1>11. CASE TuningNewRecorder
  BY <1>11 DEF TuningNewRecorder, If, Quiet, PendingActions
<1>12. CASE RecorderStarted
  BY <1>12 DEF RecorderStarted, Quiet, PendingActions
<1>13. CASE TuningRestartRecorder
  BY <1>13 DEF TuningRestartRecorder, If, Quiet, PendingActions
<1>14. CASE HandlePendingRecordings
  BY <1>14 DEF HandlePendingRecordings, tuning, rec, If, Quiet, PendingActions
<1>15. CASE RecordingEnds
  BY <1>15 DEF RecordingEnds, rec, Sleep, Quiet, PendingActions
<1>16. CASE KeptEnds
  BY <1>16 DEF KeptEnds, tuning, rec, Sleep, Quiet, PendingActions
<1>17. CASE ProgramEnds
  BY <1>17 DEF ProgramEnds, Sleep, If, Quiet, PendingActions
<1>18. CASE NothingEnds
  BY <1>18 DEF NothingEnds, tuning, rec, Sleep, Quiet, PendingActions
<1>19. CASE Wake
  BY <1>19 DEF Wake, tuning, rec, Quiet, PendingActions
<1>20. CASE StopRecorder
  BY <1>20 DEF StopRecorder, If, Quiet, PendingActions
<1>21. CASE RecorderPaused
  BY <1>21, NullRecorder DEF RecorderPaused, tuning, Quiet, PendingActions
<1>fails. CASE RecorderFails
  BY <1>fails, NullRecorder DEF RecorderFails, tuning, Quiet, PendingActions
<1>22. CASE CheckForRingBufferSwitch
  BY <1>22, NullRecorder DEF CheckForRingBufferSwitch, tuning, Quiet, PendingActions
<1>23. CASE SetRingBuffer
  BY <1>23, NullRecorder DEF SetRingBuffer, If, Quiet, PendingActions
<1>24. CASE RingBufferChanged
  BY <1>24, NullRecorder DEF RingBufferChanged, Quiet, PendingActions
<1>25. CASE StopTest
  BY <1>25 DEF StopTest, event, rec, Goes, Quiet, PendingActions
<1>26. CASE StopChange
  BY <1>26 DEF StopChange, event, rec, Goes, Quiet, PendingActions
<1>27. CASE StopReturns
  BY <1>27 DEF StopReturns, event, rec, Goes, Quiet, PendingActions
<1>28. CASE UpdateRecording
  BY <1>28 DEF UpdateRecording, event, rec, Quiet, PendingActions
<1>29. CASE CheckPending
  BY <1>29 DEF CheckPending, event, rec, Quiet, PendingActions
<1>30. CASE PostRoll
  BY <1>30 DEF PostRoll, event, rec, Quiet, PendingActions
<1>31. CASE Decide
  BY <1>31 DEF Decide, rec, Quiet, PendingActions
<1>32. CASE StartReturns
  BY <1>32 DEF StartReturns, event, rec, Quiet, PendingActions
<1>33. CASE SpawnReturns
  BY <1>33 DEF SpawnReturns, event, rec, Quiet, PendingActions
<1>34. CASE StopLiveReturns
  BY <1>34 DEF StopLiveReturns, event, rec, Quiet, PendingActions
<1>35. CASE SetChannel
  BY <1>35 DEF SetChannel, rec, Quiet, PendingActions
<1>36. CASE SetChannelReturns
  BY <1>36 DEF SetChannelReturns, event, rec, Quiet, PendingActions
<1>37. CASE RecordPending
  BY <1>37 DEF RecordPending, event, rec, Quiet, PendingActions
<1>38. CASE FinishRecording
  BY <1>38 DEF FinishRecording, event, rec, Quiet, PendingActions
<1>39. CASE StopRecording
  BY <1>39 DEF StopRecording, event, rec, Quiet, PendingActions
<1>40. CASE SpawnLiveTV
  BY <1>40 DEF SpawnLiveTV, event, rec, Quiet, PendingActions
<1>41. CASE StopLiveTV
  BY <1>41 DEF StopLiveTV, event, rec, Quiet, PendingActions
<1>42. CASE PauseRecorder
  BY <1>42 DEF PauseRecorder, tuning, Quiet, PendingActions
<1>43. CASE Expire
  BY <1>43 DEF Expire, tuning, rec, Quiet, PendingActions
<1>44. CASE \E p \in use.programs : StartRecording(p)
  BY <1>44 DEF StartRecording, event, rec, Quiet, PendingActions
<1>45. CASE \E cancel \in BOOLEAN : CancelNextRecording(cancel)
  BY <1>45 DEF CancelNextRecording, event, rec, Quiet, PendingActions
<1> QED BY <1>fails,
       <1>1, <1>2, <1>3, <1>4, <1>5, <1>6, <1>7, <1>8, <1>9, <1>10, <1>11, <1>12, <1>13,
   <1>14, <1>15, <1>16, <1>17, <1>18, <1>19, <1>20, <1>21, <1>22, <1>23, <1>24, <1>25, <1>26,
      <1>27, <1>28, <1>29, <1>30, <1>31, <1>32, <1>33, <1>34, <1>35, <1>36, <1>37, <1>38,
         <1>39, <1>40, <1>41, <1>42, <1>43, <1>44, <1>45 DEF Next, EventStep, RecorderStep,
            StopStep, SchedStep, FrontStep, Call, Failing

\* The queue's indices.
LEMMA Indices ==
  ASSUME QueueTyped
  PROVE  /\ Len(tuningRequests) \in Nat /\ DOMAIN tuningRequests = 1..Len(tuningRequests)
         /\ tuningRequests = <<>> <=> Len(tuningRequests) = 0
BY SeqFacts DEF QueueTyped

\* The same after a step.
LEMMA IndicesNext ==
  QueueTyped' =>
    /\ Len(tuningRequests') \in Nat /\ DOMAIN tuningRequests' = 1..Len(tuningRequests')
    /\ tuningRequests' # <<>> => Len(tuningRequests') # 0
    /\ tuningRequests' = <<>> => Len(tuningRequests') = 0
BY SeqFacts DEF QueueTyped

\* What the card is like before a request is the same when the requests are.
LEMMA QuietBeforeSame ==
  ASSUME QueueTyped, QueueTyped', SameFlags, Quiet => Quiet',
         NEW i \in 1..(Len(tuningRequests) + 1), QuietBefore(i)
  PROVE  QuietBefore(i)'
<1>1. Len(tuningRequests) \in Nat
  BY Indices
<1>2. \A j \in 1..(i - 1) :
        /\ Opens(tuningRequests[j])' <=> Opens(tuningRequests[j])
        /\ Kills(tuningRequests[j])' <=> Kills(tuningRequests[j])
  BY <1>1 DEF SameFlags, Opens, Kills
<1> QED BY <1>1, <1>2 DEF QuietBefore

\* Nor does a request that comes after it matter;
LEMMA QuietBeforeAppended ==
  ASSUME QueueTyped, QueueTyped', NEW fs, Appended(fs), Quiet => Quiet',
         NEW i \in 1..(Len(tuningRequests) + 1), QuietBefore(i)
  PROVE  QuietBefore(i)'
<1>1. Len(tuningRequests) \in Nat
  BY Indices
<1>2. \A j \in 1..(i - 1) :
        /\ Opens(tuningRequests[j])' <=> Opens(tuningRequests[j])
        /\ Kills(tuningRequests[j])' <=> Kills(tuningRequests[j])
  BY <1>1 DEF Appended, Opens, Kills
<1> QED BY <1>1, <1>2 DEF QuietBefore

\* the card is quiet after one that ends its file, and after one that does not open it.
LEMMA QuietAfterAppended ==
  ASSUME QueueTyped, QueueTyped', NEW fs, Appended(fs), Quiet => Quiet',
         NEW n \in Nat, n = Len(tuningRequests),
         \/ "KillRingBuffer" \in fs
         \/ fs \cap RecFlags = {} /\ QuietBefore(n + 1)
  PROVE  QuietBefore(n + 2)'
<1>2. \A j \in 1..n :
        /\ Opens(tuningRequests[j])' <=> Opens(tuningRequests[j])
        /\ Kills(tuningRequests[j])' <=> Kills(tuningRequests[j])
  BY DEF Appended, Opens, Kills
<1>3. /\ Opens(tuningRequests[n + 1])' <=> fs \cap RecFlags # {}
      /\ Kills(tuningRequests[n + 1])' <=> "KillRingBuffer" \in fs
  BY DEF Appended, Opens, Kills
<1>4. CASE "KillRingBuffer" \in fs
  <2>1. n + 1 \in 1..(n + 1) /\ Kills(tuningRequests[n + 1])'
    BY <1>3, <1>4
  <2> QED BY <2>1 DEF QuietBefore
<1>5. CASE fs \cap RecFlags = {} /\ QuietBefore(n + 1)
  <2>1. ~Opens(tuningRequests[n + 1])'
    BY <1>3, <1>5
  <2>2. CASE Quiet /\ \A j \in 1..n : ~Opens(tuningRequests[j])
    <3>1. \A j \in 1..(n + 1) : j \in 1..n \/ j = n + 1
      OBVIOUS
    <3>2. \A j \in 1..(n + 1) : ~Opens(tuningRequests[j])'
      BY <1>2, <2>1, <2>2, <3>1
    <3> QED BY <2>2, <3>2 DEF QuietBefore
  <2>3. CASE \E k \in 1..n :
               Kills(tuningRequests[k]) /\ \A j \in (k + 1)..n : ~Opens(tuningRequests[j])
    <3>1. PICK k \in 1..n :
            Kills(tuningRequests[k]) /\ \A j \in (k + 1)..n : ~Opens(tuningRequests[j])
      BY <2>3
    <3>2. \A j \in (k + 1)..(n + 1) : j \in (k + 1)..n \/ j = n + 1
      OBVIOUS
    <3>3. \A j \in (k + 1)..(n + 1) : ~Opens(tuningRequests[j])'
      BY <1>2, <2>1, <3>1, <3>2
    <3>4. Kills(tuningRequests[k])' /\ k \in 1..(n + 1)
      BY <1>2, <3>1
    <3> QED BY <3>3, <3>4 DEF QuietBefore
  <2> QED BY <1>5, <2>2, <2>3 DEF QuietBefore
<1> QED BY <1>4, <1>5

\* and what was true before the request after the first is true before the new first one.
LEMMA QuietBeforeDequeued ==
  ASSUME QueueTyped, QueueTyped', Dequeued,
         Kills(tuningRequests[1]) => Quiet',
         Quiet /\ ~Opens(tuningRequests[1]) => Quiet',
         NEW i \in 1..Len(tuningRequests), QuietBefore(i + 1)
  PROVE  QuietBefore(i)'
<1>1. Len(tuningRequests) \in Nat
  BY Indices
<1>2. \A j \in 1..(i - 1) :
        /\ Opens(tuningRequests[j])' <=> Opens(tuningRequests[j + 1])
        /\ Kills(tuningRequests[j])' <=> Kills(tuningRequests[j + 1])
  BY <1>1 DEF Dequeued, Opens, Kills
<1>3. CASE Quiet /\ \A j \in 1..i : ~Opens(tuningRequests[j])
  <2>1. 1 \in 1..i /\ \A j \in 1..(i - 1) : j + 1 \in 1..i
    BY <1>1
  <2>2. Quiet' /\ \A j \in 1..(i - 1) : ~Opens(tuningRequests[j])'
    BY <1>2, <1>3, <2>1
  <2> QED BY <2>2 DEF QuietBefore
<1>4. CASE \E k \in 1..i :
             Kills(tuningRequests[k]) /\ \A j \in (k + 1)..i : ~Opens(tuningRequests[j])
  <2>1. PICK k \in 1..i :
          Kills(tuningRequests[k]) /\ \A j \in (k + 1)..i : ~Opens(tuningRequests[j])
    BY <1>4
  <2>2. CASE k = 1
    <3>1. \A j \in 1..(i - 1) : j + 1 \in (k + 1)..i
      BY <1>1, <2>2
    <3>2. Quiet' /\ \A j \in 1..(i - 1) : ~Opens(tuningRequests[j])'
      BY <1>2, <2>1, <2>2, <3>1
    <3> QED BY <3>2 DEF QuietBefore
  <2>3. CASE k # 1
    <3>1. k - 1 \in 1..(i - 1) /\ (k - 1) + 1 = k
      BY <1>1, <2>1, <2>3
    <3>2. \A j \in ((k - 1) + 1)..(i - 1) : j \in 1..(i - 1) /\ j + 1 \in (k + 1)..i
      BY <1>1, <2>1, <2>3
    <3>3. Kills(tuningRequests[k - 1])'
      BY <1>2, <2>1, <3>1
    <3>4. \A j \in ((k - 1) + 1)..(i - 1) : ~Opens(tuningRequests[j])'
      BY <1>2, <2>1, <3>2
    <3> QED BY <3>1, <3>3, <3>4 DEF QuietBefore
  <2> QED BY <2>2, <2>3
<1>5. (i + 1) - 1 = i
  BY <1>1
<1> QED BY <1>3, <1>4, <1>5 DEF QuietBefore

\* The head of the queue, while its work is done.
LEMMA HeadElsewhere ==
  ASSUME epc' \notin {"stopping", "finishing", "shut"}
  PROVE  HeadOK'
BY DEF HeadOK

\* A step within the work on the head of the queue.
LEMMA HeadKept ==
  ASSUME QueueTyped, HeadOK, SameFlags, UNCHANGED epc, recorder = NULL => recorder' = NULL
  PROVE  HeadOK'
<1>1. tuningRequests # <<>> =>
        /\ tuningRequests' # <<>>
        /\ Kills(tuningRequests[1])' <=> Kills(tuningRequests[1])
        /\ Closes(tuningRequests[1])' <=> Closes(tuningRequests[1])
  <2>1. Len(tuningRequests) \in Nat /\ (tuningRequests # <<>> => 1 \in 1..Len(tuningRequests))
    BY Indices
  <2>2. tuningRequests' = <<>> => Len(tuningRequests) = 0
    BY <2>1 DEF SameFlags
  <2> QED BY <2>1, <2>2 DEF SameFlags, Kills, Closes
<1> QED BY <1>1 DEF HeadOK

\* The head of the queue is there for as long as the event thread works on it.
LEMMA HeadStep ==
  ASSUME CardInv, Next
  PROVE  HeadOK'
<1>inv. /\ TypeOK /\ RecorderOK /\ HeadOK /\ RequestsOK /\ QueueOK /\ QueueTyped
  BY TypeParts DEF CardInv
<1>1. CASE HandleStateChange
  BY <1>1, HeadElsewhere DEF HandleStateChange
<1>2. CASE NoStateChange
  BY <1>2, HeadElsewhere DEF NoStateChange
<1>3. CASE TuningShutdowns
  <2>1. tuningRequests # <<>> /\ epc = "tune" /\ recorder' = recorder
    BY <1>3 DEF TuningShutdowns, rec
  <2>request. request = tuningRequests[1]
    BY <1>inv, <2>1 DEF request, QueueTyped
  <2>dom. 1 \in DOMAIN tuningRequests
    BY <1>inv, <2>1, Indices
  <2>2. SameFlags
    BY <1>3, <1>inv, ShutdownsSame
  <2>3. /\ tuningRequests' # <<>>
        /\ Kills(tuningRequests[1])' <=> Kills(tuningRequests[1])
        /\ Closes(tuningRequests[1])' <=> Closes(tuningRequests[1])
    <3>1. Len(tuningRequests) \in Nat /\ 1 \in 1..Len(tuningRequests)
      BY <1>inv, <2>1, Indices
    <3> QED BY <2>2, <3>1 DEF SameFlags, Kills, Closes
  <2>4. epc' = IF Closes(tuningRequests[1]) /\ "RecorderRunning" \in stateFlags
               THEN "stopping" ELSE "shut"
    BY <1>3, <2>request DEF TuningShutdowns, Closes
  <2>5. "RecorderRunning" \in stateFlags <=> recorder # NULL
    BY <1>inv, <2>1 DEF RecorderOK, Told
  <2>6. CASE Closes(tuningRequests[1]) /\ "RecorderRunning" \in stateFlags
    <3>1. ~Kills(tuningRequests[1]) => QuietBefore(1)
      BY <1>inv, <2>dom, <2>6 DEF QueueOK
    <3>2. QuietBefore(1) => Quiet
      BY DEF QuietBefore
    <3>3. Kills(tuningRequests[1])
      BY <2>5, <2>6, <3>1, <3>2 DEF Quiet
    <3>4. epc' = "stopping"
      BY <2>4, <2>6
    <3> QED BY <2>3, <3>3, <3>4 DEF HeadOK
  <2>7. CASE ~(Closes(tuningRequests[1]) /\ "RecorderRunning" \in stateFlags)
    <3>1. epc' = "shut"
      BY <2>4, <2>7
    <3>2. Closes(tuningRequests[1]) => recorder' = NULL
      BY <2>1, <2>5, <2>7
    <3> QED BY <2>3, <3>1, <3>2 DEF HeadOK
  <2> QED BY <2>6, <2>7
<1>4. CASE NoRequest
  BY <1>4, HeadElsewhere DEF NoRequest
<1>5. CASE FinishedRecording
  <2>1. /\ epc' = "shut" /\ epc = "finishing" /\ UNCHANGED recorder
        /\ tuningRequests # <<>> /\ recorder = NULL
    BY <1>5, <1>inv DEF FinishedRecording, rec, HeadOK
  <2>2. tuningRequests' # <<>>
    <3>1. Len(tuningRequests) \in Nat /\ Len(tuningRequests) # 0
      BY <1>inv, <2>1, Indices
    <3> QED BY <1>5, <1>inv, <3>1, FinishedSame DEF SameFlags
  <2> QED BY <2>1, <2>2 DEF HeadOK
<1>6. CASE HandleTuning
  BY <1>6, HeadElsewhere DEF HandleTuning
<1>7. CASE RecPause
  BY <1>7, HeadElsewhere DEF RecPause
<1>8. CASE TuningSameMultiplex
  BY <1>8, HeadElsewhere DEF TuningSameMultiplex
<1>9. CASE TuningFails
  BY <1>9, HeadElsewhere DEF TuningFails
<1>10. CASE TuningFrequency
  BY <1>10, HeadElsewhere DEF TuningFrequency
<1>11. CASE TuningSignalCheck
  BY <1>11, HeadElsewhere DEF TuningSignalCheck
<1>12. CASE TuningNewRecorder
  BY <1>12, HeadElsewhere DEF TuningNewRecorder
<1>13. CASE RecorderStarted
  BY <1>13, HeadElsewhere DEF RecorderStarted
<1>14. CASE TuningRestartRecorder
  BY <1>14, HeadElsewhere DEF TuningRestartRecorder
<1>15. CASE HandlePendingRecordings
  BY <1>15, HeadElsewhere DEF HandlePendingRecordings
<1>16. CASE RecordingEnds
  BY <1>16, HeadElsewhere DEF RecordingEnds, Sleep
<1>17. CASE KeptEnds
  BY <1>17, HeadElsewhere DEF KeptEnds, Sleep
<1>18. CASE ProgramEnds
  BY <1>18, HeadElsewhere DEF ProgramEnds, Sleep
<1>19. CASE NothingEnds
  BY <1>19, HeadElsewhere DEF NothingEnds, Sleep
<1>20. CASE Wake
  BY <1>20, HeadElsewhere DEF Wake
<1>21. CASE StopRecorder
  BY <1>21, <1>inv DEF StopRecorder, HeadOK, Kills
<1>22. CASE RecorderPaused
  <2>1. UNCHANGED epc /\ (recorder = NULL => recorder' = NULL)
    BY <1>22, NullRecorder DEF RecorderPaused
  <2>2. SameFlags
    BY <1>22, <1>inv, UnqueuedSame DEF Unqueued
  <2> QED BY <1>inv, <2>1, <2>2, HeadKept
<1>fails. CASE RecorderFails
  <2>1. UNCHANGED epc /\ (recorder = NULL => recorder' = NULL)
    BY <1>fails, NullRecorder DEF RecorderFails
  <2>2. SameFlags
    BY <1>fails, <1>inv, UnqueuedSame DEF Unqueued
  <2> QED BY <1>inv, <2>1, <2>2, HeadKept
<1>23. CASE CheckForRingBufferSwitch
  <2>1. UNCHANGED epc /\ (recorder = NULL => recorder' = NULL)
    BY <1>23, NullRecorder DEF CheckForRingBufferSwitch
  <2>2. SameFlags
    BY <1>23, <1>inv, UnqueuedSame DEF Unqueued
  <2> QED BY <1>inv, <2>1, <2>2, HeadKept
<1>24. CASE SetRingBuffer
  <2>1. UNCHANGED epc /\ (recorder = NULL => recorder' = NULL)
    BY <1>24, NullRecorder DEF SetRingBuffer
  <2>2. SameFlags
    BY <1>24, <1>inv, UnqueuedSame DEF Unqueued
  <2> QED BY <1>inv, <2>1, <2>2, HeadKept
<1>25. CASE RingBufferChanged
  <2>1. UNCHANGED epc /\ (recorder = NULL => recorder' = NULL)
    BY <1>25, NullRecorder DEF RingBufferChanged
  <2>2. SameFlags
    BY <1>25, <1>inv, ChangedSame
  <2> QED BY <1>inv, <2>1, <2>2, HeadKept
<1>26. CASE StopTest
  <2>1. UNCHANGED epc /\ (recorder = NULL => recorder' = NULL)
    BY <1>26 DEF StopTest, event, rec, Goes
  <2>2. SameFlags
    BY <1>26, <1>inv, UnqueuedSame DEF Unqueued
  <2> QED BY <1>inv, <2>1, <2>2, HeadKept
<1>27. CASE StopChange
  <2>1. UNCHANGED epc /\ (recorder = NULL => recorder' = NULL)
    BY <1>27 DEF StopChange, event, rec, Goes
  <2>2. SameFlags
    BY <1>27, <1>inv, UnqueuedSame DEF Unqueued
  <2> QED BY <1>inv, <2>1, <2>2, HeadKept
<1>28. CASE StopReturns
  <2>1. UNCHANGED epc /\ (recorder = NULL => recorder' = NULL)
    BY <1>28 DEF StopReturns, event, rec, Goes
  <2>2. SameFlags
    BY <1>28, <1>inv, UnqueuedSame DEF Unqueued
  <2> QED BY <1>inv, <2>1, <2>2, HeadKept
<1>29. CASE UpdateRecording
  <2>1. UNCHANGED epc /\ (recorder = NULL => recorder' = NULL)
    BY <1>29 DEF UpdateRecording, event, rec
  <2>2. SameFlags
    BY <1>29, <1>inv, UnqueuedSame DEF Unqueued
  <2> QED BY <1>inv, <2>1, <2>2, HeadKept
<1>30. CASE CheckPending
  <2>1. UNCHANGED epc /\ (recorder = NULL => recorder' = NULL)
    BY <1>30 DEF CheckPending, event, rec
  <2>2. SameFlags
    BY <1>30, <1>inv, UnqueuedSame DEF Unqueued
  <2> QED BY <1>inv, <2>1, <2>2, HeadKept
<1>31. CASE PostRoll
  <2>1. UNCHANGED epc /\ (recorder = NULL => recorder' = NULL)
    BY <1>31 DEF PostRoll, event, rec
  <2>2. SameFlags
    BY <1>31, <1>inv, UnqueuedSame DEF Unqueued
  <2> QED BY <1>inv, <2>1, <2>2, HeadKept
<1>32. CASE Decide
  <2>1. UNCHANGED epc /\ (recorder = NULL => recorder' = NULL)
    BY <1>32 DEF Decide, rec
  <2>2. SameFlags
    BY <1>32, <1>inv, DecideSame
  <2> QED BY <1>inv, <2>1, <2>2, HeadKept
<1>33. CASE StartReturns
  <2>1. UNCHANGED epc /\ (recorder = NULL => recorder' = NULL)
    BY <1>33 DEF StartReturns, event, rec
  <2>2. SameFlags
    BY <1>33, <1>inv, UnqueuedSame DEF Unqueued
  <2> QED BY <1>inv, <2>1, <2>2, HeadKept
<1>34. CASE SpawnReturns
  <2>1. UNCHANGED epc /\ (recorder = NULL => recorder' = NULL)
    BY <1>34 DEF SpawnReturns, event, rec
  <2>2. SameFlags
    BY <1>34, <1>inv, UnqueuedSame DEF Unqueued
  <2> QED BY <1>inv, <2>1, <2>2, HeadKept
<1>35. CASE StopLiveReturns
  <2>1. UNCHANGED epc /\ (recorder = NULL => recorder' = NULL)
    BY <1>35 DEF StopLiveReturns, event, rec
  <2>2. SameFlags
    BY <1>35, <1>inv, UnqueuedSame DEF Unqueued
  <2> QED BY <1>inv, <2>1, <2>2, HeadKept
<1>36. CASE SetChannel
  <2>1. tuningRequests = <<>> /\ UNCHANGED epc
    BY <1>36 DEF SetChannel, Slept
  <2> QED BY <1>inv, <2>1 DEF HeadOK
<1>37. CASE SetChannelReturns
  <2>1. UNCHANGED epc /\ (recorder = NULL => recorder' = NULL)
    BY <1>37 DEF SetChannelReturns, event, rec
  <2>2. SameFlags
    BY <1>37, <1>inv, UnqueuedSame DEF Unqueued
  <2> QED BY <1>inv, <2>1, <2>2, HeadKept
<1>38. CASE RecordPending
  <2>1. UNCHANGED epc /\ (recorder = NULL => recorder' = NULL)
    BY <1>38 DEF RecordPending, event, rec
  <2>2. SameFlags
    BY <1>38, <1>inv, UnqueuedSame DEF Unqueued
  <2> QED BY <1>inv, <2>1, <2>2, HeadKept
<1>39. CASE FinishRecording
  <2>1. UNCHANGED epc /\ (recorder = NULL => recorder' = NULL)
    BY <1>39 DEF FinishRecording, event, rec
  <2>2. SameFlags
    BY <1>39, <1>inv, UnqueuedSame DEF Unqueued
  <2> QED BY <1>inv, <2>1, <2>2, HeadKept
<1>40. CASE StopRecording
  <2>1. UNCHANGED epc /\ (recorder = NULL => recorder' = NULL)
    BY <1>40 DEF StopRecording, event, rec
  <2>2. SameFlags
    BY <1>40, <1>inv, UnqueuedSame DEF Unqueued
  <2> QED BY <1>inv, <2>1, <2>2, HeadKept
<1>41. CASE SpawnLiveTV
  <2>1. UNCHANGED epc /\ (recorder = NULL => recorder' = NULL)
    BY <1>41 DEF SpawnLiveTV, event, rec
  <2>2. SameFlags
    BY <1>41, <1>inv, UnqueuedSame DEF Unqueued
  <2> QED BY <1>inv, <2>1, <2>2, HeadKept
<1>42. CASE StopLiveTV
  <2>1. UNCHANGED epc /\ (recorder = NULL => recorder' = NULL)
    BY <1>42 DEF StopLiveTV, event, rec
  <2>2. SameFlags
    BY <1>42, <1>inv, UnqueuedSame DEF Unqueued
  <2> QED BY <1>inv, <2>1, <2>2, HeadKept
<1>43. CASE PauseRecorder
  <2>1. UNCHANGED epc /\ (recorder = NULL => recorder' = NULL)
    BY <1>43 DEF PauseRecorder
  <2>2. SameFlags
    BY <1>43, <1>inv, UnqueuedSame DEF Unqueued
  <2> QED BY <1>inv, <2>1, <2>2, HeadKept
<1>44. CASE Expire
  <2>1. UNCHANGED epc /\ (recorder = NULL => recorder' = NULL)
    BY <1>44 DEF Expire, rec
  <2>2. SameFlags
    BY <1>44, <1>inv, UnqueuedSame DEF Unqueued
  <2> QED BY <1>inv, <2>1, <2>2, HeadKept
<1>45. CASE \E p \in use.programs : StartRecording(p)
  <2>1. UNCHANGED epc /\ (recorder = NULL => recorder' = NULL)
    BY <1>45 DEF StartRecording, event, rec
  <2>2. SameFlags
    BY <1>45, <1>inv, UnqueuedSame DEF Unqueued
  <2> QED BY <1>inv, <2>1, <2>2, HeadKept
<1>46. CASE \E cancel \in BOOLEAN : CancelNextRecording(cancel)
  <2>1. UNCHANGED epc /\ (recorder = NULL => recorder' = NULL)
    BY <1>46 DEF CancelNextRecording, event, rec
  <2>2. SameFlags
    BY <1>46, <1>inv, UnqueuedSame DEF Unqueued
  <2> QED BY <1>inv, <2>1, <2>2, HeadKept
<1> QED BY <1>fails,
       <1>1, <1>2, <1>3, <1>4, <1>5, <1>6, <1>7, <1>8, <1>9, <1>10, <1>11, <1>12, <1>13,
   <1>14, <1>15, <1>16, <1>17, <1>18, <1>19, <1>20, <1>21, <1>22, <1>23, <1>24, <1>25, <1>26,
      <1>27, <1>28, <1>29, <1>30, <1>31, <1>32, <1>33, <1>34, <1>35, <1>36, <1>37, <1>38,
         <1>39, <1>40, <1>41, <1>42, <1>43, <1>44, <1>45, <1>46 DEF Next, EventStep,
            RecorderStep, StopStep, SchedStep, FrontStep, Call, Failing
\* Requests to open and to close stay apart.
LEMMA RequestsStep ==
  ASSUME CardInv, Next
  PROVE  RequestsOK'
<1> DEFINE n == Len(tuningRequests)
<1>inv. /\ TypeOK /\ HeadOK /\ RequestsOK /\ QueueTyped
  BY TypeParts DEF CardInv
<1>next. QueueTyped'
  BY <1>inv, TypeStep, TypeParts, PTL DEF CardInv
<1>n. n \in Nat /\ DOMAIN tuningRequests = 1..n /\ DOMAIN tuningRequests' = 1..Len(tuningRequests')
  BY <1>inv, <1>next, Indices, IndicesNext
<1>same. CASE SameFlags
  BY <1>inv, <1>n, <1>same DEF SameFlags, RequestsOK, Opens, Closes, Kills
<1>appended. ASSUME NEW fs, Appended(fs),
                    fs \cap RecFlags # {} => fs \cap NoRecFlags = {} /\ "KillRingBuffer" \notin fs,
                    "KillRingBuffer" \in fs => fs \cap NoRecFlags # {}
             PROVE  RequestsOK'
  <2>1. \A i \in DOMAIN tuningRequests' : i \in 1..n \/ i = n + 1
    BY <1>n, <1>appended DEF Appended
  <2>2. n + 1 \notin 1..n
    BY <1>n
  <2> QED BY <1>inv, <1>n, <1>appended, <2>1, <2>2 DEF Appended, RequestsOK, Opens, Closes, Kills
<1>1. CASE HandleStateChange
  <2>1. CASE \E fs \in {CloseLiveTV, CloseRecording} : Appended(fs)
    BY <1>appended, <2>1 DEF CloseLiveTV, CloseRecording, RecFlags, NoRecFlags
  <2>2. CASE Appended({"Recording"}) \/ Appended({"LiveTV"})
    BY <1>appended, <2>2 DEF RecFlags, NoRecFlags
  <2> QED BY <1>inv, <1>1, <1>same, <2>1, <2>2, StateChangeQueue DEF ToNone, FromNone, Stays
<1>2. CASE TuningFails
  BY <1>inv, <1>2, <1>same, <1>appended, FailsQueue DEF RecFlags, NoRecFlags
<1>3. CASE SetChannel
  <2>1. lastTuningRequest.flags \cap RecFlags # {} => lastTuningRequest.flags \cap NoRecFlags = {}
    BY <1>inv DEF RequestsOK, Opens, Closes
  <2> DEFINE fs == lastTuningRequest.flags \cap (RecFlags \cup NoRecFlags)
  <2>2. Appended(fs)
    BY <1>inv, <1>3, SetChannelQueue
  <2>3. "KillRingBuffer" \notin fs
    BY DEF RecFlags, NoRecFlags
  <2>4. fs \cap RecFlags # {} => fs \cap NoRecFlags = {}
    BY <2>1 DEF RecFlags, NoRecFlags
  <2> HIDE DEF fs
  <2> QED BY <1>appended, <2>2, <2>3, <2>4
<1>4. CASE HandleTuning
  <2>1. Dequeued /\ n # 0
    BY <1>inv, <1>4, TuningQueue, Indices
  <2>2. /\ 1 \in 1..n
        /\ \A i \in 1..Len(tuningRequests') : i \in 1..(n - 1) /\ i + 1 \in 1..n
    BY <1>n, <2>1 DEF Dequeued
  <2> QED BY <1>inv, <1>n, <2>1, <2>2 DEF Dequeued, RequestsOK, Opens, Closes, Kills
<1> QED BY <1>inv, <1>same, <1>1, <1>2, <1>3, <1>4, QueueSteps DEF Queues

\* The card as the requests leave it.
LEMMA QueueOKStep ==
  ASSUME CardInv, Next
  PROVE  QueueOK'
<1>inv. /\ TypeOK /\ HeadOK /\ RequestsOK /\ QueueTyped /\ QueueOK
  BY TypeParts DEF CardInv
<1>next. QueueTyped'
  BY <1>inv, TypeStep, TypeParts, PTL DEF CardInv
<1>n0. PICK n \in Nat : n = Len(tuningRequests)
  BY <1>inv, Indices
<1>n. /\ DOMAIN tuningRequests = 1..n /\ DOMAIN tuningRequests' = 1..Len(tuningRequests')
      /\ tuningRequests = <<>> <=> n = 0
  BY <1>inv, <1>next, <1>n0, Indices, IndicesNext
<1>quiet. ~HandleTuning => (Quiet => Quiet')
  BY QuietStays
<1>same. ASSUME SameFlags, ~HandleTuning,
                (internalState = "None") <=> (internalState' = "None")
         PROVE  QueueOK'
  <2>1. Len(tuningRequests') = n /\ (tuningRequests' = <<>> <=> n = 0)
    BY <1>n0, <1>n, <1>next, <1>same, IndicesNext DEF SameFlags
  <2>2. \A i \in 1..(n + 1) : QuietBefore(i) => QuietBefore(i)'
    BY <1>inv, <1>next, <1>n0, <1>quiet, <1>same, QuietBeforeSame
  <2>3. /\ \A i \in 1..n : /\ Opens(tuningRequests[i])' <=> Opens(tuningRequests[i])
                           /\ Closes(tuningRequests[i])' <=> Closes(tuningRequests[i])
                           /\ Kills(tuningRequests[i])' <=> Kills(tuningRequests[i])
        /\ Opens(lastTuningRequest)' <=> Opens(lastTuningRequest)
    BY <1>n0, <1>same DEF SameFlags, Opens, Closes, Kills
  <2>4. n + 1 \in 1..(n + 1) /\ (n # 0 => n \in 1..n) /\ \A i \in 1..n : i \in 1..(n + 1)
    OBVIOUS
  <2>5. internalState' = "None" =>
          QuietBefore(n + 1)' /\ (tuningRequests' = <<>> => ~Opens(lastTuningRequest)')
    BY <1>inv, <1>n0, <1>n, <1>same, <2>1, <2>2, <2>3, <2>4 DEF QueueOK
  <2>6. internalState' # "None" =>
          IF tuningRequests' = <<>> THEN Opens(lastTuningRequest)' ELSE Opens(tuningRequests[n])'
    BY <1>inv, <1>n0, <1>n, <1>same, <2>1, <2>3, <2>4 DEF QueueOK
  <2>7. \A i \in 1..n :
          Closes(tuningRequests[i])' /\ ~Kills(tuningRequests[i])' => QuietBefore(i)'
    BY <1>inv, <1>n, <2>2, <2>3, <2>4 DEF QueueOK
  <2> QED BY <1>n, <2>1, <2>5, <2>6, <2>7 DEF QueueOK
<1>appended. ASSUME NEW fs, Appended(fs), ~HandleTuning,
                    IF internalState' = "None"
                    THEN \/ "KillRingBuffer" \in fs
                         \/ fs \cap RecFlags = {} /\ QuietBefore(n + 1)
                    ELSE fs \cap RecFlags # {},
                    fs \cap NoRecFlags # {} /\ "KillRingBuffer" \notin fs => QuietBefore(n + 1)
             PROVE  QueueOK'
  <2>1. Len(tuningRequests') = n + 1 /\ tuningRequests' # <<>>
    BY <1>n0, <1>next, <1>appended, IndicesNext DEF Appended
  <2>2. \A i \in 1..(n + 1) : QuietBefore(i) => QuietBefore(i)'
    BY <1>inv, <1>next, <1>n0, <1>quiet, <1>appended, QuietBeforeAppended
  <2>3. \A i \in 1..n : /\ Closes(tuningRequests[i])' <=> Closes(tuningRequests[i])
                        /\ Kills(tuningRequests[i])' <=> Kills(tuningRequests[i])
    BY <1>n0, <1>appended DEF Appended, Closes, Kills
  <2>4. /\ Opens(tuningRequests[n + 1])' <=> fs \cap RecFlags # {}
        /\ Closes(tuningRequests[n + 1])' <=> fs \cap NoRecFlags # {}
        /\ Kills(tuningRequests[n + 1])' <=> "KillRingBuffer" \in fs
    BY <1>n0, <1>appended DEF Appended, Opens, Closes, Kills
  <2>5. internalState' = "None" => QuietBefore(n + 2)'
    BY <1>inv, <1>next, <1>n0, <1>quiet, <1>appended, QuietAfterAppended
  <2>6. /\ \A i \in 1..(n + 1) : i \in 1..n \/ i = n + 1
        /\ \A i \in 1..n : i \in 1..(n + 1)
        /\ n + 1 \in 1..(n + 1) /\ (n + 1) + 1 = n + 2
    OBVIOUS
  <2>7. \A i \in 1..(n + 1) :
          Closes(tuningRequests[i])' /\ ~Kills(tuningRequests[i])' => QuietBefore(i)'
    BY <1>inv, <1>n, <1>appended, <2>2, <2>3, <2>4, <2>6 DEF QueueOK
  <2>8. internalState' # "None" => Opens(tuningRequests[n + 1])'
    BY <1>appended, <2>4
  <2> QED BY <1>n, <2>1, <2>5, <2>6, <2>7, <2>8 DEF QueueOK
<1>1. CASE HandleStateChange
  <2>0. ~HandleTuning
    BY <1>1 DEF HandleStateChange, HandleTuning
  <2>i. internalState' = IF Allowed(internalState, desiredNextState)
                         THEN desiredNextState ELSE internalState
    BY <1>1 DEF HandleStateChange
  <2>1. CASE ToNone
    <3>1. PICK fs \in {CloseLiveTV, CloseRecording} : Appended(fs)
      BY <2>1 DEF ToNone
    <3>2. "KillRingBuffer" \in fs
      BY <3>1 DEF CloseLiveTV, CloseRecording
    <3>3. internalState' = "None"
      BY <2>i, <2>1 DEF ToNone
    <3>4. Appended(fs)
      BY <3>1
    <3> QED BY <1>appended, <2>0, <3>2, <3>3, <3>4
  <2>2. CASE FromNone
    <3>1. PICK fs \in {{"Recording"}, {"LiveTV"}} : Appended(fs)
      BY <2>2 DEF FromNone
    <3>2. fs \cap RecFlags # {} /\ fs \cap NoRecFlags = {}
      BY <3>1 DEF RecFlags, NoRecFlags
    <3>3. internalState' # "None"
      BY <2>i, <2>2 DEF FromNone
    <3> QED BY <1>appended, <2>0, <3>1, <3>2, <3>3
  <2>3. CASE Stays
    BY <1>same, <2>0, <2>i, <2>3 DEF Stays
  <2> QED BY <1>inv, <1>1, <2>1, <2>2, <2>3, StateChangeQueue
<1>2. CASE TuningFails
  <2>0. ~HandleTuning /\ UNCHANGED internalState /\ epc = "frequency"
    BY <1>2 DEF TuningFails, HandleTuning
  <2>1. CASE internalState = "None"
    <3>1. Appended({"KillRec"}) /\ QuietBefore(n + 1)
      BY <1>inv, <1>2, <1>n0, <2>1, FailsQueue DEF QueueOK
    <3>2. {"KillRec"} \cap RecFlags = {}
      BY DEF RecFlags
    <3> QED BY <1>appended, <2>0, <2>1, <3>1, <3>2
  <2>2. CASE internalState # "None"
    BY <1>inv, <1>2, <1>same, <2>0, <2>2, FailsQueue
  <2> QED BY <2>1, <2>2
<1>3. CASE SetChannel
  <2> DEFINE fs == lastTuningRequest.flags \cap (RecFlags \cup NoRecFlags)
  <2>1. Appended(fs) /\ tuningRequests = <<>>
    BY <1>inv, <1>3, SetChannelQueue
  <2>0. ~HandleTuning /\ UNCHANGED internalState
    BY <1>3, <2>1 DEF SetChannel, HandleTuning, state, Slept, LockFree
  <2>2. /\ fs \cap RecFlags # {} <=> Opens(lastTuningRequest)
        /\ fs \cap NoRecFlags # {} => Closes(lastTuningRequest)
        /\ "KillRingBuffer" \notin fs
    BY DEF Opens, Closes, RecFlags, NoRecFlags
  <2> HIDE DEF fs
  <2>3. CASE internalState = "None"
    <3>1. QuietBefore(n + 1) /\ ~Opens(lastTuningRequest)
      BY <1>inv, <1>n0, <2>1, <2>3 DEF QueueOK
    <3> QED BY <1>appended, <2>0, <2>1, <2>2, <2>3, <3>1
  <2>4. CASE internalState # "None"
    <3>1. Opens(lastTuningRequest) /\ ~Closes(lastTuningRequest)
      BY <1>inv, <2>1, <2>4 DEF QueueOK, RequestsOK
    <3> QED BY <1>appended, <2>0, <2>1, <2>2, <2>4, <3>1
  <2> QED BY <2>3, <2>4
<1>4. CASE HandleTuning
  <2>1. Dequeued /\ n # 0 /\ request = tuningRequests[1] /\ UNCHANGED internalState
    BY <1>inv, <1>4, <1>n0, TuningQueue, Indices DEF HandleTuning, state
  <2>2. Len(tuningRequests') = n - 1 /\ (tuningRequests' = <<>> <=> n = 1)
    BY <1>n0, <1>next, <2>1, IndicesNext DEF Dequeued
  <2>3. /\ \A i \in 1..(n - 1) :
             /\ Opens(tuningRequests[i])' <=> Opens(tuningRequests[i + 1])
             /\ Closes(tuningRequests[i])' <=> Closes(tuningRequests[i + 1])
             /\ Kills(tuningRequests[i])' <=> Kills(tuningRequests[i + 1])
        /\ Opens(lastTuningRequest)' <=> Opens(tuningRequests[1])
    BY <1>n0, <2>1 DEF Dequeued, Opens, Closes, Kills
  <2>4. 1 \in 1..n /\ n \in 1..n /\ \A i \in 1..(n - 1) : i \in 1..n /\ i + 1 \in 1..n
    BY <2>1
  <2>5. Opens(tuningRequests[1]) => ~Closes(tuningRequests[1]) /\ ~Kills(tuningRequests[1])
    BY <1>inv, <1>n, <2>4 DEF RequestsOK
  <2>6. ~Opens(tuningRequests[1]) => epc' = "pause" /\ PendingActions \cap stateFlags' = {}
    BY <1>4, <2>1 DEF HandleTuning, Opens, If, PendingActions
  <2>7. Kills(tuningRequests[1]) => Quiet'
    <3>1. SUFFICES ASSUME Kills(tuningRequests[1]) PROVE Quiet'
      OBVIOUS
    <3>2. Closes(tuningRequests[1]) /\ ~Opens(tuningRequests[1])
      BY <1>inv, <1>n, <2>4, <2>5, <3>1 DEF RequestsOK
    <3>3. recorder' = NULL
      BY <1>inv, <1>4, <3>2 DEF HeadOK, HandleTuning, rec
    <3>4. ~ringBuffer'
      BY <1>4, <2>1, <3>1 DEF HandleTuning, Kills
    <3> QED BY <2>6, <3>2, <3>3, <3>4 DEF Quiet
  <2>8. Quiet /\ ~Opens(tuningRequests[1]) => Quiet'
    <3>1. Quiet => recorder' = NULL /\ ~ringBuffer'
      BY <1>4 DEF HandleTuning, rec, Quiet
    <3> QED BY <2>6, <3>1 DEF Quiet
  <2>9. \A i \in 1..n : QuietBefore(i + 1) => QuietBefore(i)'
    BY <1>inv, <1>next, <1>n0, <2>1, <2>7, <2>8, QuietBeforeDequeued
  <2>10. internalState' = "None" =>
           QuietBefore(n)' /\ (tuningRequests' = <<>> => ~Opens(lastTuningRequest)')
    <3>1. SUFFICES ASSUME internalState = "None"
                   PROVE  QuietBefore(n)' /\ (n = 1 => ~Opens(tuningRequests[1]))
      BY <2>1, <2>2, <2>3
    <3>2. QuietBefore(n + 1)
      BY <1>inv, <1>n0, <3>1 DEF QueueOK
    <3>3. n = 1 => ~Opens(tuningRequests[1])
      BY <2>5, <3>2 DEF QuietBefore
    <3> QED BY <2>4, <2>9, <3>2, <3>3
  <2>11. internalState' # "None" =>
           IF tuningRequests' = <<>> THEN Opens(lastTuningRequest)'
           ELSE Opens(tuningRequests[n - 1])'
    <3>1. SUFFICES ASSUME internalState # "None"
                   PROVE  IF n = 1 THEN Opens(tuningRequests[1]) ELSE Opens(tuningRequests[n - 1])'
      BY <2>1, <2>2, <2>3
    <3>2. Opens(tuningRequests[n])
      BY <1>inv, <1>n, <1>n0, <2>1, <3>1 DEF QueueOK
    <3>3. n # 1 => n - 1 \in 1..(n - 1) /\ (n - 1) + 1 = n
      BY <2>1
    <3> QED BY <2>3, <3>2, <3>3
  <2>12. \A i \in 1..(n - 1) :
           Closes(tuningRequests[i])' /\ ~Kills(tuningRequests[i])' => QuietBefore(i)'
    BY <1>inv, <1>n, <2>3, <2>4, <2>9 DEF QueueOK
  <2>13. (n - 1) + 1 = n
    OBVIOUS
  <2> QED BY <1>n, <2>2, <2>10, <2>11, <2>12, <2>13 DEF QueueOK
<1>5. CASE ~Queues
  <2>1. SameFlags /\ UNCHANGED internalState /\ ~HandleTuning
    BY <1>inv, <1>5, QueueSteps DEF Queues
  <2> QED BY <1>same, <2>1
<1> QED BY <1>1, <1>2, <1>3, <1>4, <1>5 DEF Queues

-----------------------------------------------------------------------------
(* The invariant of the card                                               *)

\* The three facts that make CardInv an invariant.
LEMMA CardInit ==
  ASSUME Init
  PROVE  CardInv
<1>1. QueueTyped
  BY DEF Init, QueueTyped, Requests
<1>2. StateTyped /\ FlagsTyped /\ FileTyped
  BY DEF Init, StateTyped, States, FlagsTyped, FileTyped
<1>3. RecorderTyped /\ CallsTyped /\ FaultsTyped
  BY DEF Init, RecorderTyped, CallsTyped, FaultsTyped
<1>4. PcsOK /\ HeadOK
  BY DEF Init, PcsOK, EventPcs, SchedPcs, FrontPcs, HeadOK
<1>5. RecorderOK
  BY NullRecorder DEF Init, RecorderOK, ComesUp, Told, Switches, HasFile, MayStart, Waits,
     Starts, Pauses, Dummy
<1>6. tuningRequests = <<>> /\ Len(tuningRequests) = 0 /\ DOMAIN tuningRequests = {}
  BY DEF Init
<1>7. RequestsOK
  BY <1>6 DEF Init, RequestsOK, Opens, Closes
<1>8. Quiet
  BY DEF Init, Quiet
<1>9. QueueOK
  BY <1>6, <1>8 DEF Init, QueueOK, QuietBefore, Opens
<1> QED BY <1>1, <1>2, <1>3, <1>4, <1>5, <1>7, <1>9, TypeParts DEF CardInv

\* A step that changes nothing keeps it,
LEMMA CardStutter ==
  ASSUME CardInv, UNCHANGED vars
  PROVE  CardInv'
<1>1. /\ UNCHANGED <<internalState, changeState, desiredNextState, stateFlags, tuningRequests>>
      /\ UNCHANGED <<lastTuningRequest, curRecording, pseudoLiveTVRecording, recordEnd, pending>>
      /\ UNCHANGED <<tvchain, ringBuffer, recorder, nextRecording, requestPause>>
      /\ UNCHANGED <<m_switchingBuffer, epc, spc, fpc, rcinfo, cancelNext, retval>>
      /\ UNCHANGED <<requestType, use, faults>>
  BY DEF vars, state, tuning, live, rec, sched, front
<1>2. Typed'
  <2>1. Typed
    BY TypeParts DEF CardInv, Typed
  <2> QED BY <1>1, <2>1, Untouched DEF Typed, state, rec, file, calls, pcs
<1>3. QueueTyped'
  BY <1>1, TypeParts DEF CardInv, QueueTyped
<1>4. TypeOK' /\ PcsOK'
  BY <1>2, <1>3, TypeParts, PTL DEF Typed
<1>5. RecorderOK'
  BY <1>1, RecorderSame DEF CardInv
<1>6. RequestsOK' /\ HeadOK'
  BY <1>1 DEF CardInv, RequestsOK, HeadOK, Opens, Closes, Kills
<1>7. QueueOK'
  BY <1>1 DEF CardInv, QueueOK, QuietBefore, Quiet, Opens, Closes, Kills
<1> QED BY <1>4, <1>5, <1>6, <1>7 DEF CardInv

\* and so does every other.
LEMMA CardStep ==
  ASSUME CardInv, [Next]_vars
  PROVE  CardInv'
<1>1. CASE Next
  BY <1>1, TypeStep, RecorderOKStep, RequestsStep, HeadStep, QueueOKStep DEF CardInv
<1> QED BY <1>1, CardStutter

\* The inductive invariant of the card holds, whatever the calls and the failures are.
THEOREM CardIsSound == Spec => []CardInv
BY CardInit, CardStep, PTL DEF Spec

\* Every variable has its type.
THEOREM TypeCorrect == Spec => []TypeOK
<1>1. CardInv => TypeOK
  BY DEF CardInv
<1> QED BY <1>1, CardIsSound, PTL

\* A card that rests in None has no recorder, no file and no tuning that would start one:
\* the request that ends a recording or Live TV is always carried out in the end, also
\* when it was queued behind one that starts a recorder, or failed to.
THEOREM NoneIsIdle == Spec => []IdleIsIdle
<1>1. ASSUME CardInv, Idle, internalState = "None"
      PROVE  Quiet
  <2>1. QuietBefore(Len(tuningRequests) + 1) /\ tuningRequests = <<>>
    BY <1>1 DEF CardInv, QueueOK, Idle
  <2>2. 1..((Len(tuningRequests) + 1) - 1) = {}
    BY <2>1
  <2> QED BY <2>1, <2>2 DEF QuietBefore
<1>2. CardInv => IdleIsIdle
  BY <1>1 DEF IdleIsIdle, Quiet
<1> QED BY <1>2, CardIsSound, PTL

\* kFlagRecorderRunning tells of the recorder whenever another thread can look.
THEOREM FlagsTellOfRecorder == Spec => []FlagTells
<1>1. CardInv => FlagTells
  BY DEF CardInv, RecorderOK, Told, FlagTells
<1> QED BY <1>1, CardIsSound, PTL

\* A recorder has a file: none that comes up, pauses or switches files loses it.
THEOREM RecordersHaveFiles == Spec => []RecorderHasFile
<1>1. CardInv => RecorderHasFile
  BY DEF CardInv, RecorderOK, HasFile, RecorderHasFile
<1> QED BY <1>1, CardIsSound, PTL

-----------------------------------------------------------------------------
(* A card that does not rest in None is served                             *)

\* The card has a recorder, at work or not, or the event thread still has to start one.
HasRecorder == recorder # NULL \/ PendingActions \cap stateFlags # {}

\* The event thread has a state to leave that was reverted.
Reverting == changeState /\ desiredNextState = "None" /\ ~LockFree
Served == HasRecorder \/ Reverting \/ epc = "frequency"

ServedOK == internalState # "None" /\ tuningRequests = <<>> => Served

\* A card that is served stays so while the queue is empty and the state the same,
LEMMA ServedStays ==
  ASSUME "monitor" \notin Failures, CardInv, internalState # "None", tuningRequests = <<>>,
         Served, Next, ~Queues
  PROVE  Served'
<1>inv. TypeOK /\ RecorderOK /\ epc \notin {"stopping", "finishing", "shut"}
  BY DEF CardInv, HeadOK
<1>1. CASE NoStateChange
  BY <1>1, <1>inv DEF NoStateChange, state, tuning, rec, Served, HasRecorder, Reverting,
     LockFree, PendingActions
<1>2. CASE TuningShutdowns
  BY <1>2, <1>inv DEF TuningShutdowns, state, rec, If, Served, HasRecorder, Reverting, LockFree,
     PendingActions
<1>3. CASE NoRequest
  BY <1>3, <1>inv DEF NoRequest, state, tuning, rec, Served, HasRecorder, Reverting, LockFree,
     PendingActions
<1>4. CASE FinishedRecording
  BY <1>4, <1>inv DEF FinishedRecording, state, rec, Served, HasRecorder, Reverting, LockFree,
     PendingActions
<1>5. CASE RecPause
  BY <1>5, <1>inv DEF RecPause, state, rec, If, Served, HasRecorder, Reverting, LockFree,
     PendingActions
<1>6. CASE TuningSameMultiplex
  BY <1>6, <1>inv DEF TuningSameMultiplex, state, rec, Served, HasRecorder, Reverting, LockFree,
     PendingActions
<1>7. CASE TuningFrequency
  <2>1. \A x \in May("monitor") : x = TRUE
    BY DEF May
  <2>2. epc = "frequency" /\ epc' = "signal" /\ UNCHANGED recorder
    BY <1>7 DEF TuningFrequency, rec
  <2>3. \/ Revert
        \/ \E monitor \in May("monitor") :
             stateFlags' = (stateFlags \ {"WaitingForSignal"}) \cup
               UNION {IF NeedSignal /\ "LiveTV" \in lastTuningRequest.flags
                      THEN {"DummyRecorderRunning", "RingBufferReady"} ELSE {},
                      If(NeedSignal, "SignalMonitorRunning"),
                      If(NeedSignal /\ monitor, "WaitingForSignal"),
                      If(~NeedSignal \/ monitor, "NeedToStartRecorder")}
    BY <1>7 DEF TuningFrequency
  <2>4. CASE Revert
    BY <2>2, <2>4 DEF Revert, ChangeState, Served, Reverting, LockFree
  <2>5. CASE \E monitor \in May("monitor") :
             stateFlags' = (stateFlags \ {"WaitingForSignal"}) \cup
               UNION {IF NeedSignal /\ "LiveTV" \in lastTuningRequest.flags
                      THEN {"DummyRecorderRunning", "RingBufferReady"} ELSE {},
                      If(NeedSignal, "SignalMonitorRunning"),
                      If(NeedSignal /\ monitor, "WaitingForSignal"),
                      If(~NeedSignal \/ monitor, "NeedToStartRecorder")}
    <3>1. "NeedToStartRecorder" \in stateFlags'
      BY <2>1, <2>5 DEF If
    <3> QED BY <3>1 DEF Served, HasRecorder, PendingActions
  <2> QED BY <2>3, <2>4, <2>5
<1>8. CASE TuningSignalCheck
  <2>1. /\ epc = "signal" /\ epc' \in {"check", "recorder"}
        /\ UNCHANGED <<recorder, changeState, desiredNextState>>
        /\ \A f \in {"WaitingForRecPause", "NeedToStartRecorder"} :
             f \in stateFlags => f \in stateFlags'
    BY <1>8 DEF TuningSignalCheck, state, rec
  <2>2. "WaitingForSignal" \in stateFlags => "NeedToStartRecorder" \in stateFlags
    BY <1>inv DEF RecorderOK, Waits
  <2>3. HasRecorder => HasRecorder'
    BY <2>1, <2>2 DEF HasRecorder, PendingActions
  <2>4. Reverting => Reverting'
    BY <2>1 DEF Reverting, LockFree
  <2> QED BY <2>1, <2>3, <2>4 DEF Served
<1>9. CASE TuningNewRecorder
  BY <1>9, <1>inv, NullRecorder DEF TuningNewRecorder, Revert, If, ChangeState, Served,
     HasRecorder, Reverting, LockFree, PendingActions
<1>10. CASE RecorderStarted
  BY <1>10, <1>inv, NullRecorder DEF RecorderStarted, state, Served, HasRecorder, Reverting,
     LockFree, PendingActions
<1>11. CASE TuningRestartRecorder
  BY <1>11, <1>inv, NullRecorder DEF TuningRestartRecorder, Revert, If, ChangeState, Served,
     HasRecorder, Reverting, LockFree, PendingActions
<1>12. CASE HandlePendingRecordings
  BY <1>12, <1>inv DEF HandlePendingRecordings, state, tuning, rec, If, Served, HasRecorder,
     Reverting, LockFree, PendingActions
<1>13. CASE RecordingEnds
  BY <1>13, <1>inv DEF RecordingEnds, rec, ChangeState, Sleep, Served, HasRecorder, Reverting,
     LockFree, PendingActions
<1>14. CASE KeptEnds
  BY <1>14, <1>inv DEF KeptEnds, state, tuning, rec, Sleep, Served, HasRecorder, Reverting,
     LockFree, PendingActions
<1>15. CASE ProgramEnds
  BY <1>15, <1>inv DEF ProgramEnds, Revert, Sleep, If, ChangeState, Served, HasRecorder,
     Reverting, LockFree, PendingActions
<1>16. CASE NothingEnds
  BY <1>16, <1>inv DEF NothingEnds, state, tuning, rec, Sleep, Served, HasRecorder, Reverting,
     LockFree, PendingActions
<1>17. CASE Wake
  BY <1>17, <1>inv DEF Wake, state, tuning, rec, Served, HasRecorder, Reverting, LockFree,
     PendingActions
<1>18. CASE StopRecorder
  BY <1>18, <1>inv, NullRecorder DEF StopRecorder, state, If, Served, HasRecorder, Reverting,
     LockFree, PendingActions
<1>19. CASE RecorderPaused
  BY <1>19, <1>inv, NullRecorder DEF RecorderPaused, state, tuning, Served, HasRecorder,
     Reverting, LockFree, PendingActions
<1>fails. CASE RecorderFails
  BY <1>fails, <1>inv, NullRecorder DEF RecorderFails, state, tuning, Served, HasRecorder,
     Reverting, LockFree, PendingActions
<1>20. CASE CheckForRingBufferSwitch
  BY <1>20, <1>inv, NullRecorder DEF CheckForRingBufferSwitch, state, tuning, Served,
     HasRecorder, Reverting, LockFree, PendingActions
<1>21. CASE SetRingBuffer
  BY <1>21, <1>inv, NullRecorder DEF SetRingBuffer, state, If, Served, HasRecorder, Reverting,
     LockFree, PendingActions
<1>22. CASE RingBufferChanged
  BY <1>22, <1>inv, NullRecorder DEF RingBufferChanged, state, Served, HasRecorder, Reverting,
     LockFree, PendingActions
<1>23. CASE StopTest
  BY <1>23, <1>inv DEF StopTest, state, event, rec, Goes, Served, HasRecorder, Reverting,
     LockFree, PendingActions
<1>24. CASE StopChange
  BY <1>24, <1>inv DEF StopChange, event, rec, Goes, ChangeState, Served, HasRecorder,
     Reverting, LockFree, PendingActions
<1>25. CASE StopReturns
  BY <1>25, <1>inv DEF StopReturns, state, event, rec, Goes, Slept, Served, HasRecorder,
     Reverting, LockFree, PendingActions
<1>26. CASE UpdateRecording
  BY <1>26, <1>inv DEF UpdateRecording, state, event, rec, Slept, Served, HasRecorder,
     Reverting, LockFree, PendingActions
<1>27. CASE CheckPending
  BY <1>27, <1>inv DEF CheckPending, state, event, rec, Slept, Served, HasRecorder, Reverting,
     LockFree, PendingActions
<1>28. CASE PostRoll
  BY <1>28, <1>inv DEF PostRoll, state, event, rec, Slept, Served, HasRecorder, Reverting,
     LockFree, PendingActions
<1>29. CASE Decide
  BY <1>29, <1>inv DEF Decide, rec, ChangeState, Slept, Served, HasRecorder, Reverting,
     LockFree, PendingActions
<1>30. CASE StartReturns
  BY <1>30, <1>inv DEF StartReturns, state, event, rec, Slept, Served, HasRecorder, Reverting,
     LockFree, PendingActions
<1>31. CASE SpawnReturns
  BY <1>31, <1>inv DEF SpawnReturns, state, event, rec, Slept, Served, HasRecorder, Reverting,
     LockFree, PendingActions
<1>32. CASE StopLiveReturns
  BY <1>32, <1>inv DEF StopLiveReturns, state, event, rec, Slept, Served, HasRecorder,
     Reverting, LockFree, PendingActions
<1>33. CASE SetChannelReturns
  BY <1>33, <1>inv DEF SetChannelReturns, state, event, rec, Slept, Served, HasRecorder,
     Reverting, LockFree, PendingActions
<1>34. CASE RecordPending
  BY <1>34, <1>inv DEF RecordPending, state, event, rec, Served, HasRecorder, Reverting,
     LockFree, PendingActions
<1>35. CASE FinishRecording
  BY <1>35, <1>inv DEF FinishRecording, state, event, rec, Served, HasRecorder, Reverting,
     LockFree, PendingActions
<1>36. CASE StopRecording
  BY <1>36, <1>inv DEF StopRecording, state, event, rec, Served, HasRecorder, Reverting,
     LockFree, PendingActions
<1>37. CASE SpawnLiveTV
  BY <1>37, <1>inv DEF SpawnLiveTV, event, rec, ChangeState, Served, HasRecorder, Reverting,
     LockFree, PendingActions
<1>38. CASE StopLiveTV
  BY <1>38, <1>inv DEF StopLiveTV, event, rec, ChangeState, If, Served, HasRecorder, Reverting,
     LockFree, PendingActions
<1>39. CASE PauseRecorder
  BY <1>39, <1>inv DEF PauseRecorder, state, tuning, Served, HasRecorder, Reverting, LockFree,
     PendingActions
<1>40. CASE Expire
  BY <1>40, <1>inv DEF Expire, state, tuning, rec, Served, HasRecorder, Reverting, LockFree,
     PendingActions
<1>41. CASE \E p \in use.programs : StartRecording(p)
  BY <1>41, <1>inv DEF StartRecording, state, event, rec, Served, HasRecorder, Reverting,
     LockFree, PendingActions
<1>42. CASE \E cancel \in BOOLEAN : CancelNextRecording(cancel)
  BY <1>42, <1>inv DEF CancelNextRecording, state, event, rec, Served, HasRecorder, Reverting,
     LockFree, PendingActions
<1> QED BY <1>fails,
       <1>1, <1>2, <1>3, <1>4, <1>5, <1>6, <1>7, <1>8, <1>9, <1>10, <1>11, <1>12, <1>13,
   <1>14, <1>15, <1>16, <1>17, <1>18, <1>19, <1>20, <1>21, <1>22, <1>23, <1>24, <1>25, <1>26,
      <1>27, <1>28, <1>29, <1>30, <1>31, <1>32, <1>33, <1>34, <1>35, <1>36, <1>37, <1>38,
         <1>39, <1>40, <1>41, <1>42 DEF Next, EventStep, RecorderStep, StopStep, SchedStep,
            FrontStep, Call, Failing, Queues
\* and is served when a request was dealt with.
LEMMA ServedStep ==
  ASSUME "monitor" \notin Failures, CardInv, ServedOK, Next
  PROVE  ServedOK'
<1>inv. /\ TypeOK /\ HeadOK /\ RecorderOK /\ QueueOK /\ QueueTyped
  BY TypeParts DEF CardInv
<1>next. QueueTyped'
  BY TypeStep, TypeParts, PTL DEF CardInv
<1>n. /\ Len(tuningRequests) \in Nat /\ DOMAIN tuningRequests = 1..Len(tuningRequests)
      /\ tuningRequests = <<>> <=> Len(tuningRequests) = 0
      /\ tuningRequests' = <<>> => Len(tuningRequests') = 0
  BY <1>inv, <1>next, Indices, IndicesNext
<1>goal. SUFFICES ASSUME internalState' # "None", tuningRequests' = <<>>
                  PROVE  Served'
  BY DEF ServedOK
<1>appended. ASSUME NEW fs, Appended(fs) PROVE FALSE
  BY <1>n, <1>goal, <1>appended DEF Appended
<1>same. SameFlags => tuningRequests = <<>>
  BY <1>n, <1>goal DEF SameFlags
<1>1. CASE HandleStateChange
  <2>1. Stays
    BY <1>1, <1>inv, <1>appended, StateChangeQueue DEF ToNone, FromNone
  <2>2. tuningRequests = <<>> /\ internalState # "None"
    BY <1>1, <1>goal, <1>same, <2>1 DEF Stays, HandleStateChange
  <2>3. Served
    BY <2>2 DEF ServedOK
  <2>4. ~Reverting
    <3>1. SUFFICES ASSUME Reverting PROVE FALSE
      OBVIOUS
    <3>2. internalState \in {"WatchingLiveTV", "RecordingOnly"} /\ desiredNextState = "None"
      BY <1>inv, <2>2, <3>1 DEF TypeOK, States, Reverting
    <3>3. Allowed(internalState, desiredNextState)
      BY <3>2 DEF Allowed, Transition
    <3> QED BY <2>1, <3>2, <3>3 DEF Stays
  <2>5. UNCHANGED recorder /\ epc = "loop" /\ stateFlags' = stateFlags \ {"CancelNextRecording"}
    BY <1>1 DEF HandleStateChange, rec
  <2> QED BY <2>3, <2>4, <2>5 DEF Served, HasRecorder, PendingActions
<1>2. CASE TuningFails
  <2>1. internalState # "None" /\ epc' = "signal"
    BY <1>2, <1>goal DEF TuningFails
  <2>2. Revert
    BY <1>2, <2>1 DEF TuningFails
  <2> QED BY <2>1, <2>2 DEF Revert, ChangeState, Served, Reverting, LockFree
<1>3. CASE SetChannel
  BY <1>3, <1>inv, <1>appended, SetChannelQueue
<1>4. CASE HandleTuning
  <2>1. /\ Dequeued /\ request = tuningRequests[1] /\ tuningRequests # <<>>
        /\ UNCHANGED <<internalState, recorder>>
    BY <1>4, <1>inv, TuningQueue DEF HandleTuning, state, rec
  <2>2. Len(tuningRequests) = 1
    <3>1. Len(tuningRequests') = Len(tuningRequests) - 1
      BY <2>1 DEF Dequeued
    <3>2. Len(tuningRequests') = 0
      BY <1>n, <1>goal
    <3> QED BY <1>n, <3>1, <3>2
  <2>3. Opens(tuningRequests[1])
    BY <1>inv, <1>goal, <2>1, <2>2 DEF QueueOK
  <2>4. CASE recorder = NULL
    <3>1. epc' = "frequency"
      BY <1>4, <2>1, <2>3, <2>4 DEF HandleTuning, Opens
    <3> QED BY <3>1 DEF Served
  <2>5. CASE recorder # NULL
    BY <2>1, <2>5 DEF Served, HasRecorder
  <2> QED BY <2>4, <2>5
<1>5. CASE ~Queues
  <2>1. tuningRequests = <<>> /\ internalState # "None"
    BY <1>5, <1>inv, <1>goal, <1>same, QueueSteps
  <2> QED BY <1>5, <2>1, ServedStays DEF ServedOK
<1> QED BY <1>1, <1>2, <1>3, <1>4, <1>5 DEF Queues

\* A card does not rest in RecordingOnly or WatchingLiveTV without recording, unless
\* SetupSignalMonitor fails: what else fails reverts the state before the event thread sleeps.
THEOREM CardsAreServed ==
  ASSUME "monitor" \notin Failures
  PROVE  Spec => []CardIsServed
<1>1. Init => ServedOK
  BY DEF Init, ServedOK
<1>2. ASSUME CardInv, ServedOK, [Next]_vars
      PROVE  ServedOK'
  <2>1. CASE UNCHANGED vars
    <3>1. /\ UNCHANGED <<internalState, changeState, desiredNextState, stateFlags>>
          /\ UNCHANGED <<tuningRequests, recorder, epc>>
      BY <2>1 DEF vars, state, tuning, rec
    <3> QED BY <1>2, <3>1 DEF ServedOK, Served, HasRecorder, Reverting, LockFree
  <2> QED BY <1>2, <2>1, ServedStep
<1>3. CardInv /\ ServedOK => CardIsServed
  BY DEF CardInv, ServedOK, Served, HasRecorder, Recorded, Reverting, CardIsServed, Idle,
     LockFree
<1> QED BY <1>1, <1>2, <1>3, CardIsSound, PTL DEF Spec

-----------------------------------------------------------------------------
(* Live TV alone, or a scheduler alone                                     *)

\* What the queue holds.
NoRecording ==
  /\ "Recording" \notin lastTuningRequest.flags
  /\ \A i \in DOMAIN tuningRequests : "Recording" \notin tuningRequests[i].flags
NoneOpens == \A i \in DOMAIN tuningRequests : ~Opens(tuningRequests[i])
AllOpen == \A i \in DOMAIN tuningRequests : Opens(tuningRequests[i])
SomeKills == \E i \in DOMAIN tuningRequests : Kills(tuningRequests[i])

\* A file without a curRecording is about to be closed,
Reverted ==
  /\ internalState # "None" /\ changeState /\ desiredNextState = "None"
  /\ epc \in {"check", "end", "loop"}
FileOK == ringBuffer /\ curRecording = NULL => SomeKills \/ Reverted
Stopping == epc = "stopping" => recorder # NULL

\* Live TV alone: nothing is recorded but what Live TV is kept as,
KeptOnly ==
  changeState /\ desiredNextState = "RecordingOnly" => internalState = "WatchingLiveTV"
\* a frontend that waits has its tvchain,
HasChain == fpc \in {"spawnWait", "stopLiveWait", "detect", "channelWait"} => tvchain
\* and one that has stopped Live TV waits for the state to change.
Leaves ==
  fpc = "stopLiveWait" =>
    /\ internalState = "WatchingLiveTV" => changeState
    /\ changeState => desiredNextState \in {"None", "RecordingOnly"}
\* Without a tvchain there is no Live TV, and what is queued ends it.
Chainless ==
  /\ internalState # "WatchingLiveTV" /\ NoneOpens
  /\ ~(changeState /\ desiredNextState = "WatchingLiveTV")
Closing ==
  tuningRequests # <<>> =>
    /\ epc \notin {"frequency", "recorder", "starting"}
    /\ epc = "signal" => "NeedToStartRecorder" \notin stateFlags
    /\ epc = "pause" => PendingActions \cap stateFlags = {}

LiveOK ==
  /\ spc = "idle" /\ NoRecording /\ KeptOnly /\ HasChain /\ Leaves
  /\ ~tvchain => Chainless /\ Closing

\* A scheduler alone: there is no Live TV,
NoLive ==
  /\ internalState # "WatchingLiveTV" /\ desiredNextState # "WatchingLiveTV"
  /\ ~tvchain /\ nextRecording = NULL
\* nobody stops a recording to start another,
Threads ==
  /\ fpc \in {"idle", "stop", "change", "stopWait"}
  /\ spc \in {"idle", "flush", "decide", "await"}
  /\ spc = "decide" => internalState # "RecordingOnly"
Scheduled == curRecording # NULL => curRecording.program \in use.programs
\* a request is dealt with before the next comes,
OneRequest ==
  tuningRequests # <<>> =>
    epc \in {"tune", "stopping", "finishing", "shut"} /\ Len(tuningRequests) = 1
\* and a recording that starts or goes on has its curRecording, or is reverted.
Begins ==
  changeState /\ desiredNextState = "RecordingOnly" =>
    /\ curRecording # NULL /\ internalState = "None" /\ tuningRequests = <<>>
    /\ spc # "decide"
GoesOn == internalState = "RecordingOnly" => AllOpen /\ (curRecording # NULL \/ Reverted)

SchedOK == NoLive /\ Threads /\ Scheduled /\ OneRequest /\ Begins /\ GoesOn

\* Nobody uses the card for Live TV while it may be scheduled, and no two programs are.
Alone(u) ==
  u.programs = {} \/ ("SpawnLiveTV" \notin u.calls /\ \A p, q \in u.programs : p = q)

ApartInv ==
  /\ RecorderHasRecording /\ FileOK /\ Stopping /\ NoNullDereference
  /\ IF use.programs = {} THEN LiveOK ELSE SchedOK

\* What the queue holds, when the requests ask for the same as before.
LEMMA QueueParts ==
  ASSUME QueueTyped, QueueTyped', SameFlags
  PROVE  /\ tuningRequests' = <<>> <=> tuningRequests = <<>>
         /\ Len(tuningRequests') = Len(tuningRequests)
         /\ NoRecording => NoRecording'
         /\ NoneOpens => NoneOpens'
         /\ AllOpen => AllOpen'
         /\ SomeKills => SomeKills'
<1>n. PICK n \in Nat : n = Len(tuningRequests)
  BY Indices
<1>1. /\ DOMAIN tuningRequests = 1..n /\ DOMAIN tuningRequests' = 1..n
      /\ Len(tuningRequests') = n
      /\ tuningRequests = <<>> <=> n = 0
      /\ tuningRequests' = <<>> <=> n = 0
  BY <1>n, Indices, IndicesNext DEF SameFlags
<1>2. /\ \A i \in 1..n : tuningRequests'[i].flags = tuningRequests[i].flags
      /\ lastTuningRequest'.flags = lastTuningRequest.flags
  BY <1>n DEF SameFlags
<1>3. NoRecording => NoRecording'
  BY <1>1, <1>2 DEF NoRecording
<1>4. /\ NoneOpens => NoneOpens'
      /\ AllOpen => AllOpen'
  BY <1>1, <1>2 DEF NoneOpens, AllOpen, Opens
<1>5. SomeKills => SomeKills'
  BY <1>1, <1>2 DEF SomeKills, Kills
<1> QED BY <1>n, <1>1, <1>3, <1>4, <1>5

\* Live TV alone: the steps that leave the queue alone,
LEMMA LiveStays ==
  ASSUME CardInv, LiveOK, use.programs = {}, Next, ~Queues
  PROVE  LiveOK'
<1>inv. /\ TypeOK /\ RecorderOK /\ QueueTyped /\ QueueTyped'
  BY TypeStep, TypeParts, PTL DEF CardInv
<1>q. /\ tuningRequests' = <<>> <=> tuningRequests = <<>>
      /\ NoRecording' /\ (NoneOpens => NoneOpens') /\ UNCHANGED internalState
  BY <1>inv, QueueSteps, QueueParts DEF LiveOK
<1>1. CASE NoStateChange
  BY <1>1, <1>inv, <1>q DEF NoStateChange, state, tuning, live, rec, sched, front, LiveOK,
     KeptOnly, HasChain, Leaves, Chainless, Closing, PendingActions
<1>2. CASE TuningShutdowns
  BY <1>2, <1>inv, <1>q DEF TuningShutdowns, state, live, rec, sched, front, If, LiveOK,
     KeptOnly, HasChain, Leaves, Chainless, Closing, PendingActions
<1>3. CASE NoRequest
  BY <1>3, <1>inv, <1>q DEF NoRequest, state, tuning, live, rec, sched, front, LiveOK,
     KeptOnly, HasChain, Leaves, Chainless, Closing, PendingActions
<1>4. CASE FinishedRecording
  BY <1>4, <1>inv, <1>q DEF FinishedRecording, state, live, rec, sched, front, LiveOK,
     KeptOnly, HasChain, Leaves, Chainless, Closing, PendingActions
<1>5. CASE RecPause
  BY <1>5, <1>inv, <1>q DEF RecPause, state, live, rec, sched, front, If, LiveOK, KeptOnly,
     HasChain, Leaves, Chainless, Closing, PendingActions
<1>6. CASE TuningSameMultiplex
  BY <1>6, <1>inv, <1>q DEF TuningSameMultiplex, state, live, rec, sched, front, LiveOK,
     KeptOnly, HasChain, Leaves, Chainless, Closing, PendingActions
<1>7. CASE TuningFrequency
  BY <1>7, <1>inv, <1>q DEF TuningFrequency, live, rec, sched, front, Revert, If,
     ChangeState, LiveOK, KeptOnly, HasChain, Leaves, Chainless, Closing, PendingActions
<1>8. CASE TuningSignalCheck
  BY <1>8, <1>inv, <1>q DEF TuningSignalCheck, state, live, rec, sched, front, LiveOK,
     KeptOnly, HasChain, Leaves, Chainless, Closing, PendingActions
<1>9. CASE TuningNewRecorder
  BY <1>9, <1>inv, <1>q DEF TuningNewRecorder, live, sched, front, Revert, If, ChangeState,
     LiveOK, KeptOnly, HasChain, Leaves, Chainless, Closing, PendingActions
<1>10. CASE RecorderStarted
  BY <1>10, <1>inv, <1>q DEF RecorderStarted, state, live, sched, front, LiveOK, KeptOnly,
     HasChain, Leaves, Chainless, Closing, PendingActions
<1>11. CASE TuningRestartRecorder
  BY <1>11, <1>inv, <1>q DEF TuningRestartRecorder, live, sched, front, Revert, If,
     ChangeState, LiveOK, KeptOnly, HasChain, Leaves, Chainless, Closing, PendingActions
<1>12. CASE HandlePendingRecordings
  BY <1>12, <1>inv, <1>q DEF HandlePendingRecordings, state, tuning, rec, sched, front, If,
     GetState, LiveOK, KeptOnly, HasChain, Leaves, Chainless, Closing, PendingActions
<1>13. CASE RecordingEnds
  BY <1>13, <1>inv, <1>q DEF RecordingEnds, live, rec, sched, front, ChangeState, Sleep,
     GetState, LiveOK, KeptOnly, HasChain, Leaves, Chainless, Closing, PendingActions
<1>14. CASE KeptEnds
  BY <1>14, <1>inv, <1>q DEF KeptEnds, state, tuning, rec, sched, front, Sleep, GetState,
     LiveOK, KeptOnly, HasChain, Leaves, Chainless, Closing, PendingActions
<1>15. CASE ProgramEnds
  BY <1>15, <1>inv, <1>q DEF ProgramEnds, live, sched, front, Revert, Sleep, If, ChangeState,
     LiveOK, KeptOnly, HasChain, Leaves, Chainless, Closing, PendingActions
<1>16. CASE NothingEnds
  BY <1>16, <1>inv, <1>q DEF NothingEnds, state, tuning, live, rec, sched, front, Sleep,
     GetState, LiveOK, KeptOnly, HasChain, Leaves, Chainless, Closing, PendingActions
<1>17. CASE Wake
  BY <1>17, <1>inv, <1>q DEF Wake, state, tuning, live, rec, sched, front, LiveOK, KeptOnly,
     HasChain, Leaves, Chainless, Closing, PendingActions
<1>18. CASE StopRecorder
  BY <1>18, <1>inv, <1>q DEF StopRecorder, state, live, sched, front, If, LiveOK, KeptOnly,
     HasChain, Leaves, Chainless, Closing, PendingActions
<1>19. CASE RecorderPaused
  BY <1>19, <1>inv, <1>q DEF RecorderPaused, state, tuning, live, sched, front, LiveOK,
     KeptOnly, HasChain, Leaves, Chainless, Closing, PendingActions
<1>fails. CASE RecorderFails
  BY <1>fails, <1>inv, <1>q DEF RecorderFails, state, tuning, live, sched, front, LiveOK,
     KeptOnly, HasChain, Leaves, Chainless, Closing, PendingActions
<1>20. CASE CheckForRingBufferSwitch
  BY <1>20, <1>inv, <1>q DEF CheckForRingBufferSwitch, state, tuning, live, sched, front,
     LiveOK, KeptOnly, HasChain, Leaves, Chainless, Closing, PendingActions
<1>21. CASE SetRingBuffer
  BY <1>21, <1>inv, <1>q DEF SetRingBuffer, state, live, sched, front, If, LiveOK, KeptOnly,
     HasChain, Leaves, Chainless, Closing, PendingActions
<1>22. CASE RingBufferChanged
  BY <1>22, <1>inv, <1>q DEF RingBufferChanged, state, live, sched, front, LiveOK, KeptOnly,
     HasChain, Leaves, Chainless, Closing, PendingActions
<1>23. CASE StopTest
  BY <1>23, <1>inv, <1>q DEF StopTest, state, live, event, rec, sched, front, Goes, GetState,
     LiveOK, KeptOnly, HasChain, Leaves, Chainless, Closing, PendingActions
<1>24. CASE StopChange
  <2>1. /\ fpc = "change" /\ fpc' = "stopWait" /\ UNCHANGED <<spc, tvchain, epc, stateFlags>>
        /\ desiredNextState' \in {"None", "Error"}
    BY <1>24, <1>inv DEF StopChange, Goes, ChangeState, RemoveRecording, LiveOK, live, event,
       sched
  <2> QED BY <1>q, <2>1 DEF LiveOK, KeptOnly, HasChain, Leaves, Chainless, Closing
<1>25. CASE StopReturns
  BY <1>25, <1>inv, <1>q DEF StopReturns, state, live, event, rec, sched, front, Goes, Slept,
     LiveOK, KeptOnly, HasChain, Leaves, Chainless, Closing, PendingActions
<1>26. CASE UpdateRecording
  BY <1>26, <1>inv, <1>q DEF UpdateRecording, state, live, front, event, rec, Slept, LiveOK,
     KeptOnly, HasChain, Leaves, Chainless, Closing, PendingActions
<1>27. CASE CheckPending
  BY <1>27, <1>inv, <1>q DEF CheckPending, state, live, front, event, rec, Slept, LiveOK,
     KeptOnly, HasChain, Leaves, Chainless, Closing, PendingActions
<1>28. CASE PostRoll
  BY <1>28, <1>inv, <1>q DEF PostRoll, state, live, front, event, rec, Slept, GetState,
     LiveOK, KeptOnly, HasChain, Leaves, Chainless, Closing, PendingActions
<1>29. CASE Decide
  BY <1>29, <1>inv, <1>q DEF Decide, live, rec, front, ChangeState, Slept, GetState, LiveOK,
     KeptOnly, HasChain, Leaves, Chainless, Closing, PendingActions
<1>30. CASE StartReturns
  BY <1>30, <1>inv, <1>q DEF StartReturns, state, live, front, event, rec, Slept, LiveOK,
     KeptOnly, HasChain, Leaves, Chainless, Closing, PendingActions
<1>31. CASE SpawnReturns
  BY <1>31, <1>inv, <1>q DEF SpawnReturns, state, live, sched, event, rec, Slept, LiveOK,
     KeptOnly, HasChain, Leaves, Chainless, Closing, PendingActions
<1>32. CASE StopLiveReturns
  <2>1. /\ fpc = "stopLiveWait" /\ fpc' = "idle" /\ tuningRequests = <<>> /\ ~changeState
        /\ UNCHANGED <<spc, changeState, desiredNextState>>
    BY <1>32 DEF StopLiveReturns, Slept, state, sched
  <2>2. internalState # "WatchingLiveTV"
    BY <2>1 DEF LiveOK, Leaves
  <2>3. NoneOpens
    BY <2>1 DEF NoneOpens
  <2>4. Chainless' /\ Closing'
    BY <1>q, <2>1, <2>2, <2>3 DEF Chainless, Closing
  <2>5. KeptOnly' /\ HasChain' /\ Leaves'
    BY <1>q, <2>1 DEF LiveOK, KeptOnly, HasChain, Leaves
  <2> QED BY <1>q, <2>1, <2>4, <2>5 DEF LiveOK
<1>33. CASE SetChannelReturns
  BY <1>33, <1>inv, <1>q DEF SetChannelReturns, state, live, sched, event, rec, Slept,
     LiveOK, KeptOnly, HasChain, Leaves, Chainless, Closing, PendingActions
<1>34. CASE RecordPending
  BY <1>34, <1>inv, <1>q DEF RecordPending, state, live, sched, front, event, rec, LiveOK,
     KeptOnly, HasChain, Leaves, Chainless, Closing, PendingActions
<1>35. CASE FinishRecording
  BY <1>35, <1>inv, <1>q DEF FinishRecording, state, live, sched, front, event, rec, LiveOK,
     KeptOnly, HasChain, Leaves, Chainless, Closing, PendingActions
<1>36. CASE StopRecording
  BY <1>36, <1>inv, <1>q DEF StopRecording, state, live, sched, event, rec, LiveOK, KeptOnly,
     HasChain, Leaves, Chainless, Closing, PendingActions
<1>37. CASE SpawnLiveTV
  BY <1>37, <1>inv, <1>q DEF SpawnLiveTV, sched, event, rec, ChangeState, LiveOK, KeptOnly,
     HasChain, Leaves, Chainless, Closing, PendingActions
<1>38. CASE StopLiveTV
  BY <1>38, <1>inv, <1>q DEF StopLiveTV, sched, event, rec, ChangeState, LiveOK, KeptOnly,
     HasChain, Leaves, Chainless, Closing, PendingActions
<1>39. CASE PauseRecorder
  BY <1>39, <1>inv, <1>q DEF PauseRecorder, state, tuning, live, sched, LiveOK, KeptOnly,
     HasChain, Leaves, Chainless, Closing, PendingActions
<1>40. CASE Expire
  BY <1>40, <1>inv, <1>q DEF Expire, state, tuning, live, rec, sched, front, LiveOK,
     KeptOnly, HasChain, Leaves, Chainless, Closing, PendingActions
<1>41. CASE \E p \in use.programs : StartRecording(p)
  BY <1>41
<1>42. CASE \E cancel \in BOOLEAN : CancelNextRecording(cancel)
  BY <1>42, <1>inv, <1>q DEF CancelNextRecording, state, live, sched, front, event, rec,
     LiveOK, KeptOnly, HasChain, Leaves, Chainless, Closing, PendingActions
<1> QED BY <1>fails,
       <1>1, <1>2, <1>3, <1>4, <1>5, <1>6, <1>7, <1>8, <1>9, <1>10, <1>11, <1>12, <1>13,
   <1>14, <1>15, <1>16, <1>17, <1>18, <1>19, <1>20, <1>21, <1>22, <1>23, <1>24, <1>25, <1>26,
      <1>27, <1>28, <1>29, <1>30, <1>31, <1>32, <1>33, <1>34, <1>35, <1>36, <1>37, <1>38,
         <1>39, <1>40, <1>41, <1>42 DEF Next, EventStep, RecorderStep, StopStep, SchedStep,
            FrontStep, Call, Failing, Queues

\* and all steps.
LEMMA LiveStep ==
  ASSUME CardInv, LiveOK, use.programs = {}, Next
  PROVE  LiveOK'
<1>inv. /\ TypeOK /\ HeadOK /\ RequestsOK /\ QueueOK /\ QueueTyped /\ QueueTyped'
  BY TypeStep, TypeParts, PTL DEF CardInv
<1>n. PICK n \in Nat : n = Len(tuningRequests)
  BY <1>inv, Indices
<1>dom. /\ DOMAIN tuningRequests = 1..n /\ (tuningRequests = <<>> <=> n = 0)
        /\ DOMAIN tuningRequests' = 1..Len(tuningRequests')
  BY <1>inv, <1>n, Indices, IndicesNext
<1>appended. ASSUME NEW fs, Appended(fs)
             PROVE  /\ "Recording" \notin fs => NoRecording'
                    /\ NoneOpens /\ fs \cap RecFlags = {} => NoneOpens'
  <2>1. DOMAIN tuningRequests' = 1..(n + 1) /\ \A i \in 1..(n + 1) : i \in 1..n \/ i = n + 1
    BY <1>n, <1>dom, <1>appended DEF Appended
  <2>2. /\ \A i \in 1..n : tuningRequests'[i].flags = tuningRequests[i].flags
        /\ tuningRequests'[n + 1].flags = fs
        /\ lastTuningRequest'.flags = lastTuningRequest.flags
    BY <1>n, <1>appended DEF Appended
  <2>3. "Recording" \notin fs => NoRecording'
    BY <1>dom, <2>1, <2>2 DEF LiveOK, NoRecording
  <2>4. NoneOpens /\ fs \cap RecFlags = {} => NoneOpens'
    BY <1>dom, <2>1, <2>2 DEF NoneOpens, Opens
  <2> QED BY <2>3, <2>4
<1>1. CASE HandleStateChange
  <2>1. /\ epc' = "tune" /\ UNCHANGED <<spc, fpc, tvchain>> /\ changeState /\ ~changeState'
        /\ internalState' = IF Allowed(internalState, desiredNextState)
                            THEN desiredNextState ELSE internalState
    BY <1>1 DEF HandleStateChange, Handled, sched, front
  <2>2. KeptOnly' /\ HasChain' /\ Closing'
    BY <2>1 DEF LiveOK, KeptOnly, HasChain, Closing
  <2>3. Leaves'
    <3>1. SUFFICES ASSUME fpc = "stopLiveWait" PROVE internalState' # "WatchingLiveTV"
      BY <2>1 DEF Leaves
    <3>2. desiredNextState \in {"None", "RecordingOnly"}
      BY <2>1, <3>1 DEF LiveOK, Leaves
    <3>3. internalState = "WatchingLiveTV" => Allowed(internalState, desiredNextState)
      BY <3>2 DEF Allowed, Transition
    <3> QED BY <2>1, <3>2, <3>3
  <2>4. NoRecording' /\ (~tvchain => Chainless')
    <3>1. CASE ToNone
      <4>1. PICK fs \in {CloseLiveTV, CloseRecording} : Appended(fs)
        BY <3>1 DEF ToNone
      <4>2. "Recording" \notin fs /\ fs \cap RecFlags = {}
        BY <4>1 DEF CloseLiveTV, CloseRecording, RecFlags
      <4>3. internalState' = "None"
        BY <2>1, <3>1 DEF ToNone
      <4> QED BY <1>appended, <2>1, <4>1, <4>2, <4>3 DEF LiveOK, Chainless
    <3>2. CASE FromNone
      <4>1. desiredNextState = "WatchingLiveTV"
        BY <2>1, <3>2 DEF FromNone, LiveOK, KeptOnly
      <4>2. Appended({"LiveTV"}) /\ tvchain
        BY <2>1, <3>2, <4>1 DEF FromNone, LiveOK, Chainless
      <4> QED BY <1>appended, <4>2
    <3>3. CASE Stays
      <4>1. NoRecording' /\ (NoneOpens => NoneOpens')
        BY <1>inv, <3>3, QueueParts DEF Stays, LiveOK
      <4>2. internalState # "WatchingLiveTV" => internalState' = internalState
        BY <2>1, <3>3 DEF Stays
      <4> QED BY <2>1, <4>1, <4>2 DEF LiveOK, Chainless
    <3> QED BY <1>inv, <1>1, <3>1, <3>2, <3>3, StateChangeQueue
  <2> QED BY <2>1, <2>2, <2>3, <2>4 DEF LiveOK
<1>2. CASE TuningFails
  <2>1. /\ epc = "frequency" /\ epc' = "signal"
        /\ UNCHANGED <<internalState, spc, fpc, tvchain, stateFlags>>
    BY <1>2 DEF TuningFails, live, sched, front
  <2>2. CASE internalState = "None"
    <3>1. Appended({"KillRec"}) /\ UNCHANGED <<changeState, desiredNextState>>
      BY <1>inv, <1>2, <2>2, FailsQueue DEF TuningFails
    <3>2. SomeKills
      BY <1>inv, <1>n, <1>dom, <2>1, <2>2 DEF QueueOK, QuietBefore, Quiet, SomeKills
    <3>3. tuningRequests # <<>>
      BY <1>dom, <3>2 DEF SomeKills
    <3>4. tvchain
      BY <2>1, <3>3 DEF LiveOK, Closing
    <3>5. NoRecording'
      BY <1>appended, <3>1
    <3> QED BY <2>1, <3>1, <3>4, <3>5 DEF LiveOK, KeptOnly, HasChain, Leaves
  <2>3. CASE internalState # "None"
    <3>1. SameFlags /\ desiredNextState' = "None" /\ changeState'
      BY <1>inv, <1>2, <2>3, FailsQueue DEF TuningFails, Revert, ChangeState
    <3>2. /\ tuningRequests' = <<>> <=> tuningRequests = <<>>
          /\ NoRecording' /\ (NoneOpens => NoneOpens')
      BY <1>inv, <3>1, QueueParts DEF LiveOK
    <3>3. ~tvchain => Closing'
      BY <2>1, <3>2 DEF LiveOK, Closing
    <3>4. ~tvchain => Chainless'
      BY <2>1, <3>1, <3>2 DEF LiveOK, Chainless
    <3>5. KeptOnly' /\ HasChain' /\ Leaves'
      BY <2>1, <3>1 DEF LiveOK, KeptOnly, HasChain, Leaves
    <3> QED BY <2>1, <3>2, <3>3, <3>4, <3>5 DEF LiveOK
  <2> QED BY <2>2, <2>3
<1>3. CASE SetChannel
  <2>1. /\ fpc = "detect" /\ fpc' = "channelWait" /\ UNCHANGED <<spc, tvchain>>
        /\ UNCHANGED <<internalState, changeState, desiredNextState>>
    BY <1>3 DEF SetChannel, live, sched, state
  <2>2. tvchain
    BY <2>1 DEF LiveOK, HasChain
  <2> DEFINE fs == lastTuningRequest.flags \cap (RecFlags \cup NoRecFlags)
  <2>3. Appended(fs) /\ "Recording" \notin fs
    BY <1>inv, <1>3, SetChannelQueue DEF LiveOK, NoRecording
  <2> HIDE DEF fs
  <2>4. NoRecording'
    BY <1>appended, <2>3
  <2> QED BY <2>1, <2>2, <2>4 DEF LiveOK, KeptOnly, HasChain, Leaves
<1>4. CASE HandleTuning
  <2>1. /\ Dequeued /\ request = tuningRequests[1] /\ tuningRequests # <<>>
        /\ UNCHANGED <<internalState, changeState, desiredNextState, spc, fpc, tvchain>>
    BY <1>inv, <1>4, TuningQueue DEF HandleTuning, state, sched, front, live
  <2>2. /\ DOMAIN tuningRequests' = 1..(n - 1) /\ 1 \in 1..n
        /\ \A i \in 1..(n - 1) : i + 1 \in 1..n
    BY <1>n, <1>dom, <2>1 DEF Dequeued
  <2>3. /\ \A i \in 1..(n - 1) : tuningRequests'[i].flags = tuningRequests[i + 1].flags
        /\ lastTuningRequest'.flags = tuningRequests[1].flags
    BY <1>n, <2>1 DEF Dequeued
  <2>4. NoRecording'
    BY <1>dom, <2>2, <2>3 DEF LiveOK, NoRecording
  <2>5. NoneOpens => NoneOpens'
    BY <1>dom, <2>2, <2>3 DEF NoneOpens, Opens
  <2>6. NoneOpens => epc' = "pause" /\ PendingActions \cap stateFlags' = {}
    <3>1. SUFFICES ASSUME NoneOpens PROVE epc' = "pause" /\ PendingActions \cap stateFlags' = {}
      OBVIOUS
    <3>2. request.flags \cap RecFlags = {}
      BY <1>dom, <2>1, <2>2, <3>1 DEF NoneOpens, Opens
    <3> QED BY <1>4, <3>2 DEF HandleTuning, If, PendingActions
  <2>7. KeptOnly' /\ HasChain' /\ Leaves'
    BY <2>1 DEF LiveOK, KeptOnly, HasChain, Leaves
  <2>8. ~tvchain => Chainless' /\ Closing'
    BY <2>1, <2>5, <2>6 DEF LiveOK, Chainless, Closing
  <2> QED BY <2>1, <2>4, <2>7, <2>8 DEF LiveOK
<1>5. CASE ~Queues
  BY <1>5, LiveStays
<1> QED BY <1>1, <1>2, <1>3, <1>4, <1>5 DEF Queues

\* In None a card without requests is quiet.
LEMMA QuietNone ==
  ASSUME CardInv, internalState = "None", tuningRequests = <<>>
  PROVE  Quiet
<1>1. QuietBefore(Len(tuningRequests) + 1)
  BY DEF CardInv, QueueOK
<1>2. 1..((Len(tuningRequests) + 1) - 1) = {}
  OBVIOUS
<1> QED BY <1>1, <1>2 DEF QuietBefore

\* A scheduler alone: the steps that leave the queue alone,
LEMMA SchedStays ==
  ASSUME CardInv, SchedOK, Alone(use), use.programs # {}, Next, ~Queues
  PROVE  SchedOK'
<1>inv. /\ TypeOK /\ PcsOK /\ RecorderOK /\ HeadOK /\ RequestsOK /\ QueueTyped /\ QueueTyped'
  BY TypeStep, TypeParts, PTL DEF CardInv
<1>q. /\ tuningRequests' = <<>> <=> tuningRequests = <<>>
      /\ Len(tuningRequests') = Len(tuningRequests)
      /\ AllOpen => AllOpen'
      /\ UNCHANGED <<internalState, use>>
  <2>1. UNCHANGED use
    BY DEF Next, EventStep, RecorderStep, StopStep, SchedStep, FrontStep, Call, Failing
  <2> QED BY <1>inv, <2>1, QueueSteps, QueueParts
<1>quiet. internalState = "None" /\ tuningRequests = <<>> => Quiet
  BY QuietNone
<1>use. "SpawnLiveTV" \notin use.calls /\ \A p, q \in use.programs : p = q
  BY DEF Alone
<1>1. CASE NoStateChange
  BY <1>1, <1>inv, <1>q, <1>quiet, <1>use DEF NoStateChange, state, tuning, live, rec, sched,
     front, SchedOK, NoLive, Threads, Scheduled, OneRequest, Begins, GoesOn, Reverted, Quiet,
        PendingActions
<1>2. CASE TuningShutdowns
  BY <1>2, <1>inv, <1>q, <1>quiet, <1>use DEF TuningShutdowns, state, live, rec, sched,
     front, If, SchedOK, NoLive, Threads, Scheduled, OneRequest, Begins, GoesOn, Reverted,
        Quiet, PendingActions
<1>3. CASE NoRequest
  BY <1>3, <1>inv, <1>q, <1>quiet, <1>use DEF NoRequest, state, tuning, live, rec, sched,
     front, SchedOK, NoLive, Threads, Scheduled, OneRequest, Begins, GoesOn, Reverted, Quiet,
        PendingActions
<1>4. CASE FinishedRecording
  <2>1. /\ epc = "finishing" /\ epc' = "shut" /\ curRecording' = NULL
        /\ UNCHANGED <<changeState, desiredNextState, tvchain, nextRecording, fpc, spc>>
    BY <1>4, <1>inv, FinishedSame DEF FinishedRecording, state, live, rec, sched, front
  <2>2. tuningRequests # <<>> /\ Kills(tuningRequests[1])
    BY <1>inv, <2>1 DEF HeadOK
  <2>3. 1 \in DOMAIN tuningRequests
    BY <1>inv, <2>2, Indices
  <2>4. ~AllOpen
    BY <1>inv, <2>2, <2>3 DEF RequestsOK, AllOpen
  <2>5. internalState # "RecordingOnly" /\ ~(changeState /\ desiredNextState = "RecordingOnly")
    BY <2>2, <2>4 DEF SchedOK, GoesOn, Begins
  <2>6. Len(tuningRequests) = 1
    BY <2>2 DEF SchedOK, OneRequest
  <2> QED BY <1>q, <2>1, <2>5, <2>6 DEF SchedOK, NoLive, Threads, Scheduled, OneRequest,
             Begins, GoesOn
<1>5. CASE RecPause
  BY <1>5, <1>inv, <1>q, <1>quiet, <1>use DEF RecPause, state, live, rec, sched, front, If,
     SchedOK, NoLive, Threads, Scheduled, OneRequest, Begins, GoesOn, Reverted, Quiet,
        PendingActions
<1>6. CASE TuningSameMultiplex
  BY <1>6, <1>inv, <1>q, <1>quiet, <1>use DEF TuningSameMultiplex, state, live, rec, sched,
     front, SchedOK, NoLive, Threads, Scheduled, OneRequest, Begins, GoesOn, Reverted, Quiet,
        PendingActions
<1>7. CASE TuningFrequency
  BY <1>7, <1>inv, <1>q, <1>quiet, <1>use DEF TuningFrequency, live, rec, sched, front,
     Revert, If, ChangeState, SchedOK, NoLive, Threads, Scheduled, OneRequest, Begins,
        GoesOn, Reverted, Quiet, PendingActions
<1>8. CASE TuningSignalCheck
  BY <1>8, <1>inv, <1>q, <1>quiet, <1>use DEF TuningSignalCheck, state, live, rec, sched,
     front, SchedOK, NoLive, Threads, Scheduled, OneRequest, Begins, GoesOn, Reverted, Quiet,
        PendingActions
<1>9. CASE TuningNewRecorder
  <2>1. /\ epc = "recorder" /\ UNCHANGED <<tvchain, nextRecording, fpc, spc>> /\ ~tvchain
    BY <1>9 DEF TuningNewRecorder, live, sched, front, SchedOK, NoLive
  <2>2. tuningRequests = <<>> /\ internalState = "RecordingOnly" /\ curRecording # NULL
    <3>1. tuningRequests = <<>>
      BY <2>1 DEF SchedOK, OneRequest
    <3>2. internalState # "None"
      BY <1>quiet, <2>1, <3>1 DEF Quiet
    <3>3. internalState = "RecordingOnly"
      BY <1>inv, <3>2 DEF TypeOK, States, SchedOK, NoLive
    <3> QED BY <2>1, <3>1, <3>3 DEF SchedOK, GoesOn, Reverted
  <2>3. PICK liveFile \in BOOLEAN, recFile \in BOOLEAN, setup \in BOOLEAN :
          NewRecorder(liveFile, recFile, setup)
    BY <1>9, NewRecorderIs
  <2>4. \/ /\ UNCHANGED <<curRecording, changeState, desiredNextState>>
           /\ epc' = "starting"
        \/ /\ changeState' /\ desiredNextState' = "None" /\ epc' = "check"
           /\ curRecording' \in {NULL, curRecording}
    <3>1. ~Chained(liveFile)
      BY <2>1 DEF Chained
    <3>2. curRecording' = NULL \/ curRecording' = curRecording
      BY <2>3, <3>1 DEF NewRecorder, SetCurRecording
    <3>3. CASE Opened(liveFile, recFile) /\ setup
      BY <2>3, <3>1, <3>3 DEF NewRecorder
    <3>4. CASE ~(Opened(liveFile, recFile) /\ setup)
      BY <2>3, <3>2, <3>4 DEF NewRecorder, Revert, ChangeState
    <3> QED BY <3>3, <3>4
  <2>5. NoLive' /\ Threads' /\ Scheduled' /\ OneRequest'
    BY <1>q, <2>1, <2>2, <2>4 DEF SchedOK, NoLive, Threads, Scheduled, OneRequest
  <2>6. Begins'
    BY <1>q, <2>2, <2>4 DEF SchedOK, Begins
  <2>7. GoesOn'
    BY <1>q, <2>2, <2>4 DEF SchedOK, GoesOn, Reverted
  <2> QED BY <2>5, <2>6, <2>7 DEF SchedOK
<1>10. CASE RecorderStarted
  BY <1>10, <1>inv, <1>q, <1>quiet, <1>use DEF RecorderStarted, state, live, sched, front,
     SchedOK, NoLive, Threads, Scheduled, OneRequest, Begins, GoesOn, Reverted, Quiet,
        PendingActions
<1>11. CASE TuningRestartRecorder
  BY <1>11, <1>inv, <1>q, <1>quiet, <1>use DEF TuningRestartRecorder, live, sched, front,
     Revert, If, ChangeState, SchedOK, NoLive, Threads, Scheduled, OneRequest, Begins,
        GoesOn, Reverted, Quiet, PendingActions
<1>12. CASE HandlePendingRecordings
  BY <1>12, <1>inv, <1>q, <1>quiet, <1>use DEF HandlePendingRecordings, state, tuning, rec,
     sched, front, If, GetState, SchedOK, NoLive, Threads, Scheduled, OneRequest, Begins,
        GoesOn, Reverted, Quiet, PendingActions
<1>13. CASE RecordingEnds
  BY <1>13, <1>inv, <1>q, <1>quiet, <1>use DEF RecordingEnds, live, rec, sched, front,
     ChangeState, Sleep, GetState, SchedOK, NoLive, Threads, Scheduled, OneRequest, Begins,
        GoesOn, Reverted, Quiet, PendingActions
<1>14. CASE KeptEnds
  BY <1>14, <1>inv, <1>q, <1>quiet, <1>use DEF KeptEnds, state, tuning, rec, sched, front,
     Sleep, GetState, SchedOK, NoLive, Threads, Scheduled, OneRequest, Begins, GoesOn,
        Reverted, Quiet, PendingActions
<1>15. CASE ProgramEnds
  BY <1>15, <1>inv, <1>q, <1>quiet, <1>use DEF ProgramEnds, live, sched, front, Revert,
     Sleep, If, ChangeState, SchedOK, NoLive, Threads, Scheduled, OneRequest, Begins, GoesOn,
        Reverted, Quiet, PendingActions
<1>16. CASE NothingEnds
  BY <1>16, <1>inv, <1>q, <1>quiet, <1>use DEF NothingEnds, state, tuning, live, rec, sched,
     front, Sleep, GetState, SchedOK, NoLive, Threads, Scheduled, OneRequest, Begins, GoesOn,
        Reverted, Quiet, PendingActions
<1>17. CASE Wake
  BY <1>17, <1>inv, <1>q, <1>quiet, <1>use DEF Wake, state, tuning, live, rec, sched, front,
     SchedOK, NoLive, Threads, Scheduled, OneRequest, Begins, GoesOn, Reverted, Quiet,
        PendingActions
<1>18. CASE StopRecorder
  BY <1>18, <1>inv, <1>q, <1>quiet, <1>use DEF StopRecorder, state, live, sched, front, If,
     SchedOK, NoLive, Threads, Scheduled, OneRequest, Begins, GoesOn, Reverted, Quiet,
        PendingActions
<1>19. CASE RecorderPaused
  BY <1>19, <1>inv, <1>q, <1>quiet, <1>use DEF RecorderPaused, state, tuning, live, sched,
     front, SchedOK, NoLive, Threads, Scheduled, OneRequest, Begins, GoesOn, Reverted, Quiet,
        PendingActions
<1>fails. CASE RecorderFails
  BY <1>fails, <1>inv, <1>q, <1>quiet, <1>use DEF RecorderFails, state, tuning, live, sched,
     front, SchedOK, NoLive, Threads, Scheduled, OneRequest, Begins, GoesOn, Reverted, Quiet,
        PendingActions
<1>20. CASE CheckForRingBufferSwitch
  BY <1>20, <1>inv, <1>q, <1>quiet, <1>use DEF CheckForRingBufferSwitch, state, tuning, live,
     sched, front, SchedOK, NoLive, Threads, Scheduled, OneRequest, Begins, GoesOn, Reverted,
        Quiet, PendingActions
<1>21. CASE SetRingBuffer
  BY <1>21, <1>inv, <1>q, <1>quiet, <1>use DEF SetRingBuffer, state, live, sched, front, If,
     SchedOK, NoLive, Threads, Scheduled, OneRequest, Begins, GoesOn, Reverted, Quiet,
        PendingActions
<1>22. CASE RingBufferChanged
  <2>1. nextRecording # NULL
    BY <1>22, <1>inv DEF RingBufferChanged, RecorderOK, Switches
  <2> QED BY <2>1 DEF SchedOK, NoLive
<1>23. CASE StopTest
  BY <1>23, <1>inv, <1>q, <1>quiet, <1>use DEF StopTest, state, live, event, rec, sched,
     front, Goes, GetState, SchedOK, NoLive, Threads, Scheduled, OneRequest, Begins, GoesOn,
        Reverted, Quiet, PendingActions
<1>24. CASE StopChange
  <2>1. /\ fpc' = "stopWait" /\ desiredNextState' \in {"None", "Error"}
        /\ epc \notin {"check", "end", "loop"}
        /\ UNCHANGED <<spc, tvchain, nextRecording, curRecording, epc>>
    BY <1>24 DEF StopChange, Goes, ChangeState, RemoveRecording, SchedOK, Threads, live, event,
       rec, sched, LockFree
  <2>2. NoLive' /\ Threads' /\ Scheduled' /\ OneRequest' /\ Begins'
    BY <1>q, <2>1 DEF SchedOK, NoLive, Threads, Scheduled, OneRequest, Begins
  <2>3. GoesOn'
    BY <1>q, <2>1 DEF SchedOK, GoesOn, Reverted
  <2> QED BY <2>2, <2>3 DEF SchedOK
<1>25. CASE StopReturns
  BY <1>25, <1>inv, <1>q, <1>quiet, <1>use DEF StopReturns, state, live, event, rec, sched,
     front, Goes, Slept, LockFree, SchedOK, NoLive, Threads, Scheduled, OneRequest, Begins,
        GoesOn, Reverted, Quiet, PendingActions
<1>26. CASE UpdateRecording
  BY <1>26, <1>inv, <1>q, <1>quiet, <1>use DEF UpdateRecording, state, live, front, event,
     rec, Slept, LockFree, SchedOK, NoLive, Threads, Scheduled, OneRequest, Begins, GoesOn,
        Reverted, Quiet, PendingActions
<1>27. CASE CheckPending
  <2>1. /\ spc = "flush" /\ spc' = "decide" /\ ~Updating /\ ~changeState
        /\ UNCHANGED <<changeState, desiredNextState, tvchain, nextRecording, curRecording>>
        /\ UNCHANGED <<epc, fpc>>
    BY <1>27 DEF CheckPending, Slept, state, live, front, event, rec
  <2>2. internalState # "RecordingOnly"
    <3>1. SUFFICES ASSUME internalState = "RecordingOnly" PROVE FALSE
      OBVIOUS
    <3>2. curRecording # NULL
      BY <2>1, <3>1 DEF SchedOK, GoesOn, Reverted
    <3>3. curRecording.program \in use.programs /\ rcinfo \in use.programs
      BY <1>inv, <2>1, <3>2 DEF SchedOK, Scheduled, PcsOK
    <3>4. curRecording.program = rcinfo
      BY <1>use, <3>3
    <3> QED BY <2>1, <3>1, <3>2, <3>4 DEF Updating
  <2> QED BY <1>q, <2>1, <2>2 DEF SchedOK, NoLive, Threads, Scheduled, OneRequest, Begins,
             GoesOn, Reverted
<1>28. CASE PostRoll
  BY <1>28, <1>inv, <1>q, <1>quiet, <1>use DEF PostRoll, state, live, front, event, rec,
     Slept, LockFree, GetState, SchedOK, NoLive, Threads, Scheduled, OneRequest, Begins,
        GoesOn, Reverted, Quiet, PendingActions
<1>29. CASE Decide
  <2>1. /\ spc = "decide" /\ Slept /\ spc' = "await"
        /\ UNCHANGED <<epc, fpc, nextRecording>>
    BY <1>29 DEF Decide, SchedOK, Threads, rec, front
  <2>2. ~changeState /\ tuningRequests = <<>> /\ GetState = internalState
        /\ epc \notin {"check", "end", "loop"}
    BY <2>1 DEF Slept, GetState, LockFree
  <2>3. CASE UNCHANGED <<curRecording, changeState, desiredNextState, tvchain>>
    BY <1>q, <2>1, <2>2, <2>3 DEF SchedOK, NoLive, Threads, Scheduled, OneRequest, Begins,
       GoesOn, Reverted
  <2>4. CASE /\ GetState = "None" /\ tvchain' = FALSE
             /\ SetCurRecording(NewRecording(rcinfo), "lost") /\ ChangeState("RecordingOnly")
    <3>1. rcinfo \in AllPrograms /\ rcinfo \in use.programs
      BY <1>inv, <2>1, UsePrograms DEF PcsOK
    <3>2. curRecording' = NewRecording(rcinfo)
      BY <2>4 DEF SetCurRecording
    <3>3. curRecording' # NULL /\ curRecording'.program = rcinfo
      BY <3>1, <3>2, NewRecordings
    <3>4. desiredNextState' = "RecordingOnly" /\ internalState = "None"
      BY <2>2, <2>4 DEF ChangeState
    <3>5. NoLive' /\ Threads' /\ Scheduled'
      BY <1>q, <2>1, <2>4, <3>1, <3>3, <3>4 DEF SchedOK, NoLive, Threads, Scheduled
    <3>6. OneRequest' /\ Begins' /\ GoesOn'
      BY <1>q, <2>1, <2>2, <3>3, <3>4 DEF OneRequest, Begins, GoesOn
    <3> QED BY <3>5, <3>6 DEF SchedOK
  <2>5. CASE GetState = "WatchingLiveTV"
    BY <2>2, <2>5 DEF SchedOK, NoLive
  <2> QED BY <1>29, <2>3, <2>4, <2>5 DEF Decide, live
<1>30. CASE StartReturns
  BY <1>30, <1>inv, <1>q, <1>quiet, <1>use DEF StartReturns, state, live, front, event, rec,
     Slept, LockFree, SchedOK, NoLive, Threads, Scheduled, OneRequest, Begins, GoesOn,
        Reverted, Quiet, PendingActions
<1>31. CASE SpawnReturns
  BY <1>31, <1>inv, <1>q, <1>quiet, <1>use DEF SpawnReturns, state, live, sched, event, rec,
     Slept, LockFree, SchedOK, NoLive, Threads, Scheduled, OneRequest, Begins, GoesOn,
        Reverted, Quiet, PendingActions
<1>32. CASE StopLiveReturns
  BY <1>32, <1>inv, <1>q, <1>quiet, <1>use DEF StopLiveReturns, state, sched, event, rec,
     Slept, LockFree, SchedOK, NoLive, Threads, Scheduled, OneRequest, Begins, GoesOn,
        Reverted, Quiet, PendingActions
<1>33. CASE SetChannelReturns
  BY <1>33, <1>inv, <1>q, <1>quiet, <1>use DEF SetChannelReturns, state, live, sched, event,
     rec, Slept, LockFree, SchedOK, NoLive, Threads, Scheduled, OneRequest, Begins, GoesOn,
        Reverted, Quiet, PendingActions
<1>34. CASE RecordPending
  BY <1>34, <1>inv, <1>q, <1>quiet, <1>use DEF RecordPending, state, live, sched, front,
     event, rec, LockFree, SchedOK, NoLive, Threads, Scheduled, OneRequest, Begins, GoesOn,
        Reverted, Quiet, PendingActions
<1>35. CASE FinishRecording
  BY <1>35, <1>inv, <1>q, <1>quiet, <1>use DEF FinishRecording, state, live, sched, front,
     event, rec, LockFree, SchedOK, NoLive, Threads, Scheduled, OneRequest, Begins, GoesOn,
        Reverted, Quiet, PendingActions
<1>36. CASE StopRecording
  BY <1>36, <1>inv, <1>q, <1>quiet, <1>use DEF StopRecording, state, live, sched, event, rec,
     SchedOK, NoLive, Threads, Scheduled, OneRequest, Begins, GoesOn, Reverted, Quiet,
        PendingActions
<1>37. CASE SpawnLiveTV
  BY <1>37, <1>inv, <1>q, <1>quiet, <1>use DEF SpawnLiveTV, sched, event, rec, ChangeState,
     LockFree, SchedOK, NoLive, Threads, Scheduled, OneRequest, Begins, GoesOn, Reverted,
        Quiet, PendingActions
<1>38. CASE StopLiveTV
  BY <1>38, <1>inv, <1>q, <1>quiet, <1>use DEF StopLiveTV, sched, event, rec, ChangeState,
     LockFree, SchedOK, NoLive, Threads, Scheduled, OneRequest, Begins, GoesOn, Reverted,
        Quiet, PendingActions
<1>39. CASE PauseRecorder
  BY <1>39, <1>inv, <1>q, <1>quiet, <1>use DEF PauseRecorder, state, tuning, live, sched,
     LockFree, SchedOK, NoLive, Threads, Scheduled, OneRequest, Begins, GoesOn, Reverted,
        Quiet, PendingActions
<1>40. CASE Expire
  BY <1>40, <1>inv, <1>q, <1>quiet, <1>use DEF Expire, state, tuning, live, rec, sched,
     front, SchedOK, NoLive, Threads, Scheduled, OneRequest, Begins, GoesOn, Reverted, Quiet,
        PendingActions
<1>41. CASE \E p \in use.programs : StartRecording(p)
  BY <1>41, <1>inv, <1>q, <1>quiet, <1>use DEF StartRecording, state, live, front, event,
     rec, LockFree, SchedOK, NoLive, Threads, Scheduled, OneRequest, Begins, GoesOn,
        Reverted, Quiet, PendingActions
<1>42. CASE \E cancel \in BOOLEAN : CancelNextRecording(cancel)
  BY <1>42, <1>inv, <1>q, <1>quiet, <1>use DEF CancelNextRecording, state, live, sched,
     front, event, rec, LockFree, SchedOK, NoLive, Threads, Scheduled, OneRequest, Begins,
        GoesOn, Reverted, Quiet, PendingActions
<1> QED BY <1>fails,
       <1>1, <1>2, <1>3, <1>4, <1>5, <1>6, <1>7, <1>8, <1>9, <1>10, <1>11, <1>12, <1>13,
   <1>14, <1>15, <1>16, <1>17, <1>18, <1>19, <1>20, <1>21, <1>22, <1>23, <1>24, <1>25, <1>26,
      <1>27, <1>28, <1>29, <1>30, <1>31, <1>32, <1>33, <1>34, <1>35, <1>36, <1>37, <1>38,
         <1>39, <1>40, <1>41, <1>42 DEF Next, EventStep, RecorderStep, StopStep, SchedStep,
            FrontStep, Call, Failing, Queues

\* and all steps.
LEMMA SchedOKStep ==
  ASSUME CardInv, SchedOK, Alone(use), use.programs # {}, Next
  PROVE  SchedOK'
<1>inv. /\ TypeOK /\ HeadOK /\ RequestsOK /\ QueueOK /\ QueueTyped /\ QueueTyped'
  BY TypeStep, TypeParts, PTL DEF CardInv
<1>use. UNCHANGED use
  BY DEF Next, EventStep, RecorderStep, StopStep, SchedStep, FrontStep, Call, Failing
<1>n. PICK n \in Nat : n = Len(tuningRequests)
  BY <1>inv, Indices
<1>dom. /\ DOMAIN tuningRequests = 1..n /\ (tuningRequests = <<>> <=> n = 0)
        /\ DOMAIN tuningRequests' = 1..Len(tuningRequests')
  BY <1>inv, <1>n, Indices, IndicesNext
<1>1. CASE HandleStateChange
  <2>1. /\ epc = "loop" /\ epc' = "tune" /\ changeState /\ ~changeState'
        /\ UNCHANGED <<spc, fpc, tvchain, curRecording, nextRecording, desiredNextState>>
        /\ internalState' = IF Allowed(internalState, desiredNextState)
                            THEN desiredNextState ELSE internalState
    BY <1>1 DEF HandleStateChange, Handled, sched, front, rec
  <2>2. tuningRequests = <<>> /\ n = 0
    BY <1>dom, <2>1 DEF SchedOK, OneRequest
  <2>3. CASE ToNone
    <3>1. PICK fs \in {CloseLiveTV, CloseRecording} : Appended(fs)
      BY <2>3 DEF ToNone
    <3>2. Len(tuningRequests') = 1 /\ internalState' = "None"
      BY <1>n, <2>1, <2>2, <2>3, <3>1 DEF Appended, ToNone
    <3> QED BY <1>use, <2>1, <3>2 DEF SchedOK, NoLive, Threads, Scheduled, OneRequest,
               Begins, GoesOn
  <2>4. CASE FromNone
    <3>1. desiredNextState = "RecordingOnly"
      BY <2>4 DEF FromNone, SchedOK, NoLive
    <3>2. curRecording # NULL /\ spc # "decide"
      BY <2>1, <3>1 DEF SchedOK, Begins
    <3>3. Appended({"Recording"})
      BY <2>4, <3>1 DEF FromNone
    <3>4. /\ Len(tuningRequests') = 1 /\ DOMAIN tuningRequests' = 1..1
          /\ tuningRequests'[1].flags = {"Recording"}
      BY <1>n, <1>dom, <2>2, <3>3 DEF Appended
    <3>5. AllOpen'
      BY <3>4 DEF AllOpen, Opens, RecFlags
    <3>6. internalState' = "RecordingOnly"
      BY <2>1, <2>4, <3>1 DEF FromNone
    <3> QED BY <1>use, <2>1, <3>2, <3>4, <3>5, <3>6 DEF SchedOK, NoLive, Threads, Scheduled,
               OneRequest, Begins, GoesOn
  <2>5. CASE Stays
    <3>1. ~Allowed(internalState, desiredNextState) /\ SameFlags
      BY <2>5 DEF Stays, SchedOK, NoLive
    <3>2. ~Reverted
      <4>1. SUFFICES ASSUME Reverted PROVE FALSE
        OBVIOUS
      <4>2. internalState = "RecordingOnly" /\ desiredNextState = "None"
        BY <1>inv, <4>1 DEF Reverted, TypeOK, States, SchedOK, NoLive
      <4> QED BY <3>1, <4>2 DEF Allowed, Transition
    <3>3. /\ tuningRequests' = <<>> <=> tuningRequests = <<>>
          /\ AllOpen => AllOpen'
      BY <1>inv, <3>1, QueueParts
    <3> QED BY <1>use, <2>1, <2>2, <3>1, <3>2, <3>3 DEF SchedOK, NoLive, Threads, Scheduled,
               OneRequest, Begins, GoesOn
  <2> QED BY <1>inv, <1>1, <2>3, <2>4, <2>5, StateChangeQueue
<1>2. CASE TuningFails
  <2>1. /\ epc = "frequency" /\ epc' = "signal"
        /\ UNCHANGED <<internalState, spc, fpc, tvchain, nextRecording>>
        /\ curRecording' = IF curRecording = NULL THEN NULL
                           ELSE [curRecording EXCEPT !.failed = TRUE]
    BY <1>2 DEF TuningFails, live, sched, front, rec
  <2>2. tuningRequests = <<>>
    BY <2>1 DEF SchedOK, OneRequest
  <2>3. internalState = "RecordingOnly"
    <3>1. internalState # "None"
      BY <2>1, <2>2, QuietNone DEF Quiet
    <3> QED BY <1>inv, <3>1 DEF TypeOK, States, SchedOK, NoLive
  <2>4. SameFlags /\ desiredNextState' = "None"
    BY <1>inv, <1>2, <2>3, FailsQueue DEF TuningFails, Revert, ChangeState
  <2>5. tuningRequests' = <<>> /\ (AllOpen => AllOpen')
    BY <1>inv, <2>2, <2>4, QueueParts
  <2>6. curRecording # NULL
    BY <2>1, <2>3 DEF SchedOK, GoesOn, Reverted
  <2>7. curRecording' # NULL /\ curRecording'.program = curRecording.program
    BY <1>inv, <2>1, <2>6, NullAssumption DEF TypeOK, Recordings
  <2> QED BY <1>use, <2>1, <2>3, <2>4, <2>5, <2>6, <2>7 DEF SchedOK, NoLive, Threads,
             Scheduled, OneRequest, Begins, GoesOn
<1>3. CASE SetChannel
  BY <1>3 DEF SetChannel, SchedOK, Threads
<1>4. CASE HandleTuning
  <2>1. /\ Dequeued /\ tuningRequests # <<>> /\ epc = "shut"
        /\ UNCHANGED <<internalState, changeState, desiredNextState, spc, fpc, tvchain>>
        /\ UNCHANGED <<curRecording, nextRecording>>
    BY <1>inv, <1>4, TuningQueue DEF HandleTuning, state, sched, front, live, rec
  <2>2. n = 1
    BY <1>n, <2>1 DEF SchedOK, OneRequest
  <2>3. tuningRequests' = <<>> /\ DOMAIN tuningRequests' = 1..0
    <3>1. Len(tuningRequests') = 0
      BY <1>n, <2>1, <2>2 DEF Dequeued
    <3> QED BY <1>inv, <1>dom, <3>1, IndicesNext
  <2>4. AllOpen'
    BY <2>3 DEF AllOpen
  <2>5. ~Reverted
    BY <2>1 DEF Reverted
  <2> QED BY <1>use, <2>1, <2>3, <2>4, <2>5 DEF SchedOK, NoLive, Threads, Scheduled,
             OneRequest, Begins, GoesOn
<1>5. CASE ~Queues
  BY <1>5, SchedStays
<1> QED BY <1>1, <1>2, <1>3, <1>4, <1>5 DEF Queues

\* A recorder that is started without a tvchain and without a curRecording is no
\* recording's: it gets no file.
LEMMA NotScheduled ==
  ASSUME CardInv, ApartInv, Alone(use), epc = "recorder", ~tvchain, curRecording = NULL
  PROVE  tuningRequests = <<>> /\ "Recording" \notin lastTuningRequest.flags
<1>1. TypeOK
  BY DEF CardInv
<1>2. CASE use.programs = {}
  BY <1>2 DEF ApartInv, LiveOK, Closing, NoRecording
<1>3. CASE use.programs # {}
  <2>1. SchedOK
    BY <1>3 DEF ApartInv
  <2>2. tuningRequests = <<>>
    BY <2>1 DEF SchedOK, OneRequest
  <2>3. internalState # "None"
    BY <2>2, QuietNone DEF Quiet
  <2>4. internalState = "RecordingOnly"
    BY <1>1, <2>1, <2>3 DEF TypeOK, States, SchedOK, NoLive
  <2> QED BY <2>1, <2>4 DEF SchedOK, GoesOn, Reverted
<1> QED BY <1>2, <1>3

\* A recorder keeps its curRecording: no step of any thread takes it away.
LEMMA RecordingStep ==
  ASSUME CardInv, ApartInv, Alone(use), Next
  PROVE  RecorderHasRecording' /\ Stopping' /\ NoNullDereference'
<1>inv. /\ TypeOK /\ RecorderOK /\ HeadOK
        /\ RecorderHasRecording /\ FileOK /\ Stopping /\ NoNullDereference
  BY DEF CardInv, ApartInv
<1>1. CASE HandleStateChange
  BY <1>1, <1>inv DEF HandleStateChange, rec, RecorderHasRecording, Stopping, NoNullDereference
<1>2. CASE NoStateChange
  BY <1>2, <1>inv DEF NoStateChange, rec, RecorderHasRecording, Stopping, NoNullDereference
<1>3. CASE TuningShutdowns
  <2>1. /\ epc = "tune" /\ UNCHANGED <<recorder, curRecording>>
        /\ epc' = "stopping" => "RecorderRunning" \in stateFlags
    BY <1>3 DEF TuningShutdowns, rec
  <2>2. "DummyRecorderRunning" \in stateFlags => curRecording # NULL
    BY <1>inv DEF RecorderOK, Dummy
  <2>3. faults' \subseteq faults \cup {"program deleted"}
    BY <1>3, <2>2 DEF TuningShutdowns, Faults, If
  <2>4. "RecorderRunning" \in stateFlags => recorder # NULL
    BY <1>inv, <2>1 DEF RecorderOK, Told
  <2> QED BY <1>inv, <2>1, <2>3, <2>4 DEF RecorderHasRecording, Stopping, NoNullDereference
<1>4. CASE NoRequest
  BY <1>4, <1>inv DEF NoRequest, rec, RecorderHasRecording, Stopping, NoNullDereference
<1>5. CASE FinishedRecording
  BY <1>5, <1>inv DEF FinishedRecording, rec, HeadOK, RecorderHasRecording, Stopping,
     NoNullDereference
<1>6. CASE HandleTuning
  BY <1>6, <1>inv DEF HandleTuning, rec, If, RecorderHasRecording, Stopping, NoNullDereference
<1>7. CASE RecPause
  <2>1. epc = "pause" /\ epc' # "stopping" /\ UNCHANGED <<recorder, curRecording>>
    BY <1>7 DEF RecPause, rec
  <2>2. "WaitingForRecPause" \in stateFlags => recorder # NULL
    BY <1>inv, <2>1 DEF RecorderOK, Pauses
  <2>3. faults' = faults
    BY <1>7, <2>2 DEF RecPause, Faults, If
  <2> QED BY <1>inv, <2>1, <2>3 DEF RecorderHasRecording, Stopping, NoNullDereference
<1>8. CASE TuningSameMultiplex
  BY <1>8, <1>inv DEF TuningSameMultiplex, rec, RecorderHasRecording, Stopping,
     NoNullDereference
<1>9. CASE TuningFails
  <2>1. curRecording # NULL => curRecording' # NULL
    BY <1>9, <1>inv, NullAssumption DEF TuningFails, TypeOK, Recordings
  <2>2. epc' = "signal" /\ UNCHANGED <<recorder, faults>>
    BY <1>9 DEF TuningFails, rec
  <2> QED BY <1>inv, <2>1, <2>2 DEF RecorderHasRecording, Stopping, NoNullDereference
<1>10. CASE TuningFrequency
  <2>1. curRecording' = curRecording \/ curRecording' # NULL
    BY <1>10, <1>inv, FrequencySame, NewRecordings DEF AllPrograms
  <2>2. /\ epc' = "signal" /\ UNCHANGED recorder
        /\ faults' \subseteq faults \cup {"no tvchain"}
    BY <1>10 DEF TuningFrequency, rec, Faults, If
  <2> QED BY <1>inv, <2>1, <2>2 DEF RecorderHasRecording, Stopping, NoNullDereference
<1>11. CASE TuningSignalCheck
  BY <1>11, <1>inv DEF TuningSignalCheck, rec, RecorderHasRecording, Stopping, NoNullDereference
<1>12. CASE TuningNewRecorder
  <2>1. epc = "recorder" /\ recorder = NULL /\ epc' # "stopping"
    BY <1>12 DEF TuningNewRecorder
  <2>2. "DummyRecorderRunning" \in stateFlags => curRecording # NULL
    BY <1>inv DEF RecorderOK, Dummy
  <2>3. faults' \subseteq faults \cup {"program deleted"}
    BY <1>12, <2>2 DEF TuningNewRecorder, Faults, If
  <2>4. PICK liveFile \in BOOLEAN, recFile \in BOOLEAN, setup \in BOOLEAN :
          NewRecorder(liveFile, recFile, setup)
    BY <1>12, NewRecorderIs
  <2>5. recorder' # NULL => Opened(liveFile, recFile) /\ setup
    BY <2>1, <2>4 DEF NewRecorder
  <2>6. ASSUME Opened(liveFile, recFile), setup PROVE curRecording' # NULL
    <3>1. CASE Chained(liveFile)
      <4>1. curRecording' = NewRecording(LiveProgram)
        BY <2>4, <2>6, <3>1 DEF NewRecorder, ReplaceRecording, SetCurRecording
      <4> QED BY <1>inv, <4>1, LivePrograms, NewRecordings
    <3>2. CASE ~Chained(liveFile)
      <4>1. curRecording' = curRecording /\ ~tvchain
        BY <2>4, <2>6, <3>2 DEF NewRecorder, Opened
      <4>2. SUFFICES ASSUME curRecording = NULL PROVE FALSE
        BY <4>1
      <4>3. tuningRequests = <<>> /\ "Recording" \notin lastTuningRequest.flags
        BY <2>1, <4>1, <4>2, NotScheduled
      <4>4. ringBuffer
        BY <2>6, <3>2, <4>1, <4>3 DEF Opened, Ring, Opening
      <4>5. ~SomeKills /\ ~Reverted
        BY <2>1, <4>3 DEF SomeKills, Reverted
      <4> QED BY <1>inv, <4>2, <4>4, <4>5 DEF FileOK
    <3> QED BY <3>1, <3>2
  <2> QED BY <1>inv, <2>1, <2>3, <2>5, <2>6 DEF RecorderHasRecording, Stopping,
             NoNullDereference
<1>13. CASE RecorderStarted
  <2>1. recorder # NULL /\ epc' = "check" /\ UNCHANGED <<curRecording, faults>>
    BY <1>13, <1>inv, NullRecorder DEF RecorderStarted, RecorderOK, ComesUp
  <2> QED BY <1>inv, <2>1 DEF RecorderHasRecording, Stopping, NoNullDereference
<1>14. CASE TuningRestartRecorder
  <2>1. curRecording' = curRecording \/ curRecording' # NULL
    BY <1>14, <1>inv, RestartSame, LivePrograms, NewRecordings
  <2>2. /\ epc' = "check" /\ recorder # NULL
        /\ faults' \subseteq faults \cup {"no tvchain"}
    <3>1. curRecording # NULL /\ recorder # NULL
      BY <1>14, <1>inv DEF TuningRestartRecorder, RecorderHasRecording
    <3> QED BY <1>14, <3>1 DEF TuningRestartRecorder, Faults, If
  <2> QED BY <1>inv, <2>1, <2>2 DEF RecorderHasRecording, Stopping, NoNullDereference
<1>15. CASE HandlePendingRecordings
  BY <1>15, <1>inv DEF HandlePendingRecordings, rec, If, RecorderHasRecording, Stopping,
     NoNullDereference
<1>16. CASE RecordingEnds
  BY <1>16, <1>inv DEF RecordingEnds, rec, Sleep, RecorderHasRecording, Stopping,
     NoNullDereference
<1>17. CASE KeptEnds
  BY <1>17, <1>inv DEF KeptEnds, rec, Sleep, RecorderHasRecording, Stopping, NoNullDereference
<1>18. CASE ProgramEnds
  BY <1>18, <1>inv DEF ProgramEnds, Sleep, If, RecorderHasRecording, Stopping, NoNullDereference
<1>19. CASE NothingEnds
  BY <1>19, <1>inv DEF NothingEnds, rec, Sleep, RecorderHasRecording, Stopping,
     NoNullDereference
<1>20. CASE Wake
  BY <1>20, <1>inv DEF Wake, rec, RecorderHasRecording, Stopping, NoNullDereference
<1>21. CASE StopRecorder
  BY <1>21, <1>inv, NullRecorder DEF StopRecorder, Faults, If, RecorderHasRecording,
     Stopping, NoNullDereference
<1>22. CASE RecorderPaused
  BY <1>22, <1>inv, NullRecorder DEF RecorderPaused, RecorderHasRecording, Stopping,
     NoNullDereference
<1>fails. CASE RecorderFails
  BY <1>fails, <1>inv, NullRecorder DEF RecorderFails, RecorderHasRecording, Stopping,
     NoNullDereference
<1>23. CASE CheckForRingBufferSwitch
  BY <1>23, <1>inv, NullRecorder DEF CheckForRingBufferSwitch, RecorderHasRecording,
     Stopping, NoNullDereference
<1>24. CASE SetRingBuffer
  BY <1>24, <1>inv, NullRecorder DEF SetRingBuffer, If, RecorderHasRecording, Stopping,
     NoNullDereference
<1>25. CASE RingBufferChanged
  <2>1. nextRecording \in AllPrograms
    BY <1>25, <1>inv DEF TypeOK, RecorderOK, Switches, RingBufferChanged
  <2>2. curRecording' # NULL
    BY <1>25, <1>inv, <2>1, ChangedSame, NewRecordings
  <2>3. recorder' # NULL /\ UNCHANGED <<epc, faults>>
    BY <1>25, NullRecorder DEF RingBufferChanged
  <2> QED BY <1>inv, <2>2, <2>3 DEF RecorderHasRecording, Stopping, NoNullDereference
<1>26. CASE StopTest
  BY <1>26, <1>inv DEF StopTest, event, rec, RecorderHasRecording, Stopping, NoNullDereference
<1>27. CASE StopChange
  BY <1>27, <1>inv DEF StopChange, event, rec, RecorderHasRecording, Stopping, NoNullDereference
<1>28. CASE StopReturns
  BY <1>28, <1>inv DEF StopReturns, event, rec, RecorderHasRecording, Stopping,
     NoNullDereference
<1>29. CASE UpdateRecording
  BY <1>29, <1>inv DEF UpdateRecording, event, rec, RecorderHasRecording, Stopping,
     NoNullDereference
<1>30. CASE CheckPending
  BY <1>30, <1>inv DEF CheckPending, event, rec, RecorderHasRecording, Stopping,
     NoNullDereference
<1>31. CASE PostRoll
  BY <1>31, <1>inv DEF PostRoll, event, rec, RecorderHasRecording, Stopping, NoNullDereference
<1>32. CASE Decide
  <2>1. PcsOK
    BY DEF CardInv
  <2>2. NewRecording(rcinfo) # NULL
    BY <1>32, <1>inv, <2>1, UsePrograms, NewRecordings DEF Decide
  <2>3. curRecording' = curRecording \/ curRecording' # NULL
    BY <1>32, <1>inv, <2>2, DecideSame
  <2>4. UNCHANGED <<recorder, epc, faults>>
    BY <1>32 DEF Decide, rec
  <2> QED BY <1>inv, <2>3, <2>4 DEF RecorderHasRecording, Stopping, NoNullDereference
<1>33. CASE StartReturns
  BY <1>33, <1>inv DEF StartReturns, event, rec, RecorderHasRecording, Stopping,
     NoNullDereference
<1>34. CASE SpawnReturns
  BY <1>34, <1>inv DEF SpawnReturns, event, rec, RecorderHasRecording, Stopping,
     NoNullDereference
<1>35. CASE StopLiveReturns
  BY <1>35, <1>inv DEF StopLiveReturns, event, rec, RecorderHasRecording, Stopping,
     NoNullDereference
<1>36. CASE SetChannel
  BY <1>36, <1>inv DEF SetChannel, rec, RecorderHasRecording, Stopping, NoNullDereference
<1>37. CASE SetChannelReturns
  BY <1>37, <1>inv DEF SetChannelReturns, event, rec, RecorderHasRecording, Stopping,
     NoNullDereference
<1>38. CASE RecordPending
  BY <1>38, <1>inv DEF RecordPending, event, rec, RecorderHasRecording, Stopping,
     NoNullDereference
<1>39. CASE FinishRecording
  BY <1>39, <1>inv DEF FinishRecording, event, rec, RecorderHasRecording, Stopping,
     NoNullDereference
<1>40. CASE StopRecording
  BY <1>40, <1>inv DEF StopRecording, event, rec, RecorderHasRecording, Stopping,
     NoNullDereference
<1>41. CASE SpawnLiveTV
  BY <1>41, <1>inv DEF SpawnLiveTV, event, rec, RecorderHasRecording, Stopping,
     NoNullDereference
<1>42. CASE StopLiveTV
  BY <1>42, <1>inv DEF StopLiveTV, event, rec, RecorderHasRecording, Stopping, NoNullDereference
<1>43. CASE PauseRecorder
  BY <1>43, <1>inv DEF PauseRecorder, RecorderHasRecording, Stopping, NoNullDereference
<1>44. CASE Expire
  BY <1>44, <1>inv DEF Expire, rec, RecorderHasRecording, Stopping, NoNullDereference
<1>45. CASE \E p \in use.programs : StartRecording(p)
  BY <1>45, <1>inv DEF StartRecording, event, rec, RecorderHasRecording, Stopping,
     NoNullDereference
<1>46. CASE \E cancel \in BOOLEAN : CancelNextRecording(cancel)
  BY <1>46, <1>inv DEF CancelNextRecording, event, rec, RecorderHasRecording, Stopping,
     NoNullDereference
<1> QED BY <1>fails,
       <1>1, <1>2, <1>3, <1>4, <1>5, <1>6, <1>7, <1>8, <1>9, <1>10, <1>11, <1>12, <1>13,
   <1>14, <1>15, <1>16, <1>17, <1>18, <1>19, <1>20, <1>21, <1>22, <1>23, <1>24, <1>25, <1>26,
      <1>27, <1>28, <1>29, <1>30, <1>31, <1>32, <1>33, <1>34, <1>35, <1>36, <1>37, <1>38,
         <1>39, <1>40, <1>41, <1>42, <1>43, <1>44, <1>45, <1>46 DEF Next, EventStep,
            RecorderStep, StopStep, SchedStep, FrontStep, Call, Failing

\* A file without a curRecording is on its way to be closed.
LEMMA FileStays ==
  ASSUME CardInv, ApartInv, Alone(use), Next, ~Queues
  PROVE  FileOK'
<1>inv. /\ TypeOK /\ RecorderOK /\ HeadOK /\ RequestsOK /\ QueueOK /\ FileOK
        /\ QueueTyped /\ QueueTyped'
  BY TypeStep, TypeParts, PTL DEF CardInv, ApartInv
<1>q. (SomeKills => SomeKills') /\ UNCHANGED internalState
  BY <1>inv, QueueSteps, QueueParts
<1>1. CASE NoStateChange
  BY <1>1, <1>inv, <1>q DEF NoStateChange, state, tuning, live, rec, FileOK, Reverted
<1>2. CASE TuningShutdowns
  BY <1>2, <1>inv, <1>q DEF TuningShutdowns, state, live, rec, If, FileOK, Reverted
<1>3. CASE NoRequest
  BY <1>3, <1>inv, <1>q DEF NoRequest, state, tuning, live, rec, FileOK, Reverted
<1>4. CASE FinishedRecording
  <2>1. tuningRequests # <<>> /\ Kills(tuningRequests[1])
    BY <1>4, <1>inv DEF FinishedRecording, HeadOK
  <2>2. SomeKills
    BY <1>inv, <2>1, Indices DEF SomeKills
  <2> QED BY <1>q, <2>2 DEF FileOK
<1>5. CASE RecPause
  BY <1>5, <1>inv, <1>q DEF RecPause, state, live, rec, If, FileOK, Reverted
<1>6. CASE TuningSameMultiplex
  BY <1>6, <1>inv, <1>q DEF TuningSameMultiplex, state, live, rec, FileOK, Reverted
<1>7. CASE TuningFrequency
  <2>1. CASE NewLiveFile(LiveTV)
    <3>1. curRecording' = NewRecording(LiveTV)
      BY <2>1 DEF NewLiveFile, ReplaceRecording, SetCurRecording
    <3>2. curRecording' # NULL
      BY <3>1, NewRecordings DEF AllPrograms
    <3> QED BY <3>2 DEF FileOK
  <2>2. CASE UNCHANGED <<curRecording, ringBuffer>>
    <3>1. ~Reverted
      BY <1>7 DEF TuningFrequency, Reverted
    <3> QED BY <1>inv, <1>q, <2>2, <3>1 DEF FileOK
  <2> QED BY <1>7, <2>1, <2>2 DEF TuningFrequency
<1>8. CASE TuningSignalCheck
  BY <1>8, <1>inv, <1>q DEF TuningSignalCheck, state, live, rec, FileOK, Reverted
<1>9. CASE TuningNewRecorder
  <2>1. epc = "recorder" /\ ~Reverted
    BY <1>9 DEF TuningNewRecorder, Reverted
  <2>2. PICK liveFile \in BOOLEAN, recFile \in BOOLEAN, setup \in BOOLEAN :
          NewRecorder(liveFile, recFile, setup)
    BY <1>9, NewRecorderIs
  <2>3. CASE Opened(liveFile, recFile) /\ ~setup
    <3>1. epc' = "check" /\ changeState' /\ desiredNextState' = "None"
      BY <2>2, <2>3 DEF NewRecorder, Revert, ChangeState
    <3>2. CASE internalState = "None"
      <4>1. QuietBefore(Len(tuningRequests) + 1) /\ ~Quiet
        BY <1>inv, <2>1, <3>2 DEF QueueOK, Quiet
      <4>2. /\ Len(tuningRequests) \in Nat /\ (Len(tuningRequests) + 1) - 1 = Len(tuningRequests)
            /\ DOMAIN tuningRequests = 1..Len(tuningRequests)
        BY <1>inv, Indices
      <4>3. SomeKills
        BY <4>1, <4>2 DEF QuietBefore, SomeKills
      <4> QED BY <1>q, <4>3 DEF FileOK
    <3>3. CASE internalState # "None"
      BY <1>q, <3>1, <3>3 DEF FileOK, Reverted
    <3> QED BY <3>2, <3>3
  <2>4. CASE ~(Opened(liveFile, recFile) /\ ~setup) /\ Chained(liveFile)
    <3>1. curRecording' = NewRecording(LiveProgram)
      BY <2>2, <2>4 DEF NewRecorder, ReplaceRecording, SetCurRecording
    <3>2. curRecording' # NULL
      BY <1>inv, <3>1, LivePrograms, NewRecordings
    <3> QED BY <3>2 DEF FileOK
  <2>5. CASE ~(Opened(liveFile, recFile) /\ ~setup) /\ ~Chained(liveFile)
    <3>1. UNCHANGED curRecording /\ ringBuffer' = Ring(liveFile, recFile)
      BY <2>2, <2>5 DEF NewRecorder
    <3>2. SUFFICES ASSUME curRecording = NULL, ringBuffer' PROVE SomeKills'
      BY <3>1 DEF FileOK
    <3>3. ringBuffer
      <4>1. CASE tvchain
        <5>1. ~liveFile /\ ~Opening(liveFile)
          BY <2>5, <4>1 DEF Chained, Opening
        <5>2. Ring(liveFile, recFile) = ringBuffer
          BY <4>1, <5>1 DEF Ring
        <5> QED BY <3>1, <3>2, <5>2
      <4>2. CASE ~tvchain
        <5>1. "Recording" \notin lastTuningRequest.flags
          BY <2>1, <3>2, <4>2, NotScheduled
        <5> QED BY <2>5, <3>1, <3>2, <4>2, <5>1 DEF Ring, Opening, Chained
      <4> QED BY <4>1, <4>2
    <3> QED BY <1>inv, <1>q, <2>1, <3>2, <3>3 DEF FileOK
  <2> QED BY <2>3, <2>4, <2>5
<1>10. CASE RecorderStarted
  BY <1>10, <1>inv, <1>q DEF RecorderStarted, state, live, FileOK, Reverted
<1>11. CASE TuningRestartRecorder
  <2>1. CASE NewLiveFile(LiveProgram)
    <3>1. curRecording' = NewRecording(LiveProgram)
      BY <2>1 DEF NewLiveFile, ReplaceRecording, SetCurRecording
    <3>2. curRecording' # NULL
      BY <1>inv, <3>1, LivePrograms, NewRecordings
    <3> QED BY <3>2 DEF FileOK
  <2>2. CASE UNCHANGED <<curRecording, ringBuffer>>
    <3>1. ~Reverted
      BY <1>11 DEF TuningRestartRecorder, Reverted
    <3> QED BY <1>inv, <1>q, <2>2, <3>1 DEF FileOK
  <2> QED BY <1>11, <2>1, <2>2 DEF TuningRestartRecorder
<1>12. CASE HandlePendingRecordings
  BY <1>12, <1>inv, <1>q DEF HandlePendingRecordings, state, tuning, rec, If, GetState,
     FileOK, Reverted
<1>13. CASE RecordingEnds
  BY <1>13, <1>inv, <1>q DEF RecordingEnds, live, rec, ChangeState, Sleep, GetState, FileOK,
     Reverted
<1>14. CASE KeptEnds
  BY <1>14, <1>inv, <1>q DEF KeptEnds, state, tuning, rec, Sleep, GetState, FileOK, Reverted
<1>15. CASE ProgramEnds
  BY <1>15, <1>inv, <1>q DEF ProgramEnds, live, Revert, Sleep, If, ChangeState, FileOK, Reverted
<1>16. CASE NothingEnds
  BY <1>16, <1>inv, <1>q DEF NothingEnds, state, tuning, live, rec, Sleep, GetState, FileOK,
     Reverted
<1>17. CASE Wake
  BY <1>17, <1>inv, <1>q DEF Wake, state, tuning, live, rec, FileOK, Reverted
<1>18. CASE StopRecorder
  BY <1>18, <1>inv, <1>q DEF StopRecorder, state, live, If, FileOK, Reverted
<1>19. CASE RecorderPaused
  BY <1>19, <1>inv, <1>q DEF RecorderPaused, state, tuning, live, FileOK, Reverted
<1>fails. CASE RecorderFails
  BY <1>fails, <1>inv, <1>q DEF RecorderFails, state, tuning, live, FileOK, Reverted
<1>20. CASE CheckForRingBufferSwitch
  BY <1>20, <1>inv, <1>q DEF CheckForRingBufferSwitch, state, tuning, live, FileOK, Reverted
<1>21. CASE SetRingBuffer
  <2>1. ringBuffer /\ UNCHANGED <<curRecording, changeState, desiredNextState, epc>>
    BY <1>21, <1>inv, NullRecorder DEF SetRingBuffer, RecorderOK, HasFile, state
  <2> QED BY <1>inv, <1>q, <2>1 DEF FileOK, Reverted
<1>22. CASE RingBufferChanged
  <2>1. nextRecording \in AllPrograms
    BY <1>22, <1>inv DEF TypeOK, RecorderOK, Switches, RingBufferChanged
  <2>2. curRecording' # NULL
    BY <1>22, <1>inv, <2>1, ChangedSame, NewRecordings
  <2> QED BY <2>2 DEF FileOK
<1>23. CASE StopTest
  BY <1>23, <1>inv, <1>q DEF StopTest, event, rec, state, GetState, FileOK, Reverted
<1>24. CASE StopChange
  BY <1>24, <1>inv, <1>q DEF StopChange, event, rec, state, ChangeState, LockFree, GetState,
     FileOK, Reverted
<1>25. CASE StopReturns
  BY <1>25, <1>inv, <1>q DEF StopReturns, event, rec, state, Slept, LockFree, FileOK, Reverted
<1>26. CASE UpdateRecording
  BY <1>26, <1>inv, <1>q DEF UpdateRecording, state, live, event, rec, Slept, LockFree,
     FileOK, Reverted
<1>27. CASE CheckPending
  BY <1>27, <1>inv, <1>q DEF CheckPending, state, live, event, rec, Slept, LockFree, FileOK,
     Reverted
<1>28. CASE PostRoll
  BY <1>28, <1>inv, <1>q DEF PostRoll, state, live, event, rec, Slept, LockFree, GetState,
     FileOK, Reverted
<1>29. CASE Decide
  <2>1. CASE SetCurRecording(NewRecording(rcinfo), "lost")
    <3>1. curRecording' = NewRecording(rcinfo)
      BY <2>1 DEF SetCurRecording
    <3>2. PcsOK
      BY DEF CardInv
    <3>3. curRecording' # NULL
      BY <1>29, <1>inv, <3>1, <3>2, UsePrograms, NewRecordings DEF Decide
    <3> QED BY <3>3 DEF FileOK
  <2>2. CASE UNCHANGED curRecording
    <3>1. ~Reverted /\ UNCHANGED ringBuffer
      BY <1>29 DEF Decide, Slept, LockFree, Reverted
    <3> QED BY <1>inv, <1>q, <2>2, <3>1 DEF FileOK
  <2> QED BY <1>29, <2>1, <2>2 DEF Decide
<1>30. CASE StartReturns
  BY <1>30, <1>inv, <1>q DEF StartReturns, state, live, event, rec, Slept, LockFree, FileOK,
     Reverted
<1>31. CASE SpawnReturns
  BY <1>31, <1>inv, <1>q DEF SpawnReturns, state, live, event, rec, Slept, LockFree, FileOK,
     Reverted
<1>32. CASE StopLiveReturns
  BY <1>32, <1>inv, <1>q DEF StopLiveReturns, state, event, rec, Slept, LockFree, FileOK,
     Reverted
<1>33. CASE SetChannelReturns
  BY <1>33, <1>inv, <1>q DEF SetChannelReturns, state, live, event, rec, Slept, LockFree,
     FileOK, Reverted
<1>34. CASE RecordPending
  BY <1>34, <1>inv, <1>q DEF RecordPending, state, live, event, rec, LockFree, FileOK, Reverted
<1>35. CASE FinishRecording
  BY <1>35, <1>inv, <1>q DEF FinishRecording, state, live, event, rec, LockFree, FileOK,
     Reverted
<1>36. CASE StopRecording
  BY <1>36, <1>inv, <1>q DEF StopRecording, state, live, event, rec, FileOK, Reverted
<1>37. CASE SpawnLiveTV
  BY <1>37, <1>inv, <1>q DEF SpawnLiveTV, event, rec, ChangeState, LockFree, FileOK, Reverted
<1>38. CASE StopLiveTV
  BY <1>38, <1>inv, <1>q DEF StopLiveTV, event, rec, ChangeState, LockFree, FileOK, Reverted
<1>39. CASE PauseRecorder
  BY <1>39, <1>inv, <1>q DEF PauseRecorder, state, tuning, live, LockFree, FileOK, Reverted
<1>40. CASE Expire
  BY <1>40, <1>inv, <1>q DEF Expire, state, tuning, live, rec, FileOK, Reverted
<1>41. CASE \E p \in use.programs : StartRecording(p)
  BY <1>41, <1>inv, <1>q DEF StartRecording, state, live, event, rec, LockFree, FileOK, Reverted
<1>42. CASE \E cancel \in BOOLEAN : CancelNextRecording(cancel)
  BY <1>42, <1>inv, <1>q DEF CancelNextRecording, state, live, event, rec, LockFree, FileOK,
     Reverted
<1> QED BY <1>fails,
       <1>1, <1>2, <1>3, <1>4, <1>5, <1>6, <1>7, <1>8, <1>9, <1>10, <1>11, <1>12, <1>13,
   <1>14, <1>15, <1>16, <1>17, <1>18, <1>19, <1>20, <1>21, <1>22, <1>23, <1>24, <1>25, <1>26,
      <1>27, <1>28, <1>29, <1>30, <1>31, <1>32, <1>33, <1>34, <1>35, <1>36, <1>37, <1>38,
         <1>39, <1>40, <1>41, <1>42 DEF Next, EventStep, RecorderStep, StopStep, SchedStep,
            FrontStep, Call, Failing, Queues

\* A file without a curRecording is closed, whoever uses the card.
LEMMA FileStep ==
  ASSUME CardInv, ApartInv, Alone(use), Next
  PROVE  FileOK'
<1>inv. /\ TypeOK /\ HeadOK /\ RequestsOK /\ QueueOK /\ FileOK /\ QueueTyped /\ QueueTyped'
  BY TypeStep, TypeParts, PTL DEF CardInv, ApartInv
<1>n. PICK n \in Nat : n = Len(tuningRequests)
  BY <1>inv, Indices
<1>dom. /\ DOMAIN tuningRequests = 1..n /\ (tuningRequests = <<>> <=> n = 0)
        /\ DOMAIN tuningRequests' = 1..Len(tuningRequests')
  BY <1>inv, <1>n, Indices, IndicesNext
<1>appended. ASSUME NEW fs, Appended(fs)
             PROVE  SomeKills \/ "KillRingBuffer" \in fs => SomeKills'
  <2>1. /\ DOMAIN tuningRequests' = 1..(n + 1) /\ n + 1 \in 1..(n + 1)
        /\ \A i \in 1..n : i \in 1..(n + 1)
    BY <1>n, <1>dom, <1>appended DEF Appended
  <2>2. /\ \A i \in 1..n : tuningRequests'[i].flags = tuningRequests[i].flags
        /\ tuningRequests'[n + 1].flags = fs
    BY <1>n, <1>appended DEF Appended
  <2> QED BY <1>dom, <2>1, <2>2 DEF SomeKills, Kills
<1>1. CASE HandleStateChange
  <2>1. UNCHANGED <<ringBuffer, curRecording>>
    BY <1>1 DEF HandleStateChange
  <2>2. SUFFICES ASSUME SomeKills \/ Reverted PROVE SomeKills'
    BY <1>inv, <2>1 DEF FileOK
  <2>3. CASE ToNone
    <3>1. PICK fs \in {CloseLiveTV, CloseRecording} : Appended(fs)
      BY <2>3 DEF ToNone
    <3>2. "KillRingBuffer" \in fs
      BY <3>1 DEF CloseLiveTV, CloseRecording
    <3> QED BY <1>appended, <3>1, <3>2
  <2>4. CASE FromNone
    <3>1. ~Reverted
      BY <2>4 DEF FromNone, Reverted
    <3>2. PICK fs \in {{"Recording"}, {"LiveTV"}} : Appended(fs)
      BY <2>4 DEF FromNone
    <3> QED BY <1>appended, <2>2, <3>1, <3>2
  <2>5. CASE Stays
    <3>1. ~Reverted
      <4>1. SUFFICES ASSUME Reverted PROVE FALSE
        OBVIOUS
      <4>2. internalState \in {"RecordingOnly", "WatchingLiveTV"} /\ desiredNextState = "None"
        BY <1>inv, <4>1 DEF Reverted, TypeOK, States
      <4>3. Allowed(internalState, desiredNextState)
        BY <4>2 DEF Allowed, Transition
      <4> QED BY <2>5, <4>2, <4>3 DEF Stays
    <3>2. SomeKills => SomeKills'
      BY <1>inv, <2>5, QueueParts DEF Stays
    <3> QED BY <2>2, <3>1, <3>2
  <2> QED BY <1>inv, <1>1, <2>3, <2>4, <2>5, StateChangeQueue
<1>2. CASE TuningFails
  <2>1. ~Reverted /\ UNCHANGED ringBuffer /\ (curRecording' = NULL => curRecording = NULL)
    BY <1>2, <1>inv, NullAssumption DEF TuningFails, Reverted, TypeOK, Recordings
  <2>2. SomeKills => SomeKills'
    BY <1>inv, <1>2, <1>appended, FailsQueue, QueueParts
  <2> QED BY <1>inv, <2>1, <2>2 DEF FileOK
<1>3. CASE SetChannel
  <2>1. ~Reverted /\ UNCHANGED <<ringBuffer, curRecording>> /\ ~SomeKills
    <3>1. tuningRequests = <<>>
      BY <1>inv, <1>3, SetChannelQueue
    <3> QED BY <1>3, <3>1 DEF SetChannel, Slept, LockFree, Reverted, SomeKills
  <2> QED BY <1>inv, <2>1 DEF FileOK
<1>4. CASE HandleTuning
  <2>1. Dequeued /\ request = tuningRequests[1] /\ tuningRequests # <<>>
    BY <1>inv, <1>4, TuningQueue
  <2>2. /\ UNCHANGED curRecording /\ ~Reverted
        /\ ringBuffer' => ringBuffer
    BY <1>4 DEF HandleTuning, Reverted
  <2>3. Kills(tuningRequests[1]) => ~ringBuffer'
    BY <1>4, <2>1 DEF HandleTuning, Kills
  <2>4. SUFFICES ASSUME ringBuffer', SomeKills PROVE SomeKills'
    BY <1>inv, <2>2 DEF FileOK
  <2>5. PICK i \in 1..n : Kills(tuningRequests[i])
    BY <1>dom, <2>4 DEF SomeKills
  <2>6. i # 1
    BY <2>3, <2>4, <2>5
  <2>7. i - 1 \in 1..(n - 1) /\ (i - 1) + 1 = i
    BY <2>5, <2>6
  <2>8. tuningRequests'[i - 1].flags = tuningRequests[i].flags
    BY <1>n, <2>1, <2>7 DEF Dequeued
  <2>9. i - 1 \in DOMAIN tuningRequests'
    BY <1>n, <1>dom, <2>1, <2>7 DEF Dequeued
  <2> QED BY <2>5, <2>8, <2>9 DEF SomeKills, Kills
<1>5. CASE ~Queues
  BY <1>5, FileStays
<1> QED BY <1>1, <1>2, <1>3, <1>4, <1>5 DEF Queues

\* The facts that make ApartInv an invariant when users are apart.
LEMMA ApartInit ==
  ASSUME Init
  PROVE  ApartInv
<1>1. RecorderHasRecording /\ FileOK /\ Stopping /\ NoNullDereference
  BY DEF Init, RecorderHasRecording, FileOK, Stopping, NoNullDereference
<1>2. DOMAIN tuningRequests = {} /\ tuningRequests = <<>>
  BY DEF Init
<1>3. LiveOK
  BY <1>2 DEF Init, LiveOK, NoRecording, KeptOnly, HasChain, Leaves, Chainless, NoneOpens,
     Closing
<1>4. SchedOK
  BY <1>2 DEF Init, SchedOK, NoLive, Threads, Scheduled, OneRequest, Begins, GoesOn
<1> QED BY <1>1, <1>3, <1>4 DEF ApartInv

\* Each step keeps it, and the use.
LEMMA ApartStep ==
  ASSUME CardInv, ApartInv, Alone(use), [Next]_vars
  PROVE  ApartInv' /\ Alone(use)'
<1>1. CASE Next
  <2>1. UNCHANGED use
    BY <1>1 DEF Next, EventStep, RecorderStep, StopStep, SchedStep, FrontStep, Call, Failing
  <2>2. CASE use.programs = {}
    <3>1. LiveOK'
      BY <1>1, <2>2, LiveStep DEF ApartInv
    <3> QED BY <1>1, <2>1, <2>2, <3>1, RecordingStep, FileStep DEF ApartInv, Alone
  <2>3. CASE use.programs # {}
    <3>1. SchedOK'
      BY <1>1, <2>3, SchedOKStep DEF ApartInv
    <3> QED BY <1>1, <2>1, <2>3, <3>1, RecordingStep, FileStep DEF ApartInv, Alone
  <2> QED BY <2>2, <2>3
<1>2. CASE UNCHANGED vars
  <2>1. /\ UNCHANGED <<internalState, changeState, desiredNextState, stateFlags, tuningRequests>>
        /\ UNCHANGED <<lastTuningRequest, curRecording, tvchain, ringBuffer, recorder>>
        /\ UNCHANGED <<nextRecording, epc, spc, fpc, use, faults>>
    BY <1>2 DEF vars, state, tuning, live, rec, sched, front
  <2>2. (RecorderHasRecording /\ FileOK /\ Stopping /\ NoNullDereference)'
    BY <2>1 DEF ApartInv, RecorderHasRecording, FileOK, SomeKills, Kills, Reverted, Stopping,
       NoNullDereference
  <2>3. LiveOK => LiveOK'
    BY <2>1 DEF LiveOK, NoRecording, KeptOnly, HasChain, Leaves, Chainless, NoneOpens, Opens,
       Closing
  <2>4. SchedOK => SchedOK'
    BY <2>1 DEF SchedOK, NoLive, Threads, Scheduled, OneRequest, Begins, GoesOn, AllOpen,
       Opens, Reverted
  <2> QED BY <2>1, <2>2, <2>3, <2>4 DEF ApartInv, Alone
<1> QED BY <1>1, <1>2

\* It holds always.
LEMMA ApartAlways ==
  ASSUME \A u \in Uses : Alone(u)
  PROVE  Spec => []ApartInv
<1>1. Init => ApartInv /\ Alone(use)
  BY ApartInit DEF Init
<1>2. CardInv /\ ApartInv /\ Alone(use) /\ [Next]_vars => ApartInv' /\ Alone(use)'
  BY ApartStep
<1> QED BY <1>1, <1>2, CardIsSound, PTL DEF Spec

\* On a card that serves Live TV alone, or one scheduled program at a time, a recorder always
\* has its curRecording: through channel changes, ends of programs, switches of the file,
\* failures of each kind, and a stop at any time.
THEOREM RecordersHaveRecordings ==
  ASSUME \A u \in Uses : Alone(u)
  PROVE  Spec => []RecorderHasRecording
<1>1. ApartInv => RecorderHasRecording
  BY DEF ApartInv
<1> QED BY <1>1, ApartAlways, PTL

\* There the event thread never dereferences a NULL recorder or a NULL curRecording.
THEOREM NothingNullIsDereferenced ==
  ASSUME \A u \in Uses : Alone(u)
  PROVE  Spec => []NoNullDereference
<1>1. ApartInv => NoNullDereference
  BY DEF ApartInv
<1> QED BY <1>1, ApartAlways, PTL
=============================================================================
