# A TLA+ development for the MythTV recording path

MythTV is a digital video recorder: *backends* own capture cards, schedule and
make recordings and serve them; *frontends* play them. This directory models
the parts of it that must not fail while nobody watches: the path from a capture
device to a file on disk, the state machine that starts and stops it, the
queue of jobs that are done to the file afterwards, and the buffer through which
a player reads it. Each module is translated from the C++ sources; `PROJECT.json` names, for every
definition, the lines it stands for.

## 1. Inventory

Paths are below `mythtv/`.

| component | state it keeps | operations | threads, and what is hard | what makes it correct |
|---|---|---|---|---|
| **ThreadedFileWriter** (`libs/libmythtv/ThreadedFileWriter.cpp`) | ring `buf`/`rpos`/`wpos`, flags `flush`, `no_writes`, `in_dtor`, `ignore_writes`, the file | `Write`, `Seek`, `Flush`, `Sync`, `SetWriteBufferSize`, destructor | the recorder writes and seeks, TVRec flushes, resizes and deletes, `DiskLoop` and `SyncLoop` write and sync; copies are made without the lock; the disk writes partially, fails, fills up | the file is what was written, in order and in place; Flush and the destructor commit it; nobody waits for ever |
| **DeviceReadBuffer** (`DeviceReadBuffer.cpp`) | ring of `used` bytes, `run`/`running`/`eof`/`error`, pause flags | `Start`, `Stop`, `SetRequestPause`, `WaitForPaused`, `Read` | `fill_ringbuffer` against the recorder's `Read`; pausing to retune; silent or failing devices | bytes come out as they went in; a pause and a Stop are reached; a Read is released at the end |
| **TVRec** (`tv_rec.cpp`) | `internalState`, a slot for the next state, tuning requests, flags, `curRecording`, `recorder`, `ringBuffer`, `tvchain` | `StartRecording`, `StopRecording`, `RecordPending`, `CancelNextRecording`, `FinishRecording`, `SpawnLiveTV`, `StopLiveTV`, `PauseRecorder`, `SetChannel`; the event loop; the recorder's callbacks | four threads; one recursive lock that the event thread gives up to stop a recorder and to wait for one; steps of tuning that fail | the card rests only in a state it serves, with the recorder, file and flags that belong to it; callers return; recordings end |
| **RingBuffer** (`RingBuffer.cpp`, with `SwitchToProgram` and `JumpToProgram` of the player) | ring `rbrpos`/`rbwpos`, `readpos` and `internalreadpos`, `rwlock`, flags that pause the thread, stop reads and tell the ends of file and program | `Start`, `Read`, `Peek`, `Seek`, `Pause`, `WaitForPause`, `Unpause`, `StopReads`, `StartReads`, `OpenFile`, `Reset`, destructor | the decoder's thread reads, seeks and changes programs, `ReadAheadThread` reads the file, the user interface's thread pauses and deletes; flags are read and set without a lock | Reads return the file, in order, across seeks and programs; no thread waits for ever |
| LiveTVChain (`livetvchain.cpp`) | list of programs, in memory and in the database | append, finish, reload, switch | backend and frontend see it through the database at different times | the player reaches every program, once |
| Recorders (`recorderbase.cpp`, `dtvrecorder.cpp`, ...) | next ring buffer, pause flags | capture loop, `Pause`, `SetNextRecording` | capture thread against TVRec | files switch at key frames, nothing lost |
| Stream handlers, signal monitors, EIT | listeners, tables | add, remove, monitor | device threads | listeners get what they asked for while they are there |
| **JobQueue** (`jobqueue.cpp`, with what `mythtranscode`, `mythcommflag`, StatusBox and PlaybackBox do to it) | the table `jobqueue`, shared by all backends; on each backend `runningJobs`, a queue thread with a snapshot of the table, a thread and a child process per job | `QueueJob`, `ProcessQueue`, `ProcessJob`, `RecoverQueue`, `ChangeJobStatus`/`Cmds`/`Host`, `DeleteJob`, `DeleteAllJobs`, the three job threads | statements of SQL are atomic, nothing larger is; a pass goes by a snapshot; backends crash and recover; users change rows meanwhile | a job is run by one host, once; a recording's jobs one after another; no row stays in a state that is not so; every job ends |
| PreviewGenerator | a thread or a child | start, run | outlives its recording | |
| Player, VideoBuffers, decoders, output | queues of frames | decode, filter, show, seek | three threads | a frame is in one queue |
| Scheduler (`programs/mythbackend/scheduler.cpp`) | list of recordings, `reclist_lock` | reschedule, conflict resolution, start | network calls to encoders with the lock given up | no two recordings on one input; priorities respected |
| EncoderLink, PlaybackSock, MainServer | proxies, sockets, transfers | requests and replies | slaves that disconnect | replies are matched; objects outlive their users |
| AutoExpire, HouseKeeper | expiry list, last runs | expire, daily tasks | files in use | what is in use is kept |
| libmythdb | sockets, connection pool | read, write, callbacks | ready-read thread, reference counts | no callback after delete |
| libmyth | settings, audio ring, http pool | | output thread | |
| libmythupnp | thread pool, task queue, caches | | worker threads | a task runs once |
| libmythui, frontends, plugins, batch programs, vendored libraries | | | user interface, data, third party | not planned |

How the modelled parts interact: the scheduler (through `EncoderLink`) and the
frontends (through `MainServer`) call **TVRec** from their own threads. Its event
thread turns a state change into tuning requests, and those into a recorder and
a `RingBuffer` to write to. A recorder of the `MpegRecorder` kind reads from a
**DeviceReadBuffer** and writes, through `RingBuffer`, into a
**ThreadedFileWriter**. TVRec pauses the recorder to change channels, gives it a
new file at a program's end (`SetNextRecording`), and stops and joins it; the
recorder calls back `RecorderPaused` and `RingBufferChanged`. When a recording has
ended TVRec queues its jobs: from then on every backend's **JobQueue** looks at
them. Backends, children and frontends meet in the table only. The player reads the
file, while it still grows, through a **RingBuffer** of its own; in Live TV the
chain tells it of the next file when it comes to the end of one.

`PROJECT.json` lists every hazard found in these parts, at its line, with the
properties that catch it.

## 2. Modules

| module | what it is |
|---|---|
| `ThreadedFileWriter.tla` | the write buffer |
| `OrderedWriter.tla` | what it promises: an ordered, bounded path to a file, that loses data only when the file can grow no more |
| `ThreadedFileWriterProofs.tla` | its inductive invariant, and the theorems |
| `OrderedWriterProofs.tla` | that it implements `OrderedWriter` |
| `DeviceReadBuffer.tla` | the read buffer |
| `DeviceReadBufferProofs.tla` | its inductive invariant, and the theorems |
| `TVRec.tla` | the recorder's state machine |
| `TVRecProofs.tla` | its inductive invariants, and the theorems |
| `JobQueue.tla` | the table of jobs, the backends that work on it, the programs they start and the users who interfere |
| `JobQueueProofs.tla` | its inductive invariant: types, and who owns a job |
| `JobQueueRowsProofs.tla` | what rows that say they run have, whatever users do |
| `JobQueueOrderProofs.tla` | that the jobs of a recording are done one after another, and that an end is final |
| `RingBuffer.tla` | the player's side of a file: the read-ahead thread, the decoder's thread and the user interface's |
| `RingBufferProofs.tla` | its inductive invariant, and the theorems |
| `MC*.tla`, `*.cfg` | small instances |

In every module a section of code that holds the lock is one action, and so is
each access to shared memory made without it. Waits on conditions have
time-outs after which the waiter looks again, so a wait is an action that is
enabled when its condition holds, and wake-ups need no state. A name of a
variable or action is the name in the source where there is one. Operators
called `X_something` before an operator `X` are faulty forms of `X`: replacing
`X` by one breaks the property that `PROJECT.json` names.

### ThreadedFileWriter

The data is a stream of numbered bytes, so that order, loss and repetition can
be told. `put` and `want` say what the writer accepted and for which position,
`disk` what `safe_write` put where. Write is three actions (`WriteReserve`,
`WriteCopy`, `WriteAdvance`), DiskLoop five (`DiskTest`, `DiskTake`, `DiskWrite` or
`DiskFault` or `DiskDiscard`, `DiskAdvance`). Callers of Flush remember in `after`
what they do next, so that `Seek`, `WriterFlush`, `SetWriteBufferSize` and the
destructor share it. `safe_write` writes any prefix (`Transfer`), fails for now
("EIO") or for good ("EFBIG"). `Resizing` states when TVRec resizes: while the
recorder is not writing, which the comment in the code demands and
`TVRec::SetupRecorder` respects.

### DeviceReadBuffer

`fill_ringbuffer` goes through `Boot`, `Top`, `Pause`/`Reset`/`Unpause`, `Poll`,
`Room`, `DeviceRead`/`DeviceAgain`/`DeviceFails`, `IncrWritePointer`, `Down`. Read
is `ReadCall`, `ReadWait`, `ReadTake`, `ReadCopy` (one or two pieces) and
`IncrReadPointer`. `used` is an unsigned number modulo `SizeMod`, so that an
underflow is what it is in the program. `Users` says which of the two users of the
class an instance has: one that pauses and resumes (`canPause`), as MpegRecorder
does, or the stream handlers, which do not. `Start` either makes the thread or finds
that it cannot (`error`). MpegRecorder answers an error with Stop and Start
(`RestartEncoding`), and nothing clears `error`; so `Start` comes again, once the thread
is gone, as often as Reads come between.

### TVRec

`epc` is where the event thread is in its loop: HandleStateChange, HandleTuning
(shut-downs, the wait for a pause, the frequency, the signal, the recorder),
HandlePendingRecordings, the ends of recordings and programs, sleep. `LockFree`
says when the thread has given up `stateChangeLock`: while it sleeps, while
TeardownRecorder runs ("stopping", "finishing") and while it waits for a recorder
to come up ("starting"). `spc` is the scheduler's thread in StartRecording, whose
waits split it into actions, and `fpc` a frontend's. `recorder` is what the
recorder's thread does, `nextRecording` the file it is to go over to.

A program is a model value. Pointers to ProgramInfo objects in requests are
`"null"`, `"current"` (the object `curRecording` points at), `"lost"` or
`"deleted"`; `faults` collects dereferences that go wrong and goes on, so that one
run can tell them apart. Time is a flag (`recordEnd`: recordEndTime has passed).
What may fail is a constant (`Failures`): the channel, the signal monitor, the
file, the set-up of the recorder, and the recorder itself, before TVRec has seen it
record (`RecorderStarted`, whose wait an error ends too) or later (`RecorderFails`).
`Uses` says which programs are scheduled and which
calls frontends make.

### JobQueue

`db` is the table: for each id a row with recording, type, status, command and
host. **Each statement of SQL is one action**, and so is each section that holds
`runningJobsLock`; in between any other host, child or user may act. Three actions are
more than that: `StopJob` (a SELECT and an UPDATE, playbackbox.cpp:2818 and 2821) and
`DialogPause` (statusbox.cpp:429 and 430 or 432) read a row's status and write its
command, and `StartChildJob` makes a thread, lets it look up its entry and ends the wait
for that (jobqueue.cpp:1727-1732). A host's
queue thread (`qpc`) recovers (`RecoverQueue`, then `RecoverStatus`, `RecoverCmds`,
`RecoverHost` per row, in the order of the three updates), and then makes passes:
`GetJobsInQueue` takes the snapshot `snap`, `x` is the row it looks at, and for
each row one of the branches of `ProcessQueue` is taken by what the *snapshot*
says (`SkipElsewhere`, `SkipBlocked`, `SkipNotAllowed`, `StopRunning`,
`StopQueued`, `PauseRunning`, `ResetStatus`, `SkipStarted`, `ClaimJob`); only
`Claim` looks at the table again (`WHERE hostname = ''`). `ProcessJob` to
`StartChildJob` start the job; the lock is held from `StartJob` to the end.

A thread and the child it waits for are one record in `thread`, as they never run
at the same time: `pc` goes from "run" over "command", for a flagger "lookup", "work"
and, for a transcoder, "complete" to "exited" (the child is gone) and "remove"
(`RemoveRunningJob`). Transcoders read their status back (`CompleteJob`,
`TranscodeExited`) and may restart (`TranscodeRetries`). `mythcommflag` is given the
number of its job, by which it finds the recording (`CommFlagStarts`), and then looks its
row up again by recording and type (`CommFlagFinds`, with `GetJobID`): that is `jobID`,
whose command it reads and whose status it writes (`CommFlagPauses`, `CommFlagResumes`,
`CommFlagReports`), and which is another job's row when its own was deleted meanwhile and
the recording queued for flagging again. Its thread keeps the lock
from `CommFlagExited`, which writes the row that the job was started by, to
`RemoveRunningJob`. A `Crash` is that of the machine: the
threads, the children, the snapshot and `runningJobs` are gone, the table stays,
and `Restart` recovers.

`QueueJob`, `QueueDeletes` and `QueueInserts` queue a job in the three statements
that it takes. StatusBox (`SelectJob`, then `DialogStop`, `DialogPause`,
`DialogRequeue` or `DialogDelete`) acts on what the row was when the dialog was
opened. `DeleteAllJobs` to `DeleteRows` are what the master does when a recording
is deleted; its wait of 90 seconds may end at any time (`WaitTimesOut`). `Uses`
says which jobs are queued, what users do, how often hosts crash, and whether
jobs are bound to the host of the recording.

### RingBuffer

A byte is a pair of program and offset; a slot of `readAheadBuffer` from which
everything was read is shown as `None`, which keeps equal states equal and changes
nothing, as nobody reads such a slot. `tpc` is where ReadAheadThread is: it starts
("start", "init", "up"), loops ("loop", "awake", "lock"), reads the file ("read") and
adds what it read ("end"). `rwlock` needs no variable: the thread has it for reading
in "read" and "end" (`ThreadHasLock`), the decoder's thread in a Read
(`DecoderHasLock`), and what is done with the lock for writing is one action that
waits for the reader on the other side (`Seek`, `Reset`, `UpdateRawBitrate`,
`ThreadResets`). `readsAllowedWaitMutex` matters only while ReadFromBuf restarts the
thread with it (`Restarting`).

Both clients run the same operators for `Pause`, `WaitForPause`, `StopReads`,
`StartReads` and `Unpause`, on their own or within a call; `call` says what comes
next. Pause and Unpause are two assignments, and so two actions. ReadFromBuf is
`ReadFromBuf`, `IsAllowed` or `NotAllowed`, `Avail`, `EnoughToRead` (and round again, or
`GiveUp`), `LastCut` and `Copy`: one action for each look at a flag or a position
that another thread sets. A Read of a buffer that is paused unpauses it and pauses
it again (`readone`). `SwitchToProgram` and `JumpToProgram` are `ChangeProgram`, a pause,
`OpenFile`, `UpdateRawBitrate` and `Reset`, in the order of each.

`mishaps` records three things that happen and that no lock prevents: the thread
reads while the program is changed ("change"), ReadFromBuf restarts it ("restart"),
and reads are started between the two looks that ReadFromBuf takes at stopreads
("startreads"). After one of them the current calls go on and no new one is made.

## 3. Runs

| run | instance | question, and answer |
|---|---|---|
| `tfw_safety` | ring of 3, writes of up to 2, watermark 2, 4 bytes, two clients, both errors | is the file the stream, under every interleaving? Yes; and the module implements `OrderedWriter` |
| `tfw_liveness` | the same with 3 bytes and EFBIG | do Flush, Write and the destructor return? Yes |
| `drb_safe` | ring of 3, device reads of 2, packets of 2, 4 bytes, both users, a thread that fails and is started again | does Read return the device's bytes, all, in order, when nobody pauses? Are a pause and a Stop reached, is the device left alone meanwhile, are readers released? Yes |
| `drb_resume` | with pauses | does Read return only what was read? **No** right after a resume |
| `tvrec_card` | one program, Live TV, a user who stops and cancels; channel, file, set-up and the recorder fail | does the card rest only where it should, however recordings and Live TV take it over? Yes |
| `tvrec_live` | Live TV with channel changes and program ends; and one program with a user who stops it; all failures | are the recorder and curRecording there when dereferenced, do calls return, do recordings end, is a teardown free of deadlock? Yes |
| `tvrec_postroll` | two programs, no failure | is curRecording safe in the unlocked teardown? **No** |
| `tvrec_restart` | tuning fails | does a reported success mean a recording? **No**, the second time |
| `jq_safety` | two hosts, two threads each, one retry; sixteen uses, up to the names of the hosts: two jobs of one recording, the same twice, or jobs of two recordings; or one job with a crash, bound to its host or not; each with at most one kind of user | is a job run once at a time, and a recording's jobs one after another? Is the entry of `runningJobs` the thread's own? Does a row that says it runs have a thread, or a host to recover it? Does a done job stay done? Yes, but for the rows that a flagger of an earlier job may take for its own |
| `jq_ends` | two hosts, of which one has no transcoder, one job at a time per host; a crash, and stops, requeues or deletions | does every job end? Yes, but for rows that a crash leaves where `RecoverQueue` does not look, those that another job's flagger has written into, and those of `jq_stop` |
| `jq_stop` | one job, bound to its host, and a stop | is a queued job that is stopped cancelled? **No**: the claim that must come first fails |
| `rb_play` | ring of 4, reads of 2, 5 bytes, two programs; seven uses: a recording, and Live TV, each with at most one kind of user, one that pauses, waits and then deletes as the player does (tv_play.cpp:2024-2026), a file that fails, a thread that is slow | do Read and Peek return the file, in order, across pauses, seeks, failures and programs? Do Read, WaitForPause and the destructor return? Yes, but for the mishaps and two waits named below |

The runs that answer No state a comment of the code and find what the code does
instead; `findings` in `PROJECT.json` has the quotation and the sequence.
`tvrec_card` leaves out the failing signal monitor, after which the state is not
reverted (tv_rec.cpp:3853) and the card rests in RecordingOnly without a recorder;
`tvrec_live` includes it, so that calls return and recordings end also then.
`CardIsServed` also leaves out a recorder that has failed: an error ends the wait for it
(4088) like its start, kFlagRecorderRunning is set and nothing is reverted (4095), and the
card keeps the dead recorder until its recording's end. `tvrec_live`'s
two uses are apart, Live TV without a scheduler: with one, the unlocked teardown
of `tvrec_postroll` leaves a recorder without its curRecording.

Some properties of JobQueue have a condition, where the code promises less. `RunOnce`,
`RowsHaveThreads` and `DoneStaysDone` leave out the rows that are not `OwnRow`: those of a
flagging job of a recording for which another was queued before. When the earlier one is
deleted, its child takes the later one's row for its own (mythcommflag/main.cpp:521), and
TLC finds each of the three violated there when the condition is dropped: the row says
that it runs while nobody has it; a host whose snapshot shows it so, without a host and
not queued, requeues it (jobqueue.cpp:428), and when another host has claimed it meanwhile
and started the job, that one finds the row queued and its own, and starts the job again;
and a job that has ended may say again that it runs. That no two hosts have a job holds for these rows
too. `RunOnce` also leaves out the users' requeue, which may come while the job's thread
is still at work, and, as no time is modelled, what is a day old: a host that starts
requeues such rows of other hosts, too (1585); `OneJobPerRecording` and `EntryIsOwn` are about jobs that come and
go in order (`InOrder`: nobody deletes or requeues them or queues one twice), as a
row that is deleted or queued again under a running thread no longer tells the
other hosts that there is one; `EntryIsOwn` besides only about recordings whose jobs
but the last are flaggers (`FlagsFirst`). This condition came out of the proof. The
thread of a user job writes its last status (jobqueue.cpp:2317), and only then takes
its entry out of `runningJobs` (2323), without the lock in between, and so does a
transcoder's (2103): the host may start the recording's next job meanwhile, which
overwrites the entry, and RemoveRunningJob (1835) then deletes the ProgramInfo of the
job at work. TLC finds this with a user job before a flagger when the condition is
dropped; a flagger keeps the lock over both (2179 to 2232), which is why it is enough. `DoneStaysDone`
leaves out DeleteAllJobs, which cancels jobs that it has not claimed, and the requeue of a transcode: mythtranscode
writes its last status and so does its thread when it has exited, and TLC shows
that a requeue between the two is marked as finished and then run all the same. `EveryJobEnds` leaves out jobs that users
pause, and recordings one of whose rows is `Abandoned` (a crash in "Pending",
"Retry", "Erroring" or "Aborting", which `RecoverQueue` does not look for) or
`Unstoppable` (`jq_stop`); rows that another job's flagger has left "Running" or "Paused" count as
abandoned.

`ReadsAreTheFile` of RingBuffer leaves out what follows a mishap, and
`NoOverlap` what follows "startreads". The mishaps do happen; TLC finds each when the
exception is dropped. In "change", the thread has seen an Unpause (`ThreadAwakes`)
and not yet cleared `readaheadpaused` when the next Pause comes: WaitForPause takes
the stale flag for a pause, and `OpenFile` closes the file that the thread goes on to
read. In "startreads", a StartReads between the two looks at `stopreads` makes
ReadFromBuf copy bytes that are not there. `ReadReturns` leaves out two waits without
a limit that TLC finds: a restart within Read, which never ends (the new thread
waits for `rwlock`, which the Read has; or the old one for `readsAllowedWaitMutex`,
which ReadFromBuf has while it joins it), and a WaitForPause that an Unpause of the
user interface has overtaken. Also without a run of its own is a finding about TVRec:
when a recorder cannot be set up, `curRecording` is deleted and then finished through
`lastTuningRequest` (`faults` gets "program deleted").

**Bounds.** `MaxStream` bounds the bytes that pass: with a ring of n slots, n + 1
bytes wrap around it, fill it and leave a partial piece on each side, which is
what distinguishes positions. `MaxWrite` and `MinWrite` are below the ring's size
so that capped writes, writes below the watermark and writes that wrap all
happen. The ring of `drb_safe` is one slot smaller than that of RingBuffer, as a thread that is
started again multiplies the states. `SizeMod` exceeds the ring by at least one, so that an underflow shows.
`ErrLimit` is 1 instead of 5: one error is tolerated, the second is not. In TVRec
one program and Live TV are enough for one recording to replace another, since
what Live TV is kept as is a recording too and an ended program can be started
again, and StartRecording handles one at a time; `MaxRequests` bounds only
the requests a caller adds; a third thread of callers would do what one of the
two can do at another time, since all calls serialise on the lock. In JobQueue two
hosts are what a claim is about, and two jobs, of one recording, the same job
twice or of two recordings, are all that one row can do to another (the
safety properties are proved for any number of each); a host has a thread per job that can run there at
a time, the hosts of `jq_safety` are symmetric (both may run everything, and each use with a host is there
for either), `RetryLimit` is 1 instead of 3, and there is at most one crash in a use (again
proved for any number). Nothing else is
bounded but RingBuffer's file and chain: one byte more than the ring has slots makes
positions wrap, `FailLimit` is 1 instead of 5, `RestartAfter` and `AbortAfter` are 0 and
1 seconds instead of 4 and 10, and `MaxBlock` is 1, so that the block size does not
adapt; a second program is what a change of programs needs. Each use has one kind of
user, since two users' calls come one after the other in the thread of the user
interface. For the rest the state spaces are finite by themselves.

**Deadlock** is checked in every run but those of JobQueue and RingBuffer. There the
system does stop: when all jobs have ended queue threads find nothing to look at,
which is a pass without a step; a RingBuffer ends with its destructor (and in the
deadlock of a restart).

**Fairness.** In the buffers every thread is weakly fair: they loop, and their
waits have time-outs. A client need not call again; but a recorder that stops
writing flushes (`DTVRecorder::FinishRecording`), which is `WF(WriterFlush(Writer))`.
A device may stay silent for ever; only a read that `poll` has announced returns.
In TVRec the event thread is weakly fair: nothing disables it but a recorder's
callback, which is fair. The callers and the recorder's thread are strongly
fair: what they wait for, stateChangeLock and an empty queue, is there only
while the event thread sleeps, up to a second at a time (`triggerEventLoop.wait`),
and gone in between; `WaitForEventThreadSleep` polls every 100 ms, so a thread for
which it is there again and again finds it. The environment (new calls, the
clock's passing an end, tuning that fails) has no fairness.
In JobQueue every queue thread is weakly fair (it makes a pass every few seconds),
so is every job's thread with its child (a child works and ends), and a host that
crashed is started again. Of a child, weak fairness does not choose how it ends: a
transcoder may ask for a restart each time, which the retry limit bounds. The
command to pause is the users' (no fairness: they need not), and so is the one to
resume.
In RingBuffer the three threads are weakly fair (the loops sleep and look again).
`GiveUp` is strongly fair, as a wait for data is counted from its start, however often
it is woken in between; and so are the steps that need `rwlock` for writing (`LockStep`):
`wantseek` makes the thread sleep half a millisecond without the lock after every pass.
Calls, pauses and the growth of the file have no fairness.

## 4. Proofs

`ThreadedFileWriterProofs` proves, with TLAPS, for every ring size, write size,
watermark, set of clients, set of errors and length of stream:

- `TypeCorrect`: `Spec => []TypeOK`;
- `NoOverlapHolds`, `FileIsStreamHolds`, `CloseCommitsHolds`: the invariants of `tfw_safety`;
- `FlushCommitsHolds`, `FlushSyncsHolds`: its action properties.

The only assumption is `TFWAssumption`: there is a writer among the clients, sizes
are at least 2 and one of them is the largest, and the other numbers are positive. None of the properties is inductive: that Write and DiskLoop
use disjoint slots depends on their locals still agreeing with `rpos` and `wpos`,
which no other client may change meanwhile; that Flush has committed everything
depends on what ring and file together hold of the stream. `IInv` says all that:

- `ClientsOK`: who may be in which call, and that a resize and a Write exclude each other;
- `FlushedOK`: what a returned Flush establishes lasts until its caller has used it;
- `LocalsOK`: the locals of Write and DiskLoop agree with the ring and with each other;
- `RingOK`: the ring holds the last `BufUsedPriv` bytes of the stream, in order;
- `DiskOK`: the file holds those before, each in place, and the file's offset is
  where the next byte belongs.

Each part has a lemma for the step (`TypeStep`, `ClientsStep`, `FlushedStep`,
`LocalsStep`, `RingStep`, `DiskStepOK`), with one case per action; the arithmetic of
the ring is in lemmas of its own (`UsedFree`, `WrapLow`, `UsedByWrite`, `UsedByDisk`,
`UsedApart`, `WrapTwice`), so that those proofs do not meet the modulus.

`OrderedWriterProofs` proves from that invariant, under the same assumption,

- `Refinement`: `Spec => ImplementsOrderedWriter`.

The buffer of `OrderedWriter` is a segment of the stream (`Segment`): the bytes after
the first `Gone`, which are in the file or were dropped, up to the last that Write has
added. `PartCut` and `PartGrows` say what happens to a segment when bytes leave it or
come to it. `WriteAdvance` is then an accept (`AdvanceAccepts`), a write to the file a
store of what it takes off the front (`AccountTakes`, `WriteStores`), a discard a drop,
and every other action leaves the segment and the file alone (`OthersStutter`).

`DeviceReadBufferProofs` proves, for every ring, read size, packet size, width of
`size_t`, error limit and set of counts:

- `TypeCorrect`: `Spec => []TypeOK`;
- `UsedIsDistanceHolds`, `NoOverlapHolds`, `ReadsAreCompleteHolds`,
  `PausedIsQuietHolds`: the invariants of `drb_safe`.

The assumption is `DRBAssumption`: sizes are positive, `MinRead`, `PacketSize` and
what Read is asked for fit the ring, and a `size_t` can hold its size. None of the
properties is inductive, since each side updates its pointer and `used` in a locked
section after the access to the memory. `IInv` has what the sides know in between:

- `LocalsOK`: the sizes of both sides' next access fit the ring, also when a reset
  moves `readPtr` between the two pieces of a Read (which the resumption of a pause
  may do, and the types hold all the same);
- `QuietOK`: `paused`, `request_pause` and `heard` are in step with both threads;
- `NeverPauses`: without pauses nothing resets the ring;
- `UsedOK`: `used` is the distance, and what either side is about to take is there
  (`Leaving` are the bytes that are copied and still in `used`);
- `StreamOK`: the ring holds the last bytes of the device, with those that have
  arrived and are not in `used` yet (`Arriving`), from where the Reads have got to.

The last three are claimed for users that do not pause. `FreeFits` keeps the
modulus of `size_t` out of these proofs, `Copied` the sequences; each action that
moves bytes has a lemma (`StreamDeviceRead`, `StreamIncrWrite`, `StreamReadCopy`,
`StreamIncrRead`, `StreamReadCall`).

`JobQueueProofs` proves, for every set of hosts, what each may run, every limit of
jobs and of retries, every list of jobs, whatever users do and however often hosts
crash:

- `TypeCorrect`: `Spec => []TypeOK`;
- `RunOnceHolds`: `Spec => []RunOnce`.

The assumption is `JobQueueAssumption`, which gives the constants their types: there
is a host, the empty string names none. `RunOnce` is not inductive: a host may
start a job by a row of a snapshot that is minutes old. `IInv` (parts `TypeInv`,
`DialogAsks`, `RowInv` and `OneOwner`) says why it may. `RowInv` is about whose row is
whose: a job is the same recording and type in the table, the snapshots and the threads
(`JobsAreTheirs`); when a job gets its row, those of the same job queued before are gone
(`FirstRows`, since `QueueJob` deletes the one it finds, `QueuesOne`); so the row that a
flagger looks up is its job's own, or that of a later job like it (`FlagsAreLike`). A row
is `Tracked` if it is nobody's second job (`OwnRow`) and nobody requeues. `OneOwner` is,
for tracked rows where statuses count and for all rows where only hosts do:

- `RowNamesOwner`: while a host is about to run a job or runs it (`Owns`), the row
  names it, if there is one; so a row without a host has no owner, and can be claimed;
- `AheadIsMine`, `AheadIsNotTheirs`: a row of the snapshot that names this host, and
  that the pass has not come to yet, is still this host's and no other host has or
  will have it by its own snapshot; so it can be started without a claim;
- `AheadIsQueued`, `OwnedIsNotQueued`: a queued row of the snapshot has no thread here;
- `UnclaimedIsQueued`, `AheadUnclaimed`: a row without a host is queued or done, so
  that `ProcessQueue` never resets the status of a row that another host works on;
- `RecoveringIsIdle`, `RecoversOwn`, `RecoveredIsQueued`: a host that recovers runs
  nothing, and requeues and disclaims rows of its own only;
- `IdsAreNew`: a new row has no owner.

Most steps give no job a new owner. `NothingNew` proves `OneOwner` for all of them at
once, from what they do to the table (`TableStep`), to the threads (`ThreadsStep`)
and to a queue thread (`MovesOn`); the four that are left, a new row, a snapshot, a
claim and the start of a thread, have lemmas of their own (`InsertOneOwner`,
`FetchOneOwner`, `ClaimOneOwner`, `ChildOneOwner`).

`NullAssumption` says besides that `NULL`, for no thread and no entry, is none of
the other values.

`JobQueueRowsProofs` proves, for the same constants and whatever users do,

- `RowsHaveThreadsHolds`: `Spec => []RowsHaveThreads`.

A requeue under a running job may give it a second thread, which the part of `OneOwner`
for rows that are not tracked allows. `RowsInv` adds to `IInv`, for every row that is
`OwnRow`, whether or not users requeue,

- `RunsHaveWork`: the row of a job that runs names a host, which starts it, has its thread,
  or has not yet recovered;
- `RecoversAll`: the snapshot of a host that recovers has each such row of the host, still
  to come: `RecoverQueue` asks for just these states, and no other host writes them
  meanwhile.

`RowsStay` shows that steps without a new row preserve all of it, from what they may do
to the table (`RowStep`), to the threads' work (`WorkStep`), to owners (`OwnersOf`)
and to a pass.

`JobQueueOrderProofs` proves, for the same constants,

- `OneJobPerRecordingHolds`: `Spec => []OneJobPerRecording`;
- `EntryIsOwnHolds`: `Spec => []EntryIsOwn`;
- `DoneStaysDoneHolds`: `Spec => DoneStaysDone`.

What keeps two jobs of a recording apart is that a host runs the later one only after
it has seen no earlier one in its snapshot, and that is a proof only because the rows come
in the order of their numbers and an end is final. `OInv` adds to `IInv`: only
transcodes are judged by their thread (`EndsAreTranscodes`); who holds the lock when
(`LockOK`); and for jobs that come and go in order `OrderInv`:

- `InTurn`: when a host owns a job, the recording's earlier jobs have ended. Two jobs at
  work would each have to be before the other;
- `WorkIsNotDone`: the row of a job at work is not at its end, which makes the above a
  contradiction;
- `SnapHasAll`: a snapshot that has a row has all earlier ones that may not have ended;
- `SeenBlocks`: a pass that has come past a row knows that its recording has a job, so
  that it reaches a claim or a start only with the recording's first row in its snapshot;
- `AllTracked`: no job is queued twice, so every row is tracked;
- `AheadWaits`, `UnclaimedWaits`, `CancelOK`, `RecoveryOK`, `AllAreThere`: what is queued
  stays so until its host starts or cancels it, and no row goes.

With `FlagsFirst` also `EntriesAreOwn`: each thread has its entry. When a job starts while
another thread of its recording is still there, that one is a flagger in "remove", which
has the lock that the queue thread needs (`NobodyElse`). `OrderStays` does all the steps
that bring no row at once, `InsertOrder` the one that does.

That an end is final holds in far more cases: users queue, delete and stop jobs as they
like, and requeue those whose end is `Final` (not transcodes, and only in rows that are
`OwnRow`). `EndsInv` says for such jobs what keeps a host from writing a status over an
end:

- `WritersOK`: a thread that may still write its job's status has not a queued one, nor
  one that has ended before it has seen the end, and it is the job's only such thread.
  This is where a requeued transcode differs: its child writes the end, then its thread
  writes one more;
- `StartsOK`: a job that a host is about to start has not ended and has no such thread;
- `MineWait`, `OwnRowsWait`, `UnclaimedWaited`, `CancelFits`: a pass goes by an old snapshot, but the rows
  that it may start or cancel are still queued, since only their host changes that and a
  claim needs the row unclaimed;
- `RecoveryFits`: what `RecoverQueue` has still to requeue has not ended;
- `RequeuesEnded`: a dialog that offers a requeue was opened on a job that had ended, and
  still has. A requeued job is thus one that nobody is at work on (`EndedIsFree`).

`EndsStep` does a host's steps with `EndsStay` and the users' with `SameEnds`; the requeue,
the one step that takes a job back from its end, has its own (`RequeueEnds`).

`RingBufferProofs` proves, for every ring, block and read size, every file and chain of
programs, all limits and all uses:

- `TypeCorrect`: `Spec => []TypeOK`;
- `NoOverlapHolds`, `ReadsAreTheFileHolds`: the invariants of `rb_play`.

The assumption is `RBAssumption`: sizes are positive, and what a Read asks for fits the
ring with a block to spare, without which the Read could wait for more than the ring takes. `IInv` is

- `CallsOK`: which call a client is in, and how far it has got with the locals;
- `ThreadOK`: when there is a read-ahead thread, and where it may be;
- `RingOK`: what the thread found free (`RoomOK`) stays free while it reads, and what
  the decoder's thread found in the ring (`FoundOK`) stays there until it copies, unless
  reads were started between its two looks;
- `DataOK`: without a mishap the ring and what was just read are the file, in order,
  from `readpos` to where the file is (`InOrder`), or a program is being changed, one
  position after the other (`ChangeOK`).

The modulus is in `Distance`, `MovesOn`, `UsedOrFree`, `Shifted` and `Apart`; `EndAdds`,
`CopyTakes`, `ReadInOrder`, `CopyInOrder` and `EndInOrder` are the steps that move bytes.

`TVRecProofs` proves, for all programs, all uses, whatever may fail and any limit of
requests:

- `TypeCorrect`: `Spec => []TypeOK`;
- `NoneIsIdle`, `FlagsTellOfRecorder`, `RecordersHaveFiles`: `IdleIsIdle`, `FlagTells` and
  `RecorderHasFile` of `tvrec_card` and `tvrec_live`.

`NullAssumption` says that `NULL`, for no recorder and no recording, is neither. None of
the properties is inductive: what the event thread does next depends on requests that
were queued long before, by a state change that may have been reverted since. The
invariant, `CardInv`, is

- `RecorderOK`: what the recorder, its flags, its file and the position of the event thread
  say of each other;
- `RequestsOK`, `HeadOK`: a request opens the card or closes it and never both, and the
  one at work stays in the queue until the recorder that was there is gone;
- `QueueOK`: what the card will be like by the time that a request is taken. `Quiet` is a card without
  recorder, file or tuning under way. In None the card is quiet once the queue is
  empty (`QuietBefore` the next request): it is now and nothing queued opens it,
  or something queued ends the file and nothing after it opens it. In another state the last
  request opens it. A request that closes the card and leaves its file alone, which is what
  a failure in None queues, finds nothing: otherwise it would leave a file without a
  recorder.

`UnqueuedSame` says which steps leave the queue alone; `StateChangeQueue`, `FailsQueue`,
`SetChannelQueue` and `TuningQueue` what the other four do to it; `QuietStays` that a quiet card
stays so until a request that opens it is dealt with.

Two more theorems have a hypothesis, for a reason that a run shows or a hazard names:

- `CardsAreServed`: `CardIsServed` if SetupSignalMonitor does not fail, as in
  `tvrec_card`. After that failure the state is not reverted and nobody serves it. (A
  recorder that fails may fail here, too: `CardIsServed` counts it as there.) `ServedOK`
  adds to `CardInv` that a card outside None with an empty queue is recorded, tuned, or
  has a state change before it that ends in None;
- `RecordersHaveRecordings`, `NothingNullIsDereferenced`: `RecorderHasRecording` and
  `NoNullDereference` if each use is `Alone`, as in `tvrec_live`: Live TV without a scheduler, or a
  scheduler with one program and no Live TV. With both, or a second program, the recording that
  begins in the unlocked teardown of another loses its `curRecording` (`tvrec_postroll`).
  `ApartInv` says what is queued, and how far the callers are, when a file has no
  `curRecording`: it is about to be closed (`FileOK`). `LiveOK` and `SchedOK` are what
  holds of either user: Live TV without a chain only ends; a scheduler's request is dealt
  with before the next comes, and a state that was asked for and not reached has its
  recording.

Only model-checked: all liveness (out of the prover's reach, as is ENABLED). Each safety
invariant and action property that a passing run checks has its theorem, three of TVRec's
under the hypotheses above.

## 5. What is left out, and why

- ThreadedFileWriter: opening the file, and a resize while the recorder writes,
  which the code forbids.
- DeviceReadBuffer: a Stop before the thread's first lines have run, after which
  the owner deletes the buffer under the thread (a hazard, not a behaviour that
  can be continued) or starts a second one; Start's branch for a thread that is running
  (DeviceReadBuffer.cpp:96-101), which only such a Stop can lead to; and statistics.
- TVRec: the EIT scanner's requests and antenna adjustment, a change of input or
  of the card behind it, conflicts with other cards (`possibleConflicts`), the
  shutdown of a TVRec, and the data of programs and channels. The window in
  which RingBufferChanged has deleted the old `curRecording` and not yet set the
  new one is closed in the model. SetLiveRecording (2796-2835), with which a frontend keeps or
  drops the program it watches, and which dereferences `curRecording` without a test, is
  not modelled. `FinishedRecording` takes the lock back in the same step in which
  TeardownRecorder ends (3632-3633), and `tvchain` is not read again after the lock was given
  up to wait for the recorder (4102-4108). SetChannel's wait for a restarted recorder may
  be endless (see `hazards`), so no run claims that it returns.
- JobQueue: a recording's metadata job and custom commands, the time window in
  which jobs may run, jobs that are to run later (`schedruntime`), RestartJob and
  the LOCAL_JOB events, CleanupOldJobsInQueue and the recovery of jobs that are
  more than a day old (1585), `mythcommflag` started by hand, or as the command of a user
  job (1697, 1703), with the rows that it makes for itself, failures of the database, and
  children that outlive their backend.
- RingBuffer: DVDs; reads without the read-ahead thread (the players of this
  repository start it); a file that does not open; switches to a program without a
  discontinuity, which keep what was read ahead (`SetAdjustFilesize`,
  `FileChangedCallback`); the optimisation of the block size but for its bounds; and
  the writing side, which is ThreadedFileWriter. A Seek succeeds (1276-1303 takes over the
  failed value and resets the read-ahead all the same), and so does the seek after a failed
  remote read (496). Of the player's switches, the second UpdateRawBitrate
  (NuppelVideoPlayer.cpp:3291, 3395), which sets what the first has set, and the branch for a
  dummy program (3231, 3353), which opens nothing, are left out. Of StopStuff (tv_play.cpp:2024)
  the first StopReads is one with the StopReads of Pause.
- The components marked not modelled in `PROJECT.json`.

## 6. Plan

Modules, in this order:

1. `ThreadedFileWriter`, `DeviceReadBuffer`, `TVRec` and `JobQueue` with their
   instances and proofs: done.
2. `RingBuffer`, the player's side of a file: modelled, checked and proved. Next are
   switches without a discontinuity.
3. `LiveTVChain`: the chain in the database, seen by recorder and player; then
   `LiveTV`, composing it with TVRec's file switches.
4. `Scheduler` (conflict resolution as functions over bounded inputs, compared
   with a declarative definition) and `RecordStatus`, composing the scheduler's
   loop with an abstraction of TVRec that `TVRec` is shown to implement.
5. `AutoExpire`, `VideoBuffers`, `DBConnectionPool`, `ThreadPool`,
   `MythSocket`.
6. `RecordingPipeline`: DeviceReadBuffer, a recorder and ThreadedFileWriter.

A safety run keeps to a few million states and a liveness run to a few hundred
thousand; each module gets a safety run, and liveness in it or in a run of its
own. A run for a disagreement with a comment is kept where the disagreement loses
or corrupts something.

Theorems: the invariants of the modules of steps 3 to 5, as these are written.
