------------------------------ MODULE RingBuffer ------------------------------
(***************************************************************************)
(* libmythtv/RingBuffer as the player uses it: a thread (ReadAheadThread)   *)
(* reads a file ahead into a ring, from which the decoder's thread reads    *)
(* and in which it seeks.  In Live TV the decoder's thread also goes over   *)
(* to other programs, for which it pauses the thread.  The user interface's *)
(* thread pauses it, too, stops reads, and deletes the buffer in the end.   *)
(*                                                                         *)
(* A section that holds rwlock for writing is one action, and so is every   *)
(* access to what the threads share but for sequences of which the others   *)
(* can tell no more than the end.  The thread has rwlock for reading from    *)
(* ReadBegin to ReadEnd, the decoder's thread in all of a Read, though not   *)
(* of a Peek.  A byte is a pair of program and offset; a slot of the ring    *)
(* that holds nothing to be read is shown as None.  Waits have time-outs    *)
(* after which the waiter looks again, but for WaitForPause and the joins.  *)
(***************************************************************************)
EXTENDS Integers

CONSTANTS
  Size,         \* kBufferSize
  MaxBlock,     \* what readblocksize may grow to
  Counts,       \* what Read and Peek are asked for
  MaxLen,       \* bound: bytes of a file
  Targets,      \* bound: where Seek goes
  Programs,     \* bound: programs of a Live TV chain
  FailLimit,    \* failures of the file that are tolerated (5)
  RestartAfter, \* seconds without permission to read: restart the thread (4)
  AbortAfter,   \* seconds without permission to read: give up (10)
  Uses          \* what there is and who does what: see RBAssumption

Decoder == "decoder"
Control == "control"
Clients == {Decoder, Control}

DecoderCalls == {"Read", "Peek", "Seek", "SwitchToProgram", "JumpToProgram"}
ControlCalls == {"Pause", "PauseAndWait", "Unpause", "StopDecoder", "Delete"}

ASSUME RBAssumption ==
  /\ Size \in Nat \ {0} /\ MaxBlock \in Nat \ {0}
  /\ Counts \subseteq 1..(Size - 1 - MaxBlock)
  /\ MaxLen \in Nat \ {0} /\ Targets \subseteq 0..MaxLen /\ Programs \in Nat \ {0}
  /\ FailLimit \in Nat /\ RestartAfter \in Nat /\ AbortAfter \in Nat
  /\ Uses \subseteq [live : BOOLEAN,                     \* Live TV
                     fails : BOOLEAN,                    \* the file may fail
                     stalls : BOOLEAN,                   \* it may take seconds
                     decoder : SUBSET DecoderCalls, control : SUBSET ControlCalls]

VARIABLES
  readaheadrunning, readaheadpaused, pausereadthread, stopreads,
  ateof, readsallowed, setswitchtonext, commserror, numfailures,
  ignoreliveeof,
  rbrpos, rbwpos, readAheadBuffer, readblocksize,   \* the ring
  readpos, internalreadpos,
  tpc, totfree, ret,                                \* ReadAheadThread
  pc, call,                                         \* of each client
  count, avail, readone, readErr, target,           \* the decoder's locals
  file, fpos, chain, needsToSwitch,                 \* the open file; the chain
  mishaps,                                          \* see ReadsAreTheFile
  use

flags     == <<readaheadrunning, readaheadpaused, pausereadthread, stopreads>>
signs     == <<ateof, readsallowed, setswitchtonext, commserror, numfailures>>
ring      == <<rbrpos, rbwpos, readAheadBuffer, readblocksize>>
positions == <<readpos, internalreadpos>>
reading   == <<tpc, totfree, ret>>
clients   == <<pc, call>>
locals    == <<count, avail, readone, readErr, target>>
source    == <<file, fpos, chain, needsToSwitch>>
rest      == <<ignoreliveeof, mishaps, use>>
vars == <<flags, signs, ring, positions, reading, clients, locals, source, rest>>

Smaller(a, b) == IF a < b THEN a ELSE b
None == <<0, 0>>
Empty == [s \in 0..(Size - 1) |-> None]

\* After OpenFile, when the decoder's thread calls Start.
Init ==
  /\ readaheadrunning = FALSE /\ readaheadpaused = FALSE
  /\ pausereadthread = FALSE /\ stopreads = FALSE
  /\ ateof = FALSE /\ readsallowed = FALSE /\ setswitchtonext = FALSE
  /\ ignoreliveeof = FALSE /\ commserror = FALSE /\ numfailures = 0
  /\ rbrpos = 0 /\ rbwpos = 0 /\ readblocksize = 1 /\ readAheadBuffer = Empty
  /\ readpos = 0 /\ internalreadpos = 0
  /\ tpc = "none" /\ totfree = 0 /\ ret = 0
  /\ pc = [c \in Clients |-> IF c = Decoder THEN "create" ELSE "idle"]
  /\ call = [c \in Clients |-> IF c = Decoder THEN "Start" ELSE ""]
  /\ count = 0 /\ avail = 0 /\ readone = FALSE /\ readErr = 0 /\ target = 0
  /\ file = 1 /\ fpos = 0 /\ chain = 1 /\ needsToSwitch = FALSE
  /\ mishaps = {} /\ use \in Uses

-----------------------------------------------------------------------------
(* The ring and the locks                                                  *)

ReadBufFree == (IF rbwpos >= rbrpos THEN rbrpos + Size ELSE rbrpos) - rbwpos - 1
ReadBufAvail == IF rbwpos >= rbrpos THEN rbwpos - rbrpos ELSE Size - rbrpos + rbwpos
Slots(p, n) == {(p + i) % Size : i \in 0..(n - 1)}

\* Who has rwlock locked for reading.
ThreadHasLock == tpc \in {"read", "end"}
DecoderHasLock == call[Decoder] = "Read"

\* The decoder's thread has readsAllowedWaitMutex while it restarts the thread.
Restarting ==
  call[Decoder] \in {"Read", "Peek"} /\ pc[Decoder] \in {"join", "create", "boot"}

\* The decoder's thread counts on a pause: it goes over to another program.
Changing == pc[Decoder] \in {"open", "bitrate", "reset"}

\* Mutant: what was read ahead stays in the ring.
ResetReadAhead_keeps(newinternal) ==
  /\ readblocksize' = 1
  /\ UNCHANGED <<rbrpos, rbwpos, readAheadBuffer>>
  /\ internalreadpos' = newinternal
  /\ ateof' = FALSE /\ readsallowed' = FALSE /\ setswitchtonext' = FALSE

\* With rwlock locked for writing.
ResetReadAhead(newinternal) ==
  /\ readblocksize' = 1
  /\ rbrpos' = 0 /\ rbwpos' = 0 /\ readAheadBuffer' = Empty
  /\ internalreadpos' = newinternal
  /\ ateof' = FALSE /\ readsallowed' = FALSE /\ setswitchtonext' = FALSE

\* A client goes on, or its call returns.
Go(c, to) == pc' = [pc EXCEPT ![c] = to] /\ UNCHANGED call
GoOn(c, to) == Go(c, to) /\ UNCHANGED locals
Return(c) ==
  /\ pc' = [pc EXCEPT ![c] = "idle"] /\ call' = [call EXCEPT ![c] = ""]
  /\ IF c = Decoder
     THEN count' = 0 /\ avail' = 0 /\ readone' = FALSE /\ readErr' = 0 /\ target' = 0
     ELSE UNCHANGED locals

-----------------------------------------------------------------------------
(* ReadAheadThread                                                         *)

ThreadStarts ==
  /\ tpc = "start"
  /\ pausereadthread' = FALSE
  /\ tpc' = "init"
  /\ UNCHANGED <<readaheadrunning, readaheadpaused, stopreads, signs, ring, positions,
                 totfree, ret, clients, locals, source, rest>>

ThreadResets ==
  /\ tpc = "init" /\ ~DecoderHasLock
  /\ ResetReadAhead(0)
  /\ totfree' = Size - 1
  /\ tpc' = "up"
  /\ UNCHANGED <<flags, commserror, numfailures, readpos, ret, clients, locals,
                 source, rest>>

\* The wake-up is for StartupReadAheadThread.
ThreadIsUp ==
  /\ tpc = "up"
  /\ readaheadrunning' = TRUE
  /\ pc' = [pc EXCEPT ![Decoder] = IF @ = "boot" THEN "booted" ELSE @]
  /\ tpc' = "loop"
  /\ UNCHANGED <<readaheadpaused, pausereadthread, stopreads, signs, ring, positions,
                 totfree, ret, call, locals, source, rest>>

\* Mutant: the pause is reported without the wake-up.
ThreadPauses_silent ==
  /\ tpc = "loop" /\ readaheadrunning /\ pausereadthread
  /\ readaheadpaused' = TRUE
  /\ totfree' = ReadBufFree
  /\ UNCHANGED <<readaheadrunning, pausereadthread, stopreads, signs, ring, positions,
                 tpc, ret, clients, locals, source, rest>>

\* Paused: the thread says so, wakes WaitForPause, sleeps and looks again.
ThreadPauses ==
  /\ tpc = "loop" /\ readaheadrunning /\ pausereadthread
  /\ readaheadpaused' = TRUE
  /\ pc' = [c \in Clients |-> IF pc[c] = "pausing" THEN "paused" ELSE pc[c]]
  /\ totfree' = ReadBufFree
  /\ UNCHANGED <<readaheadrunning, pausereadthread, stopreads, signs, ring, positions,
                 tpc, ret, call, locals, source, rest>>

ThreadAwakes ==
  /\ tpc = "loop" /\ readaheadrunning /\ ~pausereadthread
  /\ tpc' = "awake"
  /\ UNCHANGED <<flags, signs, ring, positions, totfree, ret, clients, locals,
                 source, rest>>

\* Not paused.  Without room for a block the thread sleeps and, when reads are
\* allowed, mostly starts over.
Room ==
  /\ tpc = "awake"
  /\ readaheadpaused' = FALSE
  /\ LET free == IF readaheadpaused THEN ReadBufFree ELSE totfree
     IN  IF free < readblocksize
         THEN /\ totfree' = ReadBufFree
              /\ tpc' = "lock" \/ (tpc' = "loop" /\ readsallowed)
         ELSE tpc' = "lock" /\ totfree' = free
  /\ UNCHANGED <<readaheadrunning, pausereadthread, stopreads, signs, ring, positions,
                 ret, clients, locals, source, rest>>

\* The block size adapts to the time that reads take.
Adapted == {b \in 1..MaxBlock : b - readblocksize \in {-1, 0, 1}}

\* Mutant: a block is read into whatever room there is.
WantsToRead_anyRoom == ~commserror /\ ~ateof /\ ~setswitchtonext

WantsToRead == totfree > readblocksize /\ ~commserror /\ ~ateof /\ ~setswitchtonext

\* rwlock is locked.  Of a new file the first read is of fill_min, one byte.
ReadBegin ==
  /\ tpc = "lock"
  /\ IF WantsToRead
     THEN /\ totfree' = IF internalreadpos = 0 THEN 1
                        ELSE Smaller(readblocksize, Size - rbwpos)
          /\ readblocksize' \in Adapted
          /\ tpc' = "read"
          /\ mishaps' = mishaps \cup (IF Changing THEN {"change"} ELSE {})
     ELSE tpc' = "end" /\ ret' = -1 /\ UNCHANGED <<totfree, readblocksize, mishaps>>
  /\ tpc' = "read" => UNCHANGED ret
  /\ UNCHANGED <<flags, signs, rbrpos, rbwpos, readAheadBuffer, positions, clients,
                 locals, source, ignoreliveeof, use>>

\* safe_read returns what it finds up to totfree, nothing at the (present) end of
\* the file, and where it has got to when reads are stopped.  It may fail up to
\* three times in between; the file stays at what was returned.
SafeRead(n, failures) ==
  /\ tpc = "read" /\ n <= totfree /\ fpos + n <= MaxLen
  /\ failures > 0 => use.fails
  /\ readAheadBuffer' = [s \in 0..(Size - 1) |->
                           IF s \in rbwpos..(rbwpos + n - 1)
                           THEN <<file, fpos + (s - rbwpos)>> ELSE readAheadBuffer[s]]
  /\ fpos' = fpos + n /\ internalreadpos' = internalreadpos + n
  /\ numfailures' = Smaller(numfailures + failures, FailLimit + 1)
  /\ ret' = n
  /\ tpc' = "end"
  /\ UNCHANGED <<flags, ateof, readsallowed, setswitchtonext, commserror, rbrpos, rbwpos,
                 readblocksize, readpos, totfree, clients, locals, file, chain,
                 needsToSwitch, rest>>

HasNext == file < chain

\* Nothing was read: the end of the file, or of the program.
AtEnd == ret = 0 /\ ~stopreads
ProgramEnds == AtEnd /\ use.live /\ ~setswitchtonext /\ ~ignoreliveeof /\ HasNext

\* What was read is added; the signs are set, and the waits woken, for which the
\* thread takes readsAllowedWaitMutex; rwlock is unlocked.  used, counted with
\* the slot that stays free, is never less than fill_min: reads are allowed.
ReadEnd ==
  /\ tpc = "end" /\ ~Restarting
  /\ UNCHANGED <<flags, numfailures, rbrpos, readAheadBuffer, readblocksize, positions,
                 clients, locals, file, fpos, chain, rest>>
  /\ rbwpos' = IF ret > 0 THEN (rbwpos + ret) % Size ELSE rbwpos
  /\ ateof' = (ateof \/ (AtEnd /\ ~use.live))
  /\ setswitchtonext' = (setswitchtonext \/ ProgramEnds)
  /\ needsToSwitch' = (needsToSwitch \/ ProgramEnds)
  /\ commserror' = (commserror \/ numfailures > FailLimit)
  /\ readsallowed' = TRUE
  /\ totfree' = IF ateof' \/ commserror' THEN 0 ELSE ReadBufFree'
  /\ ret' = 0
  /\ tpc' = "loop"

ThreadEnds ==
  /\ tpc = "loop" /\ ~readaheadrunning
  /\ rbrpos' = 0 /\ rbwpos' = 0 /\ readAheadBuffer' = Empty
  /\ totfree' = 0
  /\ tpc' = "done"
  /\ UNCHANGED <<flags, signs, readblocksize, positions, ret, clients, locals, source,
                 rest>>

-----------------------------------------------------------------------------
(* Pauses: Pause, WaitForPause and Unpause, on their own or within a call   *)

\* Pause goes on to StopReads.
PauseThread(c) ==
  /\ pc[c] = "pause"
  /\ pausereadthread' = TRUE
  /\ GoOn(c, "stop")
  /\ UNCHANGED <<readaheadrunning, readaheadpaused, stopreads, signs, ring, positions,
                 reading, source, rest>>

StopReads(c) ==
  /\ pc[c] = "stop"
  /\ stopreads' = TRUE
  /\ CASE call[c] = "Pause"       -> Return(c)
       [] call[c] = "StopDecoder" -> GoOn(c, "drain")
       [] OTHER                   -> GoOn(c, "waitforpause")
  /\ UNCHANGED <<readaheadrunning, readaheadpaused, pausereadthread, signs, ring,
                 positions, reading, source, rest>>

\* WaitForPause returns, to whom it was called by.
AfterPause(c) ==
  /\ CASE call[c] = "SwitchToProgram" -> GoOn(c, "open")
       [] call[c] = "JumpToProgram"   -> GoOn(c, "reset")
       [] OTHER                       -> Return(c)
  /\ mishaps' = mishaps \cup
       (IF call[c] \in {"SwitchToProgram", "JumpToProgram"} /\ tpc = "read"
        THEN {"change"} ELSE {})

WaitForPause(c) ==
  /\ pc[c] = "waitforpause"
  /\ IF readaheadrunning /\ ~readaheadpaused
     THEN GoOn(c, "pausing") /\ UNCHANGED mishaps
     ELSE AfterPause(c)
  /\ UNCHANGED <<flags, signs, ring, positions, reading, source, ignoreliveeof, use>>

PauseWoken(c) ==
  /\ pc[c] = "paused"
  /\ AfterPause(c)
  /\ UNCHANGED <<flags, signs, ring, positions, reading, source, ignoreliveeof, use>>

\* Unpause goes on to the thread.
StartReads(c) ==
  /\ pc[c] = "startreads"
  /\ stopreads' = FALSE
  /\ IF call[c] = "StopDecoder" THEN Return(c) ELSE GoOn(c, "unpause")
  /\ mishaps' = mishaps \cup (IF pc[Decoder] = "last" THEN {"startreads"} ELSE {})
  /\ UNCHANGED <<readaheadrunning, readaheadpaused, pausereadthread, signs, ring,
                 positions, reading, source, ignoreliveeof, use>>

\* At the end of JumpToProgram the end of a program counts again.
UnpauseThread(c) ==
  /\ pc[c] = "unpause"
  /\ pausereadthread' = FALSE
  /\ IF call[c] \in {"Read", "Peek"} THEN GoOn(c, "avail") ELSE Return(c)
  /\ ignoreliveeof' = (ignoreliveeof /\ call[c] # "JumpToProgram")
  /\ UNCHANGED <<readaheadrunning, readaheadpaused, stopreads, signs, ring, positions,
                 reading, source, mishaps, use>>

-----------------------------------------------------------------------------
(* Start, and the restart that ReadFromBuf may try                          *)

StartupReadAheadThread ==
  /\ pc[Decoder] = "create"
  /\ readaheadrunning' = FALSE
  /\ tpc' = "start"
  /\ GoOn(Decoder, "boot")
  /\ UNCHANGED <<readaheadpaused, pausereadthread, stopreads, signs, ring, positions,
                 totfree, ret, source, rest>>

\* Start is followed by Unpause; ReadFromBuf waits again, or not.
Booted ==
  /\ pc[Decoder] = "booted"
  /\ IF call[Decoder] = "Start"
     THEN GoOn(Decoder, "startreads") /\ UNCHANGED stopreads
     ELSE IF readErr > AbortAfter
     THEN Return(Decoder) /\ stopreads' = TRUE
     ELSE GoOn(Decoder, "await") /\ UNCHANGED stopreads
  /\ UNCHANGED <<readaheadrunning, readaheadpaused, pausereadthread, signs, ring,
                 positions, reading, source, rest>>

\* pthread_join
Join(c) ==
  /\ pc[c] = "join" /\ tpc = "done"
  /\ tpc' = "none"
  /\ GoOn(c, IF c = Decoder THEN "create" ELSE "deleted")
  /\ UNCHANGED <<flags, signs, ring, positions, totfree, ret, source, rest>>

-----------------------------------------------------------------------------
(* Read and Peek: ReadFromBuf                                              *)

\* A paused buffer is unpaused for one read.
ReadFromBuf(c, n) ==
  /\ c \in {"Read", "Peek"}
  /\ LET one == readaheadpaused /\ stopreads
     IN  IF commserror
         THEN UNCHANGED <<clients, locals>>
         ELSE /\ call' = [call EXCEPT ![Decoder] = c]
              /\ pc' = [pc EXCEPT ![Decoder] = IF one THEN "startreads" ELSE "await"]
              /\ count' = n /\ readone' = one
              /\ UNCHANGED <<avail, readErr, target>>
  /\ UNCHANGED source

IsAllowed ==
  /\ pc[Decoder] = "await" /\ (readsallowed \/ stopreads)
  /\ GoOn(Decoder, "avail")
  /\ UNCHANGED <<flags, signs, ring, positions, reading, source, rest>>

Borked == readErr' > RestartAfter /\ readErr' % 2 = 1 /\ rbrpos = 0

\* A second goes by.  The thread is restarted, with readsAllowedWaitMutex locked,
\* when it seems not to have come up.  That takes seconds, which a thread that
\* is neither paused nor slow (use.stalls) does not take.
NotAllowed ==
  /\ pc[Decoder] = "await" /\ ~readsallowed /\ ~stopreads
  /\ use.stalls \/ pausereadthread
  /\ readErr' = readErr + 1
  /\ IF Borked
     THEN /\ readaheadrunning' = FALSE
          /\ Go(Decoder, IF readaheadrunning THEN "join" ELSE "create")
          /\ mishaps' = mishaps \cup {"restart"}
     ELSE Go(Decoder, "booted") /\ UNCHANGED <<readaheadrunning, mishaps>>
  /\ UNCHANGED <<readaheadpaused, pausereadthread, stopreads, signs, ring, positions,
                 reading, count, avail, readone, target, source, ignoreliveeof, use>>

\* ReadBufAvail, first and after each wait for data.
Avail ==
  /\ pc[Decoder] \in {"avail", "wait"}
  /\ avail' = ReadBufAvail
  /\ Go(Decoder, IF pc[Decoder] = "avail" THEN "first" ELSE "again")
  /\ UNCHANGED <<flags, signs, ring, positions, reading, count, readone, readErr,
                 target, source, rest>>

\* A read is cut short at the end.  Otherwise it waits, unless reads are stopped.
EnoughToRead ==
  /\ pc[Decoder] \in {"first", "again"}
  /\ LET again == pc[Decoder] = "again"
         n == IF ateof \/ (again /\ setswitchtonext) THEN Smaller(avail, count) ELSE count
     IN  IF again /\ commserror
         THEN Return(Decoder)
         ELSE /\ count' = n
              /\ Go(Decoder, IF avail < n /\ ~stopreads THEN "wait" ELSE "last")
              /\ UNCHANGED <<avail, readone, readErr, target>>
  /\ UNCHANGED <<flags, signs, ring, positions, reading, source, rest>>

\* Mutant: only a switch ends the wait.
GiveUp_switch ==
  /\ pc[Decoder] = "wait" /\ use.live /\ (needsToSwitch \/ setswitchtonext)
  /\ ateof' = TRUE /\ stopreads' = TRUE
  /\ Return(Decoder)
  /\ UNCHANGED <<readaheadrunning, readaheadpaused, pausereadthread, readsallowed,
                 setswitchtonext, commserror, numfailures, ring, positions, reading,
                 source, rest>>

\* No data in 16 seconds, or a program to switch to.
GiveUp ==
  /\ pc[Decoder] = "wait"
  /\ ateof' = TRUE /\ stopreads' = TRUE
  /\ Return(Decoder)
  /\ UNCHANGED <<readaheadrunning, readaheadpaused, pausereadthread, readsallowed,
                 setswitchtonext, commserror, numfailures, ring, positions, reading,
                 source, rest>>

LastCut ==
  /\ pc[Decoder] = "last"
  /\ count' = IF ateof \/ stopreads THEN Smaller(avail, count) ELSE count
  /\ Go(Decoder, "copy")
  /\ UNCHANGED <<flags, signs, ring, positions, reading, avail, readone, readErr,
                 target, source, rest>>

\* Mutant: rbrpos runs past the end.
Copy_past ==
  /\ pc[Decoder] = "copy"
  /\ IF call[Decoder] = "Read"
     THEN /\ rbrpos' = rbrpos + count
          /\ readpos' = readpos + count
          /\ readAheadBuffer' = [s \in 0..(Size - 1) |->
               IF s \in Slots(rbrpos, count) THEN None ELSE readAheadBuffer[s]]
     ELSE UNCHANGED <<rbrpos, readpos, readAheadBuffer>>
  /\ IF readone THEN GoOn(Decoder, "pause") ELSE Return(Decoder)
  /\ UNCHANGED <<flags, signs, rbwpos, readblocksize, internalreadpos, reading, source,
                 rest>>

\* What Read copies is consumed.  One read of a paused buffer pauses it again.
Copy ==
  /\ pc[Decoder] = "copy"
  /\ IF call[Decoder] = "Read"
     THEN /\ rbrpos' = (rbrpos + count) % Size
          /\ readpos' = readpos + count
          /\ readAheadBuffer' = [s \in 0..(Size - 1) |->
               IF s \in Slots(rbrpos, count) THEN None ELSE readAheadBuffer[s]]
     ELSE UNCHANGED <<rbrpos, readpos, readAheadBuffer>>
  /\ IF readone THEN GoOn(Decoder, "pause") ELSE Return(Decoder)
  /\ UNCHANGED <<flags, signs, rbwpos, readblocksize, internalreadpos, reading, source,
                 rest>>

-----------------------------------------------------------------------------
(* Seek, and the change of programs                                        *)

\* rwlock is locked for writing.
Seek ==
  /\ pc[Decoder] = "seek" /\ ~ThreadHasLock
  /\ IF target = readpos
     THEN UNCHANGED <<signs, ring, positions, fpos>>
     ELSE /\ fpos' = target /\ readpos' = target
          /\ ResetReadAhead(target)
          /\ UNCHANGED <<commserror, numfailures>>
  /\ Return(Decoder)
  /\ UNCHANGED <<flags, reading, file, chain, needsToSwitch, rest>>

\* Reset(true) of RingBuffer
Reset ==
  /\ pc[Decoder] = "reset" /\ ~ThreadHasLock
  /\ ResetReadAhead(0)
  /\ readpos' = 0 /\ commserror' = FALSE /\ numfailures' = 0
  /\ GoOn(Decoder, IF call[Decoder] = "JumpToProgram" THEN "open" ELSE "startreads")
  /\ UNCHANGED <<flags, reading, source, rest>>

\* OpenFile up to UpdateRawBitrate.  The chain is told of it.
OpenFile ==
  /\ pc[Decoder] = "open"
  /\ file' = target /\ fpos' = 0 /\ needsToSwitch' = FALSE
  /\ setswitchtonext' = FALSE /\ ateof' = FALSE
  /\ commserror' = FALSE /\ numfailures' = 0
  /\ GoOn(Decoder, "bitrate")
  /\ UNCHANGED <<flags, readsallowed, ring, positions, reading, chain, rest>>

\* CalcReadAheadThresh, with rwlock locked for writing.
UpdateRawBitrate ==
  /\ pc[Decoder] = "bitrate" /\ ~ThreadHasLock
  /\ readsallowed' = FALSE /\ readblocksize' = 1
  /\ GoOn(Decoder, IF call[Decoder] = "JumpToProgram" THEN "startreads" ELSE "reset")
  /\ UNCHANGED <<flags, ateof, setswitchtonext, commserror, numfailures, rbrpos, rbwpos,
                 readAheadBuffer, positions, reading, source, rest>>

-----------------------------------------------------------------------------
(* What the threads call                                                   *)

Calls(c, to, n) ==
  /\ call' = [call EXCEPT ![Decoder] = c] /\ pc' = [pc EXCEPT ![Decoder] = to]
  /\ target' = n
  /\ UNCHANGED <<count, avail, readone, readErr>>

\* GetSwitchProgram forgets the switch that it answers.
ChangeProgram(c, p) ==
  /\ c \in {"SwitchToProgram", "JumpToProgram"} /\ use.live /\ p # file
  /\ c = "SwitchToProgram" => needsToSwitch /\ p = file + 1
  /\ needsToSwitch' = FALSE
  /\ Calls(c, "pause", p)
  /\ UNCHANGED <<file, fpos, chain>>

\* After a mishap, and while PauseLiveTV keeps the decoder's thread from calling,
\* there is no further call.
DecoderCall ==
  /\ pc[Decoder] = "idle" /\ mishaps = {}
  /\ ~(call[Control] = "StopDecoder" /\ pc[Control] = "startreads")
  /\ \E c \in use.decoder :
       \/ \E n \in Counts : ReadFromBuf(c, n)
       \/ \E p \in Targets : c = "Seek" /\ Calls(c, "seek", p) /\ UNCHANGED source
       \/ \E p \in 1..chain : ChangeProgram(c, p)
  /\ UNCHANGED <<flags, signs, ring, positions, reading, rest>>

\* StopDecoder is PauseLiveTV of tv_play.cpp.
ControlCall ==
  /\ pc[Control] = "idle" /\ call[Decoder] # "Start"
  /\ \E c \in use.control \ {"Delete"} :
       /\ call' = [call EXCEPT ![Control] = c]
       /\ pc' = [pc EXCEPT ![Control] =
            CASE c = "Unpause"     -> "startreads"
              [] c = "StopDecoder" -> "stop"
              [] OTHER             -> "pause"]
       /\ ignoreliveeof' = (ignoreliveeof \/ c = "StopDecoder")
  /\ UNCHANGED <<flags, signs, ring, positions, reading, locals, source, mishaps, use>>

\* PauseDecoder returns when the decoder's thread is in no call.
Drained ==
  /\ pc[Control] = "drain" /\ pc[Decoder] = "idle"
  /\ Go(Control, "startreads")
  /\ UNCHANGED <<flags, signs, ring, positions, reading, locals, source, rest>>

\* Mutant: the thread is not told.
KillReadAheadThread_untold ==
  /\ "Delete" \in use.control
  /\ pc[Control] = "idle" /\ pc[Decoder] = "idle"
  /\ pc' = [pc EXCEPT ![Control] = "join", ![Decoder] = "gone"]
  /\ call' = [call EXCEPT ![Control] = "Delete"]
  /\ UNCHANGED <<flags, signs, ring, positions, reading, locals, source, rest>>

\* The destructor, when the decoder's thread has ended.
KillReadAheadThread ==
  /\ "Delete" \in use.control
  /\ pc[Control] = "idle" /\ pc[Decoder] = "idle"
  /\ readaheadrunning' = FALSE
  /\ pc' = [pc EXCEPT ![Control] = IF readaheadrunning THEN "join" ELSE "deleted",
                     ![Decoder] = "gone"]
  /\ call' = [call EXCEPT ![Control] = "Delete"]
  /\ UNCHANGED <<readaheadpaused, pausereadthread, stopreads, signs, ring, positions,
                 reading, locals, source, rest>>

\* The backend appends a program to the chain.
AppendNewProgram ==
  /\ use.live /\ chain < Programs
  /\ chain' = chain + 1
  /\ UNCHANGED <<flags, signs, ring, positions, reading, clients, locals, file, fpos,
                 needsToSwitch, rest>>

-----------------------------------------------------------------------------

ThreadStep ==
  \/ ThreadStarts \/ ThreadResets \/ ThreadIsUp \/ ThreadPauses \/ ThreadAwakes
  \/ Room \/ ReadBegin \/ (\E n \in 0..Size, f \in 0..3 : SafeRead(n, f))
  \/ ReadEnd \/ ThreadEnds

PauseStep(c) ==
  \/ PauseThread(c) \/ StopReads(c) \/ WaitForPause(c) \/ PauseWoken(c)
  \/ StartReads(c) \/ UnpauseThread(c) \/ Join(c)

ReadStep ==
  \/ StartupReadAheadThread \/ Booted \/ IsAllowed \/ NotAllowed \/ Avail
  \/ EnoughToRead \/ LastCut \/ Copy \/ OpenFile

LockStep == Seek \/ Reset \/ UpdateRawBitrate

Next ==
  \/ ThreadStep \/ (\E c \in Clients : PauseStep(c)) \/ ReadStep \/ GiveUp \/ LockStep
  \/ DecoderCall \/ ControlCall \/ Drained \/ KillReadAheadThread \/ AppendNewProgram

Spec == Init /\ [][Next]_vars

\* The threads run; a wait for data comes to its limit; and the read-ahead thread
\* sleeps with rwlock unlocked often enough for a writer to lock it (wantseek).
FairSpec ==
  /\ Spec
  /\ WF_vars(ThreadStep)
  /\ WF_vars(ReadStep \/ PauseStep(Decoder)) /\ WF_vars(PauseStep(Control))
  /\ SF_vars(GiveUp) /\ SF_vars(LockStep)

-----------------------------------------------------------------------------
(* Properties                                                              *)

DecoderPCs == {"create", "boot", "booted", "await", "avail", "first", "again", "wait",
               "last", "copy", "seek", "open", "bitrate", "reset", "idle", "gone"}
PausePCs == {"pause", "stop", "waitforpause", "pausing", "paused", "startreads",
             "unpause", "join"}

\* Every variable has its type.
TypeOK ==
  /\ {readaheadrunning, readaheadpaused, pausereadthread, stopreads, ateof, readsallowed,
      setswitchtonext, commserror, ignoreliveeof, readone, needsToSwitch} \subseteq BOOLEAN
  /\ numfailures \in 0..(FailLimit + 1)
  /\ rbrpos \in 0..(Size - 1) /\ rbwpos \in 0..(Size - 1)
  /\ readblocksize \in 1..MaxBlock
  /\ readAheadBuffer \in [0..(Size - 1) -> (0..Programs) \X (0..MaxLen)]
  /\ readpos \in Nat /\ internalreadpos \in Nat /\ fpos \in 0..MaxLen
  /\ tpc \in {"none", "start", "init", "up", "loop", "awake", "lock", "read", "end", "done"}
  /\ totfree \in 0..(Size - 1) /\ ret \in -1..(Size - 1)
  /\ pc[Decoder] \in DecoderPCs \cup PausePCs
  /\ pc[Control] \in {"idle", "drain", "deleted"} \cup PausePCs
  /\ call[Decoder] \in DecoderCalls \cup {"", "Start"}
  /\ call[Control] \in ControlCalls \cup {""}
  /\ count \in 0..Size /\ avail \in 0..(Size - 1) /\ readErr \in 0..(AbortAfter + 1)
  /\ target \in 0..(MaxLen + Programs) /\ file \in 1..Programs /\ chain \in 1..Programs
  /\ mishaps \subseteq {"change", "restart", "startreads"} /\ use \in Uses

\* What the thread reads into the ring is not what the decoder's thread copies
\* from it, for which neither of them locks anything against the other: rwlock
\* is shared, and readAheadLock guards only the positions.
NoOverlap ==
  tpc = "read" /\ pc[Decoder] = "copy" /\ "startreads" \notin mishaps =>
    Slots(rbwpos, totfree) \cap Slots(rbrpos, count) = {}

\* Read and Peek return the bytes of the open program from where the last Read or
\* Seek left off, whoever pauses and seeks and whatever fails, unless the thread
\* was at work while the program was changed, was restarted by ReadFromBuf, or
\* reads were started between the two looks that ReadFromBuf takes at stopreads.
ReadsAreTheFile ==
  pc[Decoder] = "copy" /\ mishaps = {} =>
    \A i \in 0..(count - 1) :
      readAheadBuffer[(rbrpos + i) % Size] = <<file, readpos + i>>

\* A Read or Peek returns, but for a restart of the thread: at the end of the file,
\* when the thread is paused under it, or when a program does not go on.
ReadReturns ==
  call[Decoder] \in {"Read", "Peek"} ~>
    \/ call[Decoder] = "" \/ Restarting
    \/ pc[Decoder] = "pausing" /\ ~pausereadthread

\* WaitForPause, which has no limit, is woken by the thread, unless the pause is
\* over before that or the thread is restarted.
PauseReached ==
  \A c \in Clients :
    pc[c] = "pausing" ~> (pc[c] # "pausing" \/ ~pausereadthread \/ Restarting)

\* The destructor's join comes back, whether the thread reads, waits or pauses.
DeleteReturns == pc[Control] = "join" ~> pc[Control] = "deleted"

=============================================================================
