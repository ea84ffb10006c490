-------------------------- MODULE DeviceReadBuffer --------------------------
(***************************************************************************)
(* libmythtv/DeviceReadBuffer: a thread (fill_ringbuffer) reads the capture *)
(* device into a ring, from which the recorder thread Reads.  The recorder  *)
(* may pause the reading, to retune, and resume it; the ring is then reset. *)
(*                                                                         *)
(* Each locked section of the code is one action, and so is each access to *)
(* the ring's memory, which is made without the lock.  The bytes of the    *)
(* device are numbered as they are read; 0 is a byte of the initial fill.  *)
(* Pointers are offsets from buffer.  used is a size_t: arithmetic on it   *)
(* is modulo SizeMod.                                                      *)
(***************************************************************************)
EXTENDS Integers, Sequences

CONSTANTS
  Size,        \* size of the ring
  DevReadSize, \* dev_read_size: the most one read of the device asks for
  MinRead,     \* min_read: what a Read waits for
  PacketSize,  \* TSPacket::SIZE: what a read of the device waits for
  SizeMod,     \* 2^w for the width w of size_t
  ErrLimit,    \* consecutive failures of the device that are tolerated (5)
  Counts,      \* what the recorder asks Read for
  Users,       \* TRUE for MpegRecorder, which pauses, FALSE for DVBStreamHandler
  MaxStream    \* bound: bytes the device delivers

ASSUME DRBAssumption ==
  /\ Size \in Nat \ {0} /\ DevReadSize \in Nat \ {0}
  /\ MinRead \in 1..Size /\ PacketSize \in 1..Size
  /\ SizeMod \in Nat /\ SizeMod > Size
  /\ ErrLimit \in Nat /\ MaxStream \in Nat
  /\ Counts \subseteq 1..Size
  /\ Users \subseteq BOOLEAN

VARIABLES
  run, running, eof, error, request_pause, paused,   \* the flags
  used, readPtr, writePtr, buffer,                   \* the ring
  fpc, read_size, len, errcnt,                       \* fill_ringbuffer
  rpc, count, avail, cnt, piece,                     \* the recorder in Read
  heard,                                             \* WaitForPaused was TRUE
  dev,                                               \* bytes the device gave
  canPause,                                          \* which user this one is
  out, last                                          \* a Read's result; before

flags  == <<run, running, eof, error, request_pause, paused>>
ring   == <<used, readPtr, writePtr, buffer>>
filler == <<fpc, read_size, len, errcnt>>
reader == <<rpc, count, avail, cnt, piece, heard>>
result == <<canPause, out, last>>
vars   == <<flags, ring, filler, reader, dev, result>>

Smaller(a, b) == IF a < b THEN a ELSE b

\* After Setup and before Start.
Init ==
  /\ run = FALSE /\ running = FALSE /\ eof = FALSE /\ error = FALSE
  /\ request_pause = FALSE /\ paused = FALSE
  /\ used = 0 /\ readPtr = 0 /\ writePtr = 0
  /\ buffer = [s \in 0..(Size - 1) |-> 0]
  /\ fpc = "none" /\ read_size = 0 /\ len = 0 /\ errcnt = 0
  /\ rpc = "idle" /\ count = 0 /\ avail = 0 /\ cnt = 0 /\ piece = 0
  /\ heard = FALSE
  /\ dev = 0 /\ canPause \in Users /\ out = <<>> /\ last = 0

-----------------------------------------------------------------------------
(* fill_ringbuffer                                                         *)

\* MpegRecorder::RestartEncoding starts it again when the device has failed and Stop
\* has joined the thread; the flags and the ring stay as they are, error too.  There may
\* be no thread to be had.
Start ==
  /\ rpc = "idle"
  /\ \/ fpc = "none" /\ ~error
     \/ fpc \in {"none", "dead"} /\ canPause /\ error /\ ~run
  /\ \/ fpc' = "boot" /\ errcnt' = 0 /\ UNCHANGED error
     \/ error' = TRUE /\ UNCHANGED <<fpc, errcnt>>
  /\ UNCHANGED <<run, running, eof, request_pause, paused, ring, read_size, len, reader,
                 dev, result>>

Boot ==
  /\ fpc = "boot"
  /\ run' = TRUE /\ running' = TRUE
  /\ fpc' = "top"
  /\ UNCHANGED <<eof, error, request_pause, paused, ring, read_size, len, errcnt,
                 reader, dev, result>>

\* while (run), and the tests of HandlePausing
Top ==
  /\ fpc = "top"
  /\ fpc' = CASE ~run                            -> "down"
              [] run /\ request_pause            -> "pause"
              [] run /\ ~request_pause /\ paused -> "reset"
              [] OTHER                           -> "poll"
  /\ UNCHANGED <<flags, ring, read_size, len, errcnt, reader, dev, result>>

Pause ==
  /\ fpc = "pause"
  /\ paused' = TRUE
  /\ fpc' = "top"
  /\ UNCHANGED <<run, running, eof, error, request_pause, ring, read_size, len,
                 errcnt, reader, dev, result>>

Reset ==
  /\ fpc = "reset"
  /\ used' = 0 /\ readPtr' = 0 /\ writePtr' = 0
  /\ fpc' = "unpause"
  /\ UNCHANGED <<flags, buffer, read_size, len, errcnt, reader, dev, result>>

Unpause ==
  /\ fpc = "unpause"
  /\ paused' = FALSE
  /\ fpc' = "poll"
  /\ UNCHANGED <<run, running, eof, error, request_pause, ring, read_size, len,
                 errcnt, reader, dev, result>>

\* Mutants: a waiting fill thread that overlooks one of its two flags.
Interrupted_stopOnly == ~run
Interrupted_pauseOnly == request_pause

\* The tests that make the fill thread give up what it is waiting for.
Interrupted == request_pause \/ ~run

\* Poll: go on when the device has data or an error, which it may never have.
Poll ==
  /\ fpc = "poll"
  /\ fpc' = IF Interrupted THEN "top" ELSE "room"
  /\ UNCHANGED <<flags, ring, read_size, len, errcnt, reader, dev, result>>

Unused == (Size - used) % SizeMod
ContiguousUnused == Size - writePtr

\* Mutant: the space before the end of the ring, whoever occupies it.
Free_contiguous == Smaller(DevReadSize, ContiguousUnused)

Free == Smaller(DevReadSize, Smaller(ContiguousUnused, Unused))

\* WaitForUnused(TSPacket::SIZE), capped with dev_read_size; it neither waits
\* nor looks at the flags in the last packet before the end of the ring.
Room ==
  /\ fpc = "room"
  /\ IF ContiguousUnused > PacketSize
     THEN Interrupted \/ Unused >= PacketSize
     ELSE TRUE
  /\ IF (ContiguousUnused > PacketSize /\ Interrupted) \/ Free = 0
     THEN fpc' = "top" /\ UNCHANGED read_size
     ELSE fpc' = "read" /\ read_size' = Free
  /\ UNCHANGED <<flags, ring, len, errcnt, reader, dev, result>>

\* read() returns n bytes, stored at writePtr.
DeviceRead(n) ==
  /\ fpc = "read" /\ n <= read_size /\ dev + n <= MaxStream
  /\ buffer' = [s \in DOMAIN buffer |->
                  IF s \in writePtr..(writePtr + n - 1)
                  THEN dev + 1 + (s - writePtr) ELSE buffer[s]]
  /\ dev' = dev + n
  /\ len' = n /\ errcnt' = 0
  /\ fpc' = "incr"
  /\ UNCHANGED <<flags, used, readPtr, writePtr, read_size, reader, result>>

\* EINTR, EAGAIN and EOVERFLOW are not counted as failures.
DeviceAgain ==
  /\ fpc = "read"
  /\ fpc' = "top" /\ read_size' = 0
  /\ UNCHANGED <<flags, ring, len, errcnt, reader, dev, result>>

\* Any other error (end = FALSE), or end of file: the thread ends after more
\* than ErrLimit in a row.
DeviceFails(end) ==
  /\ fpc = "read"
  /\ errcnt' = errcnt + 1 /\ read_size' = 0
  /\ IF errcnt' > ErrLimit
     THEN /\ error' = (error \/ ~end) /\ eof' = (eof \/ end)
          /\ fpc' = "down"
     ELSE fpc' = "top" /\ UNCHANGED <<error, eof>>
  /\ UNCHANGED <<run, running, request_pause, paused, ring, len, reader, dev,
                 result>>

\* Mutant: the pointer is not wrapped.
IncrWritePointer_noWrap ==
  /\ fpc = "incr"
  /\ used' = (used + len) % SizeMod
  /\ writePtr' = writePtr + len
  /\ fpc' = "top" /\ len' = 0 /\ read_size' = 0
  /\ UNCHANGED <<flags, readPtr, buffer, errcnt, reader, dev, result>>

IncrWritePointer ==
  /\ fpc = "incr"
  /\ used' = (used + len) % SizeMod
  /\ writePtr' = IF writePtr + len = Size THEN 0 ELSE writePtr + len
  /\ fpc' = "top" /\ len' = 0 /\ read_size' = 0
  /\ UNCHANGED <<flags, readPtr, buffer, errcnt, reader, dev, result>>

Down ==
  /\ fpc = "down"
  /\ running' = FALSE
  /\ fpc' = "dead"
  /\ UNCHANGED <<run, eof, error, request_pause, paused, ring, read_size, len,
                 errcnt, reader, dev, result>>

\* Stop, by DVBStreamHandler::Stop's thread or the recorder's: it then joins
\* the thread, if that was running.
Stop ==
  /\ fpc # "none"
  /\ run' = FALSE
  /\ UNCHANGED <<running, eof, error, request_pause, paused, ring, filler,
                 reader, dev, result>>

-----------------------------------------------------------------------------
(* The recorder                                                            *)

ReadCall(n) ==
  /\ rpc = "idle"
  /\ count' = n /\ avail' = used
  /\ rpc' = "wait"
  /\ last' = IF out = <<>> THEN last ELSE out[Len(out)]
  /\ out' = <<>>
  /\ UNCHANGED <<flags, ring, filler, cnt, piece, heard, dev, canPause>>

Needed == Smaller(count, MinRead)

\* Read returns: 0 for what is in its locals.
Leave ==
  /\ rpc' = "idle" /\ count' = 0 /\ avail' = 0 /\ cnt' = 0 /\ piece' = 0
  /\ UNCHANGED heard

\* Mutant: the reader does not see that the fill thread has ended.
StillWaiting_deaf == Needed > avail

StillWaiting == Needed > avail /\ running

\* WaitForUsed looks at used again, unless the reading pauses or has failed.
ReadWait ==
  /\ rpc = "wait" /\ StillWaiting
  /\ IF request_pause \/ error \/ eof
     THEN Leave
     ELSE avail' = used /\ UNCHANGED <<rpc, count, cnt, piece, heard>>
  /\ UNCHANGED <<flags, ring, filler, dev, result>>

\* Mutant: Read takes what was asked for rather than what there is.
Take_uncapped == count

Take == Smaller(count, avail)

ReadTake ==
  /\ rpc = "wait" /\ ~StillWaiting
  /\ LET n == Take
     IN  IF n = 0 THEN Leave
         ELSE /\ rpc' = "copy" /\ cnt' = n
              /\ piece' = IF readPtr + n > Size THEN Size - readPtr ELSE n
              /\ UNCHANGED <<count, avail, heard>>
  /\ UNCHANGED <<flags, ring, filler, dev, result>>

\* One memcpy from readPtr, and the locked IncrReadPointer.
ReadCopy ==
  /\ rpc = "copy"
  /\ out' = out \o [i \in 1..piece |-> buffer[readPtr + i - 1]]
  /\ rpc' = "incr"
  /\ UNCHANGED <<flags, ring, filler, count, avail, cnt, piece, heard, dev,
                 canPause, last>>

\* Mutant: each of two pieces takes the whole count off used.
IncrReadPointer_twice ==
  /\ rpc = "incr"
  /\ used' = (used - cnt) % SizeMod
  /\ readPtr' = IF readPtr + piece = Size THEN 0 ELSE readPtr + piece
  /\ IF Len(out) = cnt
     THEN Leave
     ELSE /\ rpc' = "copy" /\ piece' = cnt - Len(out)
          /\ UNCHANGED <<count, avail, cnt, heard>>
  /\ UNCHANGED <<flags, writePtr, buffer, filler, dev, result>>

IncrReadPointer ==
  /\ rpc = "incr"
  /\ used' = (used - piece) % SizeMod
  /\ readPtr' = IF readPtr + piece = Size THEN 0 ELSE readPtr + piece
  /\ IF Len(out) = cnt
     THEN Leave
     ELSE /\ rpc' = "copy" /\ piece' = cnt - Len(out)
          /\ UNCHANGED <<count, avail, cnt, heard>>
  /\ UNCHANGED <<flags, writePtr, buffer, filler, dev, result>>

\* MpegRecorder::PauseAndWait
RequestPause ==
  /\ canPause /\ rpc = "idle" /\ fpc # "none"
  /\ request_pause' = TRUE
  /\ rpc' = "pausing"
  /\ UNCHANGED <<run, running, eof, error, paused, ring, filler, count, avail,
                 cnt, piece, heard, dev, result>>

\* WaitForPaused returns when the thread has paused, or at its timeout.
WaitForPaused ==
  /\ rpc = "pausing"
  /\ heard' = paused
  /\ rpc' = "held"
  /\ UNCHANGED <<flags, ring, filler, count, avail, cnt, piece, dev, result>>

Resume ==
  /\ rpc = "held"
  /\ request_pause' = FALSE
  /\ heard' = FALSE
  /\ rpc' = "idle"
  /\ UNCHANGED <<run, running, eof, error, paused, ring, filler, count, avail,
                 cnt, piece, dev, result>>

-----------------------------------------------------------------------------

FillStep ==
  \/ Boot \/ Top \/ Pause \/ Reset \/ Unpause \/ Room \/ IncrWritePointer \/ Down
  \/ (Poll /\ Interrupted)

DeviceStep ==
  \/ (Poll /\ ~Interrupted)
  \/ \E n \in 1..DevReadSize : DeviceRead(n)
  \/ DeviceAgain
  \/ \E end \in BOOLEAN : DeviceFails(end)

ReadStep == ReadWait \/ ReadTake \/ ReadCopy \/ IncrReadPointer \/ WaitForPaused

Call == Start \/ Stop \/ (\E n \in Counts : ReadCall(n)) \/ RequestPause \/ Resume

Next == FillStep \/ DeviceStep \/ ReadStep \/ Call

Spec == Init /\ [][Next]_vars

\* Both threads run.  The device may stay silent, but a read() that was begun
\* returns: Poll has said that there is something to return.
Fairness ==
  /\ WF_vars(FillStep) /\ WF_vars(ReadStep)
  /\ WF_vars(DeviceStep /\ fpc = "read")

FairSpec == Spec /\ Fairness

-----------------------------------------------------------------------------
(* Properties                                                              *)

TypeOK ==
  /\ run \in BOOLEAN /\ running \in BOOLEAN /\ eof \in BOOLEAN
  /\ error \in BOOLEAN /\ request_pause \in BOOLEAN /\ paused \in BOOLEAN
  /\ used \in 0..(SizeMod - 1)
  /\ readPtr \in 0..(Size - 1) /\ writePtr \in 0..(Size - 1)
  /\ buffer \in [0..(Size - 1) -> Nat]
  /\ fpc \in {"none", "boot", "top", "pause", "reset", "unpause", "poll", "room",
              "read", "incr", "down", "dead"}
  /\ read_size \in 0..DevReadSize /\ len \in 0..DevReadSize
  /\ errcnt \in 0..(ErrLimit + 1)
  /\ rpc \in {"idle", "wait", "copy", "incr", "pausing", "held"}
  /\ count \in 0..Size /\ avail \in 0..(SizeMod - 1) /\ cnt \in 0..Size
  /\ piece \in 0..Size /\ heard \in BOOLEAN
  /\ dev \in 0..MaxStream /\ canPause \in BOOLEAN /\ out \in Seq(Nat) /\ last \in Nat

\* used is the distance from readPtr to writePtr, whichever of the two threads
\* is between its access to the memory and its pointer update, as long as
\* nothing resets the ring under the reader.
UsedIsDistance ==
  ~canPause => /\ used <= Size
               /\ writePtr = (readPtr + used) % Size

\* The fill thread's read() and the recorder's memcpy, both made without the
\* lock, never touch the same byte.
NoOverlap ==
  ~canPause /\ fpc = "read" /\ rpc = "copy" =>
    (writePtr..(writePtr + read_size - 1)) \cap (readPtr..(readPtr + piece - 1))
      = {}

\* "\return number of bytes actually read" (DeviceReadBuffer.cpp:406): what Read
\* returns was read from the device and had not been returned before.
ReadsWereRead ==
  \A i \in 1..Len(out) : out[i] > (IF i = 1 THEN last ELSE out[i - 1])

\* And without a pause nothing is skipped.
ReadsAreComplete ==
  ~canPause => \A i \in 1..Len(out) : out[i] = last + i

\* Once WaitForPaused has returned TRUE the device is left alone until the
\* recorder resumes, even if the thread was on its way out of an older pause.
PausedIsQuiet == heard => fpc \notin {"read", "incr"}

\* The thread that Stop joins ends, also when the device is silent, the ring
\* full or the reading paused.
StopReturns == ~run /\ fpc \notin {"none", "boot"} ~> fpc = "dead"

\* A Read that waits for data is released when the fill thread ends.
EndReleasesReader == fpc = "dead" ~> rpc \notin {"wait", "copy", "incr"}

\* A pause is reached, also from a full ring and from a silent device, unless
\* the thread ends.
PauseReached ==
  (request_pause /\ fpc # "none") ~> (paused \/ ~request_pause \/ fpc = "dead")
=============================================================================
