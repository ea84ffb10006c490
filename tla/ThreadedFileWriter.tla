------------------------- MODULE ThreadedFileWriter -------------------------
(***************************************************************************)
(* libmythtv/ThreadedFileWriter: the write buffer between a recorder and   *)
(* the file it records to.  Client threads call Write, Flush, Seek and     *)
(* SetWriteBufferSize; DiskLoop moves the buffer to the file with          *)
(* safe_write; SyncLoop syncs the file.                                    *)
(*                                                                         *)
(* Every section of code that holds buflock is one action.  Every wait on  *)
(* a condition has a timeout after which the waiter looks again, so a wait *)
(* is a step that may be taken whenever its condition holds and wake-ups   *)
(* need no state.  The memcpy and safe_write calls, made without the lock, *)
(* are steps of their own.                                                 *)
(*                                                                         *)
(* The data is a stream: its n-th byte is the number n.  A slot of buf     *)
(* that was never filled holds 0, and so does a local out of scope.        *)
(***************************************************************************)
EXTENDS Integers, Sequences, FiniteSetsExt

CONSTANTS
  Clients,      \* threads that hold the object: the recorder and TVRec
  Writer,       \* the one of them that calls Write and Seek (the recorder)
  BufSizes,     \* sizes the buffer is opened with or resized to
  MaxWrite,     \* TFW_MAX_WRITE_SIZE
  MinWrite,     \* tfw_min_write_size, the low watermark
  Faults,       \* errors safe_write gives up on: a subset of {"EFBIG", "EIO"}
  MaxStream     \* bound: bytes the writer produces

ASSUME TFWAssumption ==
  /\ Writer \in Clients
  /\ BufSizes \subseteq Nat \ {0, 1}
  /\ \E largest \in BufSizes : \A s \in BufSizes : s <= largest
  /\ MaxWrite \in Nat \ {0} /\ MinWrite \in Nat \ {0} /\ MaxStream \in Nat
  /\ Faults \subseteq {"EFBIG", "EIO"}

VARIABLES
  rpos, wpos, tfw_buf_size, buf,              \* the ring
  flush, no_writes, in_dtor, ignore_writes,   \* the flags
  written,                                    \* bytes counted up to MinWrite
  dpc, size, trpos,                           \* DiskLoop and its locals
  spc,                                        \* SyncLoop
  cpc, after,                                 \* clients; what follows a Flush
  count, remaining, twpos, bytes,             \* locals of the Write in progress
  writepos,                                   \* RingBuffer::writepos
  fd, fpos, flen,                             \* the file's state, offset, length
  disk,                                       \* [byte, at] in the order written
  synced,                                     \* how much of disk is synced
  put, want,                                  \* bytes buffered; their positions
  mark                                        \* put when a client's Flush began

ring    == <<rpos, wpos, tfw_buf_size, buf>>
flags   == <<flush, no_writes, in_dtor, ignore_writes>>
diskLoc == <<dpc, size, trpos>>
cliLoc  == <<cpc, after, mark>>
wrLoc   == <<count, remaining, twpos, bytes>>
file    == <<fd, fpos, flen, disk>>
stream  == <<put, want>>
vars == <<ring, flags, written, diskLoc, spc, cliLoc, wrLoc, writepos, file,
          synced, stream>>

Least(a, b) == IF a < b THEN a ELSE b

\* Mutant: off by one once wpos has wrapped.
BufUsedPriv_wrapped ==
  IF wpos >= rpos THEN wpos - rpos ELSE tfw_buf_size - rpos + wpos - 1

BufUsedPriv == IF wpos >= rpos THEN wpos - rpos ELSE tfw_buf_size - rpos + wpos

BufFreePriv == (IF wpos >= rpos THEN rpos + tfw_buf_size ELSE rpos) - wpos - 1

\* Mutant: the end of the buffer is not wrapped.
Wrap_late(p) == IF p > tfw_buf_size THEN p - tfw_buf_size ELSE p

\* A position of the ring, one lap on or not.
Wrap(p) == p % tfw_buf_size

\* The slots that hold the n bytes starting at position p.
Slots(p, n) == {Wrap(p + i) : i \in 0..(n - 1)}

Init ==
  /\ tfw_buf_size \in BufSizes
  /\ rpos = 0 /\ wpos = 0
  /\ buf = [s \in 0..(tfw_buf_size - 1) |-> 0]
  /\ flush = FALSE /\ no_writes = FALSE /\ in_dtor = FALSE
  /\ ignore_writes = FALSE
  /\ written = 0
  /\ dpc = "test" /\ size = 0 /\ trpos = 0
  /\ spc = "test"
  /\ cpc = [c \in Clients |-> "idle"] /\ after = [c \in Clients |-> "idle"]
  /\ mark = [c \in Clients |-> 0]
  /\ count = 0 /\ remaining = 0 /\ twpos = 0 /\ bytes = 0
  /\ writepos = 0
  /\ fd = "open" /\ fpos = 0 /\ flen = 0 /\ disk = <<>>
  /\ synced = 0
  /\ put = 0 /\ want = <<>>

-----------------------------------------------------------------------------
(* Write                                                                   *)

\* TVRec sizes the buffer in SetupRecorder, before the recorder starts.
Resizing == \E c \in Clients :
  cpc[c] = "resize" \/ (cpc[c] = "flush" /\ after[c] = "resize")

WriteCall(n) ==
  /\ cpc[Writer] = "idle" /\ ~no_writes /\ ~Resizing
  /\ put + n <= MaxStream
  /\ count' = n /\ remaining' = n
  /\ cpc' = [cpc EXCEPT ![Writer] = "reserve"]
  /\ UNCHANGED <<ring, flags, written, diskLoc, spc, after, mark, twpos, bytes,
                 writepos, file, synced, stream>>

\* Mutant: the chunk is not limited to the free space.
Chunk_uncapped == remaining

Chunk == Least(BufFreePriv, remaining)

WriteReserve ==
  /\ cpc[Writer] = "reserve" /\ BufFreePriv > 0
  /\ twpos' = wpos
  /\ bytes' = Chunk
  /\ cpc' = [cpc EXCEPT ![Writer] = "copy"]
  /\ UNCHANGED <<ring, flags, written, diskLoc, spc, after, mark, count,
                 remaining, writepos, file, synced, stream>>

\* The bytes are copied without buflock.
WriteCopy ==
  /\ cpc[Writer] = "copy"
  /\ IF no_writes
     THEN /\ cpc' = [cpc EXCEPT ![Writer] = "idle"]
          /\ count' = 0 /\ remaining' = 0 /\ twpos' = 0 /\ bytes' = 0
          /\ UNCHANGED buf
     ELSE /\ cpc' = [cpc EXCEPT ![Writer] = "advance"]
          /\ buf' = [s \in DOMAIN buf |->
                       IF s \in Slots(twpos, bytes)
                       THEN put + 1 + Wrap(s + tfw_buf_size - twpos)
                       ELSE buf[s]]
          /\ UNCHANGED wrLoc
  /\ UNCHANGED <<rpos, wpos, tfw_buf_size, flags, written, diskLoc, spc, after,
                 mark, writepos, file, synced, stream>>

\* Publish the bytes; when it was the last chunk RingBuffer::Write adds the
\* count to writepos.
WriteAdvance ==
  /\ cpc[Writer] = "advance"
  /\ wpos' = IF twpos = wpos THEN Wrap(wpos + bytes) ELSE wpos
  /\ remaining' = remaining - bytes
  /\ twpos' = 0 /\ bytes' = 0
  /\ put' = put + bytes
  /\ want' = want \o [i \in 1..bytes |-> writepos + (count - remaining) + i - 1]
  /\ IF remaining = bytes
     THEN /\ cpc' = [cpc EXCEPT ![Writer] = "idle"]
          /\ writepos' = writepos + count
          /\ count' = 0
     ELSE /\ cpc' = [cpc EXCEPT ![Writer] = "reserve"]
          /\ UNCHANGED <<writepos, count>>
  /\ UNCHANGED <<rpos, tfw_buf_size, buf, flags, written, diskLoc, spc, after,
                 mark, file, synced>>

-----------------------------------------------------------------------------
(* Flush, and the calls that begin with one                                *)

\* Set flush and wait for the buffer to empty, then go on to next.
FlushBegin(c, next) ==
  /\ mark' = [mark EXCEPT ![c] = put]
  /\ IF BufUsedPriv > 0
     THEN /\ flush' = TRUE
          /\ cpc' = [cpc EXCEPT ![c] = "flush"]
          /\ after' = [after EXCEPT ![c] = next]
     ELSE /\ flush' = FALSE
          /\ cpc' = [cpc EXCEPT ![c] = next]
          /\ UNCHANGED after

Return(c) ==
  /\ cpc' = [cpc EXCEPT ![c] = "idle"]
  /\ mark' = [mark EXCEPT ![c] = 0]

\* Mutant: the wait gives up at its timeout.
FlushEnd_timeout(c) ==
  /\ cpc[c] = "flush"
  /\ flush' = FALSE
  /\ cpc' = [cpc EXCEPT ![c] = after[c]]
  /\ after' = [after EXCEPT ![c] = "idle"]
  /\ UNCHANGED <<ring, no_writes, in_dtor, ignore_writes, written, diskLoc, spc,
                 mark, wrLoc, writepos, file, synced, stream>>

FlushEnd(c) ==
  /\ cpc[c] = "flush" /\ BufUsedPriv = 0
  /\ flush' = FALSE
  /\ cpc' = [cpc EXCEPT ![c] = after[c]]
  /\ after' = [after EXCEPT ![c] = "idle"]
  /\ UNCHANGED <<ring, no_writes, in_dtor, ignore_writes, written, diskLoc, spc,
                 mark, wrLoc, writepos, file, synced, stream>>

\* Mutant: Sync without Flush.
WriterFlush_syncOnly(c) ==
  /\ cpc[c] = "idle" /\ ~no_writes
  /\ mark' = [mark EXCEPT ![c] = put]
  /\ cpc' = [cpc EXCEPT ![c] = "sync"]
  /\ UNCHANGED <<ring, flags, after, written, diskLoc, spc, wrLoc, writepos, file,
                 synced, stream>>

\* RingBuffer::WriterFlush is Flush followed by Sync.
WriterFlush(c) ==
  /\ cpc[c] = "idle" /\ ~no_writes
  /\ FlushBegin(c, "sync")
  /\ UNCHANGED <<ring, no_writes, in_dtor, ignore_writes, written, diskLoc, spc,
                 wrLoc, writepos, file, synced, stream>>

ClientSync(c) ==
  /\ cpc[c] = "sync"
  /\ synced' = Len(disk)
  /\ Return(c)
  /\ UNCHANGED <<ring, flags, written, diskLoc, spc, after, wrLoc,
                 writepos, file, stream>>

Seek ==
  /\ cpc[Writer] = "idle" /\ ~no_writes /\ ~Resizing
  /\ FlushBegin(Writer, "lseek")
  /\ UNCHANGED <<ring, no_writes, in_dtor, ignore_writes, written, diskLoc, spc,
                 wrLoc, writepos, file, synced, stream>>

\* NuppelVideoRecorder seeks back to its header and then to SEEK_END.
LSeek(pos) ==
  /\ cpc[Writer] = "lseek"
  /\ fpos' = pos /\ writepos' = pos
  /\ Return(Writer)
  /\ UNCHANGED <<ring, flags, written, diskLoc, spc, after, wrLoc, fd,
                 flen, disk, synced, stream>>

\* Mutant: the buffer is replaced without a Flush.
SetWriteBufferSize_unflushed(c) ==
  /\ \A d \in Clients : cpc[d] = "idle"
  /\ ~no_writes
  /\ cpc' = [cpc EXCEPT ![c] = "resize"]
  /\ UNCHANGED <<ring, flags, written, diskLoc, spc, after, mark, wrLoc, writepos,
                 file, synced, stream>>

SetWriteBufferSize(c) ==
  /\ \A d \in Clients : cpc[d] = "idle"
  /\ ~no_writes
  /\ FlushBegin(c, "resize")
  /\ UNCHANGED <<ring, no_writes, in_dtor, ignore_writes, written, diskLoc, spc,
                 wrLoc, writepos, file, synced, stream>>

Resize(c, newSize) ==
  /\ cpc[c] = "resize"
  /\ rpos' = 0 /\ wpos' = 0
  /\ tfw_buf_size' = newSize
  /\ buf' = [s \in 0..(newSize - 1) |-> 0]
  /\ Return(c)
  /\ UNCHANGED <<flags, written, diskLoc, spc, after, wrLoc, writepos,
                 file, synced, stream>>

-----------------------------------------------------------------------------
(* The destructor, called when no client is inside another call: RingBuffer *)
(* deletes its writer holding rwlock for writing.                          *)

Destroy(c) ==
  /\ \A d \in Clients : cpc[d] = "idle"
  /\ ~no_writes /\ no_writes' = TRUE
  /\ FlushBegin(c, "exit")
  /\ UNCHANGED <<ring, in_dtor, ignore_writes, written, diskLoc, spc, wrLoc,
                 writepos, file, synced, stream>>

DtorExit(c) ==
  /\ cpc[c] = "exit"
  /\ in_dtor' = TRUE
  /\ cpc' = [cpc EXCEPT ![c] = "join"]
  /\ UNCHANGED <<ring, flush, no_writes, ignore_writes, written, diskLoc, spc,
                 after, mark, wrLoc, writepos, file, synced, stream>>

\* Join syncer, join writer, close.
DtorJoin(c) ==
  /\ cpc[c] = "join" /\ spc = "done" /\ dpc = "done"
  /\ fd' = "closed"
  /\ Return(c)
  /\ UNCHANGED <<ring, flags, written, diskLoc, spc, after, wrLoc,
                 writepos, fpos, flen, disk, synced, stream>>

-----------------------------------------------------------------------------
(* DiskLoop                                                                *)

\* Mutant: the loop's condition holds for an empty buffer.
DiskTest_endless ==
  /\ dpc = "test"
  /\ dpc' = IF ~in_dtor \/ BufUsedPriv >= 0 THEN "take" ELSE "done"
  /\ UNCHANGED <<ring, flags, written, size, trpos, spc, cliLoc, wrLoc, writepos,
                 file, synced, stream>>

\* Mutant: the loop ends when the file can grow no more.
DiskTest_full ==
  /\ dpc = "test"
  /\ dpc' = IF ~ignore_writes /\ (~in_dtor \/ BufUsedPriv > 0)
            THEN "take" ELSE "done"
  /\ UNCHANGED <<ring, flags, written, size, trpos, spc, cliLoc, wrLoc, writepos,
                 file, synced, stream>>

DiskTest ==
  /\ dpc = "test"
  /\ dpc' = IF ~in_dtor \/ BufUsedPriv > 0 THEN "take" ELSE "done"
  /\ UNCHANGED <<ring, flags, written, size, trpos, spc, cliLoc, wrLoc, writepos,
                 file, synced, stream>>

\* The tail of the stream stays in the buffer while it is below the watermark.
BelowWatermark ==
  ~in_dtor /\ ~flush /\ BufUsedPriv < MinWrite /\ written >= MinWrite

DiskTake ==
  /\ dpc = "take"
  /\ IF BufUsedPriv = 0 \/ BelowWatermark
     THEN /\ dpc' = "test"
          /\ UNCHANGED <<size, trpos>>
     ELSE /\ dpc' = "write"
          /\ size' = Least(BufUsedPriv, MaxWrite)
          /\ trpos' = rpos
  /\ UNCHANGED <<ring, flags, written, spc, cliLoc, wrLoc, writepos, file,
                 synced, stream>>

\* Mutant: rpos will advance over bytes that were not written.
Account_all(n) ==
  /\ size' = size
  /\ written' = IF written < MinWrite THEN written + n ELSE written
  /\ dpc' = "advance"
  /\ UNCHANGED <<ring, flush, no_writes, in_dtor, trpos, spc, cliLoc, wrLoc,
                 writepos, fd, synced, stream>>

\* Bytes counted towards the watermark, and the size rpos will advance by.
Account(n) ==
  /\ size' = n
  /\ written' = IF written < MinWrite THEN written + n ELSE written
  /\ dpc' = "advance"
  /\ UNCHANGED <<ring, flush, no_writes, in_dtor, trpos, spc, cliLoc, wrLoc,
                 writepos, fd, synced, stream>>

\* safe_write hands the kernel the first n bytes at trpos.
Transfer(n) ==
  /\ disk' = disk \o [i \in 1..n |-> [byte |-> buf[Wrap(trpos + i - 1)],
                                      at   |-> fpos + i - 1]]
  /\ fpos' = fpos + n
  /\ flen' = IF fpos + n > flen THEN fpos + n ELSE flen

DiskWrite ==
  /\ dpc = "write" /\ ~ignore_writes
  /\ Transfer(size)
  /\ Account(size)
  /\ UNCHANGED ignore_writes

\* Three errors: part of the data, or none, reached the file.  EFBIG makes
\* the loop discard what follows; any other error leaves the rest queued.
DiskFault(n, e) ==
  /\ dpc = "write" /\ ~ignore_writes /\ n < size
  /\ Transfer(n)
  /\ Account(n)
  /\ ignore_writes' = (e = "EFBIG")

DiskDiscard ==
  /\ dpc = "write" /\ ignore_writes
  /\ Account(size)
  /\ UNCHANGED <<ignore_writes, fpos, flen, disk>>

DiskAdvance ==
  /\ dpc = "advance"
  /\ rpos' = IF trpos = rpos THEN Wrap(rpos + size) ELSE rpos
  /\ size' = 0 /\ trpos' = 0
  /\ dpc' = "test"
  /\ UNCHANGED <<wpos, tfw_buf_size, buf, flags, written, spc,
                 cliLoc, wrLoc, writepos, file, synced, stream>>

-----------------------------------------------------------------------------
(* SyncLoop                                                                *)

SyncTest ==
  /\ spc = "test"
  /\ spc' = IF in_dtor THEN "done" ELSE "sync"
  /\ UNCHANGED <<ring, flags, written, diskLoc, cliLoc, wrLoc, writepos, file,
                 synced, stream>>

SyncLoop ==
  /\ spc = "sync"
  /\ synced' = Len(disk)
  /\ spc' = "test"
  /\ UNCHANGED <<ring, flags, written, diskLoc, cliLoc, wrLoc, writepos, file,
                 stream>>

-----------------------------------------------------------------------------

\* The object is gone: nothing more happens.
Closed == fd = "closed" /\ UNCHANGED vars

WriteStep == WriteReserve \/ WriteCopy \/ WriteAdvance

CallStep(c) ==
  \/ FlushEnd(c) \/ ClientSync(c) \/ DtorExit(c) \/ DtorJoin(c)
  \/ \E s \in BufSizes : Resize(c, s)

DiskStep ==
  \/ DiskTest \/ DiskTake \/ DiskWrite \/ DiskDiscard \/ DiskAdvance
  \/ \E n \in 0..(size - 1), e \in Faults : DiskFault(n, e)

SyncStep == SyncTest \/ SyncLoop

Call ==
  \/ \E n \in 1..MaxStream : WriteCall(n)
  \/ Seek
  \/ \E c \in Clients : WriterFlush(c) \/ SetWriteBufferSize(c) \/ Destroy(c)

SeekStep == \E pos \in 0..flen : LSeek(pos)

Next ==
  \/ Call \/ WriteStep \/ SeekStep \/ DiskStep \/ SyncStep \/ Closed
  \/ \E c \in Clients : CallStep(c)

\* Every thread runs.  A client may or may not make another call, but a
\* recorder that stops writing does so by FinishRecording, a WriterFlush.
Fairness ==
  /\ WF_vars(WriteStep) /\ WF_vars(SeekStep)
  /\ WF_vars(DiskStep) /\ WF_vars(SyncStep)
  /\ \A c \in Clients : WF_vars(CallStep(c))
  /\ WF_vars(WriterFlush(Writer))

Spec == Init /\ [][Next]_vars
FairSpec == Spec /\ Fairness

-----------------------------------------------------------------------------
(* Properties                                                              *)

ClientPC == {"idle", "reserve", "copy", "advance", "flush", "sync", "lseek",
             "resize", "exit", "join"}

\* The type invariant.
TypeOK ==
  /\ tfw_buf_size \in BufSizes
  /\ rpos \in 0..(tfw_buf_size - 1) /\ wpos \in 0..(tfw_buf_size - 1)
  /\ buf \in [0..(tfw_buf_size - 1) -> Nat]
  /\ flush \in BOOLEAN /\ no_writes \in BOOLEAN /\ in_dtor \in BOOLEAN
  /\ ignore_writes \in BOOLEAN
  /\ written \in Nat /\ size \in Nat /\ trpos \in Nat
  /\ dpc \in {"test", "take", "write", "advance", "done"}
  /\ spc \in {"test", "sync", "done"}
  /\ cpc \in [Clients -> ClientPC] /\ after \in [Clients -> ClientPC]
  /\ mark \in [Clients -> Nat]
  /\ count \in Nat /\ remaining \in Nat /\ twpos \in Nat /\ bytes \in Nat
  /\ writepos \in Nat
  /\ fd \in {"open", "closed"} /\ fpos \in Nat /\ flen \in Nat
  /\ disk \in Seq([byte : Nat, at : Nat])
  /\ synced \in Nat
  /\ put \in Nat /\ want \in Seq(Nat)

\* The memcpy of Write and the safe_write of DiskLoop, both made without
\* buflock, never touch the same slot of the buffer.
NoOverlap ==
  cpc[Writer] = "copy" /\ dpc = "write" =>
    Slots(twpos, bytes) \cap Slots(trpos, size) = {}

\* What is in the file is a prefix of what Write was given, in order and
\* without gap or repetition, through wrap-around, partial writes, retries,
\* resizes and discards; and each byte is at the position of the stream
\* (RingBuffer's writepos) it was written for, whatever seeks come between.
FileIsStream ==
  \A i \in 1..Len(disk) : disk[i].byte = i /\ i <= put /\ disk[i].at = want[i]

\* A Flush that returns leaves every byte accepted before the call in the
\* file, unless the file has outgrown EFBIG.
FlushCommits ==
  [][\A c \in Clients :
       cpc[c] = "flush" /\ cpc'[c] # "flush" =>
         Len(disk') >= mark[c] \/ ignore_writes']_vars

\* WriterFlush returns with those bytes synced too.
FlushSyncs ==
  [][\A c \in Clients :
       cpc[c] = "sync" /\ cpc'[c] = "idle" =>
         synced' >= mark[c] \/ ignore_writes']_vars

\* The destructor commits all writes before it closes the file, the tail
\* below the low watermark included.
CloseCommits == fd = "closed" => Len(disk) = put \/ ignore_writes

\* A Flush returns (the recorder and TVRec block in it at the end of every
\* recording), and a Write that waits for room gets it, also when the file can grow
\* no more.
CallsReturn ==
  /\ \A c \in Clients : cpc[c] = "flush" ~> cpc[c] # "flush"
  /\ cpc[Writer] = "reserve" ~> cpc[Writer] = "idle"

\* The destructor joins both threads and closes the file.
DtorReturns == no_writes ~> fd = "closed"

\* The bytes the buffer holds that safe_write has not dealt with, each with the
\* position it was written for.
Pending ==
  LET done == IF dpc = "advance" THEN size ELSE 0
      at(i) == buf[Wrap(rpos + done + i - 1)]
  IN  [i \in 1..(BufUsedPriv - done) |-> [byte |-> at(i), at |-> want[at(i)]]]

\* The writer is an ordered, bounded, lossless path to the file.
Promise == INSTANCE OrderedWriter
  WITH Capacity <- Max(BufSizes) - 1,
       pending <- Pending, stored <- disk, full <- ignore_writes

ImplementsOrderedWriter == Promise!Spec
=============================================================================
