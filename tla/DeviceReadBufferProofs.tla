----------------------- MODULE DeviceReadBufferProofs -----------------------
(***************************************************************************)
(* Proofs about DeviceReadBuffer: its type invariant holds and a pause is  *)
(* quiet for every ring; and for a user that never pauses, no byte is      *)
(* overwritten before it was returned, lost, or returned twice.            *)
(***************************************************************************)
EXTENDS DeviceReadBuffer, SequenceTheorems, TLAPS

-----------------------------------------------------------------------------
(* The inductive invariant                                                 *)

\* The locals of fill_ringbuffer and of Read fit the ring.  The second piece of
\* a Read begins at the start of the ring, or after the first where a reset has
\* moved readPtr in between.
LocalsOK ==
  /\ fpc = "read" => read_size >= 1 /\ writePtr + read_size <= Size
  /\ fpc = "incr" => len >= 1 /\ writePtr + len <= Size
  /\ fpc \notin {"down", "dead"} => errcnt <= ErrLimit
  /\ rpc = "wait" => out = <<>>
  /\ rpc \in {"copy", "incr"} => piece >= 1 /\ readPtr + piece <= Size
  /\ rpc = "copy" => \/ Len(out) + piece = cnt
                     \/ /\ Len(out) = 0 /\ piece < cnt
                        /\ readPtr = 0 \/ readPtr = Size - piece
  /\ rpc = "incr" => \/ Len(out) = cnt
                     \/ /\ Len(out) = piece /\ piece < cnt
                        /\ readPtr = 0 \/ readPtr = Size - piece

\* A pause that the recorder has heard of lasts while it requests it, and the
\* thread that has paused does not read before it has reset the ring.
QuietOK ==
  /\ rpc \in {"pausing", "held"} => request_pause
  /\ heard => rpc = "held" /\ fpc \notin {"room", "read", "incr"}
  /\ paused => fpc \in {"boot", "top", "pause", "reset", "unpause", "down", "dead"}

NeverPauses ==
  /\ ~request_pause /\ ~paused
  /\ fpc \notin {"pause", "reset", "unpause"}

\* The bytes that are in the ring already and not in used yet, and those that
\* are in used and already copied.
Arriving == IF fpc = "incr" THEN len ELSE 0
Leaving == IF rpc = "incr" THEN piece ELSE 0

\* used agrees with the pointers and with the locals of both threads.
UsedOK ==
  /\ used <= Size
  /\ readPtr + used = writePtr \/ readPtr + used = writePtr + Size
  /\ fpc = "read" => used + read_size <= Size
  /\ fpc = "incr" => used + len <= Size
  /\ rpc = "wait" => avail <= used
  /\ rpc \in {"copy", "incr"} => Leaving + (cnt - Len(out)) <= used

Slot(p) == IF p < Size THEN p ELSE p - Size

\* The byte before the first one in the ring.
Before == dev - used - Arriving

\* The ring holds the last bytes of the device, in order; a Read has returned
\* those that follow the previous Read's.
StreamOK ==
  /\ Before + Leaving = last + Len(out)
  /\ \A i \in 1..Len(out) : out[i] = last + i
  /\ \A k \in 0..(used + Arriving - 1) : buffer[Slot(readPtr + k)] = Before + k + 1

IInv ==
  /\ TypeOK /\ LocalsOK /\ QuietOK
  /\ ~canPause => NeverPauses /\ UsedOK /\ StreamOK

-----------------------------------------------------------------------------
(* Lemmas about sizes, size_t and what a Read has copied                   *)

\* The constants and the pointers are numbers.
AllNumbers ==
  /\ Size \in Nat /\ Size >= 1 /\ SizeMod \in Nat /\ SizeMod > Size
  /\ DevReadSize \in Nat /\ DevReadSize >= 1 /\ MinRead \in Nat
  /\ ErrLimit \in Nat /\ MaxStream \in Nat
  /\ used \in Nat /\ readPtr \in Nat /\ writePtr \in Nat
  /\ readPtr < Size /\ writePtr < Size
  /\ read_size \in Nat /\ len \in Nat /\ errcnt \in Nat
  /\ count \in Nat /\ avail \in Nat /\ cnt \in Nat /\ piece \in Nat
  /\ dev \in Nat /\ last \in Nat /\ Len(out) \in Nat

LEMMA Numbers ==
  ASSUME TypeOK
  PROVE  AllNumbers
<1>1. out \in Seq(Nat)
  BY DEF TypeOK
<1>2. Len(out) \in Nat
  BY <1>1, LenProperties
<1> QED BY <1>2, DRBAssumption DEF TypeOK, AllNumbers

\* Whatever is computed modulo SizeMod is a size_t.
LEMMA ModIn ==
  \A a \in Int : a % SizeMod \in 0..(SizeMod - 1)
<1>1. SizeMod \in Nat /\ SizeMod >= 1
  BY DRBAssumption
<1> QED BY <1>1

\* A number that fits a size_t is kept.
LEMMA ModLow ==
  \A a \in 0..(SizeMod - 1) : a % SizeMod = a
<1>1. SizeMod \in Nat /\ SizeMod >= 1
  BY DRBAssumption
<1> QED BY <1>1

\* What may be read of the device next fits the rest of the ring.
LEMMA FreeFits ==
  ASSUME TypeOK
  PROVE  /\ Free \in 0..DevReadSize /\ writePtr + Free <= Size
         /\ used <= Size => used + Free <= Size
<1>num. AllNumbers
  BY Numbers
<1>1. /\ Size - used \in Int /\ (Size - used) % SizeMod \in Nat
      /\ used <= Size => (Size - used) % SizeMod = Size - used
  <2>1. Size - used \in Int
    BY <1>num DEF AllNumbers
  <2>2. used <= Size => Size - used \in 0..(SizeMod - 1)
    BY <1>num DEF AllNumbers
  <2>3. (Size - used) % SizeMod \in 0..(SizeMod - 1)
    BY <2>1, ModIn
  <2>4. used <= Size => (Size - used) % SizeMod = Size - used
    BY <2>2, ModLow
  <2>5. (Size - used) % SizeMod \in Nat
    BY <2>3
  <2> QED BY <2>1, <2>4, <2>5
<1> DEFINE u == (Size - used) % SizeMod
<1>2. Free = Smaller(DevReadSize, Smaller(Size - writePtr, u))
  BY DEF Free, Unused, ContiguousUnused
<1>3. writePtr < Size
  BY <1>num DEF AllNumbers, TypeOK
<1>4. u \in Nat /\ (used <= Size => u = Size - used)
  BY <1>1
<1> HIDE DEF u
<1> QED BY <1>2, <1>3, <1>4, <1>num DEF AllNumbers, Smaller

\* One piece is copied.
LEMMA Copied ==
  ASSUME TypeOK, LocalsOK, ReadCopy
  PROVE  /\ out' \in Seq(Nat) /\ Len(out') = Len(out) + piece
         /\ \A i \in 1..Len(out) : out'[i] = out[i]
         /\ \A i \in 1..piece : out'[Len(out) + i] = buffer[readPtr + (i - 1)]
<1> DEFINE t == [i \in 1..piece |-> buffer[readPtr + i - 1]]
<1>num. AllNumbers
  BY Numbers
<1>1. /\ out \in Seq(Nat) /\ out' = out \o t
      /\ buffer \in [0..(Size - 1) -> Nat] /\ readPtr + piece <= Size
  BY DEF ReadCopy, LocalsOK, TypeOK
<1>2. ASSUME NEW i \in 1..piece PROVE t[i] \in Nat /\ t[i] = buffer[readPtr + (i - 1)]
  <2>1. readPtr + i - 1 \in 0..(Size - 1) /\ readPtr + i - 1 = readPtr + (i - 1)
    BY <1>1, <1>num DEF AllNumbers
  <2> QED BY <1>1, <2>1
<1>3. t \in [1..piece -> Nat]
  BY <1>2
<1>4. t \in Seq(Nat) /\ Len(t) = piece
  <2>1. piece \in Nat
    BY <1>num DEF AllNumbers
  <2> HIDE DEF t
  <2>2. t \in Seq(Nat)
    BY <1>3, <2>1
  <2> QED BY <1>3, <2>1, <2>2, LenProperties
<1> HIDE DEF t
<1>5. /\ out' \in Seq(Nat)
      /\ Len(out') = Len(out) + piece
      /\ \A i \in 1..(Len(out) + piece) :
           out'[i] = IF i <= Len(out) THEN out[i] ELSE t[i - Len(out)]
  BY <1>1, <1>4, ConcatProperties
<1>6. ASSUME NEW i \in 1..Len(out) PROVE out'[i] = out[i]
  <2>1. i \in 1..(Len(out) + piece) /\ i <= Len(out)
    BY <1>num DEF AllNumbers
  <2> QED BY <1>5, <2>1
<1>7. ASSUME NEW i \in 1..piece
      PROVE  out'[Len(out) + i] = buffer[readPtr + (i - 1)]
  <2>1. /\ Len(out) + i \in 1..(Len(out) + piece) /\ ~(Len(out) + i <= Len(out))
        /\ (Len(out) + i) - Len(out) = i
    BY <1>num DEF AllNumbers
  <2>2. out'[Len(out) + i] = t[(Len(out) + i) - Len(out)]
    BY <1>5, <2>1
  <2> QED BY <1>2, <2>1, <2>2
<1> QED BY <1>5, <1>6, <1>7

-----------------------------------------------------------------------------
(* Type correctness                                                        *)

\* TypeOK, variables of one tuple at a time.
FlagsTyped ==
  /\ run \in BOOLEAN /\ running \in BOOLEAN /\ eof \in BOOLEAN
  /\ error \in BOOLEAN /\ request_pause \in BOOLEAN /\ paused \in BOOLEAN

RingTyped ==
  /\ used \in 0..(SizeMod - 1)
  /\ readPtr \in 0..(Size - 1) /\ writePtr \in 0..(Size - 1)
  /\ buffer \in [0..(Size - 1) -> Nat]

FillerTyped ==
  /\ fpc \in {"none", "boot", "top", "pause", "reset", "unpause", "poll", "room",
              "read", "incr", "down", "dead"}
  /\ read_size \in 0..DevReadSize /\ len \in 0..DevReadSize
  /\ errcnt \in 0..(ErrLimit + 1)

ReaderTyped ==
  /\ rpc \in {"idle", "wait", "copy", "incr", "pausing", "held"}
  /\ count \in 0..Size /\ avail \in 0..(SizeMod - 1) /\ cnt \in 0..Size
  /\ piece \in 0..Size /\ heard \in BOOLEAN

ResultTyped ==
  dev \in 0..MaxStream /\ canPause \in BOOLEAN /\ out \in Seq(Nat) /\ last \in Nat

LEMMA TypeParts ==
  TypeOK <=> FlagsTyped /\ RingTyped /\ FillerTyped /\ ReaderTyped /\ ResultTyped
BY Zenon DEF TypeOK, FlagsTyped, RingTyped, FillerTyped, ReaderTyped, ResultTyped

LEMMA TypeInit == Init => TypeOK
<1> SUFFICES ASSUME Init PROVE TypeOK OBVIOUS
<1>0. Size >= 1 /\ Size \in Nat /\ SizeMod \in Nat /\ SizeMod > Size
  BY DRBAssumption
<1>1. FlagsTyped
  BY DEF Init, FlagsTyped
<1>2. RingTyped
  BY <1>0 DEF Init, RingTyped
<1>3. FillerTyped
  BY DRBAssumption DEF Init, FillerTyped
<1>4. ReaderTyped
  <2>1. 0 \in 0..Size /\ 0 \in 0..(SizeMod - 1)
    BY <1>0
  <2>2. /\ rpc = "idle" /\ count = 0 /\ avail = 0 /\ cnt = 0 /\ piece = 0
        /\ heard = FALSE
    BY DEF Init
  <2> QED BY <2>1, <2>2 DEF ReaderTyped
<1>5. ResultTyped
  BY DRBAssumption DEF Init, ResultTyped
<1> QED BY <1>1, <1>2, <1>3, <1>4, <1>5, TypeParts

\* What no step of a kind changes keeps its type.
LEMMA Untouched ==
  /\ UNCHANGED flags /\ FlagsTyped => FlagsTyped'
  /\ UNCHANGED ring /\ RingTyped => RingTyped'
  /\ UNCHANGED filler /\ FillerTyped => FillerTyped'
  /\ UNCHANGED reader /\ ReaderTyped => ReaderTyped'
  /\ UNCHANGED <<dev, result>> /\ ResultTyped => ResultTyped'
<1>1. UNCHANGED flags /\ FlagsTyped => FlagsTyped'
  BY DEF flags, FlagsTyped
<1>2. UNCHANGED ring /\ RingTyped => RingTyped'
  BY DEF ring, RingTyped
<1>3. UNCHANGED filler /\ FillerTyped => FillerTyped'
  BY DEF filler, FillerTyped
<1>4. UNCHANGED reader /\ ReaderTyped => ReaderTyped'
  BY DEF reader, ReaderTyped
<1>5. UNCHANGED <<dev, result>> /\ ResultTyped => ResultTyped'
  BY DEF result, ResultTyped
<1> QED BY <1>1, <1>2, <1>3, <1>4, <1>5

LEMMA TypeStep ==
  ASSUME TypeOK, LocalsOK, [Next]_vars
  PROVE  TypeOK'
<1>num. AllNumbers
  BY Numbers
<1>typ. FlagsTyped /\ RingTyped /\ FillerTyped /\ ReaderTyped /\ ResultTyped
  BY TypeParts
<1>all. SUFFICES FlagsTyped' /\ RingTyped' /\ FillerTyped' /\ ReaderTyped' /\ ResultTyped'
  BY Zenon DEF TypeOK, FlagsTyped, RingTyped, FillerTyped, ReaderTyped, ResultTyped
<1>1. CASE Top \/ Poll
  <2>1. UNCHANGED <<flags, ring, reader, dev, result>> /\ FillerTyped'
    BY <1>1, <1>typ DEF Top, Poll, FillerTyped
  <2> QED BY <2>1, <1>typ, Untouched
<1>2. CASE Boot \/ Pause \/ Unpause \/ Down
  <2>1. UNCHANGED <<ring, reader, dev, result>> /\ FlagsTyped' /\ FillerTyped'
    BY <1>2, <1>typ DEF Boot, Pause, Unpause, Down, FlagsTyped, FillerTyped
  <2> QED BY <2>1, <1>typ, Untouched
<1>3. CASE Reset
  <2>1. UNCHANGED <<flags, reader, dev, result>> /\ RingTyped' /\ FillerTyped'
    BY <1>3, <1>typ, <1>num DEF Reset, AllNumbers, RingTyped, FillerTyped
  <2> QED BY <2>1, <1>typ, Untouched
<1>4. CASE Room
  <2>1. UNCHANGED <<flags, ring, reader, dev, result>> /\ FillerTyped'
    BY <1>4, <1>typ, FreeFits DEF Room, FillerTyped
  <2> QED BY <2>1, <1>typ, Untouched
<1>5. ASSUME NEW n \in 1..DevReadSize, DeviceRead(n)
      PROVE  FlagsTyped' /\ RingTyped' /\ FillerTyped' /\ ReaderTyped' /\ ResultTyped'
  <2>1. /\ dev' \in 0..MaxStream /\ n \in 0..DevReadSize /\ 0 \in 0..(ErrLimit + 1)
        /\ dev + n \in Nat
    BY <1>5, <1>num DEF DeviceRead, AllNumbers
  <2>2. ASSUME NEW s \in 0..(Size - 1)
        PROVE  (IF s \in writePtr..(writePtr + n - 1)
                THEN dev + 1 + (s - writePtr) ELSE buffer[s]) \in Nat
    <3>1. buffer[s] \in Nat
      BY <1>typ DEF RingTyped
    <3>2. s \in writePtr..(writePtr + n - 1) => dev + 1 + (s - writePtr) \in Nat
      BY <1>num DEF AllNumbers
    <3> QED BY <3>1, <3>2
  <2>3. buffer' \in [0..(Size - 1) -> Nat]
    <3>1. buffer' = [s \in 0..(Size - 1) |->
                       IF s \in writePtr..(writePtr + n - 1)
                       THEN dev + 1 + (s - writePtr) ELSE buffer[s]]
      BY <1>5, <1>typ DEF DeviceRead, RingTyped
    <3> QED BY <2>2, <3>1
  <2>4. RingTyped'
    BY <1>5, <1>typ, <2>3 DEF DeviceRead, RingTyped
  <2>5. FillerTyped'
    BY <1>5, <1>typ, <2>1 DEF DeviceRead, FillerTyped
  <2>6. ResultTyped'
    BY <1>5, <1>typ, <2>1 DEF DeviceRead, ResultTyped, result
  <2>7. UNCHANGED <<flags, reader>>
    BY <1>5 DEF DeviceRead
  <2> QED BY <2>4, <2>5, <2>6, <2>7, <1>typ, Untouched
<1>6. CASE DeviceAgain
  <2>1. UNCHANGED <<flags, ring, reader, dev, result>> /\ FillerTyped'
    BY <1>6, <1>typ, <1>num DEF DeviceAgain, FillerTyped, AllNumbers
  <2> QED BY <2>1, <1>typ, Untouched
<1>7. ASSUME NEW end \in BOOLEAN, DeviceFails(end)
      PROVE  FlagsTyped' /\ RingTyped' /\ FillerTyped' /\ ReaderTyped' /\ ResultTyped'
  <2>1. errcnt' \in 0..(ErrLimit + 1) /\ 0 \in 0..DevReadSize
    BY <1>7, <1>num DEF DeviceFails, LocalsOK, AllNumbers
  <2>2. FillerTyped'
    BY <1>7, <1>typ, <2>1 DEF DeviceFails, FillerTyped
  <2>3. FlagsTyped'
    BY <1>7, <1>typ DEF DeviceFails, FlagsTyped
  <2>4. UNCHANGED <<ring, reader, dev, result>>
    BY <1>7 DEF DeviceFails
  <2> QED BY <2>2, <2>3, <2>4, <1>typ, Untouched
<1>8. CASE IncrWritePointer
  <2>1. used' \in 0..(SizeMod - 1)
    <3>1. used + len \in Int
      BY <1>num DEF AllNumbers
    <3> QED BY <1>8, <3>1, ModIn DEF IncrWritePointer
  <2>2. writePtr' \in 0..(Size - 1)
    BY <1>8, <1>num DEF IncrWritePointer, LocalsOK, AllNumbers
  <2>3. RingTyped'
    BY <1>8, <1>typ, <2>1, <2>2 DEF IncrWritePointer, RingTyped
  <2>4. FillerTyped'
    BY <1>8, <1>typ, <1>num DEF IncrWritePointer, FillerTyped, AllNumbers
  <2>5. UNCHANGED <<flags, reader, dev, result>>
    BY <1>8 DEF IncrWritePointer
  <2> QED BY <2>3, <2>4, <2>5, <1>typ, Untouched
<1>9. CASE ReadWait
  <2>1. UNCHANGED <<flags, ring, filler, dev, result>>
    BY <1>9 DEF ReadWait
  <2>2. ReaderTyped'
    BY <1>9, <1>typ, <1>num DEF ReadWait, Leave, RingTyped, ReaderTyped, AllNumbers
  <2> QED BY <2>1, <2>2, <1>typ, Untouched
<1>10. CASE ReadTake
  <2>1. Take \in 0..Size /\ (readPtr + Take > Size => Size - readPtr \in 0..Size)
    BY <1>typ, <1>num DEF Take, Smaller, ReaderTyped, AllNumbers
  <2>2. UNCHANGED <<flags, ring, filler, dev, result>>
    BY <1>10 DEF ReadTake
  <2>3. ReaderTyped'
    BY <1>10, <1>typ, <1>num, <2>1 DEF ReadTake, Leave, ReaderTyped, AllNumbers
  <2> QED BY <2>2, <2>3, <1>typ, Untouched
<1>11. CASE ReadCopy
  <2>1. UNCHANGED <<flags, ring, filler>>
    BY <1>11 DEF ReadCopy
  <2>2. ReaderTyped'
    BY <1>11, <1>typ DEF ReadCopy, ReaderTyped
  <2>3. out' \in Seq(Nat)
    BY <1>11, Copied
  <2>4. ResultTyped'
    BY <1>11, <1>typ, <2>3 DEF ReadCopy, ResultTyped
  <2> QED BY <2>1, <2>2, <2>4, <1>typ, Untouched
<1>12. CASE IncrReadPointer
  <2>1. used' \in 0..(SizeMod - 1)
    <3>1. used - piece \in Int
      BY <1>num DEF AllNumbers
    <3> QED BY <1>12, <3>1, ModIn DEF IncrReadPointer
  <2>2. readPtr' \in 0..(Size - 1)
    BY <1>12, <1>num DEF IncrReadPointer, LocalsOK, AllNumbers
  <2>3. RingTyped'
    BY <1>12, <1>typ, <2>1, <2>2 DEF IncrReadPointer, RingTyped
  <2>4. Len(out) # cnt => cnt - Len(out) \in 0..Size
    BY <1>12, <1>typ, <1>num DEF IncrReadPointer, LocalsOK, ReaderTyped, AllNumbers
  <2>5. ReaderTyped'
    BY <1>12, <1>typ, <1>num, <2>4 DEF IncrReadPointer, Leave, ReaderTyped, AllNumbers
  <2>6. UNCHANGED <<flags, filler, dev, result>>
    BY <1>12 DEF IncrReadPointer
  <2> QED BY <2>3, <2>5, <2>6, <1>typ, Untouched
<1>13. CASE Start \/ Stop \/ WaitForPaused \/ RequestPause \/ Resume
  <2>1. UNCHANGED <<ring, dev, result>>
    BY <1>13 DEF Start, Stop, WaitForPaused, RequestPause, Resume
  <2>2. FlagsTyped'
    BY <1>13, <1>typ
    DEF Start, Stop, WaitForPaused, RequestPause, Resume, FlagsTyped, flags
  <2>3. FillerTyped'
    BY <1>13, <1>typ, DRBAssumption
    DEF Start, Stop, WaitForPaused, RequestPause, Resume, FillerTyped, filler
  <2>4. ReaderTyped'
    BY <1>13, <1>typ DEF Start, Stop, WaitForPaused, RequestPause, Resume,
                         FlagsTyped, ReaderTyped, reader
  <2> QED BY <2>1, <2>2, <2>3, <2>4, <1>typ, Untouched
<1>14. ASSUME NEW n \in Counts, ReadCall(n)
      PROVE  FlagsTyped' /\ RingTyped' /\ FillerTyped' /\ ReaderTyped' /\ ResultTyped'
  <2>1. UNCHANGED <<flags, ring, filler>>
    BY <1>14 DEF ReadCall
  <2>2. n \in 0..Size
    BY DRBAssumption
  <2>3. ReaderTyped'
    BY <1>14, <1>typ, <2>2 DEF ReadCall, ReaderTyped, RingTyped
  <2>4. ASSUME out # <<>> PROVE out[Len(out)] \in Nat
    <3>1. out \in Seq(Nat)
      BY <1>typ DEF ResultTyped
    <3>2. Len(out) \in Nat \ {0}
      BY <2>4, <3>1, EmptySeq
    <3>3. Len(out) \in 1..Len(out)
      BY <3>2
    <3> QED BY <3>1, <3>3, ElementOfSeq
  <2>5. last' \in Nat
    BY <1>14, <1>typ, <2>4 DEF ReadCall, ResultTyped
  <2>6. ResultTyped'
    BY <1>14, <1>typ, <2>5 DEF ReadCall, ResultTyped
  <2> QED BY <2>1, <2>3, <2>6, <1>typ, Untouched
<1>15. CASE UNCHANGED vars
  <2>1. UNCHANGED <<flags, ring, filler, reader, dev, result>>
    BY <1>15 DEF vars
  <2> QED BY <2>1, <1>typ, Untouched
<1> QED
  BY <1>1, <1>2, <1>3, <1>4, <1>5, <1>6, <1>7, <1>8, <1>9, <1>10, <1>11, <1>12,
     <1>13, <1>14, <1>15
  DEF Next, FillStep, DeviceStep, ReadStep, Call

-----------------------------------------------------------------------------
(* The locals of fill_ringbuffer and of Read                               *)

LEMMA LocalsInit == Init => LocalsOK
BY DRBAssumption DEF Init, LocalsOK

LEMMA LocalsStep ==
  ASSUME TypeOK, LocalsOK, [Next]_vars
  PROVE  LocalsOK'
<1> USE DEF flags, ring, filler, reader, result
<1>num. AllNumbers
  BY Numbers
<1>1. CASE Boot \/ Top \/ Pause \/ Unpause \/ Poll \/ Down \/ DeviceAgain
  BY <1>1 DEF Boot, Top, Pause, Unpause, Poll, Down, DeviceAgain, LocalsOK
<1>2. CASE Reset
  BY <1>2, <1>num DEF Reset, LocalsOK, AllNumbers
<1>3. CASE Room
  <2>1. fpc' = "read" => read_size' = Free /\ Free # 0 /\ Free \in Nat
    BY <1>3, FreeFits, <1>num DEF Room, AllNumbers
  <2>2. fpc' = "read" => read_size' >= 1 /\ writePtr' + read_size' <= Size
    BY <1>3, <2>1, FreeFits DEF Room
  <2>3. fpc' \in {"top", "read"} /\ fpc = "room"
    BY <1>3 DEF Room
  <2> QED BY <1>3, <2>2, <2>3 DEF Room, LocalsOK
<1>4. ASSUME NEW n \in 1..DevReadSize, DeviceRead(n) PROVE LocalsOK'
  BY <1>4, <1>num DEF DeviceRead, LocalsOK, AllNumbers
<1>5. ASSUME NEW end \in BOOLEAN, DeviceFails(end) PROVE LocalsOK'
  BY <1>5, <1>num DEF DeviceFails, LocalsOK, AllNumbers
<1>6. CASE IncrWritePointer
  BY <1>6, <1>num DEF IncrWritePointer, LocalsOK, AllNumbers
<1>7. CASE ReadWait
  BY <1>7 DEF ReadWait, Leave, LocalsOK
<1>8. CASE ReadTake
  <2>1. Take \in Nat /\ Take <= Size
    BY <1>num DEF Take, Smaller, AllNumbers, TypeOK
  <2>2. CASE Take = 0
    BY <1>8, <2>2 DEF ReadTake, Leave, LocalsOK
  <2>3. CASE Take # 0
    <3>1. /\ rpc' = "copy" /\ cnt' = Take /\ Len(out') = 0
          /\ piece' = IF readPtr + Take > Size THEN Size - readPtr ELSE Take
          /\ UNCHANGED <<flags, ring, filler>>
      BY <1>8, <2>3 DEF ReadTake, LocalsOK
    <3>2. /\ piece' >= 1 /\ readPtr' + piece' <= Size
          /\ \/ Len(out') + piece' = cnt'
             \/ Len(out') = 0 /\ piece' < cnt' /\ readPtr' = Size - piece'
      BY <2>1, <2>3, <3>1, <1>num DEF AllNumbers
    <3> QED BY <3>1, <3>2 DEF LocalsOK
  <2> QED BY <2>2, <2>3
<1>9. CASE ReadCopy
  <2>1. Len(out') = Len(out) + piece /\ rpc = "copy" /\ rpc' = "incr"
    BY <1>9, Copied DEF ReadCopy
  <2>2. UNCHANGED <<flags, ring, filler, cnt, piece>>
    BY <1>9 DEF ReadCopy
  <2> QED BY <2>1, <2>2, <1>num DEF LocalsOK, AllNumbers
<1>10. CASE IncrReadPointer
  <2>1. UNCHANGED <<flags, writePtr, filler, out>> /\ rpc = "incr"
    BY <1>10 DEF IncrReadPointer
  <2>2. CASE Len(out) = cnt
    <3>1. rpc' = "idle"
      BY <1>10, <2>2 DEF IncrReadPointer, Leave
    <3> QED BY <2>1, <3>1 DEF LocalsOK
  <2>3. CASE Len(out) # cnt
    <3>1. /\ rpc' = "copy" /\ piece' = cnt - Len(out) /\ cnt' = cnt
          /\ readPtr' = IF readPtr + piece = Size THEN 0 ELSE readPtr + piece
      BY <1>10, <2>3 DEF IncrReadPointer
    <3>2. Len(out) = piece /\ piece < cnt /\ (readPtr = 0 \/ readPtr = Size - piece)
      BY <2>1, <2>3 DEF LocalsOK
    <3>3. cnt <= Size
      BY <1>num DEF TypeOK, AllNumbers
    <3>4. piece' >= 1 /\ readPtr' + piece' <= Size /\ Len(out) + piece' = cnt'
      BY <3>1, <3>2, <3>3, <1>num DEF AllNumbers
    <3> QED BY <2>1, <3>1, <3>4 DEF LocalsOK
  <2> QED BY <2>2, <2>3
<1>11. CASE Start \/ Stop \/ WaitForPaused \/ RequestPause \/ Resume
  BY <1>11, DRBAssumption DEF Start, Stop, WaitForPaused, RequestPause, Resume, LocalsOK
<1>12. ASSUME NEW n \in Counts, ReadCall(n) PROVE LocalsOK'
  BY <1>12 DEF ReadCall, LocalsOK
<1>13. CASE UNCHANGED vars
  BY <1>13 DEF vars, LocalsOK
<1> QED
  BY <1>1, <1>2, <1>3, <1>4, <1>5, <1>6, <1>7, <1>8, <1>9, <1>10, <1>11, <1>12, <1>13
  DEF Next, FillStep, DeviceStep, ReadStep, Call

-----------------------------------------------------------------------------
(* Pauses                                                                  *)

LEMMA QuietStep ==
  ASSUME TypeOK, QuietOK, [Next]_vars
  PROVE  QuietOK'
<1> USE DEF flags, ring, filler, reader, result
<1>typ. request_pause \in BOOLEAN /\ paused \in BOOLEAN /\ heard \in BOOLEAN
  BY DEF TypeOK
<1>1. CASE Boot \/ Top \/ Pause \/ Reset \/ Unpause \/ Down
  BY <1>1, <1>typ DEF Boot, Top, Pause, Reset, Unpause, Down, QuietOK
<1>2. CASE Poll \/ Room \/ IncrWritePointer \/ DeviceAgain
  BY <1>2, <1>typ DEF Poll, Room, IncrWritePointer, DeviceAgain, Interrupted, QuietOK
<1>3. ASSUME NEW n \in 1..DevReadSize, DeviceRead(n) PROVE QuietOK'
  BY <1>3, <1>typ DEF DeviceRead, QuietOK
<1>4. ASSUME NEW end \in BOOLEAN, DeviceFails(end) PROVE QuietOK'
  BY <1>4, <1>typ DEF DeviceFails, QuietOK
<1>5. CASE ReadWait \/ ReadTake \/ ReadCopy \/ IncrReadPointer
  BY <1>5, <1>typ DEF ReadWait, ReadTake, ReadCopy, IncrReadPointer, Leave, QuietOK
<1>6. CASE Start \/ Stop \/ WaitForPaused \/ RequestPause \/ Resume
  BY <1>6, <1>typ DEF Start, Stop, WaitForPaused, RequestPause, Resume, QuietOK
<1>7. ASSUME NEW n \in Counts, ReadCall(n) PROVE QuietOK'
  BY <1>7, <1>typ DEF ReadCall, QuietOK
<1>8. CASE UNCHANGED vars
  BY <1>8 DEF vars, QuietOK
<1> QED BY <1>1, <1>2, <1>3, <1>4, <1>5, <1>6, <1>7, <1>8
        DEF Next, FillStep, DeviceStep, ReadStep, Call

\* A user that never pauses finds the ring never reset.
LEMMA NeverPausesStep ==
  ASSUME TypeOK, ~canPause, NeverPauses, [Next]_vars
  PROVE  ~canPause' /\ NeverPauses'
<1> USE DEF flags, ring, filler, reader, result
<1>1. CASE Boot \/ Top \/ Pause \/ Reset \/ Unpause \/ Down
  BY <1>1 DEF Boot, Top, Pause, Reset, Unpause, Down, NeverPauses
<1>2. CASE Poll \/ Room \/ IncrWritePointer \/ DeviceAgain
  BY <1>2 DEF Poll, Room, IncrWritePointer, DeviceAgain, NeverPauses
<1>3. ASSUME NEW n \in 1..DevReadSize, DeviceRead(n) PROVE ~canPause' /\ NeverPauses'
  BY <1>3 DEF DeviceRead, NeverPauses
<1>4. ASSUME NEW end \in BOOLEAN, DeviceFails(end) PROVE ~canPause' /\ NeverPauses'
  BY <1>4 DEF DeviceFails, NeverPauses
<1>5. CASE ReadWait \/ ReadTake \/ ReadCopy \/ IncrReadPointer
  BY <1>5 DEF ReadWait, ReadTake, ReadCopy, IncrReadPointer, NeverPauses
<1>6. CASE Start \/ Stop \/ WaitForPaused \/ RequestPause \/ Resume
  BY <1>6 DEF Start, Stop, WaitForPaused, RequestPause, Resume, NeverPauses
<1>7. ASSUME NEW n \in Counts, ReadCall(n) PROVE ~canPause' /\ NeverPauses'
  BY <1>7 DEF ReadCall, NeverPauses
<1>8. CASE UNCHANGED vars
  BY <1>8 DEF vars, NeverPauses
<1> QED BY <1>1, <1>2, <1>3, <1>4, <1>5, <1>6, <1>7, <1>8
        DEF Next, FillStep, DeviceStep, ReadStep, Call

-----------------------------------------------------------------------------
(* used, the pointers and the locals                                       *)

\* A step of the fill thread that reads nothing, or of the recorder outside Read.
LEMMA UsedSame ==
  ASSUME UsedOK, UNCHANGED <<used, readPtr, writePtr, read_size, len, rpc, avail,
                             cnt, piece, out>>,
         fpc' \in {"read", "incr"} => fpc' = fpc
  PROVE  UsedOK'
BY DEF UsedOK, Leaving

LEMMA UsedStep ==
  ASSUME TypeOK, LocalsOK, UsedOK, NeverPauses, [Next]_vars
  PROVE  UsedOK'
<1> USE DEF flags, ring, filler, reader, result
<1>num. AllNumbers
  BY Numbers
<1>1. CASE Boot \/ Top \/ Poll \/ Down
  <2>1. /\ UNCHANGED <<used, readPtr, writePtr, read_size, len, rpc, avail, cnt, piece, out>>
        /\ fpc' \notin {"read", "incr"}
    BY <1>1 DEF Boot, Top, Poll, Down
  <2> QED BY <2>1, UsedSame
<1>2. CASE Pause \/ Reset \/ Unpause
  BY <1>2 DEF Pause, Reset, Unpause, NeverPauses
<1>3. CASE Room
  <2>1. CASE fpc' = "top"
    BY <1>3, <2>1 DEF Room, UsedOK, Leaving
  <2>2. CASE fpc' = "read"
    <3>1. read_size' = Free /\ used <= Size /\ Free \in Nat
      BY <1>3, <2>2, FreeFits, <1>num DEF Room, UsedOK, AllNumbers
    <3>2. used + read_size' <= Size
      BY <3>1, FreeFits
    <3>3. UNCHANGED <<used, readPtr, writePtr, rpc, avail, cnt, piece, out>>
      BY <1>3 DEF Room
    <3> QED BY <2>2, <3>2, <3>3 DEF UsedOK, Leaving
  <2> QED BY <1>3, <2>1, <2>2 DEF Room
<1>4. ASSUME NEW n \in 1..DevReadSize, DeviceRead(n) PROVE UsedOK'
  <2>1. used + n <= Size
    BY <1>4, <1>num DEF DeviceRead, UsedOK, AllNumbers
  <2>2. /\ UNCHANGED <<used, readPtr, writePtr, rpc, avail, cnt, piece, out>>
        /\ fpc' = "incr" /\ len' = n
    BY <1>4 DEF DeviceRead
  <2> QED BY <2>1, <2>2 DEF UsedOK, Leaving
<1>5. ASSUME DeviceAgain \/ \E end \in BOOLEAN : DeviceFails(end) PROVE UsedOK'
  <2>1. /\ UNCHANGED <<used, readPtr, writePtr, len, rpc, avail, cnt, piece, out>>
        /\ fpc' \notin {"read", "incr"}
    BY <1>5 DEF DeviceAgain, DeviceFails
  <2> QED BY <2>1 DEF UsedOK, Leaving
<1>6. CASE IncrWritePointer
  <2>1. /\ fpc = "incr" /\ fpc' = "top" /\ used' = (used + len) % SizeMod
        /\ writePtr' = IF writePtr + len = Size THEN 0 ELSE writePtr + len
        /\ UNCHANGED <<readPtr, rpc, avail, cnt, piece, out>>
    BY <1>6 DEF IncrWritePointer
  <2>2. used + len <= Size /\ writePtr + len <= Size
    BY <2>1 DEF UsedOK, LocalsOK
  <2>3. used' = used + len
    <3>1. used + len \in 0..(SizeMod - 1)
      BY <2>2, <1>num DEF AllNumbers
    <3> QED BY <2>1, <3>1, ModLow
  <2>4. \/ readPtr' + used' = writePtr'
        \/ readPtr' + used' = writePtr' + Size
    <3>1. readPtr + used = writePtr \/ readPtr + used = writePtr + Size
      BY DEF UsedOK
    <3>2. CASE writePtr + len = Size
      BY <2>1, <2>2, <2>3, <3>1, <3>2, <1>num DEF AllNumbers
    <3>3. CASE writePtr + len # Size
      BY <2>1, <2>2, <2>3, <3>1, <3>3, <1>num DEF AllNumbers
    <3> QED BY <3>2, <3>3
  <2>5. /\ rpc' = "wait" => avail' <= used'
        /\ rpc' \in {"copy", "incr"} => Leaving' + (cnt' - Len(out')) <= used'
    BY <2>1, <2>3, <1>num DEF UsedOK, Leaving, AllNumbers
  <2> QED BY <2>1, <2>2, <2>3, <2>4, <2>5 DEF UsedOK
<1>7. CASE ReadWait \/ ReadTake \/ ReadCopy \/ IncrReadPointer
  <2>1. UNCHANGED <<fpc, read_size, len, writePtr>>
    BY <1>7 DEF ReadWait, ReadTake, ReadCopy, IncrReadPointer
  <2>2. CASE ReadWait
    <3>1. /\ UNCHANGED <<used, readPtr, out>>
          /\ rpc' = "idle" \/ (rpc' = "wait" /\ avail' = used)
      BY <2>2 DEF ReadWait, Leave
    <3> QED BY <2>1, <3>1, <1>num DEF UsedOK, AllNumbers
  <2>3. CASE ReadTake
    <3>1. /\ UNCHANGED <<used, readPtr, out>> /\ Len(out) = 0
          /\ rpc' = "idle" \/ (rpc' = "copy" /\ cnt' = Take)
          /\ avail <= used
      BY <2>3, <1>num DEF ReadTake, Leave, LocalsOK, UsedOK
    <3>2. Take \in Nat /\ Take <= used
      BY <3>1, <1>num DEF Take, Smaller, AllNumbers
    <3> QED BY <2>1, <3>1, <3>2, <1>num DEF UsedOK, Leaving, AllNumbers
  <2>4. CASE ReadCopy
    <3>1. /\ UNCHANGED <<used, readPtr, cnt, piece>>
          /\ rpc = "copy" /\ rpc' = "incr" /\ Len(out') = Len(out) + piece
      BY <2>4, Copied DEF ReadCopy
    <3> QED BY <2>1, <3>1, <1>num DEF UsedOK, Leaving, AllNumbers
  <2>5. CASE IncrReadPointer
    <3>1. /\ rpc = "incr" /\ used' = (used - piece) % SizeMod
          /\ readPtr' = IF readPtr + piece = Size THEN 0 ELSE readPtr + piece
          /\ rpc' = "idle" \/ (rpc' = "copy" /\ cnt' = cnt)
          /\ UNCHANGED out
      BY <2>5 DEF IncrReadPointer, Leave
    <3>2. /\ piece + (cnt - Len(out)) <= used /\ cnt - Len(out) >= 0
          /\ readPtr + piece <= Size
      BY <3>1, <1>num DEF UsedOK, Leaving, LocalsOK, AllNumbers
    <3>3. used' = used - piece /\ piece <= used
      <4>1. used <= Size /\ piece <= used
        BY <3>2, <1>num DEF UsedOK, AllNumbers
      <4>2. used - piece \in 0..(SizeMod - 1)
        BY <4>1, <1>num DEF AllNumbers
      <4> QED BY <3>1, <4>1, <4>2, ModLow
    <3>4. \/ readPtr' + used' = writePtr'
          \/ readPtr' + used' = writePtr' + Size
      <4>1. readPtr + used = writePtr \/ readPtr + used = writePtr + Size
        BY DEF UsedOK
      <4>2. CASE readPtr + piece = Size
        BY <2>1, <3>1, <3>2, <3>3, <4>1, <4>2, <1>num DEF AllNumbers
      <4>3. CASE readPtr + piece # Size
        BY <2>1, <3>1, <3>2, <3>3, <4>1, <4>3, <1>num DEF AllNumbers
      <4> QED BY <4>2, <4>3
    <3>5. used' \in Nat /\ used' <= used
      BY <3>3, <1>num DEF AllNumbers
    <3>6. /\ used' <= Size
          /\ fpc' = "read" => used' + read_size' <= Size
          /\ fpc' = "incr" => used' + len' <= Size
      <4>1. /\ used <= Size
            /\ fpc = "read" => used + read_size <= Size
            /\ fpc = "incr" => used + len <= Size
        BY DEF UsedOK
      <4>2. \A a, b, c, d \in Nat : a <= b /\ b + c <= d => a + c <= d /\ a <= d
        OBVIOUS
      <4>3. used \in Nat /\ read_size \in Nat /\ len \in Nat /\ 0 \in Nat /\ Size \in Nat
        BY <1>num DEF AllNumbers
      <4>4. fpc = "read" => used' + read_size <= Size
        BY <3>5, <4>1, <4>2, <4>3
      <4>5. fpc = "incr" => used' + len <= Size
        BY <3>5, <4>1, <4>2, <4>3
      <4>6. used' <= Size
        BY <3>5, <4>1, <4>3
      <4> QED BY <2>1, <4>4, <4>5, <4>6
    <3>7. rpc' \in {"copy", "incr"} => Leaving' + (cnt' - Len(out')) <= used'
      BY <3>1, <3>2, <3>3, <1>num DEF Leaving, AllNumbers
    <3> QED BY <3>1, <3>4, <3>6, <3>7 DEF UsedOK
  <2> QED BY <1>7, <2>2, <2>3, <2>4, <2>5
<1>8. CASE Start \/ Stop
  <2>1. /\ UNCHANGED <<used, readPtr, writePtr, read_size, len, rpc, avail, cnt, piece, out>>
        /\ fpc' = fpc \/ fpc' = "boot"
    BY <1>8 DEF Start, Stop
  <2> QED BY <2>1, UsedSame
<1>9. CASE WaitForPaused \/ RequestPause \/ Resume
  BY <1>9 DEF WaitForPaused, RequestPause, Resume, UsedOK
<1>10. ASSUME NEW n \in Counts, ReadCall(n) PROVE UsedOK'
  <2>1. /\ UNCHANGED <<used, readPtr, writePtr, fpc, read_size, len>>
        /\ rpc' = "wait" /\ avail' = used
    BY <1>10 DEF ReadCall
  <2> QED BY <2>1, <1>num DEF UsedOK, AllNumbers
<1>11. CASE UNCHANGED vars
  BY <1>11 DEF vars, UsedOK, Leaving
<1> QED BY <1>1, <1>2, <1>3, <1>4, <1>5, <1>6, <1>7, <1>8, <1>9, <1>10, <1>11
        DEF Next, FillStep, DeviceStep, ReadStep, Call

-----------------------------------------------------------------------------
(* The bytes in the ring and those that a Read has returned                *)

\* A step that moves no byte.
LEMMA StreamSame ==
  ASSUME StreamOK, UNCHANGED <<used, readPtr, buffer, dev, out, last>>,
         Arriving' = Arriving, Leaving' = Leaving
  PROVE  StreamOK'
BY DEF StreamOK, Before, Slot

\* The bytes that read() has stored follow those in the ring.
LEMMA StreamDeviceRead ==
  ASSUME TypeOK, LocalsOK, UsedOK, StreamOK, NEW n \in 1..DevReadSize, DeviceRead(n)
  PROVE  StreamOK'
<1>num. AllNumbers
  BY Numbers
<1>1. /\ fpc = "read" /\ fpc' = "incr" /\ n <= read_size
      /\ dev' = dev + n /\ len' = n
      /\ UNCHANGED <<used, readPtr, writePtr, rpc, piece, out, last>>
  BY DEF DeviceRead, flags, reader, result
<1>2. ASSUME NEW s \in 0..(Size - 1)
      PROVE  buffer'[s] = IF s \in writePtr..(writePtr + n - 1)
                          THEN dev + 1 + (s - writePtr) ELSE buffer[s]
  BY DEF DeviceRead, TypeOK
<1>3. /\ used + n <= Size /\ writePtr + n <= Size
      /\ readPtr + used = writePtr \/ readPtr + used = writePtr + Size
  BY <1>1, <1>num DEF UsedOK, LocalsOK, AllNumbers
<1>4. Arriving = 0 /\ Arriving' = n /\ Leaving' = Leaving
  BY <1>1 DEF Arriving, Leaving
<1>5. Before' = Before /\ Before = dev - used
  BY <1>1, <1>4, <1>num DEF Before, AllNumbers
<1>6. Before' + Leaving' = last' + Len(out')
  BY <1>1, <1>4, <1>5 DEF StreamOK
<1>7. ASSUME NEW k \in 0..(used + n - 1)
      PROVE  buffer'[Slot(readPtr + k)] = Before + k + 1
  <2>1. Slot(readPtr + k) \in 0..(Size - 1)
    BY <1>3, <1>num DEF Slot, AllNumbers
  <2>2. CASE k < used
    <3>1. Slot(readPtr + k) \notin writePtr..(writePtr + n - 1)
      BY <1>3, <2>2, <1>num DEF Slot, AllNumbers
    <3>2. buffer[Slot(readPtr + k)] = Before + k + 1
      BY <1>4, <2>2, <1>num DEF StreamOK, AllNumbers
    <3> QED BY <1>2, <2>1, <3>1, <3>2
  <2>3. CASE k >= used
    <3>1. /\ Slot(readPtr + k) = writePtr + (k - used)
          /\ Slot(readPtr + k) \in writePtr..(writePtr + n - 1)
      BY <1>3, <2>3, <1>num DEF Slot, AllNumbers
    <3>2. dev + 1 + (Slot(readPtr + k) - writePtr) = Before + k + 1
      BY <1>5, <3>1, <1>num DEF AllNumbers
    <3> QED BY <1>2, <2>1, <3>1, <3>2
  <2> QED BY <2>2, <2>3, <1>num DEF AllNumbers
<1>8. \A i \in 1..Len(out') : out'[i] = last' + i
  BY <1>1 DEF StreamOK
<1>9. \A k \in 0..(used' + Arriving' - 1) : buffer'[Slot(readPtr' + k)] = Before' + k + 1
  BY <1>1, <1>4, <1>5, <1>7
<1> QED BY <1>6, <1>8, <1>9 DEF StreamOK, Slot

\* They count as used then.
LEMMA StreamIncrWrite ==
  ASSUME TypeOK, LocalsOK, UsedOK, StreamOK, IncrWritePointer
  PROVE  StreamOK'
<1>num. AllNumbers
  BY Numbers
<1>1. /\ fpc = "incr" /\ fpc' = "top" /\ used' = (used + len) % SizeMod
      /\ UNCHANGED <<readPtr, buffer, dev, rpc, piece, out, last>>
  BY DEF IncrWritePointer, flags, reader, result
<1>2. used' = used + len
  <2>1. used + len \in 0..(SizeMod - 1)
    BY <1>1, <1>num DEF UsedOK, AllNumbers
  <2> QED BY <1>1, <2>1, ModLow
<1>3. Arriving = len /\ Arriving' = 0 /\ Leaving' = Leaving
  BY <1>1 DEF Arriving, Leaving
<1>4. Before' = Before /\ used' + Arriving' = used + Arriving
  BY <1>1, <1>2, <1>3, <1>num DEF Before, AllNumbers
<1>5. Before' + Leaving' = last' + Len(out')
  BY <1>1, <1>3, <1>4 DEF StreamOK
<1>6. \A i \in 1..Len(out') : out'[i] = last' + i
  BY <1>1 DEF StreamOK
<1>7. \A k \in 0..(used' + Arriving' - 1) : buffer'[Slot(readPtr' + k)] = Before' + k + 1
  <2>1. \A k \in 0..(used + Arriving - 1) : buffer[Slot(readPtr + k)] = Before + k + 1
    BY DEF StreamOK
  <2>2. UNCHANGED <<buffer, readPtr>>
    BY <1>1
  <2>3. ASSUME NEW k \in 0..(used' + Arriving' - 1) PROVE k \in 0..(used + Arriving - 1)
    BY <1>2, <1>3, <2>3, <1>num DEF AllNumbers
  <2> QED BY <1>4, <2>1, <2>2, <2>3
<1> QED BY <1>5, <1>6, <1>7 DEF StreamOK, Slot

\* memcpy takes the first bytes in the ring.
LEMMA StreamReadCopy ==
  ASSUME TypeOK, LocalsOK, UsedOK, StreamOK, ReadCopy
  PROVE  StreamOK'
<1>num. AllNumbers
  BY Numbers
<1>1. /\ rpc = "copy" /\ rpc' = "incr"
      /\ UNCHANGED <<used, readPtr, buffer, fpc, len, dev, piece, last>>
  BY DEF ReadCopy, flags, ring, filler
<1>2. /\ Len(out') = Len(out) + piece
      /\ \A i \in 1..Len(out) : out'[i] = out[i]
      /\ \A i \in 1..piece : out'[Len(out) + i] = buffer[readPtr + (i - 1)]
  BY Copied
<1>3. Leaving = 0 /\ Leaving' = piece /\ Arriving' = Arriving /\ Arriving \in Nat
  BY <1>1, <1>num DEF Leaving, Arriving, AllNumbers
<1>4. Before' = Before /\ Before = last + Len(out)
  BY <1>1, <1>3, <1>num DEF Before, StreamOK, AllNumbers
<1>5. Before' + Leaving' = last' + Len(out')
  BY <1>1, <1>2, <1>3, <1>4, <1>num DEF AllNumbers
<1>6. readPtr + piece <= Size /\ piece <= used
  BY <1>1, <1>3, <1>num DEF LocalsOK, UsedOK, AllNumbers
<1>7. ASSUME NEW i \in 1..Len(out') PROVE out'[i] = last' + i
  <2>1. CASE i <= Len(out)
    BY <1>1, <1>2, <2>1, <1>num DEF StreamOK, AllNumbers
  <2>2. CASE i > Len(out)
    <3> DEFINE j == i - Len(out)
    <3>1. j \in 1..piece /\ i = Len(out) + j
      BY <1>2, <2>2, <1>num DEF AllNumbers
    <3> HIDE DEF j
    <3>2. out'[i] = buffer[readPtr + (j - 1)]
      BY <1>2, <3>1
    <3>3. Slot(readPtr + (j - 1)) = readPtr + (j - 1) /\ j - 1 \in 0..(used + Arriving - 1)
      BY <1>3, <1>6, <3>1, <1>num DEF Slot, AllNumbers
    <3>4. buffer[readPtr + (j - 1)] = Before + (j - 1) + 1
      BY <3>3 DEF StreamOK
    <3> QED BY <1>1, <1>4, <3>1, <3>2, <3>4, <1>num DEF AllNumbers
  <2> QED BY <2>1, <2>2, <1>2, <1>num DEF AllNumbers
<1>8. \A k \in 0..(used' + Arriving' - 1) : buffer'[Slot(readPtr' + k)] = Before' + k + 1
  BY <1>1, <1>3, <1>4 DEF StreamOK
<1> QED BY <1>5, <1>7, <1>8 DEF StreamOK, Slot

\* They leave the ring then.
LEMMA StreamIncrRead ==
  ASSUME TypeOK, LocalsOK, UsedOK, StreamOK, IncrReadPointer
  PROVE  StreamOK'
<1>num. AllNumbers
  BY Numbers
<1>1. /\ rpc = "incr" /\ rpc' # "incr" /\ used' = (used - piece) % SizeMod
      /\ readPtr' = IF readPtr + piece = Size THEN 0 ELSE readPtr + piece
      /\ UNCHANGED <<buffer, fpc, len, dev, out, last>>
  BY DEF IncrReadPointer, Leave, flags, filler, result
<1>2. /\ piece + (cnt - Len(out)) <= used /\ cnt - Len(out) >= 0
      /\ readPtr + piece <= Size
  BY <1>1, <1>num DEF UsedOK, Leaving, LocalsOK, AllNumbers
<1>3. used' = used - piece /\ piece <= used
  <2>1. used <= Size /\ piece <= used
    BY <1>2, <1>num DEF UsedOK, AllNumbers
  <2>2. used - piece \in 0..(SizeMod - 1)
    BY <2>1, <1>num DEF AllNumbers
  <2> QED BY <1>1, <2>1, <2>2, ModLow
<1>4. Leaving = piece /\ Leaving' = 0 /\ Arriving' = Arriving /\ Arriving \in Nat
  BY <1>1, <1>num DEF Leaving, Arriving, AllNumbers
<1>5. Before' = Before + piece /\ Before \in Int
  BY <1>1, <1>3, <1>4, <1>num DEF Before, AllNumbers
<1>6. Before' + Leaving' = last' + Len(out')
  BY <1>1, <1>4, <1>5, <1>num DEF StreamOK, AllNumbers
<1>7. used + Arriving <= Size
  <2>1. fpc = "incr" => used + len <= Size
    BY DEF UsedOK
  <2> QED BY <2>1, <1>num DEF UsedOK, Arriving, AllNumbers
<1>8. ASSUME NEW k \in 0..(used' + Arriving' - 1)
      PROVE  buffer'[Slot(readPtr' + k)] = Before' + k + 1
  <2>1. k + piece \in 0..(used + Arriving - 1) /\ k \in Nat
    BY <1>3, <1>4, <1>num DEF AllNumbers
  <2>2. Slot(readPtr' + k) = Slot(readPtr + (k + piece))
    <3>1. k + piece < Size
      BY <1>4, <1>7, <2>1, <1>num DEF AllNumbers
    <3>2. CASE readPtr + piece = Size
      BY <1>1, <2>1, <3>1, <3>2, <1>num DEF Slot, AllNumbers
    <3>3. CASE readPtr + piece # Size
      <4>1. readPtr' + k = readPtr + (k + piece)
        BY <1>1, <2>1, <3>3, <1>num DEF AllNumbers
      <4> QED BY <4>1
    <3> QED BY <3>2, <3>3
  <2>3. buffer[Slot(readPtr + (k + piece))] = Before + (k + piece) + 1
    BY <2>1 DEF StreamOK
  <2> QED BY <1>1, <1>5, <2>1, <2>2, <2>3, <1>num DEF AllNumbers
<1>9. \A i \in 1..Len(out') : out'[i] = last' + i
  BY <1>1 DEF StreamOK
<1> QED BY <1>6, <1>8, <1>9 DEF StreamOK, Slot

\* The next Read begins where the last one ended.
LEMMA StreamReadCall ==
  ASSUME TypeOK, StreamOK, NEW n \in Counts, ReadCall(n)
  PROVE  StreamOK'
<1>num. AllNumbers
  BY Numbers
<1>1. /\ rpc = "idle" /\ rpc' = "wait" /\ out' = <<>>
      /\ last' = IF out = <<>> THEN last ELSE out[Len(out)]
      /\ UNCHANGED <<used, readPtr, buffer, fpc, len, dev>>
  BY DEF ReadCall, flags, ring, filler
<1>2. Leaving = 0 /\ Leaving' = 0 /\ Arriving' = Arriving /\ Arriving \in Nat
  BY <1>1, <1>num DEF Leaving, Arriving, AllNumbers
<1>3. Before' = Before /\ Before \in Int /\ Before = last + Len(out)
  BY <1>1, <1>2, <1>num DEF Before, StreamOK, AllNumbers
<1>4. last' = last + Len(out) /\ Len(out') = 0
  <2>1. out \in Seq(Nat)
    BY DEF TypeOK
  <2>2. CASE out = <<>>
    BY <1>1, <2>2, <1>num, EmptySeq DEF AllNumbers
  <2>3. CASE out # <<>>
    <3>1. Len(out) \in Nat \ {0}
      BY <2>1, <2>3, EmptySeq
    <3>2. out[Len(out)] = last + Len(out)
      BY <3>1 DEF StreamOK
    <3> QED BY <1>1, <2>3, <3>2, EmptySeq
  <2> QED BY <2>2, <2>3
<1>5. Before' + Leaving' = last' + Len(out')
  BY <1>2, <1>3, <1>4, <1>num DEF AllNumbers
<1>6. \A i \in 1..Len(out') : out'[i] = last' + i
  BY <1>4
<1>7. \A k \in 0..(used' + Arriving' - 1) : buffer'[Slot(readPtr' + k)] = Before' + k + 1
  BY <1>1, <1>2, <1>3 DEF StreamOK
<1> QED BY <1>5, <1>6, <1>7 DEF StreamOK, Slot

LEMMA StreamStep ==
  ASSUME TypeOK, LocalsOK, NeverPauses, UsedOK, StreamOK, [Next]_vars
  PROVE  StreamOK'
<1> USE DEF flags, ring, filler, reader, result
<1>1. CASE Boot \/ Top \/ Poll \/ Room \/ Down \/ DeviceAgain
  <2>1. /\ UNCHANGED <<used, readPtr, buffer, dev, out, last, rpc, piece>>
        /\ fpc # "incr" /\ fpc' # "incr"
    BY <1>1 DEF Boot, Top, Poll, Room, Down, DeviceAgain
  <2> QED BY <2>1, StreamSame DEF Arriving, Leaving
<1>2. CASE Pause \/ Reset \/ Unpause
  BY <1>2 DEF Pause, Reset, Unpause, NeverPauses
<1>3. ASSUME NEW n \in 1..DevReadSize, DeviceRead(n) PROVE StreamOK'
  BY <1>3, StreamDeviceRead
<1>4. ASSUME NEW end \in BOOLEAN, DeviceFails(end) PROVE StreamOK'
  <2>1. /\ UNCHANGED <<used, readPtr, buffer, dev, out, last, rpc, piece>>
        /\ fpc # "incr" /\ fpc' # "incr"
    BY <1>4 DEF DeviceFails
  <2> QED BY <2>1, StreamSame DEF Arriving, Leaving
<1>5. CASE IncrWritePointer
  BY <1>5, StreamIncrWrite
<1>6. CASE ReadWait \/ ReadTake
  <2>1. /\ UNCHANGED <<used, readPtr, buffer, dev, out, last, fpc, len>>
        /\ rpc # "incr" /\ rpc' # "incr"
    BY <1>6 DEF ReadWait, ReadTake, Leave
  <2> QED BY <2>1, StreamSame DEF Arriving, Leaving
<1>7. CASE ReadCopy
  BY <1>7, StreamReadCopy
<1>8. CASE IncrReadPointer
  BY <1>8, StreamIncrRead
<1>9. CASE Start \/ Stop \/ WaitForPaused \/ RequestPause \/ Resume
  <2>1. /\ UNCHANGED <<used, readPtr, buffer, dev, out, last, len, piece>>
        /\ fpc' = fpc \/ (fpc # "incr" /\ fpc' # "incr")
        /\ rpc' = rpc \/ (rpc # "incr" /\ rpc' # "incr")
    BY <1>9 DEF Start, Stop, WaitForPaused, RequestPause, Resume
  <2> QED BY <2>1, StreamSame DEF Arriving, Leaving
<1>10. ASSUME NEW n \in Counts, ReadCall(n) PROVE StreamOK'
  BY <1>10, StreamReadCall
<1>11. CASE UNCHANGED vars
  <2>1. UNCHANGED <<used, readPtr, buffer, dev, out, last, fpc, len, rpc, piece>>
    BY <1>11 DEF vars
  <2> QED BY <2>1, StreamSame DEF Arriving, Leaving
<1> QED BY <1>1, <1>2, <1>3, <1>4, <1>5, <1>6, <1>7, <1>8, <1>9, <1>10, <1>11
        DEF Next, FillStep, DeviceStep, ReadStep, Call

-----------------------------------------------------------------------------
(* The theorems                                                            *)

LEMMA InitInv == Init => IInv
<1> SUFFICES ASSUME Init PROVE IInv OBVIOUS
<1>1. TypeOK /\ LocalsOK
  BY TypeInit, LocalsInit
<1>2. QuietOK /\ NeverPauses
  BY DEF Init, QuietOK, NeverPauses
<1>3. Size \in Nat /\ used = 0 /\ readPtr = 0 /\ writePtr = 0 /\ dev = 0 /\ last = 0
  BY DRBAssumption DEF Init
<1>4. out = <<>> /\ Len(out) = 0 /\ fpc = "none" /\ rpc = "idle"
  BY EmptySeq DEF Init
<1>5. UsedOK
  BY <1>3, <1>4 DEF UsedOK
<1>6. StreamOK
  BY <1>3, <1>4 DEF StreamOK, Before, Arriving, Leaving
<1> QED BY <1>1, <1>2, <1>5, <1>6 DEF IInv

\* The invariant holds in every behaviour.
THEOREM Invariance == Spec => []IInv
<1>1. IInv /\ [Next]_vars => IInv'
  <2> SUFFICES ASSUME IInv, [Next]_vars PROVE IInv'
    OBVIOUS
  <2>1. TypeOK /\ LocalsOK /\ QuietOK
    BY DEF IInv
  <2>2. TypeOK' /\ LocalsOK' /\ QuietOK'
    BY <2>1, TypeStep, LocalsStep, QuietStep
  <2>3. canPause' = canPause
    BY DEF Next, FillStep, DeviceStep, ReadStep, Call, vars, result, Boot, Top, Pause,
           Reset, Unpause, Poll, Room, DeviceRead, DeviceAgain, DeviceFails,
           IncrWritePointer, Down, Start, Stop, ReadCall, ReadWait, ReadTake, ReadCopy,
           IncrReadPointer, RequestPause, WaitForPaused, Resume
  <2>4. ASSUME ~canPause PROVE NeverPauses' /\ UsedOK' /\ StreamOK'
    <3>1. NeverPauses /\ UsedOK /\ StreamOK
      BY <2>4 DEF IInv
    <3> QED BY <2>1, <2>4, <3>1, NeverPausesStep, UsedStep, StreamStep
  <2> QED BY <2>2, <2>3, <2>4 DEF IInv
<1> QED BY <1>1, InitInv, PTL DEF Spec

\* Every variable keeps its type: no pointer leaves the ring, and more than ErrLimit
\* failures in a row end the thread.
THEOREM TypeCorrect == Spec => []TypeOK
<1>1. IInv => TypeOK
  BY DEF IInv
<1> QED BY <1>1, Invariance, PTL

\* used is the distance of the pointers, between any two of their updates.
THEOREM UsedIsDistanceHolds == Spec => []UsedIsDistance
<1>1. IInv => UsedIsDistance
  <2> SUFFICES ASSUME IInv, ~canPause
               PROVE  used <= Size /\ writePtr = (readPtr + used) % Size
    BY DEF UsedIsDistance
  <2>num. AllNumbers
    BY Numbers DEF IInv
  <2>1. /\ used <= Size
        /\ readPtr + used = writePtr \/ readPtr + used = writePtr + Size
    BY DEF IInv, UsedOK
  <2>2. \A w \in 0..(Size - 1) : w % Size = w /\ (w + Size) % Size = w
    <3>1. Size \in Nat /\ Size >= 1
      BY <2>num DEF AllNumbers
    <3> QED BY <3>1
  <2>3. writePtr \in 0..(Size - 1)
    BY <2>num DEF AllNumbers
  <2> QED BY <2>1, <2>2, <2>3
<1> QED BY <1>1, Invariance, PTL

\* The two accesses that are made without the lock never meet.
THEOREM NoOverlapHolds == Spec => []NoOverlap
<1>1. IInv => NoOverlap
  <2> SUFFICES ASSUME IInv, ~canPause, fpc = "read", rpc = "copy",
                      NEW s \in writePtr..(writePtr + read_size - 1),
                      s \in readPtr..(readPtr + piece - 1)
               PROVE  FALSE
    BY DEF NoOverlap
  <2>num. AllNumbers
    BY Numbers DEF IInv
  <2>1. /\ used + read_size <= Size /\ writePtr + read_size <= Size
        /\ readPtr + used = writePtr \/ readPtr + used = writePtr + Size
        /\ readPtr + piece <= Size
    BY DEF IInv, UsedOK, LocalsOK
  <2>2. piece <= used
    BY <2>num DEF IInv, UsedOK, LocalsOK, Leaving, AllNumbers
  <2> QED BY <2>1, <2>2, <2>num DEF AllNumbers
<1> QED BY <1>1, Invariance, PTL

\* Reads return the bytes of the device, each once and in order.
THEOREM ReadsAreCompleteHolds == Spec => []ReadsAreComplete
<1>1. IInv => ReadsAreComplete
  BY DEF IInv, StreamOK, ReadsAreComplete
<1> QED BY <1>1, Invariance, PTL

\* After WaitForPaused was TRUE, the device is not read until the recorder resumes.
THEOREM PausedIsQuietHolds == Spec => []PausedIsQuiet
<1>1. IInv => PausedIsQuiet
  BY DEF IInv, QuietOK, PausedIsQuiet
<1> QED BY <1>1, Invariance, PTL
=============================================================================
