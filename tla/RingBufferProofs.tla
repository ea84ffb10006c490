-------------------------- MODULE RingBufferProofs --------------------------
(***************************************************************************)
(* Proofs about RingBuffer: its type invariant holds, the two threads use   *)
(* different slots of the ring, and Reads return the file, for every ring,  *)
(* file, chain of programs and set of uses.                                 *)
(***************************************************************************)
EXTENDS RingBuffer, TLAPS

-----------------------------------------------------------------------------
(* The inductive invariant                                                 *)

ReadPCs == {"await", "avail", "first", "again", "wait", "last", "copy"}
ChangePCs == {"pause", "stop", "waitforpause", "pausing", "paused", "open", "bitrate",
              "reset", "startreads", "unpause"}
ChangeCalls == {"SwitchToProgram", "JumpToProgram"}
Working == {"loop", "awake", "lock", "read", "end"}

\* Which call a client is in, and how far it has got with the locals.
CallsOK ==
  /\ DOMAIN pc = Clients /\ DOMAIN call = Clients
  /\ pc[Decoder] \in {"idle", "gone"} => call[Decoder] = "" /\ readErr = 0
  /\ pc[Decoder] \in ReadPCs => call[Decoder] \in {"Read", "Peek"}
  /\ pc[Decoder] \in {"create", "boot", "booted", "join"} =>
       call[Decoder] \in {"Start", "Read", "Peek"}
  /\ pc[Decoder] = "await" => readErr <= AbortAfter
  /\ pc[Decoder] = "seek" => target \in Targets
  /\ Changing => call[Decoder] \in ChangeCalls
  /\ call[Decoder] \in ChangeCalls => target \in 1..Programs /\ pc[Decoder] \in ChangePCs

\* The decoder's thread is in the midst of a (re)start, or the read-ahead thread
\* is in its loop, or the buffer is deleted.
ThreadOK ==
  /\ pc[Decoder] = "create" => tpc = "none"
  /\ pc[Decoder] = "boot" => tpc \in {"start", "init", "up"}
  /\ pc[Decoder] = "join" => tpc \in Working \cup {"done"}
  /\ pc[Decoder] \notin {"create", "boot", "join", "gone"} =>
       readaheadrunning /\ tpc \in Working
  /\ pc[Control] = "join" => pc[Decoder] = "gone"

\* What the read-ahead thread has found free stays so while it reads, and what
\* the decoder's thread has found in the ring stays there until it copies.
RingOK ==
  /\ ret # 0 => tpc = "end"
  /\ tpc = "end" => ret <= totfree
  /\ tpc = "read" => rbwpos + totfree <= Size
  /\ "startreads" \notin mishaps =>
       /\ totfree <= ReadBufFree
       /\ pc[Decoder] \in {"first", "again", "last"} => avail <= ReadBufAvail
       /\ pc[Decoder] = "last" => count <= avail \/ stopreads
       /\ pc[Decoder] = "copy" => count <= ReadBufAvail

\* The bytes that were read and not added to the ring yet.
Fresh == IF ret > 0 THEN ret ELSE 0

\* The ring and what was just read are the file between readpos and fpos.
InOrder ==
  /\ fpos = internalreadpos
  /\ fpos = readpos + ReadBufAvail + Fresh
  /\ \A i \in 0..(ReadBufAvail + Fresh - 1) :
       readAheadBuffer[(rbrpos + i) % Size] = <<file, readpos + i>>

\* While a program is changed the thread does not read, and as the ring, the file
\* and the positions change one after the other, the later ones find the earlier
\* ones as they left them.
ChangeOK ==
  /\ tpc # "read"
  /\ pc[Decoder] = "bitrate" => fpos = 0
  /\ call[Decoder] = "SwitchToProgram" /\ pc[Decoder] = "reset" => fpos = 0
  /\ call[Decoder] = "JumpToProgram" /\ pc[Decoder] # "reset" =>
       internalreadpos = 0 /\ readpos = 0 /\ rbrpos = rbwpos /\ Fresh = 0

DataOK ==
  mishaps = {} /\ pc[Decoder] # "gone" =>
    /\ pc[Decoder] \in {"create", "boot"} =>
         call[Decoder] = "Start" /\ readpos = 0 /\ rbrpos = rbwpos /\ fpos = 0
    /\ pc[Decoder] # "join"
    /\ IF Changing THEN ChangeOK ELSE InOrder

IInv == TypeOK /\ CallsOK /\ ThreadOK /\ RingOK /\ DataOK

-----------------------------------------------------------------------------
(* Lemmas about the ring and the clients                                   *)

LEMMA Numbers ==
  /\ Size \in Nat /\ Size >= 1 /\ MaxBlock \in Nat /\ MaxBlock >= 1
  /\ MaxLen \in Nat /\ Programs \in Nat /\ Programs >= 1
  /\ FailLimit \in Nat /\ RestartAfter \in Nat /\ AbortAfter \in Nat
BY RBAssumption

\* The two clients.
LEMMA TwoClients ==
  /\ Clients = {Decoder, Control} /\ Decoder \in Clients /\ Control \in Clients
  /\ Decoder # Control
BY DEF Clients, Decoder, Control

\* A position in the ring, wrapped once.
LEMMA Wrap ==
  \A p \in 0..(2 * Size - 1) : p % Size = IF p < Size THEN p ELSE p - Size
<1> SUFFICES ASSUME NEW p \in 0..(2 * Size - 1)
             PROVE  p % Size = IF p < Size THEN p ELSE p - Size
  OBVIOUS
<1> QED BY Numbers

\* How far it is from one position of the ring to another.
Used(r, w) == IF w >= r THEN w - r ELSE Size - r + w

\* What is in the ring and what is free are all but one of the slots.
LEMMA Distance ==
  \A r, w \in 0..(Size - 1) :
    LET free == (IF w >= r THEN r + Size ELSE r) - w - 1
    IN  /\ Used(r, w) \in 0..(Size - 1) /\ free \in 0..(Size - 1)
        /\ free = Size - 1 - Used(r, w)
        /\ r = w => Used(r, w) = 0
BY Numbers DEF Used

LEMMA AvailFree ==
  ASSUME rbrpos \in 0..(Size - 1), rbwpos \in 0..(Size - 1)
  PROVE  /\ ReadBufAvail \in 0..(Size - 1) /\ ReadBufFree \in 0..(Size - 1)
         /\ ReadBufFree = Size - 1 - ReadBufAvail
         /\ rbrpos = rbwpos => ReadBufAvail = 0
BY Distance, Zenon DEF ReadBufAvail, ReadBufFree, Used

LEMMA AvailFreeNext ==
  ASSUME rbrpos' \in 0..(Size - 1), rbwpos' \in 0..(Size - 1)
  PROVE  /\ ReadBufAvail' \in 0..(Size - 1) /\ ReadBufFree' \in 0..(Size - 1)
         /\ ReadBufFree' = Size - 1 - ReadBufAvail'
         /\ rbrpos' = rbwpos' => ReadBufAvail' = 0
BY Distance, Zenon DEF ReadBufAvail, ReadBufFree, Used

\* A position moves on, wrapped: as far as the free slots, or as far as the used.
LEMMA MovesOn ==
  ASSUME NEW r \in 0..(Size - 1), NEW w \in 0..(Size - 1), NEW n \in Nat
  PROVE  /\ n <= Size - 1 - Used(r, w) => Used(r, (w + n) % Size) = Used(r, w) + n
         /\ n <= Used(r, w) => Used((r + n) % Size, w) = Used(r, w) - n
<1>1. Used(r, w) \in 0..(Size - 1)
  BY Distance
<1>2. ASSUME n <= Size - 1 - Used(r, w)
      PROVE  Used(r, (w + n) % Size) = Used(r, w) + n
  <2> DEFINE p == w + n
  <2>1. p \in 0..(2 * Size - 1)
    BY <1>1, <1>2, Numbers
  <2>2. p % Size = IF p < Size THEN p ELSE p - Size
    <3> HIDE DEF p
    <3> QED BY <2>1, Wrap
  <2> QED BY <1>2, <2>2, Numbers DEF Used
<1>3. ASSUME n <= Used(r, w)
      PROVE  Used((r + n) % Size, w) = Used(r, w) - n
  <2> DEFINE p == r + n
  <2>1. p \in 0..(2 * Size - 1)
    BY <1>1, <1>3, Numbers
  <2>2. p % Size = IF p < Size THEN p ELSE p - Size
    <3> HIDE DEF p
    <3> QED BY <2>1, Wrap
  <2> QED BY <1>3, <2>2, Numbers DEF Used
<1> QED BY <1>2, <1>3

-----------------------------------------------------------------------------
(* Type correctness                                                        *)

\* TypeOK, variables of one tuple at a time.
FlagsTyped ==
  /\ readaheadrunning \in BOOLEAN /\ readaheadpaused \in BOOLEAN
  /\ pausereadthread \in BOOLEAN /\ stopreads \in BOOLEAN

SignsTyped ==
  /\ ateof \in BOOLEAN /\ readsallowed \in BOOLEAN /\ setswitchtonext \in BOOLEAN
  /\ commserror \in BOOLEAN /\ numfailures \in 0..(FailLimit + 1)

RingTyped ==
  /\ rbrpos \in 0..(Size - 1) /\ rbwpos \in 0..(Size - 1)
  /\ readblocksize \in 1..MaxBlock
  /\ readAheadBuffer \in [0..(Size - 1) -> (0..Programs) \X (0..MaxLen)]

PositionsTyped == readpos \in Nat /\ internalreadpos \in Nat

ReadingTyped ==
  /\ tpc \in {"none", "start", "init", "up", "loop", "awake", "lock", "read", "end", "done"}
  /\ totfree \in 0..(Size - 1) /\ ret \in -1..(Size - 1)

ClientsTyped ==
  /\ pc[Decoder] \in DecoderPCs \cup PausePCs
  /\ pc[Control] \in {"idle", "drain", "deleted"} \cup PausePCs
  /\ call[Decoder] \in DecoderCalls \cup {"", "Start"}
  /\ call[Control] \in ControlCalls \cup {""}

LocalsTyped ==
  /\ count \in 0..Size /\ avail \in 0..(Size - 1) /\ readone \in BOOLEAN
  /\ readErr \in 0..(AbortAfter + 1) /\ target \in 0..(MaxLen + Programs)

SourceTyped ==
  /\ file \in 1..Programs /\ fpos \in 0..MaxLen /\ chain \in 1..Programs
  /\ needsToSwitch \in BOOLEAN

RestTyped ==
  /\ ignoreliveeof \in BOOLEAN
  /\ mishaps \subseteq {"change", "restart", "startreads"} /\ use \in Uses

LEMMA TypeParts ==
  TypeOK <=> /\ FlagsTyped /\ SignsTyped /\ RingTyped /\ PositionsTyped /\ ReadingTyped
             /\ ClientsTyped /\ LocalsTyped /\ SourceTyped /\ RestTyped
<1>1. {readaheadrunning, readaheadpaused, pausereadthread, stopreads, ateof, readsallowed,
       setswitchtonext, commserror, ignoreliveeof, readone, needsToSwitch} \subseteq BOOLEAN
      <=> /\ readaheadrunning \in BOOLEAN /\ readaheadpaused \in BOOLEAN
          /\ pausereadthread \in BOOLEAN /\ stopreads \in BOOLEAN
          /\ ateof \in BOOLEAN /\ readsallowed \in BOOLEAN
          /\ setswitchtonext \in BOOLEAN /\ commserror \in BOOLEAN
          /\ ignoreliveeof \in BOOLEAN /\ readone \in BOOLEAN
          /\ needsToSwitch \in BOOLEAN
  OBVIOUS
<1> QED
  BY <1>1, Zenon
  DEF TypeOK, FlagsTyped, SignsTyped, RingTyped, PositionsTyped, ReadingTyped,
      ClientsTyped, LocalsTyped, SourceTyped, RestTyped

LEMMA EmptyRing ==
  Empty \in [0..(Size - 1) -> (0..Programs) \X (0..MaxLen)]
BY Numbers DEF Empty, None

\* The ring after ResetReadAhead.
LEMMA ResetTyped ==
  ASSUME NEW p \in Nat, ResetReadAhead(p)
  PROVE  RingTyped' /\ internalreadpos' \in Nat
<1>1. 0 \in 0..(Size - 1) /\ 1 \in 1..MaxBlock
  BY Numbers
<1> QED BY <1>1, EmptyRing DEF ResetReadAhead, RingTyped

\* The ring after a read of the file.
LEMMA ReadRing ==
  ASSUME TypeOK, NEW n \in 0..Size, NEW failures \in 0..3, SafeRead(n, failures)
  PROVE  RingTyped'
<1>typ. RingTyped /\ SourceTyped
  BY TypeParts
<1>1. ASSUME NEW s \in 0..(Size - 1)
      PROVE  (IF s \in rbwpos..(rbwpos + n - 1)
              THEN <<file, fpos + (s - rbwpos)>> ELSE readAheadBuffer[s])
               \in (0..Programs) \X (0..MaxLen)
  <2>1. readAheadBuffer[s] \in (0..Programs) \X (0..MaxLen)
    BY <1>typ DEF RingTyped
  <2>2. s \in rbwpos..(rbwpos + n - 1) => fpos + (s - rbwpos) \in 0..MaxLen
    BY <1>typ, Numbers DEF SafeRead, RingTyped, SourceTyped
  <2>3. file \in 0..Programs
    BY <1>typ, Numbers DEF SourceTyped
  <2> QED BY <2>1, <2>2, <2>3
<1>2. readAheadBuffer' \in [0..(Size - 1) -> (0..Programs) \X (0..MaxLen)]
  <2>1. readAheadBuffer' = [s \in 0..(Size - 1) |->
                              IF s \in rbwpos..(rbwpos + n - 1)
                              THEN <<file, fpos + (s - rbwpos)>> ELSE readAheadBuffer[s]]
    BY DEF SafeRead
  <2> QED BY <1>1, <2>1
<1> QED BY <1>typ, <1>2 DEF SafeRead, RingTyped

LEMMA TypeInit == Init => TypeOK
<1> SUFFICES ASSUME Init PROVE TypeOK OBVIOUS
<1>1. FlagsTyped
  BY Zenon DEF Init, FlagsTyped
<1>2. SignsTyped
  <2>1. 0 \in 0..(FailLimit + 1)
    BY Numbers
  <2> QED BY <2>1, Zenon DEF Init, SignsTyped
<1>3. RingTyped /\ PositionsTyped
  <2>1. Empty \in [0..(Size - 1) -> (0..Programs) \X (0..MaxLen)]
    BY EmptyRing
  <2>2. 0 \in 0..(Size - 1) /\ 1 \in 1..MaxBlock
    BY Numbers
  <2>3. /\ rbrpos = 0 /\ rbwpos = 0 /\ readblocksize = 1 /\ readAheadBuffer = Empty
        /\ readpos = 0 /\ internalreadpos = 0
    BY DEF Init
  <2> QED BY <2>1, <2>2, <2>3 DEF RingTyped, PositionsTyped
<1>4. ReadingTyped /\ LocalsTyped /\ SourceTyped /\ RestTyped
  <2>1. /\ tpc = "none" /\ totfree = 0 /\ ret = 0 /\ count = 0 /\ avail = 0
        /\ readone = FALSE /\ readErr = 0 /\ target = 0 /\ file = 1 /\ fpos = 0
        /\ chain = 1 /\ needsToSwitch = FALSE /\ ignoreliveeof = FALSE
        /\ mishaps = {} /\ use \in Uses
    BY DEF Init
  <2>2. /\ 0 \in 0..(Size - 1) /\ 0 \in -1..(Size - 1) /\ 0 \in 0..Size
        /\ 0 \in 0..(AbortAfter + 1) /\ 0 \in 0..(MaxLen + Programs)
        /\ 1 \in 1..Programs /\ 0 \in 0..MaxLen
    BY Numbers
  <2>3. {} \subseteq {"change", "restart", "startreads"}
    OBVIOUS
  <2> QED BY <2>1, <2>2, <2>3, Zenon DEF ReadingTyped, LocalsTyped, SourceTyped, RestTyped
<1>5. ClientsTyped
  <2>1. /\ pc = [c \in Clients |-> IF c = Decoder THEN "create" ELSE "idle"]
        /\ call = [c \in Clients |-> IF c = Decoder THEN "Start" ELSE ""]
    BY DEF Init
  <2> QED BY <2>1, TwoClients DEF ClientsTyped, DecoderPCs, DecoderCalls
<1> QED BY <1>1, <1>2, <1>3, <1>4, <1>5, TypeParts

\* What no step of a kind changes keeps its type.
LEMMA Untouched ==
  /\ UNCHANGED flags /\ FlagsTyped => FlagsTyped'
  /\ UNCHANGED signs /\ SignsTyped => SignsTyped'
  /\ UNCHANGED ring /\ RingTyped => RingTyped'
  /\ UNCHANGED positions /\ PositionsTyped => PositionsTyped'
  /\ UNCHANGED reading /\ ReadingTyped => ReadingTyped'
  /\ UNCHANGED clients /\ ClientsTyped => ClientsTyped'
  /\ UNCHANGED locals /\ LocalsTyped => LocalsTyped'
  /\ UNCHANGED source /\ SourceTyped => SourceTyped'
  /\ UNCHANGED rest /\ RestTyped => RestTyped'
<1>1. UNCHANGED flags /\ FlagsTyped => FlagsTyped'
  BY DEF flags, FlagsTyped
<1>2. UNCHANGED signs /\ SignsTyped => SignsTyped'
  BY DEF signs, SignsTyped
<1>3. UNCHANGED ring /\ RingTyped => RingTyped'
  BY DEF ring, RingTyped
<1>4. UNCHANGED positions /\ PositionsTyped => PositionsTyped'
  BY DEF positions, PositionsTyped
<1>5. UNCHANGED reading /\ ReadingTyped => ReadingTyped'
  BY DEF reading, ReadingTyped
<1>6. UNCHANGED clients /\ ClientsTyped => ClientsTyped'
  BY DEF clients, ClientsTyped
<1>7. UNCHANGED locals /\ LocalsTyped => LocalsTyped'
  BY DEF locals, LocalsTyped
<1>8. UNCHANGED source /\ SourceTyped => SourceTyped'
  BY DEF source, SourceTyped
<1>9. UNCHANGED rest /\ RestTyped => RestTyped'
  BY DEF rest, RestTyped
<1> QED BY <1>1, <1>2, <1>3, <1>4, <1>5, <1>6, <1>7, <1>8, <1>9

\* A client that goes on or returns; the other stays where it is.
LEMMA Goes ==
  ASSUME CallsOK, NEW c \in Clients, NEW to, Go(c, to)
  PROVE  /\ pc'[c] = to /\ call'[c] = call[c] /\ UNCHANGED call
         /\ \A d \in Clients \ {c} : pc'[d] = pc[d] /\ call'[d] = call[d]
         /\ DOMAIN pc' = Clients /\ DOMAIN call' = Clients
BY DEF CallsOK, Go

LEMMA Returns ==
  ASSUME CallsOK, NEW c \in Clients, Return(c)
  PROVE  /\ pc'[c] = "idle" /\ call'[c] = ""
         /\ \A d \in Clients \ {c} : pc'[d] = pc[d] /\ call'[d] = call[d]
         /\ DOMAIN pc' = Clients /\ DOMAIN call' = Clients
         /\ c = Decoder => count' = 0 /\ avail' = 0 /\ readone' = FALSE /\ readErr' = 0
                            /\ target' = 0
         /\ c = Control => UNCHANGED locals
<1>1. c = Control => c # Decoder
  BY TwoClients
<1> QED BY <1>1 DEF CallsOK, Return

\* The thread reads into less than the room that it has found.
LEMMA Begins ==
  ASSUME TypeOK, ReadBegin
  PROVE  /\ totfree' \in 0..totfree
         /\ tpc' = "read" => rbwpos + totfree' <= Size
<1>1. /\ totfree \in 0..(Size - 1) /\ readblocksize \in Nat /\ readblocksize >= 1
      /\ rbwpos \in 0..(Size - 1)
  BY Numbers, TypeParts DEF RingTyped, ReadingTyped
<1>2. CASE WantsToRead
  <2>1. /\ totfree > readblocksize
        /\ totfree' = IF internalreadpos = 0 THEN 1
                      ELSE IF readblocksize < Size - rbwpos THEN readblocksize
                      ELSE Size - rbwpos
    BY <1>2 DEF ReadBegin, WantsToRead, Smaller
  <2> QED BY <1>1, <2>1, Numbers
<1>3. CASE ~WantsToRead
  <2>1. totfree' = totfree /\ tpc' = "end"
    BY <1>3 DEF ReadBegin
  <2> QED BY <1>1, <2>1
<1> QED BY <1>2, <1>3

\* What the steps of the read-ahead thread keep of the types.
LEMMA ThreadTyped ==
  ASSUME TypeOK, CallsOK, ThreadStep
  PROVE  TypeOK'
<1>typ. /\ FlagsTyped /\ SignsTyped /\ RingTyped /\ PositionsTyped /\ ReadingTyped
        /\ ClientsTyped /\ LocalsTyped /\ SourceTyped /\ RestTyped
  BY TypeParts
<1>all. SUFFICES /\ FlagsTyped' /\ SignsTyped' /\ RingTyped' /\ PositionsTyped' /\ ReadingTyped'
                 /\ ClientsTyped' /\ LocalsTyped' /\ SourceTyped' /\ RestTyped'
  BY TypeParts, PTL
<1>free. ReadBufFree \in 0..(Size - 1) /\ ReadBufAvail \in 0..(Size - 1)
  BY <1>typ, AvailFree DEF RingTyped
<1>1. CASE ThreadStarts
  <2>1. UNCHANGED <<signs, ring, positions, clients, locals, source, rest>>
    BY <1>1 DEF ThreadStarts
  <2>2. FlagsTyped' /\ ReadingTyped'
    BY <1>1, <1>typ DEF ThreadStarts, FlagsTyped, ReadingTyped
  <2> QED BY <2>1, <2>2, <1>typ, Untouched
<1>2. CASE ThreadResets
  <2>1. UNCHANGED <<flags, clients, locals, source, rest>>
    BY <1>2 DEF ThreadResets
  <2>2. RingTyped' /\ PositionsTyped' /\ ReadingTyped'
    BY <1>2, <1>typ, ResetTyped, Numbers
    DEF ThreadResets, PositionsTyped, ReadingTyped
  <2>3. SignsTyped'
    BY <1>2, <1>typ DEF ThreadResets, ResetReadAhead, SignsTyped
  <2> QED BY <2>1, <2>2, <2>3, <1>typ, Untouched
<1>3. CASE ThreadIsUp
  <2>1. UNCHANGED <<signs, ring, positions, locals, source, rest>>
    BY <1>3 DEF ThreadIsUp
  <2>2. FlagsTyped' /\ ReadingTyped'
    BY <1>3, <1>typ DEF ThreadIsUp, FlagsTyped, ReadingTyped
  <2>3. ClientsTyped'
    BY <1>3, <1>typ, TwoClients DEF ThreadIsUp, CallsOK, ClientsTyped, DecoderPCs
  <2> QED BY <2>1, <2>2, <2>3, <1>typ, Untouched
<1>4. CASE ThreadPauses
  <2>1. UNCHANGED <<signs, ring, positions, locals, source, rest>>
    BY <1>4 DEF ThreadPauses
  <2>2. FlagsTyped' /\ ReadingTyped'
    BY <1>4, <1>typ, <1>free DEF ThreadPauses, FlagsTyped, ReadingTyped
  <2>3. ClientsTyped'
    BY <1>4, <1>typ, TwoClients DEF ThreadPauses, CallsOK, ClientsTyped, PausePCs
  <2> QED BY <2>1, <2>2, <2>3, <1>typ, Untouched
<1>5. CASE ThreadAwakes
  <2>1. UNCHANGED <<flags, signs, ring, positions, clients, locals, source, rest>>
    BY <1>5 DEF ThreadAwakes
  <2>2. ReadingTyped'
    BY <1>5, <1>typ DEF ThreadAwakes, ReadingTyped
  <2> QED BY <2>1, <2>2, <1>typ, Untouched
<1>6. CASE Room
  <2>1. UNCHANGED <<signs, ring, positions, clients, locals, source, rest>>
    BY <1>6 DEF Room
  <2>2. FlagsTyped'
    BY <1>6, <1>typ DEF Room, FlagsTyped
  <2>3. ReadingTyped'
    BY <1>6, <1>typ, <1>free DEF Room, ReadingTyped
  <2> QED BY <2>1, <2>2, <2>3, <1>typ, Untouched
<1>7. CASE ReadBegin
  <2>1. UNCHANGED <<flags, signs, positions, clients, locals, source>>
    BY <1>7 DEF ReadBegin
  <2>2. RestTyped'
    BY <1>7, <1>typ DEF ReadBegin, RestTyped
  <2>3. readblocksize' \in 1..MaxBlock
    BY <1>7, <1>typ DEF ReadBegin, RingTyped, Adapted
  <2>4. RingTyped'
    BY <1>7, <1>typ, <2>3 DEF ReadBegin, RingTyped
  <2>5. totfree' \in 0..(Size - 1)
    BY <1>7, <1>typ, Begins, Numbers DEF ReadingTyped
  <2>6. ReadingTyped'
    BY <1>7, <1>typ, <2>5, Numbers DEF ReadBegin, ReadingTyped
  <2> QED BY <2>1, <2>2, <2>4, <2>6, <1>typ, Untouched
<1>8. ASSUME NEW n \in 0..Size, NEW failures \in 0..3, SafeRead(n, failures)
      PROVE  /\ FlagsTyped' /\ SignsTyped' /\ RingTyped' /\ PositionsTyped' /\ ReadingTyped'
             /\ ClientsTyped' /\ LocalsTyped' /\ SourceTyped' /\ RestTyped'
  <2>1. UNCHANGED <<flags, clients, locals, rest>>
    BY <1>8 DEF SafeRead
  <2>2. SignsTyped'
    <3>1. numfailures' \in 0..(FailLimit + 1)
      BY <1>8, <1>typ, Numbers DEF SafeRead, SignsTyped, Smaller
    <3> QED BY <1>8, <1>typ, <3>1 DEF SafeRead, SignsTyped
  <2>3. RingTyped'
    BY <1>8, ReadRing
  <2>4. PositionsTyped' /\ ReadingTyped'
    BY <1>8, <1>typ, Numbers DEF SafeRead, PositionsTyped, ReadingTyped
  <2>5. fpos' \in 0..MaxLen
    BY <1>8, <1>typ, Numbers DEF SafeRead, SourceTyped
  <2>6. SourceTyped'
    BY <1>8, <1>typ, <2>5 DEF SafeRead, SourceTyped
  <2> QED BY <2>1, <2>2, <2>3, <2>4, <2>6, <1>typ, Untouched
<1>9. CASE ReadEnd
  <2>1. UNCHANGED <<flags, positions, clients, locals, rest>>
    BY <1>9 DEF ReadEnd
  <2>2. rbwpos' \in 0..(Size - 1)
    <3>1. ret > 0 => rbwpos + ret \in 0..(2 * Size - 1)
      BY <1>typ, Numbers DEF RingTyped, ReadingTyped
    <3>2. rbwpos' = IF ret > 0 THEN (rbwpos + ret) % Size ELSE rbwpos
      BY <1>9 DEF ReadEnd
    <3>3. ret > 0 => (rbwpos + ret) % Size \in 0..(Size - 1)
      BY <3>1, Numbers
    <3>4. rbwpos \in 0..(Size - 1)
      BY <1>typ DEF RingTyped
    <3> QED BY <3>2, <3>3, <3>4
  <2>3. RingTyped'
    BY <1>9, <1>typ, <2>2 DEF ReadEnd, RingTyped
  <2>4. ReadBufFree' \in 0..(Size - 1)
    <3>1. rbrpos' \in 0..(Size - 1) /\ rbwpos' \in 0..(Size - 1)
      BY <2>3 DEF RingTyped
    <3> QED BY <3>1, AvailFreeNext
  <2>5. totfree' \in 0..(Size - 1) /\ ret' = 0 /\ tpc' = "loop"
    <3>1. /\ totfree' = IF ateof' \/ commserror' THEN 0 ELSE ReadBufFree'
          /\ ret' = 0 /\ tpc' = "loop"
      BY <1>9 DEF ReadEnd
    <3>2. 0 \in 0..(Size - 1)
      BY Numbers
    <3> QED BY <2>4, <3>1, <3>2, Zenon
  <2>6. ReadingTyped'
    BY <2>5, Numbers DEF ReadingTyped
  <2>7. SignsTyped' /\ SourceTyped'
    <3>1. /\ ateof' \in BOOLEAN /\ setswitchtonext' \in BOOLEAN /\ commserror' \in BOOLEAN
          /\ needsToSwitch' \in BOOLEAN /\ readsallowed' \in BOOLEAN
      BY <1>9, Zenon DEF ReadEnd
    <3> QED BY <1>9, <1>typ, <3>1, Zenon DEF ReadEnd, SignsTyped, SourceTyped
  <2> QED BY <2>1, <2>3, <2>6, <2>7, <1>typ, Untouched
<1>10. CASE ThreadEnds
  <2>1. UNCHANGED <<flags, signs, positions, clients, locals, source, rest>>
    BY <1>10 DEF ThreadEnds
  <2>2. ReadingTyped'
    BY <1>10, <1>typ, Numbers DEF ThreadEnds, ReadingTyped
  <2>3. RingTyped'
    BY <1>10, <1>typ, EmptyRing, Numbers DEF ThreadEnds, RingTyped
  <2> QED BY <2>1, <2>2, <2>3, <1>typ, Untouched
<1> QED
  BY <1>1, <1>2, <1>3, <1>4, <1>5, <1>6, <1>7, <1>8, <1>9, <1>10 DEF ThreadStep

\* A client that returns, and one whose WaitForPause returns.
LEMMA ReturnTyped ==
  ASSUME CallsOK, ClientsTyped, LocalsTyped, NEW c \in Clients, Return(c)
  PROVE  ClientsTyped' /\ LocalsTyped'
<1>1. ClientsTyped'
  BY Returns, TwoClients DEF ClientsTyped, DecoderPCs
<1>2. CASE c = Decoder
  <2>1. /\ 0 \in 0..Size /\ 0 \in 0..(Size - 1) /\ 0 \in 0..(AbortAfter + 1)
        /\ 0 \in 0..(MaxLen + Programs)
    BY Numbers
  <2>2. count' = 0 /\ avail' = 0 /\ readone' = FALSE /\ readErr' = 0 /\ target' = 0
    BY <1>2, Returns
  <2> QED BY <1>1, <2>1, <2>2, Zenon DEF LocalsTyped
<1>3. CASE c = Control
  BY <1>1, <1>3, Returns DEF LocalsTyped, locals
<1> QED BY <1>2, <1>3, TwoClients

LEMMA AfterPauseTyped ==
  ASSUME TypeOK, CallsOK, NEW c \in Clients, AfterPause(c)
  PROVE  /\ ClientsTyped' /\ LocalsTyped'
         /\ mishaps' \subseteq {"change", "restart", "startreads"}
<1>typ. ClientsTyped /\ LocalsTyped /\ RestTyped
  BY TypeParts
<1>1. mishaps' \subseteq {"change", "restart", "startreads"}
  BY <1>typ DEF AfterPause, RestTyped
<1>2. CASE Return(c)
  BY <1>typ, <1>1, <1>2, ReturnTyped
<1>3. CASE call[c] \in ChangeCalls /\ (GoOn(c, "open") \/ GoOn(c, "reset"))
  <2>1. c = Decoder
    BY <1>3, <1>typ, TwoClients DEF ClientsTyped, ControlCalls, ChangeCalls
  <2>2. ClientsTyped' /\ UNCHANGED locals
    BY <1>3, <2>1, <1>typ, Goes, TwoClients DEF GoOn, ClientsTyped, DecoderPCs
  <2> QED BY <1>1, <1>typ, <2>2, Untouched
<1> QED BY <1>2, <1>3 DEF AfterPause, ChangeCalls

\* What the steps of Pause, WaitForPause, Unpause and a join keep.
LEMMA ClientTyped ==
  ASSUME TypeOK, CallsOK, NEW c \in Clients, PauseStep(c)
  PROVE  TypeOK'
<1>typ. /\ FlagsTyped /\ SignsTyped /\ RingTyped /\ PositionsTyped /\ ReadingTyped
        /\ ClientsTyped /\ LocalsTyped /\ SourceTyped /\ RestTyped
  BY TypeParts
<1>all. SUFFICES /\ FlagsTyped' /\ SignsTyped' /\ RingTyped' /\ PositionsTyped' /\ ReadingTyped'
                 /\ ClientsTyped' /\ LocalsTyped' /\ SourceTyped' /\ RestTyped'
  BY TypeParts, PTL
<1>c. c = Decoder \/ c = Control
  BY TwoClients
<1>1. CASE PauseThread(c)
  <2>1. UNCHANGED <<signs, ring, positions, reading, locals, source, rest>>
    BY <1>1 DEF PauseThread, GoOn
  <2>2. FlagsTyped'
    BY <1>1, <1>typ DEF PauseThread, FlagsTyped
  <2>3. ClientsTyped'
    BY <1>1, <1>c, <1>typ, Goes, TwoClients DEF PauseThread, GoOn, ClientsTyped, PausePCs
  <2> QED BY <2>1, <2>2, <2>3, <1>typ, Untouched
<1>2. CASE StopReads(c)
  <2>1. UNCHANGED <<signs, ring, positions, reading, source, rest>>
    BY <1>2 DEF StopReads
  <2>2. FlagsTyped'
    BY <1>2, <1>typ DEF StopReads, FlagsTyped
  <2>3. CASE Return(c)
    <3>1. ClientsTyped' /\ LocalsTyped'
      BY <2>3, <1>typ, ReturnTyped
    <3> QED BY <2>1, <2>2, <3>1, <1>typ, Untouched
  <2>4. CASE call[c] = "StopDecoder" /\ GoOn(c, "drain")
    <3>1. c = Control
      BY <2>4, <1>c, <1>typ DEF ClientsTyped, DecoderCalls
    <3>2. ClientsTyped' /\ UNCHANGED locals
      BY <2>4, <3>1, <1>typ, Goes, TwoClients DEF GoOn, ClientsTyped
    <3> QED BY <2>1, <2>2, <3>2, <1>typ, Untouched
  <2>5. CASE GoOn(c, "waitforpause")
    <3>1. ClientsTyped' /\ UNCHANGED locals
      BY <2>5, <1>c, <1>typ, Goes, TwoClients DEF GoOn, ClientsTyped, PausePCs
    <3> QED BY <2>1, <2>2, <3>1, <1>typ, Untouched
  <2> QED BY <1>2, <2>3, <2>4, <2>5 DEF StopReads
<1>3. CASE WaitForPause(c)
  <2>1. UNCHANGED <<flags, signs, ring, positions, reading, source>>
    BY <1>3 DEF WaitForPause
  <2>2. CASE GoOn(c, "pausing") /\ UNCHANGED mishaps
    <3>1. ClientsTyped' /\ UNCHANGED locals
      BY <2>2, <1>c, <1>typ, Goes, TwoClients DEF GoOn, ClientsTyped, PausePCs
    <3>2. UNCHANGED rest
      BY <1>3, <2>2 DEF WaitForPause, rest
    <3> QED BY <2>1, <3>1, <3>2, <1>typ, Untouched
  <2>3. CASE AfterPause(c)
    <3>1. ClientsTyped' /\ LocalsTyped' /\ mishaps' \subseteq {"change", "restart", "startreads"}
      BY <2>3, <1>typ, AfterPauseTyped
    <3>2. RestTyped'
      BY <1>3, <3>1, <1>typ DEF WaitForPause, RestTyped
    <3> QED BY <2>1, <3>1, <3>2, <1>typ, Untouched
  <2> QED BY <1>3, <2>2, <2>3 DEF WaitForPause
<1>4. CASE PauseWoken(c)
  <2>1. UNCHANGED <<flags, signs, ring, positions, reading, source>>
    BY <1>4 DEF PauseWoken
  <2>2. ClientsTyped' /\ LocalsTyped' /\ mishaps' \subseteq {"change", "restart", "startreads"}
    BY <1>4, <1>typ, AfterPauseTyped DEF PauseWoken
  <2>3. RestTyped'
    BY <1>4, <2>2, <1>typ DEF PauseWoken, RestTyped
  <2> QED BY <2>1, <2>2, <2>3, <1>typ, Untouched
<1>5. CASE StartReads(c)
  <2>1. UNCHANGED <<signs, ring, positions, reading, source>>
    BY <1>5 DEF StartReads
  <2>2. FlagsTyped'
    BY <1>5, <1>typ DEF StartReads, FlagsTyped
  <2>3. RestTyped'
    BY <1>5, <1>typ DEF StartReads, RestTyped
  <2>4. CASE Return(c)
    <3>1. ClientsTyped' /\ LocalsTyped'
      BY <2>4, <1>typ, ReturnTyped
    <3> QED BY <2>1, <2>2, <2>3, <3>1, <1>typ, Untouched
  <2>5. CASE GoOn(c, "unpause")
    <3>1. ClientsTyped' /\ UNCHANGED locals
      BY <2>5, <1>c, <1>typ, Goes, TwoClients DEF GoOn, ClientsTyped, PausePCs
    <3> QED BY <2>1, <2>2, <2>3, <3>1, <1>typ, Untouched
  <2> QED BY <1>5, <2>4, <2>5 DEF StartReads
<1>6. CASE UnpauseThread(c)
  <2>1. UNCHANGED <<signs, ring, positions, reading, source>>
    BY <1>6 DEF UnpauseThread
  <2>2. FlagsTyped'
    BY <1>6, <1>typ DEF UnpauseThread, FlagsTyped
  <2>3. RestTyped'
    <3>1. ignoreliveeof' \in BOOLEAN
      BY <1>6, Zenon DEF UnpauseThread
    <3> QED BY <1>6, <1>typ, <3>1 DEF UnpauseThread, RestTyped
  <2>4. CASE Return(c)
    <3>1. ClientsTyped' /\ LocalsTyped'
      BY <2>4, <1>typ, ReturnTyped
    <3> QED BY <2>1, <2>2, <2>3, <3>1, <1>typ, Untouched
  <2>5. CASE call[c] \in {"Read", "Peek"} /\ GoOn(c, "avail")
    <3>1. c = Decoder
      BY <2>5, <1>c, <1>typ DEF ClientsTyped, ControlCalls
    <3>2. ClientsTyped' /\ UNCHANGED locals
      BY <2>5, <3>1, <1>typ, Goes, TwoClients DEF GoOn, ClientsTyped, DecoderPCs
    <3> QED BY <2>1, <2>2, <2>3, <3>2, <1>typ, Untouched
  <2> QED BY <1>6, <2>4, <2>5 DEF UnpauseThread
<1>7. CASE Join(c)
  <2>1. UNCHANGED <<flags, signs, ring, positions, locals, source, rest>>
    BY <1>7 DEF Join, GoOn
  <2>2. ReadingTyped'
    BY <1>7, <1>typ DEF Join, ReadingTyped
  <2>3. ClientsTyped'
    BY <1>7, <1>c, <1>typ, Goes, TwoClients DEF Join, GoOn, ClientsTyped, DecoderPCs
  <2> QED BY <2>1, <2>2, <2>3, <1>typ, Untouched
<1> QED
  BY <1>1, <1>2, <1>3, <1>4, <1>5, <1>6, <1>7 DEF PauseStep

\* The decoder's thread goes on.
LEMMA DecoderGoes ==
  ASSUME CallsOK, ClientsTyped, NEW to \in DecoderPCs \cup PausePCs, Go(Decoder, to)
  PROVE  ClientsTyped'
BY Goes, TwoClients DEF ClientsTyped

\* Read takes its bytes out of the ring.
LEMMA CopyTyped ==
  ASSUME TypeOK, Copy
  PROVE  RingTyped' /\ PositionsTyped'
<1>typ. RingTyped /\ PositionsTyped /\ LocalsTyped
  BY TypeParts
<1>1. CASE call[Decoder] = "Read"
  <2>1. rbrpos + count \in Nat /\ readpos' \in Nat
    BY <1>1, <1>typ, Numbers DEF Copy, RingTyped, PositionsTyped, LocalsTyped
  <2>2. rbrpos' \in 0..(Size - 1)
    BY <1>1, <2>1, Numbers DEF Copy
  <2>3. ASSUME NEW s \in 0..(Size - 1)
        PROVE  (IF s \in Slots(rbrpos, count) THEN None ELSE readAheadBuffer[s])
                 \in (0..Programs) \X (0..MaxLen)
    BY <1>typ, Numbers DEF RingTyped, None
  <2>4. readAheadBuffer' \in [0..(Size - 1) -> (0..Programs) \X (0..MaxLen)]
    <3>1. readAheadBuffer' = [s \in 0..(Size - 1) |->
             IF s \in Slots(rbrpos, count) THEN None ELSE readAheadBuffer[s]]
      BY <1>1 DEF Copy
    <3> QED BY <2>3, <3>1
  <2> QED BY <1>typ, <2>1, <2>2, <2>4 DEF Copy, RingTyped, PositionsTyped
<1>2. CASE call[Decoder] # "Read"
  BY <1>2, <1>typ DEF Copy, RingTyped, PositionsTyped
<1> QED BY <1>1, <1>2

\* The decoder's thread calls Seek, SwitchToProgram or JumpToProgram.
LEMMA CallingTyped ==
  ASSUME CallsOK, ClientsTyped, LocalsTyped, NEW c \in DecoderCalls,
         NEW to \in DecoderPCs \cup PausePCs, NEW p \in 0..(MaxLen + Programs),
         Calls(c, to, p)
  PROVE  ClientsTyped' /\ LocalsTyped'
<1>1. ClientsTyped'
  BY TwoClients DEF Calls, CallsOK, ClientsTyped
<1>2. LocalsTyped'
  BY DEF Calls, LocalsTyped
<1> QED BY <1>1, <1>2

\* What the steps of Start, Read, Peek and OpenFile keep.
LEMMA ReadTyped ==
  ASSUME TypeOK, CallsOK, ReadStep
  PROVE  TypeOK'
<1>typ. /\ FlagsTyped /\ SignsTyped /\ RingTyped /\ PositionsTyped /\ ReadingTyped
        /\ ClientsTyped /\ LocalsTyped /\ SourceTyped /\ RestTyped
  BY TypeParts
<1>all. SUFFICES /\ FlagsTyped' /\ SignsTyped' /\ RingTyped' /\ PositionsTyped' /\ ReadingTyped'
                 /\ ClientsTyped' /\ LocalsTyped' /\ SourceTyped' /\ RestTyped'
  BY TypeParts, PTL
<1>pcs. /\ "boot" \in DecoderPCs \cup PausePCs /\ "startreads" \in DecoderPCs \cup PausePCs
        /\ "await" \in DecoderPCs \cup PausePCs /\ "avail" \in DecoderPCs \cup PausePCs
        /\ "join" \in DecoderPCs \cup PausePCs /\ "create" \in DecoderPCs \cup PausePCs
        /\ "booted" \in DecoderPCs \cup PausePCs /\ "first" \in DecoderPCs \cup PausePCs
        /\ "again" \in DecoderPCs \cup PausePCs /\ "wait" \in DecoderPCs \cup PausePCs
        /\ "last" \in DecoderPCs \cup PausePCs /\ "copy" \in DecoderPCs \cup PausePCs
        /\ "pause" \in DecoderPCs \cup PausePCs /\ "bitrate" \in DecoderPCs \cup PausePCs
  BY DEF DecoderPCs, PausePCs
<1>dec. Decoder \in Clients
  BY TwoClients
<1>1. CASE StartupReadAheadThread
  <2>1. UNCHANGED <<signs, ring, positions, locals, source, rest>>
    BY <1>1 DEF StartupReadAheadThread, GoOn
  <2>2. FlagsTyped' /\ ReadingTyped'
    BY <1>1, <1>typ DEF StartupReadAheadThread, FlagsTyped, ReadingTyped
  <2>3. ClientsTyped'
    BY <1>1, <1>pcs, <1>typ, DecoderGoes DEF StartupReadAheadThread, GoOn
  <2> QED BY <2>1, <2>2, <2>3, <1>typ, Untouched
<1>2. CASE Booted
  <2>1. UNCHANGED <<signs, ring, positions, reading, source, rest>>
    BY <1>2 DEF Booted
  <2>2. FlagsTyped'
    BY <1>2, <1>typ DEF Booted, FlagsTyped
  <2>3. ClientsTyped' /\ LocalsTyped'
    <3>1. CASE GoOn(Decoder, "startreads") \/ GoOn(Decoder, "await")
      <4>1. UNCHANGED locals /\ ClientsTyped'
        BY <3>1, <1>pcs, <1>typ, DecoderGoes DEF GoOn
      <4> QED BY <4>1, <1>typ, Untouched
    <3>2. CASE Return(Decoder)
      BY <3>2, <1>typ, <1>dec, ReturnTyped
    <3> QED BY <1>2, <3>1, <3>2 DEF Booted
  <2> QED BY <2>1, <2>2, <2>3, <1>typ, Untouched
<1>3. CASE IsAllowed
  <2>1. UNCHANGED <<flags, signs, ring, positions, reading, locals, source, rest>>
    BY <1>3 DEF IsAllowed, GoOn
  <2>2. ClientsTyped'
    BY <1>3, <1>pcs, <1>typ, DecoderGoes DEF IsAllowed, GoOn
  <2> QED BY <2>1, <2>2, <1>typ, Untouched
<1>4. CASE NotAllowed
  <2>1. UNCHANGED <<signs, ring, positions, reading, source>>
    BY <1>4 DEF NotAllowed
  <2>2. FlagsTyped'
    BY <1>4, <1>typ DEF NotAllowed, FlagsTyped
  <2>3. RestTyped'
    BY <1>4, <1>typ DEF NotAllowed, RestTyped
  <2>4. readErr' \in 0..(AbortAfter + 1)
    BY <1>4, <1>typ, Numbers DEF NotAllowed, CallsOK, LocalsTyped
  <2>5. LocalsTyped'
    BY <1>4, <1>typ, <2>4 DEF NotAllowed, LocalsTyped
  <2>6. Go(Decoder, "join") \/ Go(Decoder, "create") \/ Go(Decoder, "booted")
    BY <1>4 DEF NotAllowed
  <2>7. ClientsTyped'
    BY <2>6, <1>pcs, <1>typ, DecoderGoes
  <2> QED BY <2>1, <2>2, <2>3, <2>5, <2>7, <1>typ, Untouched
<1>5. CASE Avail
  <2>1. UNCHANGED <<flags, signs, ring, positions, reading, source, rest>>
    BY <1>5 DEF Avail
  <2>2. avail' \in 0..(Size - 1)
    BY <1>5, <1>typ, AvailFree DEF Avail, RingTyped
  <2>3. LocalsTyped'
    BY <1>5, <1>typ, <2>2 DEF Avail, LocalsTyped
  <2>4. Go(Decoder, "first") \/ Go(Decoder, "again")
    BY <1>5 DEF Avail
  <2>5. ClientsTyped'
    BY <2>4, <1>pcs, <1>typ, DecoderGoes
  <2> QED BY <2>1, <2>3, <2>5, <1>typ, Untouched
<1>6. CASE EnoughToRead
  <2>1. UNCHANGED <<flags, signs, ring, positions, reading, source, rest>>
    BY <1>6 DEF EnoughToRead
  <2>2. CASE Return(Decoder)
    <3>1. ClientsTyped' /\ LocalsTyped'
      BY <2>2, <1>typ, <1>dec, ReturnTyped
    <3> QED BY <2>1, <3>1, <1>typ, Untouched
  <2>3. CASE ~Return(Decoder)
    <3>1. /\ Go(Decoder, "wait") \/ Go(Decoder, "last")
          /\ UNCHANGED <<avail, readone, readErr, target>>
          /\ count' = count \/ count' = Smaller(avail, count)
      BY <1>6, <2>3 DEF EnoughToRead
    <3>2. count' \in 0..Size
      BY <1>typ, <3>1, Numbers DEF LocalsTyped, Smaller
    <3>3. LocalsTyped'
      BY <1>typ, <3>1, <3>2 DEF LocalsTyped
    <3>4. ClientsTyped'
      BY <3>1, <1>pcs, <1>typ, DecoderGoes
    <3> QED BY <2>1, <3>3, <3>4, <1>typ, Untouched
  <2> QED BY <2>2, <2>3
<1>7. CASE LastCut
  <2>1. UNCHANGED <<flags, signs, ring, positions, reading, source, rest>>
    BY <1>7 DEF LastCut
  <2>2. count' \in 0..Size
    <3>1. count' = count \/ count' = Smaller(avail, count)
      BY <1>7 DEF LastCut
    <3> QED BY <1>typ, <3>1, Numbers DEF LocalsTyped, Smaller
  <2>3. LocalsTyped'
    BY <1>7, <1>typ, <2>2 DEF LastCut, LocalsTyped
  <2>4. ClientsTyped'
    BY <1>7, <1>pcs, <1>typ, DecoderGoes DEF LastCut
  <2> QED BY <2>1, <2>3, <2>4, <1>typ, Untouched
<1>8. CASE Copy
  <2>1. UNCHANGED <<flags, signs, reading, source, rest>>
    BY <1>8 DEF Copy
  <2>2. RingTyped' /\ PositionsTyped'
    BY <1>8, CopyTyped
  <2>3. ClientsTyped' /\ LocalsTyped'
    <3>1. CASE GoOn(Decoder, "pause")
      <4>1. UNCHANGED locals /\ ClientsTyped'
        BY <3>1, <1>pcs, <1>typ, DecoderGoes DEF GoOn
      <4> QED BY <4>1, <1>typ, Untouched
    <3>2. CASE Return(Decoder)
      BY <3>2, <1>typ, <1>dec, ReturnTyped
    <3> QED BY <1>8, <3>1, <3>2 DEF Copy
  <2> QED BY <2>1, <2>2, <2>3, <1>typ, Untouched
<1>9. CASE OpenFile
  <2>1. UNCHANGED <<flags, ring, positions, reading, locals, rest>>
    BY <1>9 DEF OpenFile, GoOn
  <2>2. SignsTyped'
    <3>1. 0 \in 0..(FailLimit + 1)
      BY Numbers
    <3> QED BY <1>9, <1>typ, <3>1, Zenon DEF OpenFile, SignsTyped
  <2>3. file' \in 1..Programs /\ fpos' \in 0..MaxLen /\ needsToSwitch' = FALSE
    BY <1>9, Numbers DEF OpenFile, CallsOK, Changing
  <2>4. SourceTyped'
    BY <1>9, <1>typ, <2>3 DEF OpenFile, SourceTyped
  <2>5. ClientsTyped'
    BY <1>9, <1>pcs, <1>typ, DecoderGoes DEF OpenFile, GoOn
  <2> QED BY <2>1, <2>2, <2>4, <2>5, <1>typ, Untouched
<1> QED
  BY <1>1, <1>2, <1>3, <1>4, <1>5, <1>6, <1>7, <1>8, <1>9 DEF ReadStep

\* What Seek and the locked sections of a change of programs keep.
LEMMA LockTyped ==
  ASSUME TypeOK, CallsOK, LockStep
  PROVE  TypeOK'
<1>typ. /\ FlagsTyped /\ SignsTyped /\ RingTyped /\ PositionsTyped /\ ReadingTyped
        /\ ClientsTyped /\ LocalsTyped /\ SourceTyped /\ RestTyped
  BY TypeParts
<1>all. SUFFICES /\ FlagsTyped' /\ SignsTyped' /\ RingTyped' /\ PositionsTyped' /\ ReadingTyped'
                 /\ ClientsTyped' /\ LocalsTyped' /\ SourceTyped' /\ RestTyped'
  BY TypeParts, PTL
<1>tgt. target \in Nat /\ 0 \in Nat /\ 0 \in 0..(FailLimit + 1) /\ 1 \in 1..MaxBlock
  BY <1>typ, Numbers DEF LocalsTyped
<1>1. CASE Seek
  <2>1. UNCHANGED <<flags, reading, rest>>
    BY <1>1 DEF Seek
  <2>2. ClientsTyped' /\ LocalsTyped'
    BY <1>1, <1>typ, TwoClients, ReturnTyped DEF Seek
  <2>3. CASE target = readpos
    <3>1. UNCHANGED <<signs, ring, positions, source>>
      BY <1>1, <2>3 DEF Seek, source
    <3> QED BY <2>1, <2>2, <3>1, <1>typ, Untouched
  <2>4. CASE target # readpos
    <3>1. RingTyped' /\ PositionsTyped'
      BY <1>1, <2>4, <1>tgt, ResetTyped DEF Seek, PositionsTyped
    <3>2. SignsTyped'
      BY <1>1, <2>4, <1>typ DEF Seek, ResetReadAhead, SignsTyped
    <3>3. fpos' \in 0..MaxLen
      BY <1>1, <2>4, RBAssumption DEF Seek, CallsOK
    <3>4. SourceTyped'
      BY <1>1, <1>typ, <3>3 DEF Seek, SourceTyped
    <3> QED BY <2>1, <2>2, <3>1, <3>2, <3>4, <1>typ, Untouched
  <2> QED BY <2>3, <2>4
<1>2. CASE Reset
  <2>1. UNCHANGED <<flags, reading, locals, source, rest>>
    BY <1>2 DEF Reset, GoOn
  <2>2. RingTyped' /\ PositionsTyped'
    BY <1>2, <1>tgt, ResetTyped DEF Reset, PositionsTyped
  <2>3. SignsTyped'
    BY <1>2, <1>tgt DEF Reset, ResetReadAhead, SignsTyped
  <2>4. Go(Decoder, "open") \/ Go(Decoder, "startreads")
    BY <1>2 DEF Reset, GoOn
  <2>5. ClientsTyped'
    BY <2>4, <1>typ, DecoderGoes DEF DecoderPCs, PausePCs
  <2> QED BY <2>1, <2>2, <2>3, <2>5, <1>typ, Untouched
<1>3. CASE UpdateRawBitrate
  <2>1. UNCHANGED <<flags, positions, reading, locals, source, rest>>
    BY <1>3 DEF UpdateRawBitrate, GoOn
  <2>2. SignsTyped'
    BY <1>3, <1>typ DEF UpdateRawBitrate, SignsTyped
  <2>3. RingTyped'
    BY <1>3, <1>typ, <1>tgt DEF UpdateRawBitrate, RingTyped
  <2>4. Go(Decoder, "reset") \/ Go(Decoder, "startreads")
    BY <1>3 DEF UpdateRawBitrate, GoOn
  <2>5. ClientsTyped'
    BY <2>4, <1>typ, DecoderGoes DEF DecoderPCs, PausePCs
  <2> QED BY <2>1, <2>2, <2>3, <2>5, <1>typ, Untouched
<1> QED BY <1>1, <1>2, <1>3 DEF LockStep

\* What the calls and the backend keep.
LEMMA CallTyped ==
  ASSUME TypeOK, CallsOK,
         GiveUp \/ DecoderCall \/ ControlCall \/ Drained \/ KillReadAheadThread
           \/ AppendNewProgram
  PROVE  TypeOK'
<1>typ. /\ FlagsTyped /\ SignsTyped /\ RingTyped /\ PositionsTyped /\ ReadingTyped
        /\ ClientsTyped /\ LocalsTyped /\ SourceTyped /\ RestTyped
  BY TypeParts
<1>all. SUFFICES /\ FlagsTyped' /\ SignsTyped' /\ RingTyped' /\ PositionsTyped' /\ ReadingTyped'
                 /\ ClientsTyped' /\ LocalsTyped' /\ SourceTyped' /\ RestTyped'
  BY TypeParts, PTL
<1>dec. Decoder \in Clients /\ Control \in Clients /\ Decoder # Control
  BY TwoClients
<1>1. CASE GiveUp
  <2>1. UNCHANGED <<ring, positions, reading, source, rest>>
    BY <1>1 DEF GiveUp
  <2>2. FlagsTyped' /\ SignsTyped'
    BY <1>1, <1>typ DEF GiveUp, FlagsTyped, SignsTyped
  <2>3. ClientsTyped' /\ LocalsTyped'
    BY <1>1, <1>typ, <1>dec, ReturnTyped DEF GiveUp
  <2> QED BY <2>1, <2>2, <2>3, <1>typ, Untouched
<1>2. CASE DecoderCall
  <2>1. UNCHANGED <<flags, signs, ring, positions, reading, rest>>
    BY <1>2 DEF DecoderCall
  <2>2. PICK c \in use.decoder :
          \/ \E n \in Counts : ReadFromBuf(c, n)
          \/ \E p \in Targets : c = "Seek" /\ Calls(c, "seek", p) /\ UNCHANGED source
          \/ \E p \in 1..chain : ChangeProgram(c, p)
    BY <1>2 DEF DecoderCall
  <2>3. ASSUME NEW n \in Counts, ReadFromBuf(c, n)
        PROVE  ClientsTyped' /\ LocalsTyped' /\ SourceTyped'
    <3>1. SourceTyped'
      BY <2>3, <1>typ, Untouched DEF ReadFromBuf
    <3>2. CASE commserror
      BY <2>3, <3>1, <3>2, <1>typ, Untouched DEF ReadFromBuf
    <3>3. CASE ~commserror
      <4>1. /\ call' = [call EXCEPT ![Decoder] = c]
            /\ pc' = [pc EXCEPT ![Decoder] = IF readaheadpaused /\ stopreads
                                             THEN "startreads" ELSE "await"]
            /\ count' = n /\ readone' = (readaheadpaused /\ stopreads)
            /\ UNCHANGED <<avail, readErr, target>> /\ c \in {"Read", "Peek"}
        BY <2>3, <3>3 DEF ReadFromBuf
      <4>2. n \in 0..Size
        BY RBAssumption
      <4>3. readone' \in BOOLEAN
        BY <4>1, Zenon
      <4>4. LocalsTyped'
        BY <4>1, <4>2, <4>3, <1>typ DEF LocalsTyped
      <4>5. ClientsTyped'
        BY <4>1, <1>typ, <1>dec
        DEF CallsOK, ClientsTyped, DecoderPCs, PausePCs, DecoderCalls
      <4> QED BY <3>1, <4>4, <4>5
    <3> QED BY <3>2, <3>3
  <2>4. ASSUME NEW p \in Targets, c = "Seek", Calls(c, "seek", p), UNCHANGED source
        PROVE  ClientsTyped' /\ LocalsTyped' /\ SourceTyped'
    <3>1. p \in 0..(MaxLen + Programs) /\ c \in DecoderCalls /\ "seek" \in DecoderPCs
      BY <2>4, RBAssumption, Numbers DEF DecoderCalls, DecoderPCs
    <3> QED BY <2>4, <3>1, <1>typ, Untouched, CallingTyped
  <2>5. ASSUME NEW p \in 1..chain, ChangeProgram(c, p)
        PROVE  ClientsTyped' /\ LocalsTyped' /\ SourceTyped'
    <3>1. p \in 0..(MaxLen + Programs)
      BY <1>typ, Numbers DEF SourceTyped
    <3>2. c \in DecoderCalls /\ "pause" \in PausePCs
      BY <2>5 DEF ChangeProgram, DecoderCalls, PausePCs
    <3>3. Calls(c, "pause", p)
      BY <2>5 DEF ChangeProgram
    <3>4. SourceTyped'
      BY <2>5, <1>typ DEF ChangeProgram, SourceTyped
    <3> QED BY <3>1, <3>2, <3>3, <3>4, <1>typ, CallingTyped
  <2> QED BY <2>1, <2>2, <2>3, <2>4, <2>5, <1>typ, Untouched
<1>3. CASE ControlCall
  <2>1. UNCHANGED <<flags, signs, ring, positions, reading, locals, source>>
    BY <1>3 DEF ControlCall
  <2>2. PICK c \in use.control \ {"Delete"} :
          /\ call' = [call EXCEPT ![Control] = c]
          /\ pc' = [pc EXCEPT ![Control] =
               CASE c = "Unpause"     -> "startreads"
                 [] c = "StopDecoder" -> "stop"
                 [] OTHER             -> "pause"]
          /\ ignoreliveeof' = (ignoreliveeof \/ c = "StopDecoder")
    BY <1>3 DEF ControlCall
  <2>3. ignoreliveeof' \in BOOLEAN
    BY <2>2, Zenon
  <2>4. RestTyped'
    BY <1>3, <1>typ, <2>3 DEF ControlCall, RestTyped
  <2>5. c \in ControlCalls
    BY <1>typ, RBAssumption DEF RestTyped
  <2>6. ClientsTyped'
    BY <2>2, <2>5, <1>typ, <1>dec DEF CallsOK, ClientsTyped, PausePCs
  <2> QED BY <2>1, <2>4, <2>6, <1>typ, Untouched
<1>4. CASE Drained
  <2>1. UNCHANGED <<flags, signs, ring, positions, reading, locals, source, rest>>
    BY <1>4 DEF Drained
  <2>2. ClientsTyped'
    BY <1>4, <1>typ, <1>dec, Goes DEF Drained, ClientsTyped, PausePCs
  <2> QED BY <2>1, <2>2, <1>typ, Untouched
<1>5. CASE KillReadAheadThread
  <2>1. UNCHANGED <<signs, ring, positions, reading, locals, source, rest>>
    BY <1>5 DEF KillReadAheadThread
  <2>2. FlagsTyped'
    BY <1>5, <1>typ DEF KillReadAheadThread, FlagsTyped
  <2>3. ClientsTyped'
    BY <1>5, <1>typ, <1>dec
    DEF KillReadAheadThread, CallsOK, ClientsTyped, DecoderPCs, PausePCs, ControlCalls
  <2> QED BY <2>1, <2>2, <2>3, <1>typ, Untouched
<1>6. CASE AppendNewProgram
  <2>1. UNCHANGED <<flags, signs, ring, positions, reading, clients, locals, rest>>
    BY <1>6 DEF AppendNewProgram
  <2>2. SourceTyped'
    BY <1>6, <1>typ, Numbers DEF AppendNewProgram, SourceTyped
  <2> QED BY <2>1, <2>2, <1>typ, Untouched
<1> QED BY <1>1, <1>2, <1>3, <1>4, <1>5, <1>6

LEMMA TypeStep ==
  ASSUME TypeOK, CallsOK, [Next]_vars
  PROVE  TypeOK'
<1>1. CASE UNCHANGED vars
  <2>1. UNCHANGED <<flags, signs, ring, positions, reading, clients, locals, source, rest>>
    BY <1>1 DEF vars
  <2>2. /\ FlagsTyped /\ SignsTyped /\ RingTyped /\ PositionsTyped /\ ReadingTyped
        /\ ClientsTyped /\ LocalsTyped /\ SourceTyped /\ RestTyped
    BY TypeParts
  <2>3. /\ FlagsTyped' /\ SignsTyped' /\ RingTyped' /\ PositionsTyped' /\ ReadingTyped'
        /\ ClientsTyped' /\ LocalsTyped' /\ SourceTyped' /\ RestTyped'
    BY <2>1, <2>2, Untouched
  <2> QED BY <2>3, TypeParts, PTL
<1>2. CASE Next
  BY <1>2, ThreadTyped, ClientTyped, ReadTyped, LockTyped, CallTyped DEF Next
<1> QED BY <1>1, <1>2

-----------------------------------------------------------------------------
(* Calls, and the states of the threads                                    *)

\* What Pause, WaitForPause and Unpause of the other thread, and the destructor's
\* join, leave to the decoder's thread.
LEMMA ControlKeeps ==
  ASSUME CallsOK, PauseStep(Control)
  PROVE  /\ pc'[Decoder] = pc[Decoder] /\ call'[Decoder] = call[Decoder]
         /\ UNCHANGED locals
         /\ DOMAIN pc' = Clients /\ DOMAIN call' = Clients
<1>1. \/ \E to : GoOn(Control, to)
      \/ Return(Control)
  BY DEF PauseStep, PauseThread, StopReads, WaitForPause, AfterPause, PauseWoken,
         StartReads, UnpauseThread, Join
<1>2. ASSUME NEW to, GoOn(Control, to)
      PROVE  /\ pc'[Decoder] = pc[Decoder] /\ call'[Decoder] = call[Decoder]
             /\ UNCHANGED locals
             /\ DOMAIN pc' = Clients /\ DOMAIN call' = Clients
  BY <1>2, Goes, TwoClients DEF GoOn
<1>3. CASE Return(Control)
  BY <1>3, Returns, TwoClients
<1> QED BY <1>1, <1>2, <1>3

LEMMA CallsInit == Init => CallsOK
<1> SUFFICES ASSUME Init PROVE CallsOK OBVIOUS
<1>1. /\ pc = [c \in Clients |-> IF c = Decoder THEN "create" ELSE "idle"]
      /\ call = [c \in Clients |-> IF c = Decoder THEN "Start" ELSE ""]
  BY DEF Init
<1>2. pc[Decoder] = "create" /\ call[Decoder] = "Start"
  BY <1>1, TwoClients
<1> QED BY <1>1, <1>2 DEF CallsOK, ReadPCs, Changing, ChangeCalls

\* CallsOK only depends on the state of the decoder's thread.
LEMMA CallsKept ==
  ASSUME CallsOK, pc'[Decoder] = pc[Decoder], call'[Decoder] = call[Decoder],
         UNCHANGED locals, DOMAIN pc' = Clients, DOMAIN call' = Clients
  PROVE  CallsOK'
BY DEF CallsOK, Changing, locals

LEMMA ReturnCalls ==
  ASSUME CallsOK, Return(Decoder)
  PROVE  CallsOK'
BY Returns, TwoClients DEF CallsOK, ReadPCs, Changing, ChangeCalls

\* Where the decoder's thread may go in its call.
MayGo(to) ==
  /\ to \notin {"idle", "gone", "seek"}
  /\ to \in ReadPCs => call[Decoder] \in {"Read", "Peek"}
  /\ to \in {"create", "boot", "booted", "join"} =>
       call[Decoder] \in {"Start", "Read", "Peek"}
  /\ to \in {"open", "bitrate", "reset"} => call[Decoder] \in ChangeCalls
  /\ call[Decoder] \in ChangeCalls => to \in ChangePCs

LEMMA GoCalls ==
  ASSUME CallsOK, NEW to, Go(Decoder, to), MayGo(to), target' = target,
         to = "await" => readErr' <= AbortAfter
  PROVE  CallsOK'
<1>1. /\ pc'[Decoder] = to /\ call'[Decoder] = call[Decoder]
      /\ DOMAIN pc' = Clients /\ DOMAIN call' = Clients
  BY Goes, TwoClients
<1>2. call[Decoder] \in ChangeCalls => target \in 1..Programs
  BY DEF CallsOK
<1> QED BY <1>1, <1>2 DEF CallsOK, MayGo, Changing

LEMMA GoOnCalls ==
  ASSUME CallsOK, NEW to, GoOn(Decoder, to), MayGo(to), to # "await"
  PROVE  CallsOK'
BY GoCalls DEF GoOn, locals

LEMMA CallsStep ==
  ASSUME TypeOK, CallsOK, [Next]_vars
  PROVE  CallsOK'
<1>dec. Decoder \in Clients /\ Control \in Clients /\ Decoder # Control
  BY TwoClients
<1>typ. ClientsTyped /\ LocalsTyped /\ SourceTyped /\ RestTyped
  BY TypeParts
<1>dom. DOMAIN pc = Clients /\ DOMAIN call = Clients
  BY DEF CallsOK
<1>1. CASE ThreadStep
  <2>1. CASE ThreadIsUp
    <3>1. /\ pc'[Decoder] = IF pc[Decoder] = "boot" THEN "booted" ELSE pc[Decoder]
          /\ call' = call /\ UNCHANGED locals /\ DOMAIN pc' = Clients
      BY <2>1, <1>dec, <1>dom DEF ThreadIsUp
    <3> QED BY <3>1 DEF CallsOK, Changing, ReadPCs, ChangeCalls, ChangePCs, locals
  <2>2. CASE ThreadPauses
    <3>1. /\ pc'[Decoder] = IF pc[Decoder] = "pausing" THEN "paused" ELSE pc[Decoder]
          /\ call' = call /\ UNCHANGED locals /\ DOMAIN pc' = Clients
      BY <2>2, <1>dec, <1>dom DEF ThreadPauses
    <3> QED BY <3>1 DEF CallsOK, Changing, ReadPCs, ChangeCalls, ChangePCs, locals
  <2>3. CASE ~ThreadIsUp /\ ~ThreadPauses
    <3>1. UNCHANGED <<clients, locals>>
      BY <1>1, <2>3 DEF ThreadStep, ThreadStarts, ThreadResets, ThreadAwakes, Room, ReadBegin,
                        SafeRead, ReadEnd, ThreadEnds
    <3> QED BY <3>1, <1>dom, CallsKept DEF clients
  <2> QED BY <2>1, <2>2, <2>3
<1>2. CASE PauseStep(Control)
  BY <1>2, ControlKeeps, CallsKept
<1>3. CASE PauseStep(Decoder)
  <2>1. CASE PauseThread(Decoder)
    <3>1. MayGo("stop")
      BY <2>1 DEF MayGo, CallsOK, Changing, ReadPCs, ChangePCs, ChangeCalls, PauseThread
    <3> QED BY <2>1, <3>1, GoOnCalls DEF PauseThread
  <2>2. CASE StopReads(Decoder)
    <3>1. GoOn(Decoder, "waitforpause")
      BY <2>2, <1>typ DEF StopReads, ClientsTyped, DecoderCalls
    <3>2. MayGo("waitforpause")
      BY <2>2 DEF MayGo, CallsOK, Changing, ReadPCs, ChangePCs, ChangeCalls, StopReads
    <3> QED BY <3>1, <3>2, GoOnCalls
  <2>3. CASE WaitForPause(Decoder) \/ PauseWoken(Decoder)
    <3>1. pc[Decoder] \in {"waitforpause", "paused"}
      BY <2>3 DEF WaitForPause, PauseWoken
    <3>2. CASE GoOn(Decoder, "pausing")
      <4>1. MayGo("pausing")
        BY <3>1 DEF MayGo, CallsOK, Changing, ReadPCs, ChangePCs, ChangeCalls
      <4> QED BY <3>2, <4>1, GoOnCalls
    <3>3. CASE AfterPause(Decoder)
      <4>1. CASE call[Decoder] = "SwitchToProgram" /\ GoOn(Decoder, "open")
        <5>1. MayGo("open")
          BY <3>1, <4>1 DEF MayGo, CallsOK, Changing, ReadPCs, ChangePCs, ChangeCalls
        <5> QED BY <4>1, <5>1, GoOnCalls
      <4>2. CASE call[Decoder] = "JumpToProgram" /\ GoOn(Decoder, "reset")
        <5>1. MayGo("reset")
          BY <3>1, <4>2 DEF MayGo, CallsOK, Changing, ReadPCs, ChangePCs, ChangeCalls
        <5> QED BY <4>2, <5>1, GoOnCalls
      <4>3. CASE Return(Decoder)
        BY <4>3, ReturnCalls
      <4> QED BY <3>3, <4>1, <4>2, <4>3 DEF AfterPause
    <3> QED BY <2>3, <3>2, <3>3 DEF WaitForPause, PauseWoken
  <2>4. CASE StartReads(Decoder)
    <3>1. GoOn(Decoder, "unpause")
      BY <2>4, <1>typ DEF StartReads, ClientsTyped, DecoderCalls
    <3>2. MayGo("unpause")
      BY <2>4 DEF MayGo, CallsOK, Changing, ReadPCs, ChangePCs, ChangeCalls, StartReads
    <3> QED BY <3>1, <3>2, GoOnCalls
  <2>5. CASE UnpauseThread(Decoder)
    <3>1. CASE call[Decoder] \in {"Read", "Peek"} /\ GoOn(Decoder, "avail")
      <4>1. MayGo("avail")
        BY <3>1 DEF MayGo, CallsOK, Changing, ReadPCs, ChangePCs, ChangeCalls
      <4> QED BY <3>1, <4>1, GoOnCalls
    <3>2. CASE Return(Decoder)
      BY <3>2, ReturnCalls
    <3> QED BY <2>5, <3>1, <3>2 DEF UnpauseThread
  <2>6. CASE Join(Decoder)
    <3>1. MayGo("create")
      BY <2>6 DEF MayGo, CallsOK, Changing, ReadPCs, ChangePCs, ChangeCalls, Join
    <3> QED BY <2>6, <3>1, GoOnCalls DEF Join
  <2> QED BY <1>3, <2>1, <2>2, <2>3, <2>4, <2>5, <2>6 DEF PauseStep
<1>4. CASE ReadStep
  <2>1. CASE StartupReadAheadThread
    <3>1. MayGo("boot")
      BY <2>1 DEF MayGo, CallsOK, Changing, ReadPCs, ChangePCs, ChangeCalls, StartupReadAheadThread
    <3> QED BY <2>1, <3>1, GoOnCalls DEF StartupReadAheadThread
  <2>2. CASE Booted
    <3>1. CASE GoOn(Decoder, "startreads")
      <4>1. MayGo("startreads")
        BY <2>2 DEF MayGo, CallsOK, Changing, ReadPCs, ChangePCs, ChangeCalls, Booted
      <4> QED BY <3>1, <4>1, GoOnCalls
    <3>2. CASE Return(Decoder)
      BY <3>2, ReturnCalls
    <3>3. CASE GoOn(Decoder, "await") /\ call[Decoder] # "Start" /\ ~(readErr > AbortAfter)
      <4>1. readErr <= AbortAfter
        BY <3>3, <1>typ, Numbers DEF LocalsTyped
      <4>2. MayGo("await")
        BY <2>2, <3>3 DEF MayGo, CallsOK, Changing, ReadPCs, ChangePCs, ChangeCalls, Booted
      <4> QED BY <3>3, <4>1, <4>2, GoCalls DEF GoOn, locals
    <3> QED BY <2>2, <3>1, <3>2, <3>3 DEF Booted
  <2>3. CASE IsAllowed
    <3>1. MayGo("avail")
      BY <2>3 DEF MayGo, CallsOK, Changing, ReadPCs, ChangePCs, ChangeCalls, IsAllowed
    <3> QED BY <2>3, <3>1, GoOnCalls DEF IsAllowed
  <2>4. CASE NotAllowed
    <3>1. Go(Decoder, "join") \/ Go(Decoder, "create") \/ Go(Decoder, "booted")
      BY <2>4 DEF NotAllowed
    <3>2. MayGo("join") /\ MayGo("create") /\ MayGo("booted")
      BY <2>4 DEF MayGo, CallsOK, Changing, ReadPCs, ChangePCs, ChangeCalls, NotAllowed
    <3>3. target' = target
      BY <2>4 DEF NotAllowed
    <3> QED BY <3>1, <3>2, <3>3, GoCalls
  <2>5. CASE Avail
    <3>1. Go(Decoder, "first") \/ Go(Decoder, "again")
      BY <2>5 DEF Avail
    <3>2. MayGo("first") /\ MayGo("again")
      BY <2>5 DEF MayGo, CallsOK, Changing, ReadPCs, ChangePCs, ChangeCalls, Avail
    <3>3. target' = target
      BY <2>5 DEF Avail
    <3> QED BY <3>1, <3>2, <3>3, GoCalls
  <2>6. CASE EnoughToRead
    <3>1. CASE Return(Decoder)
      BY <3>1, ReturnCalls
    <3>2. CASE (Go(Decoder, "wait") \/ Go(Decoder, "last")) /\ target' = target
      <4>1. MayGo("wait") /\ MayGo("last")
        BY <2>6 DEF MayGo, CallsOK, Changing, ReadPCs, ChangePCs, ChangeCalls, EnoughToRead
      <4> QED BY <3>2, <4>1, GoCalls
    <3> QED BY <2>6, <3>1, <3>2 DEF EnoughToRead
  <2>7. CASE LastCut
    <3>1. MayGo("copy")
      BY <2>7 DEF MayGo, CallsOK, Changing, ReadPCs, ChangePCs, ChangeCalls, LastCut
    <3> QED BY <2>7, <3>1, GoCalls DEF LastCut
  <2>8. CASE Copy
    <3>1. CASE Return(Decoder)
      BY <3>1, ReturnCalls
    <3>2. CASE GoOn(Decoder, "pause")
      <4>1. MayGo("pause")
        BY <2>8 DEF MayGo, CallsOK, Changing, ReadPCs, ChangePCs, ChangeCalls, Copy
      <4> QED BY <3>2, <4>1, GoOnCalls
    <3> QED BY <2>8, <3>1, <3>2 DEF Copy
  <2>9. CASE OpenFile
    <3>1. MayGo("bitrate")
      BY <2>9 DEF MayGo, CallsOK, Changing, ReadPCs, ChangePCs, ChangeCalls, OpenFile
    <3> QED BY <2>9, <3>1, GoOnCalls DEF OpenFile
  <2> QED BY <1>4, <2>1, <2>2, <2>3, <2>4, <2>5, <2>6, <2>7, <2>8, <2>9 DEF ReadStep
<1>5. CASE LockStep
  <2>1. CASE Seek
    BY <2>1, ReturnCalls DEF Seek
  <2>2. CASE Reset
    <3>1. GoOn(Decoder, "open") \/ GoOn(Decoder, "startreads")
      BY <2>2 DEF Reset
    <3>2. MayGo("open") /\ MayGo("startreads")
      BY <2>2 DEF MayGo, CallsOK, Changing, ReadPCs, ChangePCs, ChangeCalls, Reset
    <3> QED BY <3>1, <3>2, GoOnCalls
  <2>3. CASE UpdateRawBitrate
    <3>1. GoOn(Decoder, "reset") \/ GoOn(Decoder, "startreads")
      BY <2>3 DEF UpdateRawBitrate
    <3>2. MayGo("reset") /\ MayGo("startreads")
      BY <2>3 DEF MayGo, CallsOK, Changing, ReadPCs, ChangePCs, ChangeCalls, UpdateRawBitrate
    <3> QED BY <3>1, <3>2, GoOnCalls
  <2> QED BY <1>5, <2>1, <2>2, <2>3 DEF LockStep
<1>6. CASE GiveUp
  BY <1>6, ReturnCalls DEF GiveUp
<1>7. CASE DecoderCall
  <2>1. PICK c \in use.decoder :
          \/ \E n \in Counts : ReadFromBuf(c, n)
          \/ \E p \in Targets : c = "Seek" /\ Calls(c, "seek", p) /\ UNCHANGED source
          \/ \E p \in 1..chain : ChangeProgram(c, p)
    BY <1>7 DEF DecoderCall
  <2>2. pc[Decoder] = "idle" /\ call[Decoder] = "" /\ readErr = 0
    BY <1>7 DEF DecoderCall, CallsOK
  <2>3. ASSUME NEW n \in Counts, ReadFromBuf(c, n) PROVE CallsOK'
    <3>1. CASE commserror
      BY <2>3, <3>1, <1>dom, CallsKept DEF ReadFromBuf, clients
    <3>2. CASE ~commserror
      <4>1. /\ call'[Decoder] \in {"Read", "Peek"} /\ pc'[Decoder] \in {"startreads", "await"}
            /\ readErr' = 0 /\ DOMAIN pc' = Clients /\ DOMAIN call' = Clients
        BY <2>2, <2>3, <3>2, <1>dec, <1>dom DEF ReadFromBuf
      <4>2. readErr' <= AbortAfter
        BY <4>1, Numbers
      <4>3. call'[Decoder] \notin ChangeCalls
        BY <4>1 DEF ChangeCalls
      <4>4. pc'[Decoder] \notin {"idle", "gone", "create", "boot", "booted", "join", "seek",
                               "open", "bitrate", "reset"}
        BY <4>1
      <4> QED BY <4>1, <4>2, <4>3, <4>4 DEF CallsOK, Changing
    <3> QED BY <3>1, <3>2
  <2>4. ASSUME NEW p \in Targets, c = "Seek", Calls(c, "seek", p) PROVE CallsOK'
    <3>1. /\ call'[Decoder] = "Seek" /\ pc'[Decoder] = "seek" /\ target' = p
          /\ DOMAIN pc' = Clients /\ DOMAIN call' = Clients
      BY <2>4, <1>dec, <1>dom DEF Calls
    <3> QED BY <3>1 DEF CallsOK, Changing, ReadPCs, ChangeCalls
  <2>5. ASSUME NEW p \in 1..chain, ChangeProgram(c, p) PROVE CallsOK'
    <3>1. /\ call'[Decoder] \in {"SwitchToProgram", "JumpToProgram"}
          /\ pc'[Decoder] = "pause" /\ target' = p
          /\ DOMAIN pc' = Clients /\ DOMAIN call' = Clients
      BY <2>5, <1>dec, <1>dom DEF ChangeProgram, Calls
    <3>2. p \in 1..Programs
      BY <1>typ, Numbers DEF SourceTyped
    <3> QED BY <3>1, <3>2 DEF CallsOK, Changing, ReadPCs, ChangeCalls, ChangePCs
  <2> QED BY <2>1, <2>3, <2>4, <2>5
<1>8. CASE ControlCall \/ Drained
  <2>1. /\ pc'[Decoder] = pc[Decoder] /\ call'[Decoder] = call[Decoder]
        /\ UNCHANGED locals /\ DOMAIN pc' = Clients /\ DOMAIN call' = Clients
    BY <1>8, <1>dec, <1>dom DEF ControlCall, Drained, Go
  <2> QED BY <2>1, CallsKept
<1>9. CASE KillReadAheadThread
  <2>1. /\ pc[Decoder] = "idle" /\ pc'[Decoder] = "gone" /\ call'[Decoder] = call[Decoder]
        /\ UNCHANGED locals /\ DOMAIN pc' = Clients /\ DOMAIN call' = Clients
    BY <1>9, <1>dec, <1>dom DEF KillReadAheadThread
  <2> QED BY <2>1 DEF CallsOK, Changing, ReadPCs, ChangeCalls, locals
<1>10. CASE AppendNewProgram \/ UNCHANGED vars
  <2>1. UNCHANGED <<clients, locals>>
    BY <1>10 DEF AppendNewProgram, vars
  <2> QED BY <2>1, <1>dom, CallsKept DEF clients
<1>c. \A c \in Clients : c = Decoder \/ c = Control
  BY TwoClients
<1> QED
  BY <1>1, <1>2, <1>3, <1>4, <1>5, <1>6, <1>7, <1>8, <1>9, <1>10, <1>c DEF Next

LEMMA ThreadInit == Init => ThreadOK
<1> SUFFICES ASSUME Init PROVE ThreadOK OBVIOUS
<1>1. pc = [c \in Clients |-> IF c = Decoder THEN "create" ELSE "idle"] /\ tpc = "none"
  BY DEF Init
<1>2. pc[Decoder] = "create" /\ pc[Control] = "idle"
  BY <1>1, TwoClients
<1> QED BY <1>1, <1>2 DEF ThreadOK

\* A decoder's thread that neither is in a start nor gets into one keeps ThreadOK
\* if the read-ahead thread is left alone.
LEMMA ThreadKept ==
  ASSUME ThreadOK,
         pc[Decoder] \notin {"create", "boot", "join", "gone"},
         pc'[Decoder] \notin {"create", "boot", "join", "gone"},
         pc'[Control] = pc[Control], UNCHANGED <<tpc, readaheadrunning>>
  PROVE  ThreadOK'
BY DEF ThreadOK

\* Only the first and the last pass of a restart, and the destructor, count here.
LEMMA ThreadStepOK ==
  ASSUME TypeOK, CallsOK, ThreadOK, [Next]_vars
  PROVE  ThreadOK'
<1>dec. Decoder \in Clients /\ Control \in Clients /\ Decoder # Control
  BY TwoClients
<1>dom. DOMAIN pc = Clients /\ DOMAIN call = Clients
  BY DEF CallsOK
<1>1. CASE ThreadStep
  <2>1. CASE ThreadIsUp
    <3>1. /\ pc'[Decoder] = IF pc[Decoder] = "boot" THEN "booted" ELSE pc[Decoder]
          /\ pc'[Control] = pc[Control] /\ tpc = "up" /\ tpc' = "loop"
          /\ readaheadrunning' = TRUE
      BY <2>1, <1>dec, <1>dom DEF ThreadIsUp
    <3> QED BY <3>1 DEF ThreadOK, Working
  <2>2. CASE ThreadPauses
    <3>1. /\ pc'[Decoder] = IF pc[Decoder] = "pausing" THEN "paused" ELSE pc[Decoder]
          /\ pc'[Control] = IF pc[Control] = "pausing" THEN "paused" ELSE pc[Control]
          /\ UNCHANGED <<tpc, readaheadrunning>>
      BY <2>2, <1>dec, <1>dom DEF ThreadPauses
    <3> QED BY <3>1 DEF ThreadOK
  <2>3. CASE ThreadEnds
    <3>1. ~readaheadrunning /\ tpc = "loop" /\ tpc' = "done" /\ pc' = pc
          /\ UNCHANGED readaheadrunning
      BY <2>3 DEF ThreadEnds, flags, clients
    <3> QED BY <3>1 DEF ThreadOK, Working
  <2>4. CASE ThreadStarts \/ ThreadResets
    <3>1. tpc \in {"start", "init"} /\ tpc' \in {"init", "up"} /\ pc' = pc
          /\ UNCHANGED readaheadrunning
      BY <2>4 DEF ThreadStarts, ThreadResets, flags, clients
    <3> QED BY <3>1 DEF ThreadOK, Working
  <2>5. CASE ~(ThreadIsUp \/ ThreadPauses \/ ThreadEnds \/ ThreadStarts \/ ThreadResets)
    <3>1. tpc \in Working /\ tpc' \in Working /\ pc' = pc /\ UNCHANGED readaheadrunning
      BY <1>1, <2>5 DEF ThreadStep, ThreadAwakes, Room, ReadBegin, SafeRead, ReadEnd,
                        Working, flags, clients
    <3> QED BY <3>1 DEF ThreadOK, Working
  <2> QED BY <2>1, <2>2, <2>3, <2>4, <2>5
<1>2. CASE PauseStep(Control)
  <2>1. CASE Join(Control)
    <3>1. pc[Control] = "join" /\ pc'[Control] = "deleted" /\ pc'[Decoder] = pc[Decoder]
      BY <2>1, <1>dec, Goes DEF Join, GoOn
    <3> QED BY <3>1 DEF ThreadOK
  <2>2. CASE ~Join(Control)
    <3>1. UNCHANGED <<tpc, readaheadrunning>> /\ pc'[Control] # "join"
          /\ pc'[Decoder] = pc[Decoder]
      <4>1. \/ \E to \in {"stop", "drain", "waitforpause", "open", "reset", "pausing",
                          "unpause", "avail"} : Go(Control, to)
            \/ Return(Control)
        BY <1>2, <2>2
        DEF PauseStep, PauseThread, StopReads, WaitForPause, AfterPause, PauseWoken,
            StartReads, UnpauseThread, GoOn
      <4>2. pc'[Control] # "join"
        BY <4>1, <1>dec, Goes, Returns
      <4>3. UNCHANGED <<tpc, readaheadrunning>>
        BY <1>2, <2>2
        DEF PauseStep, PauseThread, StopReads, WaitForPause, PauseWoken,
            StartReads, UnpauseThread, flags, reading
      <4> QED BY <1>2, <4>2, <4>3, ControlKeeps
    <3> QED BY <3>1 DEF ThreadOK
  <2> QED BY <2>1, <2>2
<1>3. CASE PauseStep(Decoder)
  <2>1. CASE Join(Decoder)
    <3>1. /\ pc'[Decoder] = "create" /\ pc'[Control] = pc[Control] /\ pc[Decoder] = "join"
          /\ tpc' = "none"
      BY <2>1, <1>dec, Goes DEF Join, GoOn
    <3> QED BY <3>1 DEF ThreadOK
  <2>2. CASE ~Join(Decoder)
    <3>1. /\ pc[Decoder] \in PausePCs \ {"join"} /\ UNCHANGED <<tpc, readaheadrunning>>
          /\ \/ \E to \in {"stop", "drain", "waitforpause", "open", "reset", "pausing",
                           "unpause", "avail"} : Go(Decoder, to)
             \/ Return(Decoder)
      BY <1>3, <2>2
      DEF PauseStep, PauseThread, StopReads, WaitForPause, AfterPause, PauseWoken,
          StartReads, UnpauseThread, GoOn, PausePCs, flags, reading
    <3>2. /\ pc'[Decoder] \notin {"create", "boot", "join", "gone"}
          /\ pc'[Control] = pc[Control]
      BY <3>1, <1>dec, Goes, Returns
    <3> QED BY <3>1, <3>2, ThreadKept DEF PausePCs
  <2> QED BY <2>1, <2>2
<1>4. CASE ReadStep
  <2>1. CASE StartupReadAheadThread
    <3>1. /\ pc'[Decoder] = "boot" /\ pc'[Control] = pc[Control] /\ tpc' = "start"
          /\ pc[Decoder] = "create"
      BY <2>1, <1>dec, Goes DEF StartupReadAheadThread, GoOn
    <3> QED BY <3>1 DEF ThreadOK
  <2>2. CASE NotAllowed
    <3>1. pc[Decoder] = "await" /\ tpc' = tpc /\ pc'[Control] = pc[Control]
      BY <2>2, <1>dec, Goes DEF NotAllowed, reading
    <3>2. readaheadrunning /\ tpc \in Working
      BY <3>1 DEF ThreadOK
    <3>3. \/ pc'[Decoder] = "join"
          \/ pc'[Decoder] = "booted" /\ UNCHANGED readaheadrunning
      BY <2>2, <3>2, <1>dec, Goes DEF NotAllowed
    <3> QED BY <3>1, <3>2, <3>3 DEF ThreadOK
  <2>3. CASE ~StartupReadAheadThread /\ ~NotAllowed
    <3>1. /\ pc[Decoder] \in {"booted", "await", "avail", "wait", "first", "again", "last",
                              "copy", "open"}
          /\ UNCHANGED <<tpc, readaheadrunning>>
          /\ \/ \E to \in {"startreads", "await", "avail", "first", "again", "wait", "last",
                           "copy", "pause", "bitrate"} : Go(Decoder, to)
             \/ Return(Decoder)
      BY <1>4, <2>3
      DEF ReadStep, Booted, IsAllowed, Avail, EnoughToRead, LastCut, Copy, OpenFile, GoOn,
          flags, reading
    <3>2. /\ pc'[Decoder] \notin {"create", "boot", "join", "gone"}
          /\ pc'[Control] = pc[Control]
      BY <3>1, <1>dec, Goes, Returns
    <3> QED BY <3>1, <3>2, ThreadKept
  <2> QED BY <2>1, <2>2, <2>3
<1>5. CASE LockStep \/ GiveUp
  <2>1. /\ pc[Decoder] \in {"seek", "reset", "bitrate", "wait"}
        /\ UNCHANGED <<tpc, readaheadrunning>>
        /\ \/ \E to \in {"open", "startreads", "reset"} : Go(Decoder, to)
           \/ Return(Decoder)
    BY <1>5 DEF LockStep, Seek, Reset, UpdateRawBitrate, GiveUp, GoOn, flags, reading
  <2>2. /\ pc'[Decoder] \notin {"create", "boot", "join", "gone"}
        /\ pc'[Control] = pc[Control]
    BY <2>1, <1>dec, Goes, Returns
  <2> QED BY <2>1, <2>2, ThreadKept
<1>6. CASE DecoderCall
  <2>1. pc[Decoder] = "idle" /\ UNCHANGED <<tpc, readaheadrunning>>
    BY <1>6 DEF DecoderCall, flags, reading
  <2>2. \/ pc' = pc
        \/ \E to \in {"startreads", "await", "seek", "pause"} : pc' = [pc EXCEPT ![Decoder] = to]
    BY <1>6 DEF DecoderCall, ReadFromBuf, ChangeProgram, Calls, clients
  <2>3. /\ pc'[Decoder] \notin {"create", "boot", "join", "gone"}
        /\ pc'[Control] = pc[Control]
    BY <2>1, <2>2, <1>dec, <1>dom
  <2> QED BY <2>1, <2>3, ThreadKept
<1>7. CASE ControlCall \/ Drained
  <2>1. /\ pc'[Decoder] = pc[Decoder] /\ pc'[Control] # "join"
        /\ UNCHANGED <<tpc, readaheadrunning>>
    BY <1>7, <1>dec, <1>dom DEF ControlCall, Drained, Go, flags, reading
  <2> QED BY <2>1 DEF ThreadOK
<1>8. CASE KillReadAheadThread
  <2>1. pc'[Decoder] = "gone"
    BY <1>8, <1>dec, <1>dom DEF KillReadAheadThread
  <2> QED BY <2>1 DEF ThreadOK
<1>9. CASE AppendNewProgram \/ UNCHANGED vars
  <2>1. UNCHANGED <<pc, tpc, readaheadrunning>>
    BY <1>9 DEF AppendNewProgram, vars, flags, reading, clients
  <2> QED BY <2>1 DEF ThreadOK
<1>c. \A c \in Clients : c = Decoder \/ c = Control
  BY TwoClients
<1> QED
  BY <1>1, <1>2, <1>3, <1>4, <1>5, <1>6, <1>7, <1>8, <1>9, <1>c DEF Next

-----------------------------------------------------------------------------
(* The ring and what the threads know of it                                *)

LEMMA RingInit == Init => RingOK
<1> SUFFICES ASSUME Init PROVE RingOK OBVIOUS
<1>1. TypeOK
  BY TypeInit
<1>2. ReadBufFree \in 0..(Size - 1)
  BY <1>1, TypeParts, AvailFree DEF RingTyped
<1>3. /\ pc = [c \in Clients |-> IF c = Decoder THEN "create" ELSE "idle"]
      /\ tpc = "none" /\ totfree = 0 /\ ret = 0
  BY DEF Init
<1>4. pc[Decoder] = "create"
  BY <1>3, TwoClients
<1>5. totfree <= ReadBufFree
  BY <1>2, <1>3, Numbers
<1> QED BY <1>3, <1>4, <1>5 DEF RingOK

\* RingOK, what the threads know apart.
RoomOK ==
  /\ ret # 0 => tpc = "end"
  /\ tpc = "end" => ret <= totfree
  /\ tpc = "read" => rbwpos + totfree <= Size
  /\ "startreads" \notin mishaps => totfree <= ReadBufFree

FoundOK ==
  "startreads" \notin mishaps =>
    /\ pc[Decoder] \in {"first", "again", "last"} => avail <= ReadBufAvail
    /\ pc[Decoder] = "last" => count <= avail \/ stopreads
    /\ pc[Decoder] = "copy" => count <= ReadBufAvail

LEMMA RingParts == RingOK <=> RoomOK /\ FoundOK
BY DEF RingOK, RoomOK, FoundOK

\* Numbers of the ring, before and after a step.
LEMMA RingNumbers ==
  ASSUME TypeOK, TypeOK'
  PROVE  /\ rbrpos \in 0..(Size - 1) /\ rbwpos \in 0..(Size - 1)
         /\ ReadBufAvail \in 0..(Size - 1) /\ ReadBufFree = Size - 1 - ReadBufAvail
         /\ rbrpos' \in 0..(Size - 1) /\ rbwpos' \in 0..(Size - 1)
         /\ ReadBufAvail' \in 0..(Size - 1) /\ ReadBufFree' = Size - 1 - ReadBufAvail'
         /\ ReadBufFree \in 0..(Size - 1) /\ ReadBufFree' \in 0..(Size - 1)
         /\ totfree \in 0..(Size - 1) /\ ret \in -1..(Size - 1)
         /\ totfree' \in 0..(Size - 1) /\ ret' \in -1..(Size - 1)
         /\ count \in 0..Size /\ avail \in 0..(Size - 1)
         /\ count' \in 0..Size /\ avail' \in 0..(Size - 1)
         /\ internalreadpos \in Nat /\ readpos \in Nat
<1>1. /\ rbrpos \in 0..(Size - 1) /\ rbwpos \in 0..(Size - 1)
      /\ rbrpos' \in 0..(Size - 1) /\ rbwpos' \in 0..(Size - 1)
      /\ totfree \in 0..(Size - 1) /\ ret \in -1..(Size - 1)
      /\ totfree' \in 0..(Size - 1) /\ ret' \in -1..(Size - 1)
      /\ count \in 0..Size /\ avail \in 0..(Size - 1)
      /\ count' \in 0..Size /\ avail' \in 0..(Size - 1)
      /\ internalreadpos \in Nat /\ readpos \in Nat
  BY Zenon DEF TypeOK
<1> QED BY <1>1, AvailFree, AvailFreeNext

\* What ReadEnd adds to the ring, and a Read takes from it.
LEMMA EndAdds ==
  ASSUME TypeOK, TypeOK', ReadEnd, ret <= ReadBufFree
  PROVE  ReadBufAvail' = ReadBufAvail + Fresh
<1>num. /\ rbrpos \in 0..(Size - 1) /\ rbwpos \in 0..(Size - 1) /\ ret \in -1..(Size - 1)
        /\ ReadBufFree = Size - 1 - ReadBufAvail
  BY RingNumbers
<1>use. /\ ReadBufAvail = Used(rbrpos, rbwpos) /\ ReadBufAvail' = Used(rbrpos', rbwpos')
        /\ rbrpos' = rbrpos /\ rbwpos' = IF ret > 0 THEN (rbwpos + ret) % Size ELSE rbwpos
  BY DEF ReadEnd, ReadBufAvail, Used
<1>1. CASE ret > 0
  <2>1. ret \in Nat /\ ret <= Size - 1 - Used(rbrpos, rbwpos)
    BY <1>1, <1>num, <1>use
  <2>2. Used(rbrpos, (rbwpos + ret) % Size) = Used(rbrpos, rbwpos) + ret
    BY <2>1, <1>num, MovesOn
  <2> QED BY <1>1, <2>2, <1>use DEF Fresh
<1>2. CASE ~(ret > 0)
  <2>1. Used(rbrpos, rbwpos) \in 0..(Size - 1)
    BY <1>num, Distance
  <2> QED BY <1>2, <2>1, <1>use, Numbers DEF Fresh
<1> QED BY <1>1, <1>2

LEMMA CopyTakes ==
  ASSUME TypeOK, TypeOK', Copy, call[Decoder] = "Read", count <= ReadBufAvail
  PROVE  ReadBufAvail' = ReadBufAvail - count
<1>num. rbrpos \in 0..(Size - 1) /\ rbwpos \in 0..(Size - 1) /\ count \in Nat
  BY RingNumbers, Numbers
<1>use. /\ ReadBufAvail = Used(rbrpos, rbwpos) /\ ReadBufAvail' = Used(rbrpos', rbwpos')
        /\ rbwpos' = rbwpos /\ rbrpos' = (rbrpos + count) % Size
  BY DEF Copy, ReadBufAvail, Used
<1>1. Used((rbrpos + count) % Size, rbwpos) = Used(rbrpos, rbwpos) - count
  BY <1>num, <1>use, MovesOn
<1> QED BY <1>1, <1>use

LEMMA RoomStep ==
  ASSUME TypeOK, TypeOK', ThreadOK, RingOK, [Next]_vars
  PROVE  RoomOK'
<1>room. RoomOK /\ FoundOK
  BY RingParts
<1>num. /\ ReadBufAvail \in 0..(Size - 1) /\ ReadBufFree = Size - 1 - ReadBufAvail
        /\ ReadBufAvail' \in 0..(Size - 1) /\ ReadBufFree' = Size - 1 - ReadBufAvail'
        /\ totfree \in 0..(Size - 1) /\ ret \in -1..(Size - 1)
        /\ totfree' \in 0..(Size - 1) /\ ret' \in -1..(Size - 1)
  BY RingNumbers
<1>free. ReadBufFree \in 0..(Size - 1) /\ ReadBufFree' \in 0..(Size - 1)
         /\ totfree \in 0..(Size - 1) /\ totfree' \in 0..(Size - 1)
  BY RingNumbers
<1>1. CASE ThreadStarts \/ ThreadIsUp \/ ThreadAwakes
  <2>1. /\ UNCHANGED <<rbrpos, rbwpos, totfree, ret, mishaps>>
        /\ tpc \notin {"read", "end"} /\ tpc' \notin {"read", "end"}
    BY <1>1 DEF ThreadStarts, ThreadIsUp, ThreadAwakes, ring, rest
  <2>2. ReadBufFree' = ReadBufFree
    BY <2>1 DEF ReadBufFree
  <2> QED BY <2>1, <2>2, <1>room DEF RoomOK
<1>2. CASE ThreadResets
  <2>1. /\ rbrpos' = 0 /\ rbwpos' = 0 /\ totfree' = Size - 1 /\ ret' = ret
        /\ tpc = "init" /\ tpc' = "up"
    BY <1>2 DEF ThreadResets, ResetReadAhead
  <2>2. totfree' <= ReadBufFree'
    BY <2>1, Numbers DEF ReadBufFree
  <2> QED BY <2>1, <2>2, <1>room DEF RoomOK
<1>3. CASE ThreadPauses \/ Room
  <2>1. /\ UNCHANGED <<rbrpos, rbwpos, ret, mishaps>>
        /\ totfree' = ReadBufFree \/ totfree' = totfree
        /\ tpc \notin {"read", "end"} /\ tpc' \notin {"read", "end"}
    BY <1>3 DEF ThreadPauses, Room, ring, rest
  <2>2. ReadBufFree' = ReadBufFree
    BY <2>1 DEF ReadBufFree
  <2>3. "startreads" \notin mishaps => totfree' <= ReadBufFree
    BY <2>1, <1>num, <1>room, Numbers DEF RoomOK
  <2> QED BY <2>1, <2>2, <2>3, <1>room DEF RoomOK
<1>4. CASE ReadBegin
  <2>1. /\ UNCHANGED <<rbrpos, rbwpos>> /\ tpc = "lock"
        /\ \/ tpc' = "read" /\ ret' = ret
           \/ tpc' = "end" /\ ret' = -1
        /\ "startreads" \in mishaps' <=> "startreads" \in mishaps
    BY <1>4 DEF ReadBegin
  <2>2. ReadBufFree' = ReadBufFree
    BY <2>1 DEF ReadBufFree
  <2>3. totfree' <= totfree /\ (tpc' = "read" => rbwpos + totfree' <= Size)
    BY <1>4, <1>num, Begins, Numbers
  <2>4. "startreads" \notin mishaps' => totfree' <= ReadBufFree'
    BY <2>1, <2>2, <2>3, <1>num, <1>room, Numbers DEF RoomOK
  <2>5. tpc' = "end" => ret' <= totfree'
    BY <2>1, <1>num, Numbers
  <2>6. ret' # 0 => tpc' = "end"
    BY <2>1, <1>room DEF RoomOK
  <2> QED BY <2>1, <2>3, <2>4, <2>5, <2>6 DEF RoomOK
<1>5. ASSUME NEW n \in 0..Size, NEW failures \in 0..3, SafeRead(n, failures)
      PROVE  RoomOK'
  <2>1. /\ UNCHANGED <<rbrpos, rbwpos, totfree, mishaps>> /\ tpc' = "end"
        /\ ret' = n /\ n <= totfree
    BY <1>5 DEF SafeRead, rest
  <2>2. ReadBufFree' = ReadBufFree
    BY <2>1 DEF ReadBufFree
  <2> QED BY <2>1, <2>2, <1>room DEF RoomOK
<1>6. CASE ReadEnd
  <2>1. /\ tpc' = "loop" /\ ret' = 0
        /\ totfree' = 0 \/ totfree' = ReadBufFree'
    BY <1>6 DEF ReadEnd
  <2>2. totfree' <= ReadBufFree'
    BY <2>1, <1>free, Numbers
  <2> QED BY <2>1, <2>2 DEF RoomOK
<1>7. CASE ThreadEnds
  <2>1. tpc = "loop" /\ tpc' = "done" /\ totfree' = 0 /\ ret' = ret
    BY <1>7 DEF ThreadEnds
  <2>2. totfree' <= ReadBufFree'
    BY <2>1, <1>free, Numbers
  <2> QED BY <2>1, <2>2, <1>room DEF RoomOK
<1>8. CASE Copy
  <2>1. UNCHANGED <<tpc, totfree, ret, rbwpos, mishaps>>
    BY <1>8 DEF Copy, reading, rest
  <2>2. "startreads" \notin mishaps => ReadBufFree' >= ReadBufFree
    <3>1. CASE call[Decoder] = "Read" /\ "startreads" \notin mishaps
      <4>1. count <= ReadBufAvail
        BY <1>8, <3>1, <1>room DEF Copy, FoundOK
      <4>2. ReadBufAvail' = ReadBufAvail - count /\ count \in 0..Size
        BY <1>8, <3>1, <4>1, CopyTakes, RingNumbers
      <4> QED BY <4>2, <1>num, Numbers
    <3>2. CASE call[Decoder] # "Read"
      <4>1. ReadBufFree' = ReadBufFree
        BY <1>8, <3>2 DEF Copy, ReadBufFree
      <4> QED BY <4>1, <1>num, Numbers
    <3> QED BY <3>1, <3>2
  <2>3. "startreads" \notin mishaps => totfree <= ReadBufFree'
    BY <2>2, <1>free, <1>room, Numbers DEF RoomOK
  <2> QED BY <2>1, <2>3, <1>room DEF RoomOK
<1>9. CASE Seek \/ Reset
  <2>1. UNCHANGED <<tpc, totfree, ret, mishaps>> /\ tpc \notin {"read", "end"}
    BY <1>9 DEF Seek, Reset, reading, rest, ThreadHasLock
  <2>2. \/ rbrpos' = rbrpos /\ rbwpos' = rbwpos
        \/ rbrpos' = 0 /\ rbwpos' = 0
    BY <1>9 DEF Seek, Reset, ResetReadAhead, ring
  <2>3. "startreads" \notin mishaps => totfree <= ReadBufFree'
    <3>1. CASE rbrpos' = rbrpos /\ rbwpos' = rbwpos
      BY <3>1, <1>room DEF RoomOK, ReadBufFree
    <3>2. CASE rbrpos' = 0 /\ rbwpos' = 0
      <4>1. ReadBufFree' = Size - 1
        BY <3>2, Numbers DEF ReadBufFree
      <4> QED BY <4>1, <1>num, Numbers
    <3> QED BY <2>2, <3>1, <3>2
  <2> QED BY <2>1, <2>3, <1>room DEF RoomOK
<1>10. ASSUME UNCHANGED <<rbrpos, rbwpos, totfree, ret>>,
              "startreads" \in mishaps => "startreads" \in mishaps',
              \/ tpc' = tpc
              \/ tpc \in {"done", "none"} /\ tpc' \in {"none", "start"}
       PROVE  RoomOK'
  <2>1. ReadBufFree' = ReadBufFree
    BY <1>10 DEF ReadBufFree
  <2> QED BY <2>1, <1>10, <1>room DEF RoomOK
<1>11. ASSUME NEW c \in Clients, PauseStep(c) PROVE RoomOK'
  <2>1. /\ UNCHANGED <<rbrpos, rbwpos, totfree, ret>>
        /\ mishaps \subseteq mishaps'
        /\ tpc' = tpc \/ (tpc = "done" /\ tpc' = "none")
    BY <1>11 DEF PauseStep, PauseThread, StopReads, WaitForPause, AfterPause, PauseWoken,
                 StartReads, UnpauseThread, Join, ring, reading, rest
  <2> QED BY <1>10, <2>1
<1>12. CASE StartupReadAheadThread
  <2>1. /\ UNCHANGED <<rbrpos, rbwpos, totfree, ret, mishaps>> /\ tpc' = "start"
        /\ pc[Decoder] = "create"
    BY <1>12 DEF StartupReadAheadThread, ring, rest
  <2>2. tpc = "none"
    BY <2>1 DEF ThreadOK
  <2> QED BY <2>1, <2>2, <1>10
<1>13. ASSUME \/ Booted \/ IsAllowed \/ NotAllowed \/ Avail \/ EnoughToRead \/ LastCut
              \/ OpenFile \/ UpdateRawBitrate \/ GiveUp \/ DecoderCall \/ ControlCall
              \/ Drained \/ KillReadAheadThread \/ AppendNewProgram \/ UNCHANGED vars
       PROVE  RoomOK'
  <2>1. UNCHANGED <<rbrpos, rbwpos, totfree, ret, tpc>> /\ mishaps \subseteq mishaps'
    BY <1>13 DEF Booted, IsAllowed, NotAllowed, Avail, EnoughToRead, LastCut, OpenFile,
                 UpdateRawBitrate, GiveUp, DecoderCall, ControlCall, Drained,
                 KillReadAheadThread, AppendNewProgram, vars, ring, reading, rest
  <2> QED BY <1>10, <2>1
<1> QED
  BY <1>1, <1>2, <1>3, <1>4, <1>5, <1>6, <1>7, <1>8, <1>9, <1>11, <1>12, <1>13
  DEF Next, ThreadStep, ReadStep, LockStep

\* Where the decoder's thread goes by what it has found in the ring.
FoundPCs == {"first", "again", "last", "copy"}

LEMMA FoundKept ==
  ASSUME FoundOK, mishaps \subseteq mishaps',
         \/ pc'[Decoder] \notin FoundPCs
         \/ /\ pc'[Decoder] = pc[Decoder] /\ UNCHANGED <<avail, count, rbrpos, rbwpos>>
            /\ pc[Decoder] = "last" /\ stopreads => stopreads' \/ "startreads" \in mishaps'
  PROVE  FoundOK'
<1>1. CASE pc'[Decoder] \notin FoundPCs
  BY <1>1 DEF FoundOK, FoundPCs
<1>2. CASE /\ pc'[Decoder] = pc[Decoder] /\ UNCHANGED <<avail, count, rbrpos, rbwpos>>
           /\ pc[Decoder] = "last" /\ stopreads => stopreads' \/ "startreads" \in mishaps'
  <2>1. ReadBufAvail' = ReadBufAvail
    BY <1>2 DEF ReadBufAvail
  <2> QED BY <1>2, <2>1 DEF FoundOK
<1> QED BY <1>1, <1>2

LEMMA FoundStep ==
  ASSUME TypeOK, TypeOK', CallsOK, ThreadOK, RingOK, [Next]_vars
  PROVE  FoundOK'
<1>room. RoomOK /\ FoundOK
  BY RingParts
<1>dec. Decoder \in Clients /\ Control \in Clients /\ Decoder # Control
  BY TwoClients
<1>dom. DOMAIN pc = Clients /\ DOMAIN call = Clients
  BY DEF CallsOK
<1>1. CASE ThreadStarts \/ ThreadAwakes \/ Room \/ ReadBegin
             \/ AppendNewProgram \/ UNCHANGED vars
  <2>1. /\ UNCHANGED <<pc, avail, count, stopreads, rbrpos, rbwpos>>
        /\ mishaps \subseteq mishaps'
    BY <1>1 DEF ThreadStarts, ThreadAwakes, Room, ReadBegin, AppendNewProgram, vars,
                flags, ring, clients, locals, rest
  <2> QED BY <2>1, <1>room, FoundKept
<1>2. ASSUME NEW n \in 0..Size, NEW failures \in 0..3, SafeRead(n, failures)
      PROVE  FoundOK'
  <2>1. UNCHANGED <<pc, avail, count, stopreads, rbrpos, rbwpos, mishaps>>
    BY <1>2 DEF SafeRead, flags, clients, locals, rest
  <2> QED BY <2>1, <1>room, FoundKept
<1>3. CASE ThreadIsUp \/ ThreadPauses
  <2>1. /\ UNCHANGED <<avail, count, stopreads, rbrpos, rbwpos, mishaps>>
        /\ pc'[Decoder] = pc[Decoder] \/ pc'[Decoder] \in {"booted", "paused"}
    BY <1>3, <1>dec, <1>dom DEF ThreadIsUp, ThreadPauses, ring, locals, rest
  <2> QED BY <2>1, <1>room, FoundKept DEF FoundPCs
<1>4. CASE ThreadResets \/ ThreadEnds
  <2>1. /\ pc' = pc /\ mishaps' = mishaps
        /\ tpc = "init" \/ (tpc = "loop" /\ ~readaheadrunning)
    BY <1>4 DEF ThreadResets, ThreadEnds, clients, rest
  <2>2. pc'[Decoder] \notin FoundPCs
    BY <2>1 DEF ThreadOK, FoundPCs, Working
  <2> QED BY <2>1, <2>2, <1>room, FoundKept
<1>5. CASE ReadEnd
  <2>1. UNCHANGED <<pc, avail, count, stopreads, mishaps>> /\ tpc = "end"
    BY <1>5 DEF ReadEnd, flags, clients, locals, rest
  <2>2. ASSUME "startreads" \notin mishaps
        PROVE  /\ avail <= ReadBufAvail => avail <= ReadBufAvail'
               /\ count <= ReadBufAvail => count <= ReadBufAvail'
    <3>1. ret <= totfree /\ totfree <= ReadBufFree
      BY <2>1, <2>2, <1>room DEF RoomOK
    <3>2. ret <= ReadBufFree
      <4>1. ret \in -1..(Size - 1) /\ totfree \in 0..(Size - 1) /\ ReadBufFree \in 0..(Size - 1)
        BY RingNumbers
      <4> QED BY <3>1, <4>1, Numbers
    <3>3. ReadBufAvail' = ReadBufAvail + Fresh
      BY <1>5, <3>2, EndAdds
    <3>4. /\ avail \in 0..(Size - 1) /\ count \in 0..Size
          /\ ReadBufAvail \in 0..(Size - 1) /\ ret \in -1..(Size - 1)
      BY RingNumbers
    <3> QED BY <3>3, <3>4, Numbers DEF Fresh
  <2> QED BY <2>1, <2>2, <1>room DEF FoundOK
<1>6. CASE PauseStep(Control)
  <2>1. /\ pc'[Decoder] = pc[Decoder] /\ UNCHANGED <<avail, count>>
    BY <1>6, ControlKeeps DEF locals
  <2>2. UNCHANGED <<rbrpos, rbwpos>> /\ mishaps \subseteq mishaps'
    BY <1>6 DEF PauseStep, PauseThread, StopReads, WaitForPause, AfterPause, PauseWoken,
                StartReads, UnpauseThread, Join, ring, rest
  <2>3. pc[Decoder] = "last" /\ stopreads => stopreads' \/ "startreads" \in mishaps'
    BY <1>6 DEF PauseStep, PauseThread, StopReads, WaitForPause, AfterPause, PauseWoken,
                StartReads, UnpauseThread, Join, flags
  <2> QED BY <2>1, <2>2, <2>3, <1>room, FoundKept
<1>7. CASE PauseStep(Decoder)
  <2>1. /\ \/ \E to \in {"stop", "drain", "waitforpause", "open", "reset", "pausing",
                         "unpause", "avail", "create"} : Go(Decoder, to)
           \/ Return(Decoder)
        /\ mishaps \subseteq mishaps'
    BY <1>7
    DEF PauseStep, PauseThread, StopReads, WaitForPause, AfterPause, PauseWoken,
        StartReads, UnpauseThread, Join, GoOn, rest
  <2>2. pc'[Decoder] \notin FoundPCs
    BY <2>1, <1>dec, Goes, Returns DEF GoOn, FoundPCs
  <2> QED BY <2>1, <2>2, <1>room, FoundKept
<1>8. CASE Avail
  <2>1. /\ avail' = ReadBufAvail /\ UNCHANGED <<rbrpos, rbwpos, mishaps>>
        /\ pc'[Decoder] \in {"first", "again"}
    BY <1>8, <1>dec, Goes DEF Avail, ring, rest
  <2>2. ReadBufAvail' = ReadBufAvail /\ ReadBufAvail \in Int
    BY <2>1, RingNumbers DEF ReadBufAvail
  <2> QED BY <2>1, <2>2 DEF FoundOK
<1>9. CASE EnoughToRead
  <2>1. UNCHANGED <<rbrpos, rbwpos, mishaps, stopreads>> /\ pc[Decoder] \in {"first", "again"}
    BY <1>9 DEF EnoughToRead, ring, rest, flags
  <2>2. ReadBufAvail' = ReadBufAvail
    BY <2>1 DEF ReadBufAvail
  <2>3. CASE Go(Decoder, "last") /\ avail' = avail /\ ~(avail < count' /\ ~stopreads)
    <3>1. pc'[Decoder] = "last"
      BY <2>3, <1>dec, Goes
    <3>2. count' <= avail \/ stopreads
      <4>1. count' \in 0..Size /\ avail \in 0..(Size - 1)
        BY RingNumbers
      <4>2. ~(avail < count') => count' <= avail
        BY <4>1, Numbers
      <4>3. stopreads \/ ~(avail < count')
        BY <2>3, Zenon
      <4> QED BY <4>2, <4>3, Zenon
    <3>3. avail' <= ReadBufAvail' \/ "startreads" \in mishaps
      BY <2>1, <2>2, <2>3, <1>room DEF FoundOK
    <3>4. count' <= avail' \/ stopreads'
      BY <2>1, <2>3, <3>2, Zenon
    <3> QED BY <2>1, <3>1, <3>3, <3>4 DEF FoundOK
  <2>4. CASE Go(Decoder, "wait") \/ Return(Decoder)
    <3>1. pc'[Decoder] = "wait" \/ pc'[Decoder] = "idle"
      <4>1. Go(Decoder, "wait") => pc'[Decoder] = "wait"
        BY <1>dec, Goes
      <4>2. Return(Decoder) => pc'[Decoder] = "idle"
        BY <1>dec, Returns
      <4> QED BY <2>4, <4>1, <4>2
    <3>2. pc'[Decoder] \notin FoundPCs
      BY <3>1 DEF FoundPCs
    <3> QED BY <2>1, <3>2, <1>room, FoundKept
  <2>5. \/ Return(Decoder)
        \/ Go(Decoder, "wait")
        \/ Go(Decoder, "last") /\ avail' = avail /\ ~(avail < count' /\ ~stopreads)
    BY <1>9 DEF EnoughToRead
  <2> QED BY <2>3, <2>4, <2>5
<1>10. CASE LastCut
  <2>1. /\ UNCHANGED <<rbrpos, rbwpos, mishaps>> /\ pc[Decoder] = "last"
        /\ count' = IF ateof \/ stopreads THEN Smaller(avail, count) ELSE count
        /\ pc'[Decoder] = "copy"
    BY <1>10, <1>dec, Goes DEF LastCut, ring, rest
  <2>2. ReadBufAvail' = ReadBufAvail
    BY <2>1 DEF ReadBufAvail
  <2>3. ASSUME "startreads" \notin mishaps PROVE count' <= ReadBufAvail
    <3>1. avail <= ReadBufAvail /\ (count <= avail \/ stopreads)
      BY <2>1, <2>3, <1>room DEF FoundOK
    <3>2. count \in Nat /\ avail \in Nat /\ ReadBufAvail \in Nat
      BY RingNumbers, Numbers
    <3>3. (count' = count /\ count <= avail) \/ count' = Smaller(avail, count)
      BY <2>1, <3>1
    <3> QED BY <3>1, <3>2, <3>3 DEF Smaller
  <2> QED BY <2>1, <2>2, <2>3 DEF FoundOK
<1>11. CASE StartupReadAheadThread \/ Booted \/ IsAllowed \/ NotAllowed \/ Copy \/ OpenFile
              \/ LockStep \/ GiveUp
  <2>1. /\ \/ \E to \in {"boot", "startreads", "await", "avail", "join", "create", "booted",
                         "pause", "bitrate", "open", "reset"} : Go(Decoder, to)
           \/ Return(Decoder)
        /\ mishaps \subseteq mishaps'
    BY <1>11 DEF StartupReadAheadThread, Booted, IsAllowed, NotAllowed, Copy, OpenFile,
                 LockStep, Seek, Reset, UpdateRawBitrate, GiveUp, GoOn, rest
  <2>2. pc'[Decoder] \notin FoundPCs
    BY <2>1, <1>dec, Goes, Returns DEF FoundPCs
  <2> QED BY <2>1, <2>2, <1>room, FoundKept
<1>12. CASE DecoderCall
  <2>1. /\ \/ pc' = pc
           \/ \E to \in {"startreads", "await", "seek", "pause"} :
                pc' = [pc EXCEPT ![Decoder] = to]
        /\ mishaps' = mishaps /\ pc[Decoder] = "idle"
    BY <1>12 DEF DecoderCall, ReadFromBuf, ChangeProgram, Calls, clients, rest
  <2>2. pc'[Decoder] \notin FoundPCs
    BY <2>1, <1>dec, <1>dom DEF FoundPCs
  <2> QED BY <2>1, <2>2, <1>room, FoundKept
<1>13. CASE ControlCall \/ Drained
  <2>1. /\ UNCHANGED <<avail, count, stopreads, rbrpos, rbwpos, mishaps>>
        /\ pc'[Decoder] = pc[Decoder]
    BY <1>13, <1>dec, <1>dom DEF ControlCall, Drained, Go, flags, ring, locals, rest
  <2> QED BY <2>1, <1>room, FoundKept
<1>14. CASE KillReadAheadThread
  <2>1. pc'[Decoder] = "gone" /\ mishaps' = mishaps
    BY <1>14, <1>dec, <1>dom DEF KillReadAheadThread, rest
  <2> QED BY <2>1, <1>room, FoundKept DEF FoundPCs
<1>c. \A c \in Clients : c = Decoder \/ c = Control
  BY TwoClients
<1> QED
  BY <1>1, <1>2, <1>3, <1>4, <1>5, <1>6, <1>7, <1>8, <1>9, <1>10, <1>11, <1>12, <1>13,
     <1>14, <1>c
  DEF Next, ThreadStep, ReadStep

-----------------------------------------------------------------------------
(* The bytes in the ring                                                   *)

\* Of the slots that follow the read position the first are those in use, and
\* the next those that the thread reads into.
LEMMA UsedOrFree ==
  ASSUME NEW r \in 0..(Size - 1), NEW w \in 0..(Size - 1), NEW n \in Nat,
         n <= Size - 1 - Used(r, w), w + n <= Size,
         NEW i \in 0..(Used(r, w) + n - 1)
  PROVE  /\ (r + i) % Size \in 0..(Size - 1)
         /\ i < Used(r, w) => (r + i) % Size \notin w..(w + n - 1)
         /\ i >= Used(r, w) => /\ (r + i) % Size = w + (i - Used(r, w))
                               /\ (r + i) % Size \in w..(w + n - 1)
<1> DEFINE p == r + i
<1>1. Used(r, w) \in 0..(Size - 1)
  BY Distance
<1>2. p \in 0..(2 * Size - 1)
  BY <1>1, Numbers
<1>3. p % Size = IF p < Size THEN p ELSE p - Size
  <2> HIDE DEF p
  <2> QED BY <1>2, Wrap
<1>4. p % Size \in 0..(Size - 1)
  <2> HIDE DEF p
  <2> QED BY <1>2, <1>3, Numbers
<1>5. i < Used(r, w) => p % Size \notin w..(w + n - 1)
  BY <1>1, <1>3, Numbers DEF Used
<1>6. i >= Used(r, w) => /\ p % Size = w + (i - Used(r, w))
                         /\ p % Size \in w..(w + n - 1)
  BY <1>1, <1>3, Numbers DEF Used
<1> QED BY <1>4, <1>5, <1>6

\* What follows a position of the ring that has moved on.
LEMMA Shifted ==
  ASSUME NEW r \in 0..(Size - 1), NEW n \in Nat, NEW i \in Nat, n + i < Size
  PROVE  (((r + n) % Size) + i) % Size = (r + (n + i)) % Size
<1> DEFINE p == r + n
<1> DEFINE q == r + (n + i)
<1>1. p \in 0..(2 * Size - 1) /\ q \in 0..(2 * Size - 1)
  BY Numbers
<1>2. /\ p % Size = IF p < Size THEN p ELSE p - Size
      /\ q % Size = IF q < Size THEN q ELSE q - Size
  <2> HIDE DEF p, q
  <2> QED BY <1>1, Wrap
<1> DEFINE b == (p % Size) + i
<1>3. b = IF p < Size THEN q ELSE q - Size
  BY <1>2, Numbers
<1>4. b \in 0..(2 * Size - 1)
  BY <1>1, <1>3, Numbers
<1>5. b % Size = IF b < Size THEN b ELSE b - Size
  <2> HIDE DEF b
  <2> QED BY <1>4, Wrap
<1>6. b % Size = q % Size
  <2> HIDE DEF b
  <2>1. p < Size => b = q
    BY <1>3
  <2>2. ~(p < Size) => b = q - Size /\ q >= Size /\ b < Size
    BY <1>1, <1>3, Numbers
  <2> HIDE DEF p, q
  <2> QED BY <1>1, <1>2, <1>5, <2>1, <2>2, Numbers
<1> QED BY <1>6

\* Less than a ring apart, positions are different slots.
LEMMA Apart ==
  ASSUME NEW r \in 0..(Size - 1), NEW i \in 0..(Size - 1), NEW j \in 0..(Size - 1), i # j
  PROVE  (r + i) % Size # (r + j) % Size
<1> DEFINE p == r + i
<1> DEFINE q == r + j
<1>1. p \in 0..(2 * Size - 1) /\ q \in 0..(2 * Size - 1)
  BY Numbers
<1>2. /\ p % Size = IF p < Size THEN p ELSE p - Size
      /\ q % Size = IF q < Size THEN q ELSE q - Size
  <2> HIDE DEF p, q
  <2> QED BY <1>1, Wrap
<1> QED BY <1>2, Numbers

\* The thread has room for what it has read and not added yet.
LEMMA FreshFits ==
  ASSUME TypeOK, RingOK, mishaps = {}
  PROVE  /\ ReadBufAvail \in 0..(Size - 1) /\ Fresh \in 0..(Size - 1)
         /\ ReadBufAvail + Fresh <= Size - 1
         /\ ReadBufAvail = Used(rbrpos, rbwpos)
         /\ tpc # "end" => Fresh = 0 /\ ret = 0
<1>1. /\ rbrpos \in 0..(Size - 1) /\ rbwpos \in 0..(Size - 1)
      /\ totfree \in 0..(Size - 1) /\ ret \in -1..(Size - 1)
  BY TypeParts DEF RingTyped, ReadingTyped
<1>2. /\ ReadBufAvail \in 0..(Size - 1) /\ ReadBufFree \in 0..(Size - 1)
      /\ ReadBufFree = Size - 1 - ReadBufAvail
  BY <1>1, AvailFree
<1>3. totfree <= ReadBufFree /\ (tpc # "end" => ret = 0) /\ (tpc = "end" => ret <= totfree)
  BY DEF RingOK
<1>4. ReadBufAvail = Used(rbrpos, rbwpos)
  BY DEF ReadBufAvail, Used
<1>5. ret <= ReadBufFree
  BY <1>1, <1>2, <1>3, Numbers
<1>6. Fresh \in 0..(Size - 1) /\ ReadBufAvail + Fresh <= Size - 1
  BY <1>1, <1>2, <1>5, Numbers DEF Fresh
<1>7. tpc # "end" => Fresh = 0 /\ ret = 0
  BY <1>3 DEF Fresh
<1> QED BY <1>2, <1>4, <1>6, <1>7

\* A read of the file goes on where the ring ends.
LEMMA ReadInOrder ==
  ASSUME TypeOK, RingOK, mishaps = {}, InOrder,
         NEW n \in 0..Size, NEW failures \in 0..3, SafeRead(n, failures)
  PROVE  InOrder'
<1>1. /\ rbrpos \in 0..(Size - 1) /\ rbwpos \in 0..(Size - 1) /\ fpos \in Nat
      /\ totfree \in 0..(Size - 1) /\ readpos \in Nat /\ internalreadpos \in Nat
  BY TypeParts, Numbers DEF RingTyped, ReadingTyped, PositionsTyped, SourceTyped
<1>2. /\ tpc = "read" /\ n <= totfree /\ ret' = n
      /\ UNCHANGED <<rbrpos, rbwpos, readpos, file>>
      /\ fpos' = fpos + n /\ internalreadpos' = internalreadpos + n
      /\ readAheadBuffer' = [s \in 0..(Size - 1) |->
                              IF s \in rbwpos..(rbwpos + n - 1)
                              THEN <<file, fpos + (s - rbwpos)>> ELSE readAheadBuffer[s]]
  BY DEF SafeRead
<1>3. /\ ReadBufAvail \in 0..(Size - 1) /\ ReadBufAvail = Used(rbrpos, rbwpos)
      /\ Fresh = 0
  BY <1>2, FreshFits
<1>4. ReadBufAvail' = ReadBufAvail /\ Fresh' = n
  BY <1>2, Numbers DEF ReadBufAvail, Fresh
<1>5. n \in Nat /\ n <= Size - 1 - Used(rbrpos, rbwpos) /\ rbwpos + n <= Size
  <2>1. totfree <= ReadBufFree /\ rbwpos + totfree <= Size
    BY <1>2 DEF RingOK
  <2>2. ReadBufFree = Size - 1 - ReadBufAvail /\ ReadBufFree \in 0..(Size - 1)
    BY <1>1, AvailFree
  <2> QED BY <1>1, <1>2, <1>3, <2>1, <2>2, Numbers
<1>6. ASSUME NEW i \in 0..(ReadBufAvail + n - 1)
      PROVE  readAheadBuffer'[(rbrpos + i) % Size] = <<file, readpos + i>>
  <2> DEFINE s == (rbrpos + i) % Size
  <2>1. /\ s \in 0..(Size - 1)
        /\ i < ReadBufAvail => s \notin rbwpos..(rbwpos + n - 1)
        /\ i >= ReadBufAvail => /\ s = rbwpos + (i - ReadBufAvail)
                                /\ s \in rbwpos..(rbwpos + n - 1)
    BY <1>1, <1>3, <1>5, UsedOrFree
  <2>2. CASE i < ReadBufAvail
    <3>1. readAheadBuffer'[s] = readAheadBuffer[s]
      <4> HIDE DEF s
      <4> QED BY <1>2, <2>1, <2>2
    <3>2. i \in 0..(ReadBufAvail + Fresh - 1)
      BY <1>3, <2>2, Numbers
    <3> QED BY <3>1, <3>2 DEF InOrder
  <2>3. CASE i >= ReadBufAvail
    <3>1. readAheadBuffer'[s] = <<file, fpos + (s - rbwpos)>>
      <4> HIDE DEF s
      <4> QED BY <1>2, <2>1, <2>3
    <3>2. fpos = readpos + ReadBufAvail
      BY <1>1, <1>3, Numbers DEF InOrder
    <3>3. fpos + (s - rbwpos) = readpos + i
      <4> HIDE DEF s
      <4> QED BY <1>1, <1>3, <2>1, <2>3, <3>2, Numbers
    <3> QED BY <3>1, <3>3
  <2> QED BY <1>3, <2>2, <2>3, Numbers
<1>7. fpos' = internalreadpos' /\ fpos' = readpos + ReadBufAvail + n
  <2>1. fpos = internalreadpos /\ fpos = readpos + ReadBufAvail + Fresh
    BY DEF InOrder
  <2> QED BY <1>1, <1>2, <1>3, <2>1, Numbers
<1> QED BY <1>2, <1>4, <1>6, <1>7 DEF InOrder

\* A Read takes the bytes that it returns from the ring, and only those.
LEMMA CopyInOrder ==
  ASSUME TypeOK, TypeOK', RingOK, mishaps = {}, InOrder, Copy
  PROVE  InOrder'
<1>1. /\ rbrpos \in 0..(Size - 1) /\ rbwpos \in 0..(Size - 1) /\ count \in Nat
      /\ readpos \in Nat
  BY RingNumbers, Numbers
<1>2. /\ pc[Decoder] = "copy"
      /\ UNCHANGED <<rbwpos, internalreadpos, ret, file, fpos>>
  BY DEF Copy, reading, source
<1>3. count <= ReadBufAvail
  BY <1>2 DEF RingOK
<1>4. /\ ReadBufAvail \in 0..(Size - 1) /\ Fresh \in 0..(Size - 1)
      /\ ReadBufAvail + Fresh <= Size - 1
  BY FreshFits
<1>5. Fresh' = Fresh
  BY <1>2 DEF Fresh
<1>pos. fpos = internalreadpos /\ fpos = readpos + ReadBufAvail + Fresh
  BY DEF InOrder
<1>6. CASE call[Decoder] = "Read"
  <2>1. /\ rbrpos' = (rbrpos + count) % Size /\ readpos' = readpos + count
        /\ readAheadBuffer' = [s \in 0..(Size - 1) |->
             IF s \in Slots(rbrpos, count) THEN None ELSE readAheadBuffer[s]]
    BY <1>6 DEF Copy
  <2>2. ReadBufAvail' = ReadBufAvail - count
    BY <1>3, <1>6, CopyTakes
  <2>3. ASSUME NEW i \in 0..(ReadBufAvail - count + Fresh - 1)
        PROVE  readAheadBuffer'[(rbrpos' + i) % Size] = <<file, readpos' + i>>
    <3> DEFINE s == (rbrpos + (count + i)) % Size
    <3>1. i \in Nat /\ count + i < Size /\ count + i \in 0..(ReadBufAvail + Fresh - 1)
          /\ count + i \in 0..(Size - 1)
      BY <1>1, <1>3, <1>4, Numbers
    <3>2. (rbrpos' + i) % Size = s
      BY <1>1, <2>1, <3>1, Shifted
    <3>3. s \notin Slots(rbrpos, count)
      <4> SUFFICES ASSUME NEW k \in 0..(count - 1) PROVE (rbrpos + k) % Size # s
        BY Zenon DEF Slots
      <4>1. k \in 0..(Size - 1) /\ k # count + i
        BY <1>1, <3>1, Numbers
      <4> QED BY <1>1, <3>1, <4>1, Apart, Zenon
    <3>4. s \in 0..(Size - 1)
      <4> DEFINE q == rbrpos + (count + i)
      <4>1. q \in 0..(2 * Size - 1)
        BY <1>1, <3>1, Numbers
      <4>2. q % Size \in 0..(Size - 1)
        <5> HIDE DEF q
        <5> QED BY <4>1, Wrap, Numbers
      <4> QED BY <4>2
    <3>5. readAheadBuffer[s] = <<file, readpos + (count + i)>>
      BY <3>1 DEF InOrder
    <3>6. readpos + (count + i) = readpos' + i
      BY <1>1, <2>1, <3>1, Numbers
    <3>7. readAheadBuffer'[s] = readAheadBuffer[s]
      <4> HIDE DEF s
      <4> QED BY <2>1, <3>3, <3>4
    <3> QED BY <3>2, <3>5, <3>6, <3>7
  <2>4. fpos' = readpos' + (ReadBufAvail - count) + Fresh
    BY <1>1, <1>2, <1>4, <1>pos, <2>1, Numbers
  <2> QED BY <1>2, <1>5, <1>pos, <2>2, <2>3, <2>4 DEF InOrder
<1>7. CASE call[Decoder] # "Read"
  <2>1. UNCHANGED <<rbrpos, readpos, readAheadBuffer>>
    BY <1>7 DEF Copy
  <2>2. ReadBufAvail' = ReadBufAvail
    BY <1>2, <2>1 DEF ReadBufAvail
  <2> QED BY <1>2, <1>5, <2>1, <2>2 DEF InOrder
<1> QED BY <1>6, <1>7

\* What was read is in the ring when the thread has added it.
LEMMA EndInOrder ==
  ASSUME TypeOK, TypeOK', RingOK, mishaps = {}, InOrder, ReadEnd
  PROVE  InOrder'
<1>1. UNCHANGED <<rbrpos, readAheadBuffer, readpos, internalreadpos, file, fpos>> /\ ret' = 0
  BY DEF ReadEnd, positions
<1>2. /\ ReadBufAvail \in 0..(Size - 1) /\ Fresh \in 0..(Size - 1)
      /\ ReadBufAvail + Fresh <= Size - 1
  BY FreshFits
<1>3. ret <= ReadBufFree
  <2>1. ret \in -1..(Size - 1) /\ ReadBufFree = Size - 1 - ReadBufAvail
    BY RingNumbers
  <2> QED BY <1>2, <2>1, Numbers DEF Fresh
<1>4. ReadBufAvail' = ReadBufAvail + Fresh
  BY <1>3, EndAdds
<1>5. Fresh' = 0
  BY <1>1 DEF Fresh
<1>6. ReadBufAvail' + Fresh' - 1 = ReadBufAvail + Fresh - 1
  BY <1>2, <1>4, <1>5, Numbers
<1>7. readpos \in Nat
  BY RingNumbers
<1>8. fpos' = internalreadpos' /\ fpos' = readpos' + ReadBufAvail' + Fresh'
  <2>1. fpos = internalreadpos /\ fpos = readpos + ReadBufAvail + Fresh
    BY DEF InOrder
  <2> QED BY <1>1, <1>2, <1>4, <1>5, <1>7, <2>1, Numbers
<1>9. \A i \in 0..(ReadBufAvail' + Fresh' - 1) :
        readAheadBuffer'[(rbrpos' + i) % Size] = <<file', readpos' + i>>
  <2>1. /\ rbrpos' = rbrpos /\ readAheadBuffer' = readAheadBuffer
        /\ readpos' = readpos /\ file' = file
    BY <1>1
  <2>2. \A i \in 0..(ReadBufAvail + Fresh - 1) :
          readAheadBuffer[(rbrpos + i) % Size] = <<file, readpos + i>>
    BY DEF InOrder
  <2> SUFFICES ASSUME NEW i \in 0..(ReadBufAvail' + Fresh' - 1)
               PROVE  readAheadBuffer'[(rbrpos' + i) % Size] = <<file', readpos' + i>>
    OBVIOUS
  <2>3. i \in 0..(ReadBufAvail + Fresh - 1)
    BY <1>6
  <2>4. readAheadBuffer[(rbrpos + i) % Size] = <<file, readpos + i>>
    BY <2>2, <2>3
  <2> QED BY <2>1, <2>4
<1> QED BY <1>8, <1>9 DEF InOrder

\* A ring that was emptied is in order.
LEMMA EmptyInOrder ==
  ASSUME fpos' \in Nat, fpos' = internalreadpos', fpos' = readpos',
         rbrpos' \in 0..(Size - 1), rbwpos' = rbrpos', Fresh' = 0
  PROVE  InOrder'
<1>1. ReadBufAvail' = 0
  BY AvailFreeNext
<1>2. fpos' = readpos' + ReadBufAvail' + Fresh'
  <2>1. \A n \in Nat : n + 0 + 0 = n
    OBVIOUS
  <2> QED BY <1>1, <2>1, Zenon
<1>3. \A i \in 0..(ReadBufAvail' + Fresh' - 1) : FALSE
  <2>1. ReadBufAvail' + Fresh' - 1 = -1
    BY <1>1
  <2> QED BY <2>1
<1> QED BY <1>2, <1>3 DEF InOrder

-----------------------------------------------------------------------------
(* The data through the steps                                              *)

\* Nothing of the file, the ring and the positions changes.
SameData ==
  /\ UNCHANGED <<rbrpos, rbwpos, readAheadBuffer, readpos, internalreadpos, file, fpos>>
  /\ Fresh' = Fresh

LEMMA OrderKept ==
  ASSUME InOrder, SameData
  PROVE  InOrder'
<1>1. ReadBufAvail' = ReadBufAvail
  BY DEF ReadBufAvail, SameData
<1> QED BY <1>1 DEF InOrder, SameData

\* While the decoder's thread stays where it is,
LEMMA DataKept ==
  ASSUME DataOK, SameData, mishaps \subseteq mishaps',
         pc'[Decoder] = pc[Decoder], call'[Decoder] = call[Decoder],
         tpc' = tpc \/ tpc' # "read" \/ ~Changing
  PROVE  DataOK'
<1> SUFFICES ASSUME mishaps' = {}, pc'[Decoder] # "gone"
             PROVE  /\ pc'[Decoder] \in {"create", "boot"} =>
                         /\ call'[Decoder] = "Start" /\ readpos' = 0 /\ rbrpos' = rbwpos'
                         /\ fpos' = 0
                    /\ pc'[Decoder] # "join"
                    /\ IF Changing' THEN ChangeOK' ELSE InOrder'
  BY DEF DataOK
<1>1. mishaps = {} /\ pc[Decoder] # "gone"
  OBVIOUS
<1>2. /\ pc[Decoder] \in {"create", "boot"} =>
           call[Decoder] = "Start" /\ readpos = 0 /\ rbrpos = rbwpos /\ fpos = 0
      /\ pc[Decoder] # "join"
  BY <1>1 DEF DataOK
<1>3. Changing' <=> Changing
  BY DEF Changing
<1>4. CASE Changing
  <2>1. ChangeOK
    BY <1>1, <1>4 DEF DataOK
  <2>2. ChangeOK'
    BY <2>1, <1>4 DEF ChangeOK, SameData
  <2> QED BY <1>2, <1>3, <1>4, <2>2 DEF SameData
<1>5. CASE ~Changing
  <2>1. InOrder'
    BY <1>1, <1>5, OrderKept DEF DataOK
  <2> QED BY <1>2, <1>3, <1>5, <2>1 DEF SameData
<1> QED BY <1>4, <1>5

\* and while it goes on, but not in a change of programs or in a start.
LEMMA DataGoes ==
  ASSUME DataOK, SameData, mishaps \subseteq mishaps', ~Changing, ~Changing',
         pc[Decoder] # "gone", pc'[Decoder] \notin {"create", "boot", "join"}
  PROVE  DataOK'
<1> SUFFICES ASSUME mishaps' = {} PROVE InOrder'
  BY DEF DataOK
<1>1. mishaps = {}
  OBVIOUS
<1> QED BY <1>1, OrderKept DEF DataOK

LEMMA DataInit == Init => DataOK
<1> SUFFICES ASSUME Init PROVE DataOK OBVIOUS
<1>1. /\ pc = [c \in Clients |-> IF c = Decoder THEN "create" ELSE "idle"]
      /\ call = [c \in Clients |-> IF c = Decoder THEN "Start" ELSE ""]
      /\ rbrpos = 0 /\ rbwpos = 0 /\ readpos = 0 /\ internalreadpos = 0 /\ fpos = 0
      /\ ret = 0
  BY DEF Init
<1>2. pc[Decoder] = "create" /\ call[Decoder] = "Start"
  BY <1>1, TwoClients
<1>3. ReadBufAvail = 0 /\ Fresh = 0
  <2>1. rbrpos \in 0..(Size - 1) /\ rbwpos \in 0..(Size - 1) /\ rbrpos = rbwpos /\ ret = 0
    <3>1. 0 \in 0..(Size - 1)
      BY Numbers
    <3> QED BY <1>1, <3>1
  <2>2. ReadBufAvail = 0
    BY <2>1, AvailFree
  <2> QED BY <2>1, <2>2 DEF Fresh
<1>4. \A i \in 0..(ReadBufAvail + Fresh - 1) : FALSE
  <2>1. ReadBufAvail + Fresh - 1 = -1
    BY <1>3
  <2> QED BY <2>1
<1>5. InOrder
  <2>1. fpos = 0 /\ internalreadpos = 0 /\ readpos = 0
    BY <1>1
  <2>2. fpos = readpos + ReadBufAvail + Fresh
    BY <2>1, <1>3
  <2> QED BY <2>1, <2>2, <1>4 DEF InOrder
<1> QED BY <1>1, <1>2, <1>5 DEF DataOK, Changing

\* The steps of the read-ahead thread.
LEMMA ThreadData ==
  ASSUME TypeOK, TypeOK', CallsOK, ThreadOK, RingOK, DataOK, ThreadStep
  PROVE  DataOK'
<1>dec. Decoder \in Clients /\ Control \in Clients /\ Decoder # Control
  BY TwoClients
<1>dom. DOMAIN pc = Clients /\ DOMAIN call = Clients
  BY DEF CallsOK
<1>1. CASE ThreadStarts \/ ThreadAwakes \/ Room
  <2>1. /\ UNCHANGED <<rbrpos, rbwpos, readAheadBuffer, readpos, internalreadpos, file, fpos,
                       ret, pc, call, mishaps>>
        /\ tpc' # "read"
    BY <1>1 DEF ThreadStarts, ThreadAwakes, Room, ring, positions, source, clients, rest
  <2>2. SameData
    BY <2>1 DEF SameData, Fresh
  <2> QED BY <2>1, <2>2, DataKept
<1>2. CASE ThreadIsUp \/ ThreadPauses
  <2>1. /\ UNCHANGED <<rbrpos, rbwpos, readAheadBuffer, readpos, internalreadpos, file, fpos,
                       ret, call, mishaps>>
        /\ tpc' # "read"
        /\ \/ pc'[Decoder] = pc[Decoder]
           \/ pc[Decoder] = "boot" /\ pc'[Decoder] = "booted"
           \/ pc[Decoder] = "pausing" /\ pc'[Decoder] = "paused"
    BY <1>2, <1>dec, <1>dom
    DEF ThreadIsUp, ThreadPauses, ring, positions, source, clients, rest
  <2>2. SameData
    BY <2>1 DEF SameData, Fresh
  <2>3. CASE pc'[Decoder] = pc[Decoder]
    BY <2>1, <2>2, <2>3, DataKept
  <2>4. CASE pc[Decoder] \in {"boot", "pausing"} /\ pc'[Decoder] \in {"booted", "paused"}
    BY <2>1, <2>2, <2>4, DataGoes DEF Changing
  <2> QED BY <2>1, <2>3, <2>4
<1>3. CASE ThreadResets
  <2>1. /\ tpc = "init" /\ rbrpos' = 0 /\ rbwpos' = 0 /\ internalreadpos' = 0
        /\ UNCHANGED <<readpos, fpos, ret, pc, call, mishaps>>
    BY <1>3 DEF ThreadResets, ResetReadAhead, source, clients, rest
  <2>2. pc[Decoder] \in {"boot", "gone"}
    BY <2>1 DEF ThreadOK, Working
  <2>3. CASE pc[Decoder] = "boot" /\ mishaps = {}
    <3>1. call[Decoder] = "Start" /\ readpos = 0 /\ fpos = 0
      BY <2>3 DEF DataOK
    <3>2. Fresh' = 0
      BY <2>1 DEF RingOK, Fresh
    <3>3. InOrder'
      <4>1. 0 \in Nat /\ 0 \in 0..(Size - 1)
        BY Numbers
      <4> QED BY <2>1, <3>1, <3>2, <4>1, EmptyInOrder
    <3> QED BY <2>1, <2>3, <3>1, <3>3 DEF DataOK, Changing
  <2> QED BY <2>1, <2>2, <2>3 DEF DataOK
<1>4. CASE ReadBegin
  <2>1. /\ UNCHANGED <<rbrpos, rbwpos, readAheadBuffer, readpos, internalreadpos, file, fpos,
                       pc, call>>
        /\ tpc = "lock"
        /\ \/ tpc' = "read" /\ ret' = ret
           \/ tpc' = "end" /\ ret' = -1
        /\ mishaps \subseteq mishaps'
        /\ tpc' = "read" /\ Changing => mishaps' # {}
    BY <1>4 DEF ReadBegin, positions, source, clients
  <2>2. SameData
    BY <2>1 DEF SameData, Fresh, RingOK
  <2>3. CASE tpc' # "read" \/ ~Changing
    BY <2>1, <2>2, <2>3, DataKept
  <2>4. CASE tpc' = "read" /\ Changing
    BY <2>1, <2>4 DEF DataOK
  <2> QED BY <2>3, <2>4
<1>5. ASSUME NEW n \in 0..Size, NEW failures \in 0..3, SafeRead(n, failures)
      PROVE  DataOK'
  <2>1. UNCHANGED <<pc, call, mishaps>> /\ tpc = "read"
    BY <1>5 DEF SafeRead, clients, rest
  <2> SUFFICES ASSUME mishaps = {}, pc[Decoder] # "gone" PROVE DataOK'
    BY <2>1 DEF DataOK
  <2>2. ~Changing
    BY <2>1 DEF DataOK, ChangeOK
  <2>3. InOrder'
    BY <1>5, <2>2, ReadInOrder DEF DataOK
  <2>4. pc[Decoder] \notin {"create", "boot", "join"}
    BY <2>1 DEF DataOK, ThreadOK
  <2>5. ~Changing'
    BY <2>1, <2>2 DEF Changing
  <2> QED BY <2>1, <2>3, <2>4, <2>5 DEF DataOK
<1>6. CASE ReadEnd
  <2>1. UNCHANGED <<pc, call, mishaps>> /\ tpc = "end" /\ tpc' = "loop" /\ ret' = 0
        /\ UNCHANGED <<rbrpos, readpos, internalreadpos, file, fpos>>
        /\ (ret > 0 \/ rbwpos' = rbwpos)
    BY <1>6 DEF ReadEnd, clients, rest, positions
  <2> SUFFICES ASSUME mishaps = {}, pc[Decoder] # "gone" PROVE DataOK'
    BY <2>1 DEF DataOK
  <2>2. pc[Decoder] \notin {"create", "boot", "join"}
    BY <2>1 DEF DataOK, ThreadOK
  <2>3. Changing' <=> Changing
    BY <2>1 DEF Changing
  <2>4. CASE Changing
    <3>1. ChangeOK
      BY <2>4 DEF DataOK
    <3>2. Fresh' = 0 /\ (Fresh = 0 => rbwpos' = rbwpos)
      BY <2>1 DEF Fresh
    <3>3. ChangeOK'
      BY <2>1, <3>1, <3>2 DEF ChangeOK
    <3> QED BY <2>1, <2>2, <2>3, <2>4, <3>3 DEF DataOK
  <2>5. CASE ~Changing
    <3>1. InOrder'
      BY <1>6, <2>5, EndInOrder DEF DataOK
    <3> QED BY <2>1, <2>2, <2>3, <2>5, <3>1 DEF DataOK
  <2> QED BY <2>4, <2>5
<1>7. CASE ThreadEnds
  <2>1. /\ tpc = "loop" /\ ~readaheadrunning /\ UNCHANGED <<pc, mishaps>>
    BY <1>7 DEF ThreadEnds, clients, rest
  <2>2. pc[Decoder] \in {"join", "gone"}
    BY <2>1 DEF ThreadOK
  <2> QED BY <2>1, <2>2 DEF DataOK
<1> QED
  BY <1>1, <1>2, <1>3, <1>4, <1>5, <1>6, <1>7 DEF ThreadStep

\* The steps of a pause or its end, of either client.
LEMMA PauseData ==
  ASSUME TypeOK, CallsOK, ThreadOK, RingOK, DataOK, NEW c \in Clients, PauseStep(c)
  PROVE  DataOK'
<1>dec. Decoder \in Clients /\ Control \in Clients /\ Decoder # Control
  BY TwoClients
<1>same. SameData
  <2>1. UNCHANGED <<rbrpos, rbwpos, readAheadBuffer, readpos, internalreadpos, file, fpos, ret>>
    BY DEF PauseStep, PauseThread, StopReads, WaitForPause, AfterPause, PauseWoken,
           StartReads, UnpauseThread, Join, ring, positions, reading, source
  <2> QED BY <2>1 DEF SameData, Fresh
<1>mis. mishaps \subseteq mishaps'
  BY DEF PauseStep, PauseThread, StopReads, WaitForPause, AfterPause, PauseWoken,
         StartReads, UnpauseThread, Join, rest
<1>1. CASE c = Control
  <2>1. pc'[Decoder] = pc[Decoder] /\ call'[Decoder] = call[Decoder]
    BY <1>1, ControlKeeps
  <2>2. tpc' = tpc \/ tpc' # "read"
    BY DEF PauseStep, PauseThread, StopReads, WaitForPause, AfterPause, PauseWoken,
           StartReads, UnpauseThread, Join, reading
  <2> QED BY <2>1, <2>2, <1>same, <1>mis, DataKept
<1>2. CASE c = Decoder
  <2>1. \/ PauseThread(c) \/ StopReads(c) \/ StartReads(c) \/ UnpauseThread(c)
        \/ WaitForPause(c) /\ ~AfterPause(c)
        \/ (WaitForPause(c) \/ PauseWoken(c)) /\ AfterPause(c)
        \/ Join(c)
    BY DEF PauseStep, PauseWoken
  <2>2. CASE \/ PauseThread(c) \/ StopReads(c) \/ StartReads(c) \/ UnpauseThread(c)
             \/ WaitForPause(c) /\ ~AfterPause(c)
    <3>1. /\ \/ \E to \in {"stop", "drain", "waitforpause", "pausing", "unpause", "avail"} :
                  Go(Decoder, to)
             \/ Return(Decoder)
          /\ pc[Decoder] \in {"pause", "stop", "startreads", "unpause", "waitforpause"}
      BY <2>2, <1>2 DEF PauseThread, StopReads, StartReads, UnpauseThread, WaitForPause, GoOn
    <3>2. pc'[Decoder] \in {"stop", "drain", "waitforpause", "pausing", "unpause", "avail",
                            "idle"}
      BY <3>1, <1>dec, Goes, Returns
    <3> QED BY <3>1, <3>2, <1>same, <1>mis, DataGoes DEF Changing
  <2>3. CASE (WaitForPause(c) \/ PauseWoken(c)) /\ AfterPause(c)
    <3>1. /\ pc[Decoder] \in {"waitforpause", "paused"} /\ tpc' = tpc
      BY <2>3, <1>2 DEF WaitForPause, PauseWoken, reading
    <3>2. /\ \/ call[Decoder] = "SwitchToProgram" /\ Go(Decoder, "open")
             \/ call[Decoder] = "JumpToProgram" /\ Go(Decoder, "reset")
             \/ Return(Decoder)
          /\ call[Decoder] \in ChangeCalls /\ tpc = "read" => mishaps' # {}
      BY <2>3, <1>2 DEF AfterPause, GoOn, ChangeCalls
    <3>3. CASE Return(Decoder)
      <4>1. pc'[Decoder] = "idle"
        BY <3>3, <1>dec, Returns
      <4> QED BY <3>1, <4>1, <1>same, <1>mis, DataGoes DEF Changing
    <3>4. CASE call[Decoder] = "SwitchToProgram" /\ Go(Decoder, "open")
      <4>1. pc'[Decoder] = "open" /\ call'[Decoder] = "SwitchToProgram"
        BY <3>4, <1>dec, Goes
      <4> QED BY <3>1, <3>2, <3>4, <4>1 DEF DataOK, ChangeOK, ChangeCalls, Changing
    <3>5. CASE call[Decoder] = "JumpToProgram" /\ Go(Decoder, "reset")
      <4>1. pc'[Decoder] = "reset" /\ call'[Decoder] = "JumpToProgram"
        BY <3>5, <1>dec, Goes
      <4> QED BY <3>1, <3>2, <3>5, <4>1 DEF DataOK, ChangeOK, ChangeCalls, Changing
    <3> QED BY <3>2, <3>3, <3>4, <3>5
  <2>4. CASE Join(c)
    <3>1. pc[Decoder] = "join"
      BY <2>4, <1>2 DEF Join
    <3>2. pc'[Decoder] # "gone" => mishaps # {}
      BY <3>1 DEF DataOK
    <3> QED BY <3>2, <1>mis DEF DataOK
  <2> QED BY <2>1, <2>2, <2>3, <2>4
<1> QED BY <1>1, <1>2, TwoClients

\* The steps of the decoder's thread in its reads and in a start.
LEMMA ReadData ==
  ASSUME TypeOK, TypeOK', CallsOK, ThreadOK, RingOK, DataOK, ReadStep \/ GiveUp
  PROVE  DataOK'
<1>dec. Decoder \in Clients /\ Control \in Clients /\ Decoder # Control
  BY TwoClients
<1>1. CASE StartupReadAheadThread
  <2>1. /\ UNCHANGED <<rbrpos, rbwpos, readAheadBuffer, readpos, internalreadpos, file, fpos,
                       ret, mishaps>>
        /\ pc[Decoder] = "create" /\ Go(Decoder, "boot")
    BY <1>1 DEF StartupReadAheadThread, GoOn, ring, positions, source, rest
  <2>2. SameData
    BY <2>1 DEF SameData, Fresh
  <2>3. pc'[Decoder] = "boot" /\ call'[Decoder] = call[Decoder]
    BY <2>1, <1>dec, Goes
  <2> SUFFICES ASSUME mishaps = {} PROVE DataOK'
    BY <2>1 DEF DataOK
  <2>4. InOrder'
    BY <2>1, <2>2, OrderKept DEF DataOK, Changing
  <2> QED BY <2>1, <2>3, <2>4 DEF DataOK, Changing
<1>2. CASE Booted \/ IsAllowed \/ Avail \/ EnoughToRead \/ LastCut \/ GiveUp
  <2>1. /\ UNCHANGED <<rbrpos, rbwpos, readAheadBuffer, readpos, internalreadpos, file, fpos,
                       ret, mishaps>>
        /\ \/ \E to \in {"startreads", "await", "avail", "first", "again", "wait", "last",
                         "copy"} : Go(Decoder, to)
           \/ Return(Decoder)
        /\ pc[Decoder] \in ReadPCs \cup {"booted"}
    BY <1>2 DEF Booted, IsAllowed, Avail, EnoughToRead, LastCut, GiveUp, GoOn, ReadPCs,
                ring, positions, source, reading, rest
  <2>2. SameData
    BY <2>1 DEF SameData, Fresh
  <2>3. pc'[Decoder] \in {"startreads", "await", "avail", "first", "again", "wait", "last",
                          "copy", "idle"}
    BY <2>1, <1>dec, Goes, Returns
  <2> QED BY <2>1, <2>2, <2>3, DataGoes DEF Changing, ReadPCs
<1>3. CASE NotAllowed
  <2>1. /\ UNCHANGED <<rbrpos, rbwpos, readAheadBuffer, readpos, internalreadpos, file, fpos,
                       ret>>
        /\ mishaps' # {} \/ (mishaps' = mishaps /\ Go(Decoder, "booted"))
        /\ pc[Decoder] = "await"
    BY <1>3 DEF NotAllowed, ring, positions, source, reading
  <2>2. SameData
    BY <2>1 DEF SameData, Fresh
  <2>3. CASE mishaps' # {}
    BY <2>3 DEF DataOK
  <2>4. CASE mishaps' = mishaps /\ Go(Decoder, "booted")
    <3>1. pc'[Decoder] = "booted"
      BY <2>4, <1>dec, Goes
    <3> QED BY <2>1, <2>2, <2>4, <3>1, DataGoes DEF Changing
  <2> QED BY <2>1, <2>3, <2>4
<1>4. CASE Copy
  <2>1. /\ mishaps' = mishaps /\ pc[Decoder] = "copy"
        /\ Go(Decoder, "pause") \/ Return(Decoder)
    BY <1>4 DEF Copy, GoOn, rest
  <2>2. pc'[Decoder] \in {"pause", "idle"}
    BY <2>1, <1>dec, Goes, Returns
  <2>3. mishaps = {} => InOrder'
    BY <1>4, <2>1, CopyInOrder DEF DataOK, Changing
  <2> QED BY <2>1, <2>2, <2>3 DEF DataOK, Changing
<1>5. CASE OpenFile
  <2>1. /\ pc[Decoder] = "open" /\ fpos' = 0 /\ Go(Decoder, "bitrate")
        /\ UNCHANGED <<rbrpos, rbwpos, readpos, internalreadpos, tpc, ret, mishaps>>
    BY <1>5 DEF OpenFile, GoOn, ring, positions, reading, rest
  <2>2. pc'[Decoder] = "bitrate" /\ call'[Decoder] = call[Decoder]
    BY <2>1, <1>dec, Goes
  <2> SUFFICES ASSUME mishaps = {} PROVE ChangeOK'
    BY <2>1, <2>2 DEF DataOK, Changing
  <2>3. ChangeOK
    BY <2>1 DEF DataOK, Changing
  <2>4. Fresh' = Fresh
    BY <2>1 DEF Fresh
  <2> QED BY <2>1, <2>2, <2>3, <2>4 DEF ChangeOK
<1> QED BY <1>1, <1>2, <1>3, <1>4, <1>5 DEF ReadStep

\* The steps with rwlock locked for writing, for which the thread does not read.
LEMMA LockData ==
  ASSUME TypeOK, TypeOK', CallsOK, ThreadOK, RingOK, DataOK, LockStep
  PROVE  DataOK'
<1>dec. Decoder \in Clients /\ Control \in Clients /\ Decoder # Control
  BY TwoClients
<1>ring. 0 \in Nat /\ 0 \in 0..(Size - 1)
  BY Numbers
<1>1. tpc \notin {"read", "end"} /\ UNCHANGED <<tpc, ret, mishaps>>
  BY DEF LockStep, Seek, Reset, UpdateRawBitrate, ThreadHasLock, reading, rest
<1>2. Fresh = 0 /\ Fresh' = 0
  BY <1>1 DEF RingOK, Fresh
<1> SUFFICES ASSUME mishaps = {} PROVE DataOK'
  BY <1>1 DEF DataOK
<1>3. CASE Seek
  <2>1. pc[Decoder] = "seek" /\ pc'[Decoder] = "idle"
    BY <1>3, <1>dec, Returns DEF Seek
  <2>2. CASE target = readpos
    <3>1. UNCHANGED <<rbrpos, rbwpos, readAheadBuffer, readpos, internalreadpos, file, fpos>>
      BY <1>3, <2>2 DEF Seek, ring, positions
    <3>2. SameData
      BY <3>1, <1>2 DEF SameData
    <3> QED BY <1>1, <2>1, <3>2, DataGoes DEF Changing
  <2>3. CASE target # readpos
    <3>1. /\ fpos' = target /\ readpos' = target /\ internalreadpos' = target
          /\ rbrpos' = 0 /\ rbwpos' = 0
      BY <1>3, <2>3 DEF Seek, ResetReadAhead
    <3>2. target \in Nat
      BY TypeParts, Numbers DEF LocalsTyped
    <3>3. InOrder'
      BY <3>1, <3>2, <1>2, <1>ring, EmptyInOrder
    <3> QED BY <2>1, <3>3 DEF DataOK, Changing
  <2> QED BY <2>2, <2>3
<1>4. CASE Reset
  <2>1. /\ pc[Decoder] = "reset" /\ fpos' = fpos
        /\ readpos' = 0 /\ internalreadpos' = 0 /\ rbrpos' = 0 /\ rbwpos' = 0
        /\ Go(Decoder, IF call[Decoder] = "JumpToProgram" THEN "open" ELSE "startreads")
    BY <1>4 DEF Reset, ResetReadAhead, GoOn, source
  <2>2. /\ pc'[Decoder] = IF call[Decoder] = "JumpToProgram" THEN "open" ELSE "startreads"
        /\ call'[Decoder] = call[Decoder]
    BY <2>1, <1>dec, Goes
  <2>3. CASE call[Decoder] = "JumpToProgram"
    <3>1. ChangeOK'
      BY <2>1, <2>2, <2>3, <1>1, <1>2 DEF ChangeOK
    <3> QED BY <2>2, <2>3, <3>1 DEF DataOK, Changing
  <2>4. CASE call[Decoder] # "JumpToProgram"
    <3>1. call[Decoder] = "SwitchToProgram"
      BY <2>1, <2>4 DEF CallsOK, Changing, ChangeCalls
    <3>2. fpos = 0
      BY <2>1, <3>1 DEF DataOK, Changing, ChangeOK
    <3>3. InOrder'
      BY <2>1, <3>2, <1>2, <1>ring, EmptyInOrder
    <3> QED BY <2>2, <2>4, <3>3 DEF DataOK, Changing
  <2> QED BY <2>3, <2>4
<1>5. CASE UpdateRawBitrate
  <2>1. /\ pc[Decoder] = "bitrate"
        /\ UNCHANGED <<rbrpos, rbwpos, readpos, internalreadpos, file, fpos>>
        /\ Go(Decoder, IF call[Decoder] = "JumpToProgram" THEN "startreads" ELSE "reset")
    BY <1>5 DEF UpdateRawBitrate, GoOn, positions, source
  <2>2. /\ pc'[Decoder] = IF call[Decoder] = "JumpToProgram" THEN "startreads" ELSE "reset"
        /\ call'[Decoder] = call[Decoder]
    BY <2>1, <1>dec, Goes
  <2>3. ChangeOK
    BY <2>1 DEF DataOK, Changing
  <2>4. CASE call[Decoder] = "JumpToProgram"
    <3>1. fpos = 0 /\ internalreadpos = 0 /\ readpos = 0 /\ rbrpos = rbwpos
      BY <2>1, <2>3, <2>4 DEF ChangeOK
    <3>2. rbrpos' \in 0..(Size - 1)
      BY DEF TypeOK
    <3>3. InOrder'
      BY <2>1, <3>1, <3>2, <1>2, <1>ring, EmptyInOrder
    <3> QED BY <2>2, <2>4, <3>3 DEF DataOK, Changing
  <2>5. CASE call[Decoder] # "JumpToProgram"
    <3>1. ChangeOK'
      BY <2>1, <2>2, <2>3, <2>5, <1>1 DEF ChangeOK
    <3> QED BY <2>2, <2>5, <3>1 DEF DataOK, Changing
  <2> QED BY <2>4, <2>5
<1> QED BY <1>3, <1>4, <1>5 DEF LockStep

LEMMA DataStep ==
  ASSUME TypeOK, TypeOK', CallsOK, ThreadOK, RingOK, DataOK, [Next]_vars
  PROVE  DataOK'
<1>dec. Decoder \in Clients /\ Control \in Clients /\ Decoder # Control
  BY TwoClients
<1>dom. DOMAIN pc = Clients /\ DOMAIN call = Clients
  BY DEF CallsOK
<1>1. CASE ThreadStep
  BY <1>1, ThreadData
<1>2. ASSUME NEW c \in Clients, PauseStep(c) PROVE DataOK'
  BY <1>2, PauseData
<1>3. CASE ReadStep \/ GiveUp
  BY <1>3, ReadData
<1>4. CASE LockStep
  BY <1>4, LockData
<1>5. CASE DecoderCall
  <2>1. /\ UNCHANGED <<rbrpos, rbwpos, readAheadBuffer, readpos, internalreadpos, file, fpos,
                       ret, mishaps>>
        /\ \/ pc' = pc
           \/ \E to \in {"startreads", "await", "seek", "pause"} :
                pc' = [pc EXCEPT ![Decoder] = to]
        /\ pc[Decoder] = "idle"
    BY <1>5 DEF DecoderCall, ReadFromBuf, ChangeProgram, Calls, clients, ring, positions,
                source, reading, rest
  <2>2. SameData
    BY <2>1 DEF SameData, Fresh
  <2>3. pc'[Decoder] \in {"startreads", "await", "seek", "pause", "idle"}
    BY <2>1, <1>dec, <1>dom
  <2> QED BY <2>1, <2>2, <2>3, DataGoes DEF Changing
<1>6. CASE ControlCall \/ Drained
  <2>1. /\ UNCHANGED <<rbrpos, rbwpos, readAheadBuffer, readpos, internalreadpos, file, fpos,
                       ret, tpc, mishaps>>
        /\ pc'[Decoder] = pc[Decoder] /\ call'[Decoder] = call[Decoder]
    BY <1>6, <1>dec, <1>dom DEF ControlCall, Drained, Go, ring, positions, source, reading, rest
  <2>2. SameData
    BY <2>1 DEF SameData, Fresh
  <2> QED BY <2>1, <2>2, DataKept
<1>7. CASE KillReadAheadThread
  <2>1. pc'[Decoder] = "gone"
    BY <1>7, <1>dec, <1>dom DEF KillReadAheadThread
  <2> QED BY <2>1 DEF DataOK
<1>8. CASE AppendNewProgram \/ UNCHANGED vars
  <2>1. UNCHANGED <<rbrpos, rbwpos, readAheadBuffer, readpos, internalreadpos, file, fpos,
                    ret, tpc, mishaps, pc, call>>
    BY <1>8 DEF AppendNewProgram, vars, ring, positions, source, reading, clients, rest
  <2>2. SameData
    BY <2>1 DEF SameData, Fresh
  <2> QED BY <2>1, <2>2, DataKept
<1> QED
  BY <1>1, <1>2, <1>3, <1>4, <1>5, <1>6, <1>7, <1>8 DEF Next

-----------------------------------------------------------------------------
(* The theorems                                                            *)

\* The inductive invariant holds in every behaviour.
LEMMA Invariant == Spec => []IInv
<1>1. Init => IInv
  BY TypeInit, CallsInit, ThreadInit, RingInit, DataInit DEF IInv
<1>2. IInv /\ [Next]_vars => IInv'
  <2> SUFFICES ASSUME IInv, [Next]_vars PROVE IInv' OBVIOUS
  <2>1. TypeOK /\ CallsOK /\ ThreadOK /\ RingOK /\ DataOK
    BY DEF IInv
  <2>2. TypeOK'
    BY <2>1, TypeStep
  <2>3. CallsOK'
    BY <2>1, CallsStep
  <2>4. ThreadOK'
    BY <2>1, ThreadStepOK
  <2>5. RingOK'
    <3>1. RoomOK' /\ FoundOK'
      BY <2>1, <2>2, RoomStep, FoundStep
    <3> QED BY <3>1, RingParts, PTL
  <2>6. DataOK'
    BY <2>1, <2>2, DataStep
  <2> QED BY <2>2, <2>3, <2>4, <2>5, <2>6 DEF IInv
<1> QED BY <1>1, <1>2, PTL DEF Spec

\* Every variable keeps its type: the positions stay in the ring, the block within
\* its limit, the offset in the file, and each client in its own calls.
THEOREM TypeCorrect == Spec => []TypeOK
<1>1. IInv => TypeOK
  BY DEF IInv
<1> QED BY <1>1, Invariant, PTL

\* The thread reads into slots from which the decoder's thread does not copy,
\* though no lock keeps them apart: each goes by positions that it has read
\* before, and the other one has moved them on only in its favour.
THEOREM NoOverlapHolds == Spec => []NoOverlap
<1>1. IInv => NoOverlap
  <2> SUFFICES ASSUME IInv, tpc = "read", pc[Decoder] = "copy", "startreads" \notin mishaps,
                      NEW j \in 0..(totfree - 1), NEW i \in 0..(count - 1)
               PROVE  (rbwpos + j) % Size # (rbrpos + i) % Size
    BY Zenon DEF NoOverlap, Slots
  <2>1. /\ rbrpos \in 0..(Size - 1) /\ rbwpos \in 0..(Size - 1)
        /\ totfree \in 0..(Size - 1) /\ count \in 0..Size
    BY TypeParts DEF IInv, RingTyped, ReadingTyped, LocalsTyped
  <2>2. /\ ReadBufAvail \in 0..(Size - 1) /\ ReadBufFree = Size - 1 - ReadBufAvail
        /\ ReadBufAvail = Used(rbrpos, rbwpos)
    BY <2>1, AvailFree DEF ReadBufAvail, Used
  <2>3. totfree <= ReadBufFree /\ rbwpos + totfree <= Size /\ count <= ReadBufAvail
    BY DEF IInv, RingOK
  <2>4. /\ totfree \in Nat /\ totfree <= Size - 1 - Used(rbrpos, rbwpos)
        /\ i \in 0..(Used(rbrpos, rbwpos) + totfree - 1) /\ i < Used(rbrpos, rbwpos)
    BY <2>1, <2>2, <2>3, Numbers
  <2>5. (rbrpos + i) % Size \notin rbwpos..(rbwpos + totfree - 1)
    BY <2>1, <2>3, <2>4, UsedOrFree
  <2>6. (rbwpos + j) % Size = rbwpos + j
    <3> DEFINE p == rbwpos + j
    <3>1. p \in 0..(2 * Size - 1) /\ p < Size
      BY <2>1, <2>3, Numbers
    <3>2. p % Size = p
      <4> HIDE DEF p
      <4> QED BY <3>1, Wrap
    <3> QED BY <3>2
  <2>7. rbwpos + j \in rbwpos..(rbwpos + totfree - 1)
    BY <2>1, Numbers
  <2> QED BY <2>5, <2>6, <2>7
<1> QED BY <1>1, Invariant, PTL

\* Read and Peek return the bytes of the open file from where the last Read or
\* Seek left off, whatever the threads do in between.
THEOREM ReadsAreTheFileHolds == Spec => []ReadsAreTheFile
<1>1. IInv => ReadsAreTheFile
  <2> SUFFICES ASSUME IInv, pc[Decoder] = "copy", mishaps = {}, NEW i \in 0..(count - 1)
               PROVE  readAheadBuffer[(rbrpos + i) % Size] = <<file, readpos + i>>
    BY DEF ReadsAreTheFile
  <2>1. InOrder
    BY DEF IInv, DataOK, Changing
  <2>2. i \in 0..(ReadBufAvail + Fresh - 1)
    <3>1. ReadBufAvail \in 0..(Size - 1) /\ Fresh \in 0..(Size - 1)
      BY FreshFits DEF IInv
    <3>2. count <= ReadBufAvail /\ count \in 0..Size
      BY DEF IInv, RingOK, TypeOK
    <3> QED BY <3>1, <3>2, Numbers
  <2> QED BY <2>1, <2>2 DEF InOrder
<1> QED BY <1>1, Invariant, PTL

=============================================================================
