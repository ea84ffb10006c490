---------------------- MODULE ThreadedFileWriterProofs ----------------------
(***************************************************************************)
(* Proofs about ThreadedFileWriter: its type invariant and its safety      *)
(* properties hold for every set of clients, buffer size, write size,      *)
(* watermark and set of faults.                                            *)
(***************************************************************************)
EXTENDS ThreadedFileWriter, SequenceTheorems, TLAPS

-----------------------------------------------------------------------------
(* The inductive invariant                                                 *)

\* The call a client is in; a Flush counts as the call it was made for.
Within(c) == IF cpc[c] = "flush" THEN after[c] ELSE cpc[c]

\* The bytes safe_write has dealt with that rpos has not passed yet.
Done == IF dpc = "advance" THEN size ELSE 0

\* Who may be in which call: only the recorder writes and seeks, no write
\* runs beside a resize, and only the destructor runs once no_writes is set.
ClientsOK ==
  /\ \A c \in Clients : cpc[c] # "flush" => after[c] = "idle"
  /\ \A c \in Clients :
       cpc[c] = "flush" => after[c] \in {"sync", "lseek", "resize", "exit"}
  /\ \A c \in Clients \ {Writer} :
       Within(c) \notin {"reserve", "copy", "advance", "lseek"}
  /\ \A c \in Clients : Within(c) = "resize" =>
       Within(Writer) \in {"idle", "sync", "resize"}
  /\ \A c \in Clients : Within(c) \in {"exit", "join"} => no_writes
  /\ no_writes => \A c \in Clients : Within(c) \in {"idle", "exit", "join"}

\* What a Flush establishes stays true until its caller has used it.
FlushedOK ==
  /\ \A c \in Clients :
       cpc[c] \in {"lseek", "resize", "exit", "join"} => BufUsedPriv = 0
  /\ \A c \in Clients :
       cpc[c] = "sync" => mark[c] <= Len(disk) \/ ignore_writes
  /\ \A c \in Clients : mark[c] <= put
  /\ fd = "closed" => no_writes /\ BufUsedPriv = 0 /\ dpc = "done"

\* The locals of Write and of DiskLoop agree with the ring.
LocalsOK ==
  /\ IF cpc[Writer] \in {"reserve", "copy", "advance"}
     THEN remaining >= 1 /\ remaining <= count
     ELSE remaining = 0 /\ count = 0
  /\ cpc[Writer] \in {"copy", "advance"} =>
       /\ twpos = wpos /\ bytes >= 1 /\ bytes <= remaining
       /\ BufUsedPriv + bytes < tfw_buf_size
  /\ dpc \in {"write", "advance"} => size <= BufUsedPriv
  /\ dpc = "write" => trpos = rpos /\ size >= 1
  /\ dpc = "advance" => trpos = rpos \/ size = 0

\* The ring holds the last bytes of the stream, in order.
RingOK ==
  /\ BufUsedPriv <= put
  /\ \A i \in 0..(BufUsedPriv - 1) :
       buf[Wrap(rpos + i)] = put - BufUsedPriv + 1 + i
  /\ cpc[Writer] = "advance" =>
       \A i \in 0..(bytes - 1) : buf[Wrap(wpos + i)] = put + 1 + i

\* The file holds the bytes before those, each where it was meant to go; and
\* the next one will be written where it is meant to go.
DiskOK ==
  /\ Len(want) = put
  /\ Len(disk) <= put
  /\ \A i \in 1..Len(disk) : disk[i].byte = i /\ disk[i].at = want[i]
  /\ ~ignore_writes =>
       /\ Len(disk) = put - BufUsedPriv + Done
       /\ \A i \in (Len(disk) + 1)..put : want[i] = fpos + (i - Len(disk) - 1)
       /\ writepos + (count - remaining) = fpos + (put - Len(disk))

IInv ==
  /\ TypeOK /\ ClientsOK /\ FlushedOK /\ LocalsOK /\ RingOK /\ DiskOK

-----------------------------------------------------------------------------
(* Lemmas about the ring and about sequences                               *)

\* A function on 1..n is a sequence.
LEMMA FunIsSeq ==
  ASSUME NEW T, NEW n \in Nat, NEW t \in [1..n -> T]
  PROVE  t \in Seq(T) /\ Len(t) = n
<1>1. t \in Seq(T)  OBVIOUS
<1>2. Len(t) = n    OBVIOUS
<1> QED BY <1>1, <1>2

\* The size of the buffer, and the positions in it.
LEMMA BufSize ==
  ASSUME TypeOK
  PROVE  /\ tfw_buf_size \in Nat /\ tfw_buf_size >= 2
         /\ rpos \in 0..(tfw_buf_size - 1) /\ wpos \in 0..(tfw_buf_size - 1)
BY TFWAssumption DEF TypeOK

\* The used and the free space add up to one less than the size.
LEMMA UsedFree ==
  ASSUME TypeOK
  PROVE  /\ BufUsedPriv \in 0..(tfw_buf_size - 1)
         /\ BufFreePriv = tfw_buf_size - 1 - BufUsedPriv
BY BufSize DEF BufUsedPriv, BufFreePriv

\* Wrap yields a slot.
LEMMA WrapIn ==
  ASSUME TypeOK
  PROVE  \A p \in Int : Wrap(p) \in 0..(tfw_buf_size - 1)
<1> SUFFICES ASSUME NEW p \in Int PROVE Wrap(p) \in 0..(tfw_buf_size - 1)
  OBVIOUS
<1> QED BY BufSize DEF Wrap

\* A position less than one lap ahead wraps by at most one subtraction.
LEMMA WrapLow ==
  ASSUME TypeOK
  PROVE  \A p \in 0..(2*tfw_buf_size - 1) : Wrap(p) = IF p < tfw_buf_size THEN p ELSE p - tfw_buf_size
<1> SUFFICES ASSUME NEW p \in 0..(2*tfw_buf_size - 1) PROVE Wrap(p) = IF p < tfw_buf_size THEN p ELSE p - tfw_buf_size
  OBVIOUS
<1> QED BY BufSize DEF Wrap

-----------------------------------------------------------------------------
(* Type correctness                                                        *)

LEMMA TypeInit == Init => TypeOK
<1> SUFFICES ASSUME Init PROVE TypeOK OBVIOUS
<1>1. tfw_buf_size \in Nat /\ tfw_buf_size >= 2 /\ tfw_buf_size \in BufSizes
  BY TFWAssumption DEF Init
<1>2. disk \in Seq([byte : Nat, at : Nat]) /\ want \in Seq(Nat)
  BY DEF Init
<1>3. buf \in [0..(tfw_buf_size - 1) -> Nat]
  BY DEF Init
<1>4. cpc \in [Clients -> ClientPC] /\ after \in [Clients -> ClientPC] /\ mark \in [Clients -> Nat]
  BY DEF Init, ClientPC
<1>5. flush \in BOOLEAN /\ no_writes \in BOOLEAN /\ in_dtor \in BOOLEAN /\ ignore_writes \in BOOLEAN
  BY DEF Init
<1>6. rpos \in 0..(tfw_buf_size - 1) /\ wpos \in 0..(tfw_buf_size - 1)
  BY <1>1 DEF Init
<1>7.   /\ written \in Nat /\ size \in Nat /\ trpos \in Nat
  /\ dpc \in {"test", "take", "write", "advance", "done"}
  /\ spc \in {"test", "sync", "done"}
  BY DEF Init
<1>8.
  /\ count \in Nat /\ remaining \in Nat /\ twpos \in Nat /\ bytes \in Nat
  /\ writepos \in Nat
  /\ fd \in {"open", "closed"} /\ fpos \in Nat /\ flen \in Nat
  /\ synced \in Nat
  /\ put \in Nat
  BY DEF Init
<1> QED
BY <1>1, <1>2, <1>3, <1>4, <1>5, <1>6, <1>7, <1>8 DEF TypeOK

\* What a transfer of n bytes appends to the file.
LEMMA Transferred ==
  ASSUME TypeOK, NEW n \in Nat, Transfer(n)
  PROVE  /\ disk' \in Seq([byte : Nat, at : Nat])
         /\ Len(disk') = Len(disk) + n
         /\ \A i \in 1..Len(disk) : disk'[i] = disk[i]
         /\ \A i \in 1..n : disk'[Len(disk) + i] =
              [byte |-> buf[Wrap(trpos + i - 1)], at |-> fpos + i - 1]
<1> DEFINE t == [i \in 1..n |-> [byte |-> buf[Wrap(trpos + i - 1)],
                                at   |-> fpos + i - 1]]
<1>nats. /\ trpos \in Nat /\ fpos \in Nat
         /\ buf \in [0..(tfw_buf_size - 1) -> Nat]
  BY DEF TypeOK
<1>wrap. \A p \in Int : Wrap(p) \in 0..(tfw_buf_size - 1)
  BY WrapIn
<1>1. ASSUME NEW i \in 1..n PROVE t[i] \in [byte : Nat, at : Nat]
  <2>1. trpos + i - 1 \in Int
    BY <1>nats
  <2>2. Wrap(trpos + i - 1) \in 0..(tfw_buf_size - 1)
    BY <1>wrap, <2>1
  <2>3. fpos + i - 1 \in Nat
    BY <1>nats
  <2>4. buf[Wrap(trpos + i - 1)] \in Nat
    BY <1>nats, <2>2
  <2> QED BY <2>3, <2>4
<1>2. t \in [1..n -> [byte : Nat, at : Nat]]
  BY <1>1
<1>3. t \in Seq([byte : Nat, at : Nat]) /\ Len(t) = n
  BY <1>2, FunIsSeq
<1>4. disk \in Seq([byte : Nat, at : Nat]) /\ disk' = disk \o t
  BY DEF Transfer, TypeOK
<1>5. /\ disk' \in Seq([byte : Nat, at : Nat])
      /\ Len(disk') = Len(disk) + n
      /\ \A i \in 1..(Len(disk) + n) :
           disk'[i] = IF i <= Len(disk) THEN disk[i] ELSE t[i - Len(disk)]
  BY <1>3, <1>4, ConcatProperties
<1>6. Len(disk) \in Nat
  BY <1>4, LenProperties
<1>7. ASSUME NEW i \in 1..Len(disk) PROVE disk'[i] = disk[i]
  <2>1. i \in 1..(Len(disk) + n) /\ i <= Len(disk)
    BY <1>6
  <2> QED BY <1>5, <2>1
<1>8. ASSUME NEW i \in 1..n
      PROVE  disk'[Len(disk) + i] =
               [byte |-> buf[Wrap(trpos + i - 1)], at |-> fpos + i - 1]
  <2>1. /\ Len(disk) + i \in 1..(Len(disk) + n) /\ ~(Len(disk) + i <= Len(disk))
        /\ (Len(disk) + i) - Len(disk) = i
    BY <1>6
  <2>2. disk'[Len(disk) + i] = t[(Len(disk) + i) - Len(disk)]
    BY <1>5, <2>1
  <2> QED BY <2>1, <2>2
<1> QED BY <1>5, <1>7, <1>8

LEMMA TypeStep ==
  ASSUME TypeOK, LocalsOK, [Next]_vars
  PROVE  TypeOK'
<1> USE DEF ring, flags, diskLoc, cliLoc, wrLoc, file, stream, ClientPC
<1>size. tfw_buf_size \in Nat /\ tfw_buf_size >= 2
  BY BufSize
<1>space. BufUsedPriv \in Nat /\ BufFreePriv \in Nat
  BY <1>size, UsedFree
<1>wrap. \A p \in Int : Wrap(p) \in 0..(tfw_buf_size - 1)
  BY WrapIn
<1>nats. /\ rpos \in Nat /\ wpos \in Nat /\ size \in Nat /\ trpos \in Nat
         /\ twpos \in Nat /\ bytes \in Nat /\ remaining \in Nat /\ count \in Nat
         /\ put \in Nat /\ fpos \in Nat /\ writepos \in Nat
  BY <1>size DEF TypeOK
<1>buf. buf \in [0..(tfw_buf_size - 1) -> Nat]
  BY DEF TypeOK
<1>writer. Writer \in Clients
  BY TFWAssumption
<1>1. ASSUME NEW n \in 1..MaxStream, WriteCall(n) PROVE TypeOK'
  BY <1>1, TFWAssumption DEF WriteCall, TypeOK
<1>2. CASE WriteReserve
  <2>1. Chunk \in Nat
    BY <1>space, <1>nats DEF Chunk, Least
  <2>2. cpc' \in [Clients -> ClientPC] /\ twpos' \in Nat /\ bytes' \in Nat
    BY <1>2, <1>writer, <1>nats, <2>1 DEF WriteReserve, TypeOK
  <2> QED BY <1>2, <2>2 DEF WriteReserve, TypeOK
<1>3. CASE WriteCopy
  <2>1. \A s \in 0..(tfw_buf_size - 1) : Wrap(s + tfw_buf_size - twpos) \in Nat
    BY <1>size, <1>wrap, <1>nats
  <2>2. \A s \in 0..(tfw_buf_size - 1) :
          put + 1 + Wrap(s + tfw_buf_size - twpos) \in Nat
    BY <1>nats, <2>1
  <2>3. buf' \in [0..(tfw_buf_size - 1) -> Nat]
    BY <1>3, <1>buf, <2>2 DEF WriteCopy
  <2>4. cpc' \in [Clients -> ClientPC]
    BY <1>3, <1>writer DEF WriteCopy, TypeOK
  <2>5. /\ count' \in Nat /\ remaining' \in Nat /\ twpos' \in Nat
        /\ bytes' \in Nat
    BY <1>3, <1>nats DEF WriteCopy
  <2>6. UNCHANGED <<rpos, wpos, tfw_buf_size, flags, written, diskLoc, spc, after,
                    mark, writepos, file, synced, stream>>
    BY <1>3 DEF WriteCopy
  <2> QED BY <2>3, <2>4, <2>5, <2>6 DEF TypeOK
<1>4. CASE WriteAdvance
  <2>1. bytes <= remaining /\ remaining <= count
    BY <1>4 DEF WriteAdvance, LocalsOK
  <2>2. Wrap(wpos + bytes) \in 0..(tfw_buf_size - 1)
    BY <1>wrap, <1>nats
  <2>3. [i \in 1..bytes |-> writepos + (count - remaining) + i - 1]
          \in [1..bytes -> Nat]
    BY <1>nats, <2>1
  <2>4. [i \in 1..bytes |-> writepos + (count - remaining) + i - 1]
          \in Seq(Nat)
    BY <1>nats, <2>3, FunIsSeq
  <2>5. want' \in Seq(Nat)
    BY <1>4, <2>4, ConcatProperties DEF WriteAdvance, TypeOK
  <2>6. wpos' \in 0..(tfw_buf_size - 1)
    BY <1>4, <2>2 DEF WriteAdvance, TypeOK
  <2>7. remaining' \in Nat /\ put' \in Nat /\ writepos' \in Nat /\ count' \in Nat
    BY <1>4, <1>nats, <2>1 DEF WriteAdvance
  <2>8. /\ cpc' \in [Clients -> ClientPC] /\ twpos' = 0 /\ bytes' = 0
        /\ UNCHANGED <<rpos, tfw_buf_size, buf, flags, written, diskLoc, spc,
                       after, mark, file, synced>>
    BY <1>4, <1>writer DEF WriteAdvance, TypeOK
  <2> QED BY <2>5, <2>6, <2>7, <2>8 DEF TypeOK
<1>5. ASSUME NEW c \in Clients, FlushEnd(c) PROVE TypeOK'
  BY <1>5 DEF FlushEnd, TypeOK
<1>6. ASSUME NEW c \in Clients, ClientSync(c) PROVE TypeOK'
  BY <1>6 DEF ClientSync, Return, TypeOK
<1>7. ASSUME NEW c \in Clients, DtorExit(c) PROVE TypeOK'
  BY <1>7 DEF DtorExit, TypeOK
<1>8. ASSUME NEW c \in Clients, DtorJoin(c) PROVE TypeOK'
  BY <1>8 DEF DtorJoin, Return, TypeOK
<1>9. ASSUME NEW c \in Clients, NEW s \in BufSizes, Resize(c, s) PROVE TypeOK'
  <2>1. s \in Nat /\ s >= 2
    BY TFWAssumption
  <2> QED BY <1>9, <2>1 DEF Resize, Return, TypeOK
<1>10. ASSUME NEW c \in Clients, WriterFlush(c) PROVE TypeOK'
  BY <1>10 DEF WriterFlush, FlushBegin, TypeOK
<1>11. ASSUME NEW c \in Clients, SetWriteBufferSize(c) PROVE TypeOK'
  BY <1>11 DEF SetWriteBufferSize, FlushBegin, TypeOK
<1>12. ASSUME NEW c \in Clients, Destroy(c) PROVE TypeOK'
  BY <1>12 DEF Destroy, FlushBegin, TypeOK
<1>13. CASE Seek
  BY <1>13, TFWAssumption DEF Seek, FlushBegin, TypeOK
<1>14. ASSUME NEW pos \in 0..flen, LSeek(pos) PROVE TypeOK'
  BY <1>14, TFWAssumption DEF LSeek, Return, TypeOK
<1>15. CASE DiskTest \/ DiskTake
  <2>1. Least(BufUsedPriv, MaxWrite) \in Nat
    BY <1>space, TFWAssumption DEF Least
  <2>2. size' \in Nat /\ trpos' \in Nat
    BY <1>15, <1>nats, <2>1 DEF DiskTest, DiskTake
  <2>3. dpc' \in {"test", "take", "write", "advance", "done"}
    BY <1>15 DEF DiskTest, DiskTake
  <2>4. UNCHANGED <<ring, flags, written, spc, cliLoc, wrLoc, writepos, file,
                    synced, stream>>
    BY <1>15 DEF DiskTest, DiskTake
  <2> QED BY <2>2, <2>3, <2>4 DEF TypeOK
<1>16. ASSUME NEW n \in 0..size, Transfer(n), Account(n),
             ignore_writes' \in BOOLEAN
       PROVE  TypeOK'
  <2>n. n \in Nat
    BY <1>nats
  <2>4. disk' \in Seq([byte : Nat, at : Nat])
    BY <1>16, <2>n, Transferred
  <2>5. fpos' \in Nat /\ flen' \in Nat /\ written' \in Nat
    BY <1>16, <2>n DEF Transfer, Account, TypeOK
  <2> QED BY <1>16, <2>n, <2>4, <2>5 DEF Transfer, Account, TypeOK
<1>17. CASE DiskWrite
  <2>1. size \in 0..size
    BY <1>nats
  <2>2. ignore_writes' \in BOOLEAN
    BY <1>17 DEF DiskWrite, TypeOK
  <2> QED BY <1>16, <1>17, <2>1, <2>2 DEF DiskWrite
<1>18. ASSUME NEW n \in 0..(size - 1), NEW e \in Faults, DiskFault(n, e)
       PROVE  TypeOK'
  <2>1. n \in 0..size
    BY <1>nats
  <2> QED BY <1>16, <1>18, <2>1 DEF DiskFault
<1>19. CASE DiskDiscard
  BY <1>19 DEF DiskDiscard, Account, TypeOK
<1>20. CASE DiskAdvance
  <2>1. Wrap(rpos + size) \in 0..(tfw_buf_size - 1)
    BY <1>wrap, <1>nats
  <2>2. rpos' \in 0..(tfw_buf_size - 1)
    BY <1>20, <2>1 DEF DiskAdvance, TypeOK
  <2> QED BY <1>20, <2>2 DEF DiskAdvance, TypeOK
<1>21. CASE SyncTest \/ SyncLoop
  <2>1. Len(disk) \in Nat
    BY LenProperties DEF TypeOK
  <2>2. /\ synced' \in Nat /\ spc' \in {"test", "sync", "done"}
        /\ UNCHANGED <<ring, flags, written, diskLoc, cliLoc, wrLoc, writepos, file,
                       stream>>
    BY <1>21, <2>1 DEF SyncTest, SyncLoop, TypeOK
  <2> QED BY <2>2 DEF TypeOK
<1>22. CASE UNCHANGED vars
  BY <1>22 DEF vars, TypeOK
<1> QED
  BY <1>1, <1>2, <1>3, <1>4, <1>5, <1>6, <1>7, <1>8, <1>9, <1>10, <1>11, <1>12,
     <1>13, <1>14, <1>15, <1>17, <1>18, <1>19, <1>20, <1>21, <1>22
     DEF Next, Call, WriteStep, SeekStep, DiskStep, SyncStep, CallStep, Closed

-----------------------------------------------------------------------------
(* Which client may be in which call                                       *)

LEMMA ClientsStep ==
  ASSUME TypeOK, ClientsOK, [Next]_vars
  PROVE  ClientsOK'
<1> USE DEF ring, flags, diskLoc, cliLoc, wrLoc, file, stream
<1>cpc. /\ cpc \in [Clients -> ClientPC] /\ after \in [Clients -> ClientPC]
        /\ no_writes \in BOOLEAN /\ Writer \in Clients
  BY TFWAssumption DEF TypeOK
<1>1. ASSUME NEW n \in 1..MaxStream, WriteCall(n) PROVE ClientsOK'
  BY <1>1, <1>cpc DEF WriteCall, Resizing, ClientsOK, Within
<1>2. CASE WriteReserve \/ WriteCopy \/ WriteAdvance
  BY <1>2, <1>cpc DEF WriteReserve, WriteCopy, WriteAdvance, ClientsOK, Within
<1>5. ASSUME NEW c \in Clients, FlushEnd(c) PROVE ClientsOK'
  BY <1>5, <1>cpc DEF FlushEnd, ClientsOK, Within
<1>6. ASSUME NEW c \in Clients, ClientSync(c) PROVE ClientsOK'
  BY <1>6, <1>cpc DEF ClientSync, Return, ClientsOK, Within
<1>7. ASSUME NEW c \in Clients, DtorExit(c) PROVE ClientsOK'
  BY <1>7, <1>cpc DEF DtorExit, ClientsOK, Within
<1>8. ASSUME NEW c \in Clients, DtorJoin(c) PROVE ClientsOK'
  BY <1>8, <1>cpc DEF DtorJoin, Return, ClientsOK, Within
<1>9. ASSUME NEW c \in Clients, NEW s \in BufSizes, Resize(c, s) PROVE ClientsOK'
  BY <1>9, <1>cpc DEF Resize, Return, ClientsOK, Within
<1>10. ASSUME NEW c \in Clients, WriterFlush(c) PROVE ClientsOK'
  BY <1>10, <1>cpc DEF WriterFlush, FlushBegin, ClientsOK, Within
<1>11. ASSUME NEW c \in Clients, SetWriteBufferSize(c) PROVE ClientsOK'
  BY <1>11, <1>cpc DEF SetWriteBufferSize, FlushBegin, ClientsOK, Within
<1>12. ASSUME NEW c \in Clients, Destroy(c) PROVE ClientsOK'
  BY <1>12, <1>cpc DEF Destroy, FlushBegin, ClientsOK, Within
<1>13. CASE Seek
  BY <1>13, <1>cpc DEF Seek, Resizing, FlushBegin, ClientsOK, Within
<1>14. ASSUME NEW pos \in 0..flen, LSeek(pos) PROVE ClientsOK'
  BY <1>14, <1>cpc DEF LSeek, Return, ClientsOK, Within
<1>15. CASE UNCHANGED <<cpc, after, no_writes>>
  BY <1>15 DEF ClientsOK, Within
<1> QED
  BY <1>1, <1>2, <1>5, <1>6, <1>7, <1>8, <1>9, <1>10, <1>11, <1>12, <1>13, <1>14,
     <1>15
     DEF Next, Call, WriteStep, SeekStep, DiskStep, SyncStep, CallStep, Closed,
         DiskTest, DiskTake, DiskWrite, DiskFault, DiskDiscard, Account,
         DiskAdvance, SyncTest, SyncLoop, vars

-----------------------------------------------------------------------------
(* How the used space changes                                              *)

LEMMA UsedSame ==
  ASSUME UNCHANGED <<rpos, wpos, tfw_buf_size>>
  PROVE  BufUsedPriv' = BufUsedPriv
BY DEF BufUsedPriv

LEMMA UsedByWrite ==
  ASSUME TypeOK, LocalsOK, WriteAdvance
  PROVE  BufUsedPriv' = BufUsedPriv + bytes
<1>1. /\ twpos = wpos /\ bytes \in Nat
      /\ BufUsedPriv + bytes < tfw_buf_size
      /\ wpos' = Wrap(wpos + bytes) /\ rpos' = rpos
      /\ tfw_buf_size' = tfw_buf_size
  BY DEF WriteAdvance, LocalsOK, TypeOK
<1>2. wpos + bytes \in 0..(2 * tfw_buf_size - 1)
  BY <1>1, BufSize, UsedFree
<1>3. wpos' = IF wpos + bytes < tfw_buf_size THEN wpos + bytes
              ELSE wpos + bytes - tfw_buf_size
  <2>1. \A p \in 0..(2 * tfw_buf_size - 1) :
          Wrap(p) = IF p < tfw_buf_size THEN p ELSE p - tfw_buf_size
    BY WrapLow
  <2> QED BY <1>1, <1>2, <2>1, BufSize
<1> QED BY <1>1, <1>3, BufSize, UsedFree DEF BufUsedPriv, BufFreePriv

LEMMA UsedByDisk ==
  ASSUME TypeOK, LocalsOK, DiskAdvance
  PROVE  BufUsedPriv' = BufUsedPriv - size
<1>1. /\ size \in Nat /\ size <= BufUsedPriv /\ (trpos = rpos \/ size = 0)
      /\ rpos' = IF trpos = rpos THEN Wrap(rpos + size) ELSE rpos
      /\ wpos' = wpos /\ tfw_buf_size' = tfw_buf_size
  BY DEF DiskAdvance, LocalsOK, TypeOK
<1>2. rpos + size \in 0..(2 * tfw_buf_size - 1)
  BY <1>1, BufSize, UsedFree
<1>3. Wrap(rpos + size) = IF rpos + size < tfw_buf_size THEN rpos + size
                          ELSE rpos + size - tfw_buf_size
  <2>1. \A p \in 0..(2 * tfw_buf_size - 1) :
          Wrap(p) = IF p < tfw_buf_size THEN p ELSE p - tfw_buf_size
    BY WrapLow
  <2> QED BY <1>1, <1>2, <2>1, BufSize
<1> QED BY <1>1, <1>3, BufSize, UsedFree DEF BufUsedPriv

LEMMA UsedByResize ==
  ASSUME NEW c \in Clients, NEW s \in BufSizes, Resize(c, s)
  PROVE  BufUsedPriv' = 0
BY DEF Resize, BufUsedPriv

-----------------------------------------------------------------------------
(* The locals of Write and of DiskLoop                                     *)

LEMMA LocalsStep ==
  ASSUME TypeOK, ClientsOK, FlushedOK, LocalsOK, [Next]_vars
  PROVE  LocalsOK'
<1> USE DEF ring, flags, diskLoc, cliLoc, wrLoc, file, stream
<1>cpc. cpc \in [Clients -> ClientPC] /\ Writer \in Clients
  BY TFWAssumption DEF TypeOK
<1>nats. /\ size \in Nat /\ bytes \in Nat /\ remaining \in Nat /\ count \in Nat
         /\ BufUsedPriv \in 0..(tfw_buf_size - 1) /\ tfw_buf_size \in Nat
         /\ BufFreePriv = tfw_buf_size - 1 - BufUsedPriv
  BY UsedFree, BufSize DEF TypeOK
<1>1. ASSUME NEW n \in 1..MaxStream, WriteCall(n) PROVE LocalsOK'
  <2>1. BufUsedPriv' = BufUsedPriv
    BY <1>1, UsedSame DEF WriteCall
  <2> QED BY <1>1, <1>cpc, <2>1 DEF WriteCall, LocalsOK
<1>2. CASE WriteReserve
  <2>1. BufUsedPriv' = BufUsedPriv
    BY <1>2, UsedSame DEF WriteReserve
  <2>2. /\ bytes' \in Nat /\ bytes' >= 1 /\ bytes' <= remaining
        /\ BufUsedPriv + bytes' < tfw_buf_size
    BY <1>2, <1>nats DEF WriteReserve, Chunk, Least, LocalsOK
  <2> QED BY <1>2, <1>cpc, <2>1, <2>2 DEF WriteReserve, LocalsOK
<1>3. CASE WriteCopy
  <2>1. BufUsedPriv' = BufUsedPriv
    BY <1>3, UsedSame DEF WriteCopy
  <2> QED BY <1>3, <1>cpc, <2>1 DEF WriteCopy, LocalsOK
<1>4. CASE WriteAdvance
  <2>1. BufUsedPriv' = BufUsedPriv + bytes
    BY <1>4, UsedByWrite
  <2> QED BY <1>4, <1>cpc, <1>nats, <2>1 DEF WriteAdvance, LocalsOK
<1>9. ASSUME NEW c \in Clients, NEW s \in BufSizes, Resize(c, s) PROVE LocalsOK'
  <2>1. BufUsedPriv' = 0 /\ BufUsedPriv = 0
    BY <1>9, UsedByResize DEF Resize, FlushedOK
  <2>2. cpc[Writer] \notin {"reserve", "copy", "advance", "lseek"}
    BY <1>9, <1>cpc DEF Resize, ClientsOK, Within
  <2>3. cpc'[Writer] \notin {"reserve", "copy", "advance", "lseek"}
    BY <1>9, <1>cpc, <2>2 DEF Resize, Return
  <2> QED BY <1>9, <1>nats, <2>1, <2>2, <2>3 DEF Resize, LocalsOK
<1>15. CASE DiskTake
  <2>1. BufUsedPriv' = BufUsedPriv
    BY <1>15, UsedSame DEF DiskTake
  <2>2. BufUsedPriv # 0 =>
          Least(BufUsedPriv, MaxWrite) \in 1..BufUsedPriv
    BY <1>nats, TFWAssumption DEF Least
  <2> QED BY <1>15, <1>nats, <2>1, <2>2 DEF DiskTake, LocalsOK
<1>16. ASSUME NEW n \in 0..size, dpc = "write", Account(n)
       PROVE  LocalsOK'
  <2>1. BufUsedPriv' = BufUsedPriv
    BY <1>16, UsedSame DEF Account
  <2> QED BY <1>16, <1>nats, <2>1 DEF Account, LocalsOK
<1>17. CASE DiskWrite \/ DiskDiscard
  <2>1. size \in 0..size
    BY <1>nats
  <2> QED BY <1>16, <1>17, <2>1 DEF DiskWrite, DiskDiscard
<1>18. ASSUME NEW n \in 0..(size - 1), NEW e \in Faults, DiskFault(n, e)
       PROVE  LocalsOK'
  <2>1. n \in 0..size
    BY <1>nats
  <2> QED BY <1>16, <1>18, <2>1 DEF DiskFault
<1>20. CASE DiskAdvance
  <2>1. BufUsedPriv' = BufUsedPriv - size
    BY <1>20, UsedByDisk
  <2> QED BY <1>20, <1>nats, <2>1 DEF DiskAdvance, LocalsOK
<1>21. ASSUME UNCHANGED <<ring, wrLoc, diskLoc>>,
              cpc'[Writer] = cpc[Writer] \/
                /\ cpc[Writer] \notin {"reserve", "copy", "advance"}
                /\ cpc'[Writer] \notin {"reserve", "copy", "advance"}
       PROVE  LocalsOK'
  <2>1. BufUsedPriv' = BufUsedPriv
    BY <1>21, UsedSame
  <2> QED BY <1>21, <2>1 DEF LocalsOK
<1>22. ASSUME NEW c \in Clients, CallStep(c) PROVE LocalsOK'
  <2>1. CASE FlushEnd(c)
    BY <1>21, <2>1, <1>cpc DEF FlushEnd, ClientsOK
  <2>2. CASE ClientSync(c) \/ DtorExit(c) \/ DtorJoin(c)
    BY <1>21, <2>2, <1>cpc DEF ClientSync, DtorExit, DtorJoin, Return
  <2> QED BY <1>9, <1>22, <2>1, <2>2 DEF CallStep
<1>23. ASSUME NEW c \in Clients,
              WriterFlush(c) \/ SetWriteBufferSize(c) \/ Destroy(c)
       PROVE  LocalsOK'
  BY <1>21, <1>23, <1>cpc
     DEF WriterFlush, SetWriteBufferSize, Destroy, FlushBegin
<1>24. CASE Seek
  BY <1>21, <1>24, <1>cpc DEF Seek, FlushBegin
<1>25. ASSUME NEW pos \in 0..flen, LSeek(pos) PROVE LocalsOK'
  BY <1>21, <1>25, <1>cpc DEF LSeek, Return
<1>26. CASE DiskTest
  <2>1. BufUsedPriv' = BufUsedPriv
    BY <1>26, UsedSame DEF DiskTest
  <2> QED BY <1>26, <2>1 DEF DiskTest, LocalsOK
<1>27. CASE SyncStep \/ UNCHANGED vars
  BY <1>21, <1>27 DEF SyncStep, SyncTest, SyncLoop, vars
<1> QED
  BY <1>1, <1>2, <1>3, <1>4, <1>15, <1>17, <1>18, <1>20, <1>22, <1>23, <1>24,
     <1>25, <1>26, <1>27
     DEF Next, Call, WriteStep, SeekStep, DiskStep, Closed

-----------------------------------------------------------------------------
(* What a Flush establishes                                                *)

\* While a Write is in progress, nothing that relies on an empty buffer is.
LEMMA WriteAlone ==
  ASSUME TypeOK, ClientsOK, cpc[Writer] \in {"reserve", "copy", "advance"}
  PROVE  /\ ~no_writes
         /\ \A c \in Clients : cpc[c] \notin {"lseek", "resize", "exit", "join"}
BY TFWAssumption DEF TypeOK, ClientsOK, Within

\* An empty buffer is a committed one.
LEMMA EmptyIsCommitted ==
  ASSUME TypeOK, LocalsOK, DiskOK, BufUsedPriv = 0, ~ignore_writes
  PROVE  Done = 0 /\ Len(disk) = put
<1>1. Done = 0
  <2>1. size \in Nat /\ (dpc = "advance" => size <= 0)
    BY DEF TypeOK, LocalsOK
  <2> QED BY <2>1 DEF Done
<1>2. put \in Nat /\ Len(disk) = put - BufUsedPriv + Done
  BY DEF TypeOK, DiskOK
<1> QED BY <1>1, <1>2

LEMMA FlushedStep ==
  ASSUME TypeOK, ClientsOK, FlushedOK, LocalsOK, DiskOK, [Next]_vars
  PROVE  FlushedOK'
<1> USE DEF ring, flags, diskLoc, cliLoc, wrLoc, file, stream
<1>cpc. /\ cpc \in [Clients -> ClientPC] /\ Writer \in Clients
        /\ mark \in [Clients -> Nat] /\ put \in Nat /\ Len(disk) \in Nat
        /\ BufUsedPriv \in Nat
  BY TFWAssumption, LenProperties, UsedFree, BufSize DEF TypeOK
<1>1. ASSUME UNCHANGED <<ring, put, mark, fd, dpc, no_writes>>,
             Len(disk') \in Nat, Len(disk') >= Len(disk),
             ignore_writes => ignore_writes',
             \A c \in Clients :
               cpc'[c] = cpc[c] \/ cpc'[c] \in {"idle", "reserve", "copy", "advance"}
      PROVE  FlushedOK'
  <2>1. BufUsedPriv' = BufUsedPriv
    BY <1>1, UsedSame
  <2> QED BY <1>1, <1>cpc, <2>1 DEF FlushedOK
<1>2. ASSUME NEW n \in 1..MaxStream, WriteCall(n) PROVE FlushedOK'
  BY <1>1, <1>2, <1>cpc DEF WriteCall
<1>3. CASE WriteReserve \/ WriteCopy
  <2>1. BufUsedPriv' = BufUsedPriv
    BY <1>3, UsedSame DEF WriteReserve, WriteCopy
  <2> QED BY <1>3, <1>cpc, <2>1 DEF WriteReserve, WriteCopy, FlushedOK
<1>4. CASE WriteAdvance
  <2>1. /\ ~no_writes
        /\ \A c \in Clients : cpc[c] \notin {"lseek", "resize", "exit", "join"}
    BY <1>4, WriteAlone DEF WriteAdvance
  <2>2. put' \in Nat /\ put' >= put
    BY <1>4 DEF WriteAdvance, TypeOK
  <2> QED BY <1>4, <1>cpc, <2>1, <2>2 DEF WriteAdvance, FlushedOK
<1>5. ASSUME NEW c \in Clients, FlushEnd(c) PROVE FlushedOK'
  <2>1. BufUsedPriv' = 0 /\ BufUsedPriv = 0
    BY <1>5, UsedSame DEF FlushEnd
  <2>2. Len(disk) = put \/ ignore_writes
    BY <2>1, EmptyIsCommitted
  <2>3. UNCHANGED <<disk, ignore_writes, put, mark, fd, dpc, no_writes>>
    BY <1>5 DEF FlushEnd
  <2>4. \A d \in Clients : mark[d] <= Len(disk) \/ ignore_writes
    BY <1>cpc, <2>2 DEF FlushedOK
  <2> QED BY <2>1, <2>3, <2>4 DEF FlushedOK
<1>6. ASSUME NEW c \in Clients,
             WriterFlush(c) \/ SetWriteBufferSize(c) \/ Destroy(c) \/
               (c = Writer /\ Seek)
      PROVE  FlushedOK'
  <2>1. PICK next \in {"sync", "resize", "exit", "lseek"} : FlushBegin(c, next)
    BY <1>6 DEF WriterFlush, SetWriteBufferSize, Destroy, Seek
  <2>2. UNCHANGED <<disk, ignore_writes, put, fd, dpc, rpos, wpos, tfw_buf_size>>
        /\ (no_writes => no_writes')
    BY <1>6 DEF WriterFlush, SetWriteBufferSize, Destroy, Seek
  <2>3. BufUsedPriv' = BufUsedPriv
    BY <2>2, UsedSame
  <2>4. mark' = [mark EXCEPT ![c] = put]
    BY <2>1 DEF FlushBegin
  <2>5. \A d \in Clients : mark'[d] <= put'
    BY <1>cpc, <2>2, <2>4 DEF FlushedOK
  <2>6. CASE BufUsedPriv > 0
    <3>1. cpc' = [cpc EXCEPT ![c] = "flush"]
      BY <2>1, <2>6 DEF FlushBegin
    <3> QED BY <1>cpc, <2>2, <2>3, <2>4, <2>5, <3>1 DEF FlushedOK
  <2>7. CASE BufUsedPriv = 0
    <3>1. cpc' = [cpc EXCEPT ![c] = next]
      BY <2>1, <2>7 DEF FlushBegin
    <3>2. Len(disk) = put \/ ignore_writes
      BY <2>7, EmptyIsCommitted
    <3> QED BY <1>cpc, <2>2, <2>3, <2>4, <2>5, <2>7, <3>1, <3>2 DEF FlushedOK
  <2> QED BY <1>cpc, <2>6, <2>7
<1>7. ASSUME NEW c \in Clients, ClientSync(c) PROVE FlushedOK'
  <2>1. BufUsedPriv' = BufUsedPriv
    BY <1>7, UsedSame DEF ClientSync
  <2> QED BY <1>7, <1>cpc, <2>1 DEF ClientSync, Return, FlushedOK
<1>8. ASSUME NEW c \in Clients, DtorExit(c) PROVE FlushedOK'
  <2>1. BufUsedPriv' = BufUsedPriv
    BY <1>8, UsedSame DEF DtorExit
  <2> QED BY <1>8, <1>cpc, <2>1 DEF DtorExit, FlushedOK
<1>9. ASSUME NEW c \in Clients, DtorJoin(c) PROVE FlushedOK'
  <2>1. BufUsedPriv' = BufUsedPriv
    BY <1>9, UsedSame DEF DtorJoin
  <2>2. no_writes
    BY <1>9 DEF DtorJoin, ClientsOK, Within
  <2> QED BY <1>9, <1>cpc, <2>1, <2>2 DEF DtorJoin, Return, FlushedOK
<1>10. ASSUME NEW c \in Clients, NEW s \in BufSizes, Resize(c, s) PROVE FlushedOK'
  <2>1. BufUsedPriv' = 0
    BY <1>10, UsedByResize
  <2> QED BY <1>10, <1>cpc, <2>1 DEF Resize, Return, FlushedOK
<1>11. ASSUME NEW pos \in 0..flen, LSeek(pos) PROVE FlushedOK'
  <2>1. BufUsedPriv' = BufUsedPriv
    BY <1>11, UsedSame DEF LSeek
  <2> QED BY <1>11, <1>cpc, <2>1 DEF LSeek, Return, FlushedOK
<1>12. CASE DiskTest \/ DiskTake \/ DiskDiscard
  <2>1. BufUsedPriv' = BufUsedPriv
    BY <1>12, UsedSame DEF DiskTest, DiskTake, DiskDiscard, Account
  <2> QED BY <1>12, <1>cpc, <2>1 DEF DiskTest, DiskTake, DiskDiscard, Account, FlushedOK
<1>13. ASSUME NEW n \in 0..size, ~ignore_writes, dpc = "write",
              Transfer(n), Account(n)
       PROVE  FlushedOK'
  <2>1. BufUsedPriv' = BufUsedPriv
    BY <1>13, UsedSame DEF Account
  <2>2. Len(disk') \in Nat /\ Len(disk') >= Len(disk)
    <3>1. n \in Nat
      BY DEF TypeOK
    <3>2. Len(disk') = Len(disk) + n
      BY <1>13, <3>1, Transferred
    <3> QED BY <1>cpc, <3>1, <3>2
  <2> QED BY <1>13, <1>cpc, <2>1, <2>2 DEF Account, FlushedOK
<1>14. CASE DiskWrite
  <2>1. size \in 0..size
    BY DEF TypeOK
  <2> QED BY <1>13, <1>14, <2>1 DEF DiskWrite
<1>15. ASSUME NEW n \in 0..(size - 1), NEW e \in Faults, DiskFault(n, e)
       PROVE  FlushedOK'
  <2>1. n \in 0..size
    BY DEF TypeOK
  <2> QED BY <1>13, <1>15, <2>1 DEF DiskFault
<1>16. CASE DiskAdvance
  <2>1. BufUsedPriv' = BufUsedPriv - size /\ size \in Nat /\ size <= BufUsedPriv
    BY <1>16, UsedByDisk DEF DiskAdvance, LocalsOK, TypeOK
  <2>2. BufUsedPriv = 0 => BufUsedPriv' = 0
    BY <1>cpc, <2>1
  <2> QED BY <1>16, <1>cpc, <2>2 DEF DiskAdvance, FlushedOK
<1>17. CASE SyncStep \/ UNCHANGED vars
  BY <1>1, <1>17, <1>cpc DEF SyncStep, SyncTest, SyncLoop, vars
<1> QED
  BY <1>2, <1>3, <1>4, <1>5, <1>6, <1>7, <1>8, <1>9, <1>10, <1>11, <1>12, <1>14,
     <1>15, <1>16, <1>17, <1>cpc
     DEF Next, Call, WriteStep, SeekStep, CallStep, DiskStep, Closed

-----------------------------------------------------------------------------
(* The contents of the ring                                                *)

\* The slots in use and those about to be filled are different.
LEMMA UsedApart ==
  ASSUME TypeOK, NEW i \in 0..(BufUsedPriv - 1), NEW j \in Nat,
         BufUsedPriv + j < tfw_buf_size
  PROVE  Wrap(rpos + i) # Wrap(wpos + j)
<1>size. /\ tfw_buf_size \in Nat /\ tfw_buf_size >= 2
         /\ rpos \in 0..(tfw_buf_size - 1) /\ wpos \in 0..(tfw_buf_size - 1)
         /\ BufUsedPriv \in 0..(tfw_buf_size - 1)
  BY BufSize, UsedFree
<1>1. \A p \in 0..(2 * tfw_buf_size - 1) :
        Wrap(p) = IF p < tfw_buf_size THEN p ELSE p - tfw_buf_size
  BY WrapLow
<1>2. /\ rpos + i \in 0..(2 * tfw_buf_size - 1)
      /\ wpos + j \in 0..(2 * tfw_buf_size - 1)
  BY <1>size
<1>3. /\ Wrap(rpos + i) = IF rpos + i < tfw_buf_size THEN rpos + i
                          ELSE rpos + i - tfw_buf_size
      /\ Wrap(wpos + j) = IF wpos + j < tfw_buf_size THEN wpos + j
                          ELSE wpos + j - tfw_buf_size
  BY <1>size, <1>1, <1>2
<1> QED BY <1>size, <1>3 DEF BufUsedPriv

\* The slots that follow those in use are those at wpos.
LEMMA UsedEnd ==
  ASSUME TypeOK, NEW j \in Nat, BufUsedPriv + j < tfw_buf_size
  PROVE  Wrap(rpos + (BufUsedPriv + j)) = Wrap(wpos + j)
<1>size. /\ tfw_buf_size \in Nat /\ tfw_buf_size >= 2
         /\ rpos \in 0..(tfw_buf_size - 1) /\ wpos \in 0..(tfw_buf_size - 1)
         /\ BufUsedPriv \in 0..(tfw_buf_size - 1)
  BY BufSize, UsedFree
<1>1. \A p \in 0..(2 * tfw_buf_size - 1) :
        Wrap(p) = IF p < tfw_buf_size THEN p ELSE p - tfw_buf_size
  BY WrapLow
<1>2. /\ rpos + (BufUsedPriv + j) \in 0..(2 * tfw_buf_size - 1)
      /\ wpos + j \in 0..(2 * tfw_buf_size - 1)
  BY <1>size
<1>3. /\ Wrap(rpos + (BufUsedPriv + j)) =
           IF rpos + (BufUsedPriv + j) < tfw_buf_size
           THEN rpos + (BufUsedPriv + j)
           ELSE rpos + (BufUsedPriv + j) - tfw_buf_size
      /\ Wrap(wpos + j) = IF wpos + j < tfw_buf_size THEN wpos + j
                          ELSE wpos + j - tfw_buf_size
  BY <1>size, <1>1, <1>2
<1> QED BY <1>size, <1>3 DEF BufUsedPriv

\* Advancing by n and then by i is advancing by n + i.
LEMMA WrapTwice ==
  ASSUME TypeOK, NEW n \in Nat, NEW i \in Nat, n + i < tfw_buf_size
  PROVE  Wrap(Wrap(rpos + n) + i) = Wrap(rpos + (n + i))
<1>size. /\ tfw_buf_size \in Nat /\ tfw_buf_size >= 2
         /\ rpos \in 0..(tfw_buf_size - 1)
  BY BufSize
<1>1. \A p \in 0..(2 * tfw_buf_size - 1) :
        Wrap(p) = IF p < tfw_buf_size THEN p ELSE p - tfw_buf_size
  BY WrapLow
<1>2. /\ rpos + n \in 0..(2 * tfw_buf_size - 1)
      /\ rpos + (n + i) \in 0..(2 * tfw_buf_size - 1)
  BY <1>size
<1>3. Wrap(rpos + n) = IF rpos + n < tfw_buf_size THEN rpos + n
                       ELSE rpos + n - tfw_buf_size
  BY <1>size, <1>1, <1>2
<1>4. Wrap(rpos + (n + i)) = IF rpos + (n + i) < tfw_buf_size THEN rpos + (n + i)
                             ELSE rpos + (n + i) - tfw_buf_size
  BY <1>size, <1>1, <1>2
<1>5. Wrap(rpos + n) \in Nat /\ Wrap(rpos + n) + i \in 0..(2 * tfw_buf_size - 1)
  BY <1>size, <1>3
<1>6. Wrap(Wrap(rpos + n) + i) =
        IF Wrap(rpos + n) + i < tfw_buf_size THEN Wrap(rpos + n) + i
        ELSE Wrap(rpos + n) + i - tfw_buf_size
  BY <1>size, <1>1, <1>5
<1> QED BY <1>size, <1>3, <1>4, <1>6

LEMMA RingStep ==
  ASSUME TypeOK, ClientsOK, FlushedOK, LocalsOK, RingOK, [Next]_vars
  PROVE  RingOK'
<1> USE DEF ring, flags, diskLoc, cliLoc, wrLoc, file, stream
<1>size. /\ tfw_buf_size \in Nat /\ tfw_buf_size >= 2
         /\ rpos \in 0..(tfw_buf_size - 1) /\ wpos \in 0..(tfw_buf_size - 1)
         /\ BufUsedPriv \in 0..(tfw_buf_size - 1)
  BY BufSize, UsedFree
<1>nats. size \in Nat /\ bytes \in Nat /\ put \in Nat
  BY DEF TypeOK
<1>cpc. cpc \in [Clients -> ClientPC] /\ Writer \in Clients
  BY TFWAssumption DEF TypeOK
<1>1. ASSUME UNCHANGED <<ring, put>>,
             cpc'[Writer] = "advance" => cpc[Writer] = "advance" /\ bytes' = bytes
      PROVE  RingOK'
  <2>1. BufUsedPriv' = BufUsedPriv
    BY <1>1, UsedSame
  <2> QED BY <1>1, <2>1 DEF RingOK, Wrap
<1>3. CASE WriteCopy
  <2>1. /\ ~no_writes /\ twpos = wpos /\ BufUsedPriv + bytes < tfw_buf_size
        /\ cpc[Writer] = "copy" /\ twpos \in Nat
    BY <1>3, WriteAlone DEF WriteCopy, LocalsOK, TypeOK
  <2>2. /\ UNCHANGED <<rpos, wpos, tfw_buf_size, put, bytes>>
        /\ buf' = [s \in DOMAIN buf |->
                     IF s \in Slots(wpos, bytes)
                     THEN put + 1 + Wrap(s + tfw_buf_size - wpos)
                     ELSE buf[s]]
    BY <1>3, <2>1 DEF WriteCopy
  <2>3. BufUsedPriv' = BufUsedPriv
    BY <2>2, UsedSame
  <2>4. DOMAIN buf = 0..(tfw_buf_size - 1)
    BY DEF TypeOK
  <2>5. \A p \in Int : Wrap(p) \in 0..(tfw_buf_size - 1)
    BY WrapIn
  <2>6. ASSUME NEW i \in 0..(BufUsedPriv - 1)
        PROVE  buf'[Wrap(rpos + i)] = buf[Wrap(rpos + i)]
    <3>1. Wrap(rpos + i) \in DOMAIN buf
      BY <1>size, <2>4, <2>5
    <3>2. ASSUME NEW j \in 0..(bytes - 1) PROVE Wrap(rpos + i) # Wrap(wpos + j)
      <4>1. j \in Nat /\ BufUsedPriv + j < tfw_buf_size
        BY <1>size, <1>nats, <2>1
      <4> QED BY <4>1, UsedApart
    <3>3. Wrap(rpos + i) \notin Slots(wpos, bytes)
      BY <3>2 DEF Slots
    <3> QED BY <2>2, <3>1, <3>3
  <2>7. ASSUME NEW i \in 0..(bytes - 1)
        PROVE  buf'[Wrap(wpos + i)] = put + 1 + i
    <3>1. Wrap(wpos + i) \in DOMAIN buf
      BY <1>size, <1>nats, <2>4, <2>5
    <3>2. Wrap(wpos + i) \in Slots(wpos, bytes)
      BY DEF Slots
    <3>3. \A p \in 0..(2 * tfw_buf_size - 1) :
            Wrap(p) = IF p < tfw_buf_size THEN p ELSE p - tfw_buf_size
      BY WrapLow
    <3>4. i \in Nat /\ i < tfw_buf_size /\ wpos + i \in 0..(2 * tfw_buf_size - 1)
      BY <1>size, <1>nats, <2>1
    <3>5. Wrap(wpos + i) = IF wpos + i < tfw_buf_size THEN wpos + i
                           ELSE wpos + i - tfw_buf_size
      BY <1>size, <3>3, <3>4
    <3>6. Wrap(wpos + i) + tfw_buf_size - wpos =
            IF wpos + i < tfw_buf_size THEN i + tfw_buf_size ELSE i
      BY <1>size, <3>4, <3>5
    <3>7. /\ i \in 0..(2 * tfw_buf_size - 1)
          /\ i + tfw_buf_size \in 0..(2 * tfw_buf_size - 1)
      BY <1>size, <3>4
    <3>8. Wrap(i) = i /\ Wrap(i + tfw_buf_size) = i
      BY <1>size, <3>3, <3>4, <3>7
    <3>9. Wrap(Wrap(wpos + i) + tfw_buf_size - wpos) = i
      BY <3>6, <3>8
    <3> QED BY <2>2, <3>1, <3>2, <3>9
  <2> QED BY <2>2, <2>3, <2>6, <2>7 DEF RingOK, Wrap
<1>4. CASE WriteAdvance
  <2>1. /\ BufUsedPriv + bytes < tfw_buf_size /\ cpc[Writer] = "advance"
        /\ UNCHANGED <<rpos, tfw_buf_size, buf>> /\ put' = put + bytes
        /\ cpc'[Writer] # "advance"
    BY <1>4, <1>cpc DEF WriteAdvance, LocalsOK
  <2>2. BufUsedPriv' = BufUsedPriv + bytes
    BY <1>4, UsedByWrite
  <2>3. put' - BufUsedPriv' = put - BufUsedPriv /\ BufUsedPriv' <= put'
    BY <1>size, <1>nats, <2>1, <2>2 DEF RingOK
  <2>4. ASSUME NEW i \in 0..(BufUsedPriv' - 1)
        PROVE  buf[Wrap(rpos + i)] = put - BufUsedPriv + 1 + i
    <3>1. CASE i < BufUsedPriv
      <4>1. i \in 0..(BufUsedPriv - 1)
        BY <1>size, <3>1
      <4> QED BY <4>1 DEF RingOK
    <3>2. CASE ~(i < BufUsedPriv)
      <4>1. PICK j \in 0..(bytes - 1) : i = BufUsedPriv + j
        <5>1. i - BufUsedPriv \in 0..(bytes - 1) /\ i = BufUsedPriv + (i - BufUsedPriv)
          BY <1>size, <1>nats, <2>2, <3>2
        <5> QED BY <5>1
      <4>2. j \in Nat /\ BufUsedPriv + j < tfw_buf_size
        BY <1>size, <1>nats, <2>1
      <4>3. Wrap(rpos + i) = Wrap(wpos + j)
        BY <4>1, <4>2, UsedEnd
      <4>4. buf[Wrap(wpos + j)] = put + 1 + j
        BY <2>1 DEF RingOK
      <4>5. put + 1 + j = put - BufUsedPriv + 1 + i
        BY <1>size, <1>nats, <4>1
      <4> QED BY <4>3, <4>4, <4>5
    <3> QED BY <3>1, <3>2
  <2> QED BY <2>1, <2>3, <2>4 DEF RingOK, Wrap
<1>5. CASE DiskAdvance
  <2>1. /\ size <= BufUsedPriv /\ UNCHANGED <<wpos, tfw_buf_size, buf, put, cpc, bytes>>
        /\ rpos' = IF trpos = rpos THEN Wrap(rpos + size) ELSE rpos
        /\ (trpos = rpos \/ size = 0)
    BY <1>5 DEF DiskAdvance, LocalsOK
  <2>2. BufUsedPriv' = BufUsedPriv - size
    BY <1>5, UsedByDisk
  <2>3. rpos' = Wrap(rpos + size)
    <3>1. \A p \in 0..(2 * tfw_buf_size - 1) :
            Wrap(p) = IF p < tfw_buf_size THEN p ELSE p - tfw_buf_size
      BY WrapLow
    <3>2. rpos \in 0..(2 * tfw_buf_size - 1) /\ Wrap(rpos) = rpos
      BY <1>size, <3>1
    <3> QED BY <1>size, <2>1, <3>2
  <2>4. put - BufUsedPriv' = put - BufUsedPriv + size /\ BufUsedPriv' <= put
    BY <1>size, <1>nats, <2>1, <2>2 DEF RingOK
  <2>5. ASSUME NEW i \in 0..(BufUsedPriv' - 1)
        PROVE  buf[Wrap(rpos' + i)] = put - BufUsedPriv' + 1 + i
    <3>1. /\ size + i \in 0..(BufUsedPriv - 1) /\ i \in Nat
          /\ size + i < tfw_buf_size
      BY <1>size, <1>nats, <2>1, <2>2
    <3>2. Wrap(rpos' + i) = Wrap(rpos + (size + i))
      BY <1>nats, <2>3, <3>1, WrapTwice
    <3>3. buf[Wrap(rpos + (size + i))] = put - BufUsedPriv + 1 + (size + i)
      BY <3>1 DEF RingOK
    <3> QED BY <1>size, <1>nats, <2>4, <3>1, <3>2, <3>3
  <2>6. /\ cpc'[Writer] = "advance" =>
             \A i \in 0..(bytes - 1) : buf[Wrap(wpos + i)] = put + 1 + i
    BY <2>1 DEF RingOK
  <2> QED BY <2>1, <2>4, <2>5, <2>6 DEF RingOK, Wrap
<1>6. ASSUME NEW c \in Clients, NEW s \in BufSizes, Resize(c, s) PROVE RingOK'
  <2>1. BufUsedPriv' = 0
    BY <1>6, UsedByResize
  <2>2. cpc'[Writer] # "advance"
    BY <1>6, <1>cpc DEF Resize, Return, ClientsOK, Within
  <2>3. put' = put
    BY <1>6 DEF Resize
  <2> QED BY <1>nats, <2>1, <2>2, <2>3 DEF RingOK
<1>7. ASSUME NEW c \in Clients, CallStep(c) PROVE RingOK'
  <2>1. CASE FlushEnd(c)
    BY <1>1, <1>cpc, <2>1 DEF FlushEnd, ClientsOK
  <2>2. CASE ClientSync(c) \/ DtorExit(c) \/ DtorJoin(c)
    BY <1>1, <1>cpc, <2>2 DEF ClientSync, DtorExit, DtorJoin, Return
  <2> QED BY <1>6, <1>7, <2>1, <2>2 DEF CallStep
<1>8. ASSUME NEW c \in Clients,
             WriterFlush(c) \/ SetWriteBufferSize(c) \/ Destroy(c)
      PROVE  RingOK'
  BY <1>1, <1>8, <1>cpc
     DEF WriterFlush, SetWriteBufferSize, Destroy, FlushBegin
<1>9. CASE Seek
  BY <1>1, <1>9, <1>cpc DEF Seek, FlushBegin
<1>10. ASSUME NEW pos \in 0..flen, LSeek(pos) PROVE RingOK'
  BY <1>1, <1>10, <1>cpc DEF LSeek, Return
<1>11. ASSUME NEW n \in 1..MaxStream, WriteCall(n) PROVE RingOK'
  BY <1>1, <1>11, <1>cpc DEF WriteCall
<1>12. CASE WriteReserve
  BY <1>1, <1>12, <1>cpc DEF WriteReserve
<1>13. CASE DiskTest \/ DiskTake \/ DiskWrite \/ DiskDiscard
  BY <1>1, <1>13 DEF DiskTest, DiskTake, DiskWrite, DiskDiscard, Account
<1>14. ASSUME NEW n \in 0..(size - 1), NEW e \in Faults, DiskFault(n, e)
       PROVE  RingOK'
  BY <1>1, <1>14 DEF DiskFault, Account
<1>15. CASE SyncStep \/ UNCHANGED vars
  BY <1>1, <1>15 DEF SyncStep, SyncTest, SyncLoop, vars
<1> QED
  BY <1>3, <1>4, <1>5, <1>7, <1>8, <1>9, <1>10, <1>11, <1>12, <1>13, <1>14, <1>15
     DEF Next, Call, WriteStep, SeekStep, DiskStep, Closed

-----------------------------------------------------------------------------
(* The file                                                                *)

\* The bytes of disk are the first bytes of the stream, at their positions.
LEMMA DiskStepOK ==
  ASSUME TypeOK, ClientsOK, FlushedOK, LocalsOK, RingOK, DiskOK, [Next]_vars
  PROVE  DiskOK'
<1> USE DEF ring, flags, diskLoc, cliLoc, wrLoc, file, stream
<1>nats. /\ size \in Nat /\ bytes \in Nat /\ put \in Nat /\ count \in Nat
         /\ remaining \in Nat /\ fpos \in Nat /\ writepos \in Nat
         /\ BufUsedPriv \in Nat /\ Len(disk) \in Nat
  BY BufSize, UsedFree, LenProperties DEF TypeOK
<1>seqs. want \in Seq(Nat) /\ disk \in Seq([byte : Nat, at : Nat])
  BY DEF TypeOK
<1>cpc. cpc \in [Clients -> ClientPC] /\ Writer \in Clients
  BY TFWAssumption DEF TypeOK
<1>1. ASSUME UNCHANGED <<stream, disk, fpos, writepos>>,
             count' - remaining' = count - remaining,
             ~ignore_writes' =>
                ~ignore_writes /\ Done' - BufUsedPriv' = Done - BufUsedPriv,
             Done' \in Nat, Done \in Nat, BufUsedPriv' \in Nat
      PROVE  DiskOK'
  <2>1. ASSUME ~ignore_writes'
        PROVE  put - BufUsedPriv' + Done' = put - BufUsedPriv + Done
    <3>1. Done' - BufUsedPriv' = Done - BufUsedPriv
      BY <1>1, <2>1
    <3>2. Done' \in Nat /\ Done \in Nat /\ BufUsedPriv' \in Nat
      BY <1>1
    <3>3. put \in Nat /\ BufUsedPriv \in Nat
      BY <1>nats
    <3>4. put - BufUsedPriv' + Done' = put + (Done' - BufUsedPriv')
      BY <3>2, <3>3
    <3>5. put - BufUsedPriv + Done = put + (Done - BufUsedPriv)
      BY <3>2, <3>3
    <3> QED BY <3>1, <3>4, <3>5
  <2> QED BY <1>1, <2>1 DEF DiskOK
<1>done. Done \in Nat
  BY <1>nats DEF Done
<1>2. ASSUME UNCHANGED <<ring, stream, disk, fpos, writepos, dpc, size, ignore_writes>>,
             count' - remaining' = count - remaining
      PROVE  DiskOK'
  <2>1. BufUsedPriv' = BufUsedPriv
    BY <1>2, UsedSame
  <2>2. Done' = Done
    BY <1>2 DEF Done
  <2> QED BY <1>1, <1>2, <1>nats, <1>done, <2>1, <2>2
<1>3. ASSUME NEW n \in 1..MaxStream, WriteCall(n) PROVE DiskOK'
  <2>1. count' - remaining' = count - remaining
    BY <1>3 DEF WriteCall, LocalsOK
  <2> QED BY <1>2, <1>3, <2>1 DEF WriteCall
<1>4. CASE WriteReserve
  BY <1>2, <1>4 DEF WriteReserve
<1>5. CASE WriteCopy
  <2>1. ~no_writes
    BY <1>5, WriteAlone DEF WriteCopy
  <2>2. UNCHANGED <<rpos, wpos, tfw_buf_size, stream, disk, fpos, writepos, dpc, size,
                    ignore_writes, count, remaining>>
    BY <1>5, <2>1 DEF WriteCopy
  <2>3. BufUsedPriv' = BufUsedPriv
    BY <2>2, UsedSame
  <2>4. Done' = Done
    BY <2>2 DEF Done
  <2> QED BY <1>1, <1>nats, <1>done, <2>2, <2>3, <2>4
<1>6. CASE WriteAdvance
  <2> DEFINE t == [i \in 1..bytes |-> writepos + (count - remaining) + i - 1]
  <2>1. /\ bytes <= remaining /\ remaining <= count
        /\ UNCHANGED <<disk, fpos, dpc, size, ignore_writes>>
        /\ want' = want \o t /\ put' = put + bytes
        /\ remaining' = remaining - bytes
        /\ IF remaining = bytes THEN writepos' = writepos + count /\ count' = 0
           ELSE writepos' = writepos /\ count' = count
    BY <1>6 DEF WriteAdvance, LocalsOK
  <2>2. t \in [1..bytes -> Nat]
    BY <1>nats, <2>1
  <2>3. t \in Seq(Nat) /\ Len(t) = bytes
    BY <1>nats, <2>2, FunIsSeq
  <2>4. Len(want') = put + bytes
        /\ \A i \in 1..(put + bytes) :
             want'[i] = IF i <= put THEN want[i] ELSE t[i - put]
    <3>1. Len(want) = put
      BY DEF DiskOK
    <3>2. want' = want \o t
      BY <2>1
    <3>3. /\ Len(want') = Len(want) + bytes
          /\ \A i \in 1..(Len(want) + bytes) :
               want'[i] = IF i <= Len(want) THEN want[i] ELSE t[i - Len(want)]
      <4> HIDE DEF t
      <4> QED BY <1>seqs, <2>3, <3>2, ConcatProperties
    <3> QED BY <3>1, <3>3
  <2>5. BufUsedPriv' = BufUsedPriv + bytes /\ Done' = Done
    BY <1>6, <2>1, UsedByWrite DEF Done
  <2>6. /\ Len(want') = put' /\ Len(disk') <= put'
        /\ \A i \in 1..Len(disk') : disk'[i].byte = i /\ disk'[i].at = want'[i]
    <3>1. Len(want') = put' /\ Len(disk') <= put' /\ Len(disk) <= put
      BY <1>nats, <2>1, <2>4 DEF DiskOK
    <3>2. ASSUME NEW i \in 1..Len(disk)
          PROVE  disk[i].byte = i /\ disk[i].at = want'[i]
      <4>1. i \in 1..(put + bytes) /\ i <= put
        BY <1>nats, <3>1
      <4>2. want'[i] = want[i]
        BY <2>4, <4>1
      <4> QED BY <4>2 DEF DiskOK
    <3> QED BY <2>1, <3>1, <3>2
  <2>7. ASSUME ~ignore_writes
        PROVE  /\ Len(disk') = put' - BufUsedPriv' + Done'
               /\ \A i \in (Len(disk') + 1)..put' :
                     want'[i] = fpos' + (i - Len(disk') - 1)
               /\ writepos' + (count' - remaining') = fpos' + (put' - Len(disk'))
    <3>0. writepos + (count - remaining) = fpos + (put - Len(disk))
      BY <2>7 DEF DiskOK
    <3>1. /\ Len(disk) = put - BufUsedPriv + Done
          /\ \A i \in (Len(disk) + 1)..put : want[i] = fpos + (i - Len(disk) - 1)
          /\ writepos + (count - remaining) = fpos + (put - Len(disk))
          /\ Len(disk) <= put
      BY <2>7 DEF DiskOK
    <3>2. Len(disk') = put' - BufUsedPriv' + Done'
      BY <1>nats, <1>done, <2>1, <2>5, <3>1
    <3>3. ASSUME NEW i \in (Len(disk) + 1)..(put + bytes)
          PROVE  want'[i] = fpos + (i - Len(disk) - 1)
      <4>1. i \in 1..(put + bytes)
        BY <1>nats
      <4>2. CASE i <= put
        <5>1. i \in (Len(disk) + 1)..put
          BY <1>nats, <4>2
        <5> QED BY <2>4, <3>1, <4>1, <4>2, <5>1
      <4>3. CASE ~(i <= put)
        <5>1. want'[i] = t[i - put] /\ i - put \in 1..bytes
          BY <1>nats, <2>4, <4>1, <4>3
        <5>2. t[i - put] = writepos + (count - remaining) + (i - put) - 1
          BY <5>1
        <5> QED BY <1>nats, <3>0, <5>1, <5>2
      <4> QED BY <4>2, <4>3
    <3>4. writepos' + (count' - remaining') = fpos + ((put + bytes) - Len(disk))
      <4>1. CASE remaining = bytes
        <5>1. writepos' = writepos + count /\ count' = 0 /\ remaining' = 0
          BY <1>nats, <2>1, <4>1
        <5> QED BY <1>nats, <3>0, <4>1, <5>1
      <4>2. CASE remaining # bytes
        <5>1. /\ writepos' = writepos /\ count' = count
              /\ remaining' = remaining - bytes
          BY <2>1, <4>2
        <5> QED BY <1>nats, <3>0, <5>1
      <4> QED BY <4>1, <4>2
    <3> QED BY <2>1, <3>2, <3>3, <3>4
  <2> QED BY <2>1, <2>6, <2>7 DEF DiskOK
<1>7. ASSUME NEW c \in Clients, FlushEnd(c) \/ ClientSync(c) \/ DtorExit(c) \/
                               DtorJoin(c)
      PROVE  DiskOK'
  BY <1>2, <1>7 DEF FlushEnd, ClientSync, DtorExit, DtorJoin
<1>8. ASSUME NEW c \in Clients,
             WriterFlush(c) \/ SetWriteBufferSize(c) \/ Destroy(c)
      PROVE  DiskOK'
  BY <1>2, <1>8 DEF WriterFlush, SetWriteBufferSize, Destroy
<1>9. CASE Seek
  BY <1>2, <1>9 DEF Seek
<1>10. ASSUME NEW pos \in 0..flen, LSeek(pos) PROVE DiskOK'
  <2>1. pos \in Nat
    BY DEF TypeOK
  <2>2. BufUsedPriv = 0 /\ count = 0 /\ remaining = 0
    BY <1>10, <1>cpc DEF LSeek, FlushedOK, LocalsOK
  <2>3. /\ UNCHANGED <<ring, stream, disk, dpc, size, ignore_writes, count, remaining>>
        /\ fpos' = pos /\ writepos' = pos
    BY <1>10 DEF LSeek
  <2>4. BufUsedPriv' = BufUsedPriv /\ Done' = Done
    BY <2>3, UsedSame DEF Done
  <2>5. ASSUME ~ignore_writes PROVE Len(disk) = put
    BY <2>2, <2>5, EmptyIsCommitted
  <2>6. ASSUME ~ignore_writes
        PROVE  /\ (Len(disk) + 1)..put = {}
               /\ pos + (count - remaining) = pos + (put - Len(disk))
    <3>1. Len(disk) = put
      BY <2>5, <2>6
    <3>2. (put + 1)..put = {} /\ pos + (0 - 0) = pos + (put - put)
      BY <1>nats, <2>1
    <3> QED BY <2>2, <3>1, <3>2
  <2> QED BY <2>3, <2>4, <2>6 DEF DiskOK
<1>11. ASSUME NEW c \in Clients, NEW s \in BufSizes, Resize(c, s) PROVE DiskOK'
  <2>1. BufUsedPriv' = 0 /\ BufUsedPriv = 0
    BY <1>11, UsedByResize DEF Resize, FlushedOK
  <2>2. UNCHANGED <<stream, disk, fpos, writepos, dpc, size, ignore_writes, count,
                    remaining>>
    BY <1>11 DEF Resize
  <2>3. Done' = Done
    BY <2>2 DEF Done
  <2> QED BY <1>1, <1>done, <2>1, <2>2, <2>3
<1>12. CASE DiskTest \/ DiskTake
  <2>1. /\ UNCHANGED <<ring, stream, disk, fpos, writepos, ignore_writes, count,
                       remaining>>
        /\ dpc # "advance" /\ dpc' # "advance"
    BY <1>12 DEF DiskTest, DiskTake
  <2>2. BufUsedPriv' = BufUsedPriv /\ Done' = 0 /\ Done = 0
    BY <2>1, UsedSame DEF Done
  <2> QED BY <1>1, <1>nats, <2>1, <2>2
<1>13. ASSUME NEW n \in 0..size, ~ignore_writes, dpc = "write",
              Transfer(n), Account(n)
       PROVE  DiskOK'
  <2>1. /\ n \in Nat /\ n <= size /\ size <= BufUsedPriv /\ trpos = rpos
        /\ UNCHANGED <<rpos, wpos, tfw_buf_size, stream, writepos, count, remaining>>
        /\ fpos' = fpos + n /\ size' = n /\ dpc' = "advance"
        /\ BufUsedPriv <= put /\ Done = 0
    BY <1>13, <1>nats DEF Transfer, Account, LocalsOK, RingOK, Done
  <2>2. BufUsedPriv' = BufUsedPriv /\ Done' = n
    BY <2>1, UsedSame DEF Done
  <2>3. /\ Len(disk') = Len(disk) + n
        /\ \A i \in 1..Len(disk) : disk'[i] = disk[i]
        /\ \A i \in 1..n : disk'[Len(disk) + i] =
             [byte |-> buf[Wrap(trpos + i - 1)], at |-> fpos + i - 1]
    BY <1>13, <2>1, Transferred
  <2>4. /\ Len(disk) = put - BufUsedPriv
        /\ \A i \in (Len(disk) + 1)..put : want[i] = fpos + (i - Len(disk) - 1)
        /\ writepos + (count - remaining) = fpos + (put - Len(disk))
    BY <1>13, <1>nats, <2>1 DEF DiskOK
  <2>5. ASSUME NEW i \in 1..n
        PROVE  disk'[Len(disk) + i].byte = Len(disk) + i /\
               disk'[Len(disk) + i].at = want[Len(disk) + i]
    <3>1. i - 1 \in 0..(BufUsedPriv - 1) /\ Len(disk) + i \in (Len(disk) + 1)..put
      BY <1>nats, <2>1, <2>4
    <3>2. buf[Wrap(rpos + (i - 1))] = put - BufUsedPriv + 1 + (i - 1)
      BY <3>1 DEF RingOK
    <3>3. trpos + i - 1 = rpos + (i - 1)
      BY <2>1 DEF TypeOK
    <3>4. put - BufUsedPriv + 1 + (i - 1) = Len(disk) + i
      BY <1>nats, <2>4
    <3>5. want[Len(disk) + i] = fpos + i - 1
      <4>1. want[Len(disk) + i] = fpos + ((Len(disk) + i) - Len(disk) - 1)
        BY <2>4, <3>1
      <4> QED BY <1>nats, <4>1
    <3>6. disk'[Len(disk) + i] =
            [byte |-> buf[Wrap(trpos + i - 1)], at |-> fpos + i - 1]
      BY <2>3
    <3> QED BY <3>2, <3>3, <3>4, <3>5, <3>6
  <2>6. ASSUME NEW i \in 1..(Len(disk) + n)
        PROVE  disk'[i].byte = i /\ disk'[i].at = want[i]
    <3>1. CASE i <= Len(disk)
      <4>1. i \in 1..Len(disk)
        BY <1>nats, <3>1
      <4> QED BY <2>3, <4>1 DEF DiskOK
    <3>2. CASE ~(i <= Len(disk))
      <4>1. i - Len(disk) \in 1..n /\ Len(disk) + (i - Len(disk)) = i
        BY <1>nats, <2>1, <3>2
      <4> QED BY <2>5, <4>1
    <3> QED BY <3>1, <3>2
  <2>7. Len(want') = put' /\ Len(disk') <= put'
    BY <1>nats, <2>1, <2>3, <2>4 DEF DiskOK
  <2>8. Len(disk') = put' - BufUsedPriv' + Done'
    BY <1>nats, <2>1, <2>2, <2>3, <2>4
  <2>9. ASSUME NEW i \in (Len(disk') + 1)..put'
        PROVE  want'[i] = fpos' + (i - Len(disk') - 1)
    <3>1. i \in (Len(disk) + 1)..put
      BY <1>nats, <2>1, <2>3
    <3>2. fpos + (i - Len(disk) - 1) = (fpos + n) + (i - (Len(disk) + n) - 1)
      BY <1>nats, <2>1, <3>1
    <3> QED BY <2>1, <2>3, <2>4, <3>1, <3>2
  <2>10. writepos' + (count' - remaining') = fpos' + (put' - Len(disk'))
    <3>1. /\ writepos' = writepos /\ count' = count /\ remaining' = remaining
          /\ put' = put /\ fpos' = fpos + n /\ Len(disk') = Len(disk) + n
          /\ n \in Nat
      BY <2>1, <2>3
    <3>2. writepos + (count - remaining) = fpos + (put - Len(disk))
      BY <2>4
    <3>3. (fpos + n) + (put - (Len(disk) + n)) = fpos + (put - Len(disk))
      BY <1>nats, <3>1
    <3> QED BY <3>1, <3>2, <3>3
  <2>11. want' = want
    BY <2>1
  <2> QED BY <2>3, <2>6, <2>7, <2>8, <2>9, <2>10, <2>11 DEF DiskOK
<1>14. CASE DiskWrite
  <2>1. size \in 0..size
    BY <1>nats
  <2> QED BY <1>13, <1>14, <2>1 DEF DiskWrite
<1>15. ASSUME NEW n \in 0..(size - 1), NEW e \in Faults, DiskFault(n, e)
       PROVE  DiskOK'
  <2>1. n \in 0..size
    BY <1>nats
  <2> QED BY <1>13, <1>15, <2>1 DEF DiskFault
<1>16. CASE DiskDiscard
  BY <1>16 DEF DiskDiscard, Account, DiskOK
<1>17. CASE DiskAdvance
  <2>1. /\ UNCHANGED <<stream, disk, fpos, writepos, ignore_writes, count, remaining>>
        /\ dpc = "advance" /\ dpc' = "test"
    BY <1>17 DEF DiskAdvance
  <2>2. BufUsedPriv' = BufUsedPriv - size /\ Done' = 0 /\ Done = size
        /\ size <= BufUsedPriv
    BY <1>17, <2>1, UsedByDisk DEF Done, LocalsOK
  <2>3. Done' - BufUsedPriv' = Done - BufUsedPriv /\ BufUsedPriv' \in Nat
    BY <1>nats, <2>2
  <2> QED BY <1>1, <1>done, <2>1, <2>2, <2>3
<1>18. CASE SyncStep \/ UNCHANGED vars
  BY <1>2, <1>18 DEF SyncStep, SyncTest, SyncLoop, vars
<1> QED
  BY <1>3, <1>4, <1>5, <1>6, <1>7, <1>8, <1>9, <1>10, <1>11, <1>12, <1>14, <1>15,
     <1>16, <1>17, <1>18
     DEF Next, Call, WriteStep, SeekStep, CallStep, DiskStep, Closed

-----------------------------------------------------------------------------
(* The theorems                                                            *)

LEMMA InitIInv == Init => IInv
<1> SUFFICES ASSUME Init PROVE IInv
  OBVIOUS
<1>1. TypeOK
  BY TypeInit
<1>2. BufUsedPriv = 0
  BY DEF Init, BufUsedPriv
<1>3. ClientsOK
  BY TFWAssumption DEF Init, ClientsOK, Within
<1>4. FlushedOK
  BY DEF Init, FlushedOK
<1>5. LocalsOK
  BY <1>2, TFWAssumption DEF Init, LocalsOK
<1>6. RingOK
  BY <1>2, TFWAssumption DEF Init, RingOK
<1>7. DiskOK
  <2>1. Len(disk) = 0 /\ Len(want) = 0
    BY EmptySeq DEF Init
  <2>2. /\ put = 0 /\ dpc = "test" /\ writepos = 0 /\ fpos = 0
        /\ count = 0 /\ remaining = 0
    BY DEF Init
  <2> QED BY <1>2, <2>1, <2>2 DEF DiskOK, Done
<1> QED BY <1>1, <1>3, <1>4, <1>5, <1>6, <1>7 DEF IInv

LEMMA StepIInv == IInv /\ [Next]_vars => IInv'
BY TypeStep, ClientsStep, FlushedStep, LocalsStep, RingStep, DiskStepOK DEF IInv

\* The inductive invariant holds in every reachable state.
THEOREM Invariance == Spec => []IInv
BY InitIInv, StepIInv, PTL DEF Spec

\* Every variable keeps its type (and wpos and rpos stay in the buffer).
THEOREM TypeCorrect == Spec => []TypeOK
<1>1. IInv => TypeOK
  BY DEF IInv
<1> QED BY <1>1, Invariance, PTL

\* The memcpy of Write and the safe_write of DiskLoop never share a slot.
THEOREM NoOverlapHolds == Spec => []NoOverlap
<1>1. IInv => NoOverlap
  <2> SUFFICES ASSUME IInv, cpc[Writer] = "copy", dpc = "write",
                      NEW i \in 0..(bytes - 1), NEW j \in 0..(size - 1)
               PROVE  Wrap(twpos + i) # Wrap(trpos + j)
    BY DEF NoOverlap, Slots
  <2>1. /\ TypeOK /\ twpos = wpos /\ trpos = rpos /\ size <= BufUsedPriv
        /\ BufUsedPriv + bytes < tfw_buf_size
    BY DEF IInv, LocalsOK
  <2>2. /\ bytes \in Nat /\ size \in Nat /\ BufUsedPriv \in Nat
        /\ tfw_buf_size \in Nat
    BY <2>1, UsedFree, BufSize DEF TypeOK
  <2>3. /\ j \in 0..(BufUsedPriv - 1) /\ i \in Nat
        /\ BufUsedPriv + i < tfw_buf_size
    BY <2>1, <2>2
  <2>4. Wrap(rpos + j) # Wrap(wpos + i)
    BY <2>1, <2>3, UsedApart
  <2> QED BY <2>1, <2>4
<1> QED BY <1>1, Invariance, PTL

\* The file is a prefix of the stream, each byte where it was meant to go.
THEOREM FileIsStreamHolds == Spec => []FileIsStream
<1>1. IInv => FileIsStream
  <2> SUFFICES ASSUME IInv, NEW i \in 1..Len(disk)
               PROVE  disk[i].byte = i /\ i <= put /\ disk[i].at = want[i]
    BY DEF FileIsStream
  <2>1. Len(disk) \in Nat /\ put \in Nat /\ Len(disk) <= put
    BY LenProperties DEF IInv, TypeOK, DiskOK
  <2>2. i <= put
    BY <2>1
  <2> QED BY <2>2 DEF IInv, DiskOK
<1> QED BY <1>1, Invariance, PTL

\* The destructor closes the file with every byte in it.
THEOREM CloseCommitsHolds == Spec => []CloseCommits
<1>1. IInv => CloseCommits
  <2> SUFFICES ASSUME IInv, fd = "closed", ~ignore_writes PROVE Len(disk) = put
    BY DEF CloseCommits
  <2>1. TypeOK /\ LocalsOK /\ DiskOK /\ BufUsedPriv = 0
    BY DEF IInv, FlushedOK
  <2> QED BY <2>1, EmptyIsCommitted
<1> QED BY <1>1, Invariance, PTL

-----------------------------------------------------------------------------
(* The action properties                                                   *)

\* A client leaves a Flush by FlushEnd and a Sync by ClientSync.
LEMMA LeavesFlush ==
  ASSUME TypeOK, Next, NEW c \in Clients, cpc'[c] # cpc[c]
  PROVE  /\ cpc[c] = "flush" => FlushEnd(c)
         /\ cpc[c] = "sync" => ClientSync(c)
<1> USE DEF ring, flags, diskLoc, cliLoc, wrLoc, file, stream
<1>cpc. cpc \in [Clients -> ClientPC] /\ Writer \in Clients
  BY TFWAssumption DEF TypeOK
<1>1. CASE Call
  BY <1>1, <1>cpc DEF Call, WriteCall, Seek, WriterFlush, SetWriteBufferSize,
                      Destroy, FlushBegin
<1>2. CASE WriteStep \/ SeekStep
  BY <1>2, <1>cpc DEF WriteStep, WriteReserve, WriteCopy, WriteAdvance, SeekStep,
                      LSeek, Return
<1>3. CASE DiskStep \/ SyncStep \/ Closed
  BY <1>3 DEF DiskStep, DiskTest, DiskTake, DiskWrite, DiskFault, DiskDiscard,
              Account, DiskAdvance, SyncStep, SyncTest, SyncLoop, Closed, vars
<1>4. ASSUME NEW d \in Clients, CallStep(d)
      PROVE  /\ cpc[c] = "flush" => FlushEnd(c)
             /\ cpc[c] = "sync" => ClientSync(c)
  <2>1. ASSUME d # c PROVE cpc'[c] = cpc[c]
    BY <1>4, <1>cpc, <2>1 DEF CallStep, FlushEnd, ClientSync, DtorExit, DtorJoin,
                              Resize, Return
  <2>2. CASE d = c
    BY <1>4, <2>2 DEF CallStep, FlushEnd, ClientSync, DtorExit, DtorJoin, Resize
  <2> QED BY <2>1, <2>2
<1> QED BY <1>1, <1>2, <1>3, <1>4 DEF Next

\* A Flush returns only when what was written before it is in the file.
THEOREM FlushCommitsHolds == Spec => FlushCommits
<1>1. IInv /\ [Next]_vars =>
        [\A c \in Clients : cpc[c] = "flush" /\ cpc'[c] # "flush" =>
            Len(disk') >= mark[c] \/ ignore_writes']_vars
  <2> SUFFICES ASSUME IInv, Next, NEW c \in Clients,
                      cpc[c] = "flush", cpc'[c] # "flush", ~ignore_writes'
               PROVE  Len(disk') >= mark[c]
    OBVIOUS
  <2>1. TypeOK /\ LocalsOK /\ DiskOK /\ FlushedOK
    BY DEF IInv
  <2>2. FlushEnd(c)
    BY <2>1, LeavesFlush
  <2>3. BufUsedPriv = 0 /\ disk' = disk /\ ~ignore_writes
    BY <2>2 DEF FlushEnd, file
  <2>4. Len(disk) = put
    BY <2>1, <2>3, EmptyIsCommitted
  <2>5. mark[c] <= put /\ mark[c] \in Nat /\ put \in Nat
    BY <2>1 DEF FlushedOK, TypeOK
  <2> QED BY <2>3, <2>4, <2>5
<1> QED BY <1>1, Invariance, PTL DEF Spec, FlushCommits

\* WriterFlush returns only when those bytes are synced too.
THEOREM FlushSyncsHolds == Spec => FlushSyncs
<1>1. IInv /\ [Next]_vars =>
        [\A c \in Clients : cpc[c] = "sync" /\ cpc'[c] = "idle" =>
            synced' >= mark[c] \/ ignore_writes']_vars
  <2> SUFFICES ASSUME IInv, Next, NEW c \in Clients,
                      cpc[c] = "sync", cpc'[c] = "idle", ~ignore_writes'
               PROVE  synced' >= mark[c]
    OBVIOUS
  <2>1. TypeOK /\ FlushedOK
    BY DEF IInv
  <2>2. ClientSync(c)
    BY <2>1, LeavesFlush
  <2>3. synced' = Len(disk) /\ ~ignore_writes
    BY <2>2 DEF ClientSync, flags
  <2>4. mark[c] <= Len(disk) /\ mark[c] \in Nat /\ Len(disk) \in Nat
    BY <2>1, <2>3, LenProperties DEF FlushedOK, TypeOK
  <2> QED BY <2>3, <2>4
<1> QED BY <1>1, Invariance, PTL DEF Spec, FlushSyncs
=============================================================================
