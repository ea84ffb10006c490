------------------------- MODULE OrderedWriterProofs -------------------------
(***************************************************************************)
(* ThreadedFileWriter implements OrderedWriter, step by step: what it holds *)
(* is a segment of the stream, to which a Write adds at one end and of      *)
(* which a write to the file takes at the other.                            *)
(***************************************************************************)
EXTENDS ThreadedFileWriterProofs

Entries == [byte : Nat, at : Nat]

\* Of a stream with the positions w, the bytes after the first a up to b.
Part(w, a, b) == [i \in 1..(b - a) |-> [byte |-> a + i, at |-> w[a + i]]]

\* How many bytes of the stream are in the file, or were dropped.
Gone == put - BufUsedPriv + Done

-----------------------------------------------------------------------------
(* Lemmas about segments of a stream                                       *)

LEMMA PartIsSeq ==
  ASSUME NEW w \in Seq(Nat), NEW a \in Nat, NEW b \in Nat, a <= b, b <= Len(w)
  PROVE  /\ Part(w, a, b) \in Seq(Entries) /\ Len(Part(w, a, b)) = b - a
         /\ \A i \in 1..(b - a) : Part(w, a, b)[i] = [byte |-> a + i, at |-> w[a + i]]
<1>1. ASSUME NEW i \in 1..(b - a) PROVE [byte |-> a + i, at |-> w[a + i]] \in Entries
  <2>1. Len(w) \in Nat
    BY LenProperties
  <2>2. a + i \in 1..Len(w)
    BY <2>1
  <2>3. w[a + i] \in Nat /\ a + i \in Nat
    BY <2>1, <2>2, ElementOfSeq
  <2> QED BY <2>3 DEF Entries
<1>2. b - a \in Nat
  OBVIOUS
<1>3. Part(w, a, b) \in [1..(b - a) -> Entries]
  BY <1>1 DEF Part
<1>4. Part(w, a, b) \in Seq(Entries) /\ Len(Part(w, a, b)) = b - a
  BY <1>2, <1>3, FunIsSeq
<1> QED BY <1>4 DEF Part

\* A segment cut in two.
LEMMA PartCut ==
  ASSUME NEW w \in Seq(Nat), NEW a \in Nat, NEW b \in Nat, a <= b, b <= Len(w),
         NEW n \in 0..(b - a)
  PROVE  /\ SubSeq(Part(w, a, b), 1, n) = Part(w, a, a + n)
         /\ SubSeq(Part(w, a, b), n + 1, Len(Part(w, a, b))) = Part(w, a + n, b)
<1> DEFINE s == Part(w, a, b)
<1>len. Len(w) \in Nat
  BY LenProperties
<1>1. /\ s \in Seq(Entries) /\ Len(s) = b - a
      /\ \A i \in 1..(b - a) : s[i] = [byte |-> a + i, at |-> w[a + i]]
  BY PartIsSeq
<1>2. ASSUME NEW i \in 1..(b - a) PROVE s[i] \in Entries
  BY <1>1, <1>2, ElementOfSeq
<1>3. SubSeq(s, 1, n) = Part(w, a, a + n)
  <2>1. /\ SubSeq(s, 1, n) \in Seq(Entries) /\ Len(SubSeq(s, 1, n)) = n
        /\ \A i \in 1..n : SubSeq(s, 1, n)[i] = s[i]
    <3>1. \A i \in 1..n : s[i] \in Entries
      BY <1>2
    <3>2. /\ SubSeq(s, 1, n) \in Seq(Entries)
          /\ Len(SubSeq(s, 1, n)) = IF 1 <= n THEN n - 1 + 1 ELSE 0
          /\ \A i \in 1..(n - 1 + 1) : SubSeq(s, 1, n)[i] = s[1 + i - 1]
      <4> HIDE DEF s
      <4> QED BY <3>1, SubSeqProperties
    <3> HIDE DEF s
    <3> QED BY <3>2
  <2>2. a + n \in Nat /\ a <= a + n /\ a + n <= Len(w) /\ (a + n) - a = n
    BY <1>len
  <2>3. /\ Part(w, a, a + n) \in Seq(Entries) /\ Len(Part(w, a, a + n)) = n
        /\ \A i \in 1..n : Part(w, a, a + n)[i] = [byte |-> a + i, at |-> w[a + i]]
    BY <2>2, PartIsSeq
  <2>4. ASSUME NEW i \in 1..n PROVE SubSeq(s, 1, n)[i] = Part(w, a, a + n)[i]
    <3>1. i \in 1..(b - a)
      OBVIOUS
    <3> HIDE DEF s
    <3> QED BY <1>1, <2>1, <2>3, <3>1
  <2> HIDE DEF s
  <2> QED BY <2>1, <2>3, <2>4, SeqEqual
<1>4. SubSeq(s, n + 1, Len(s)) = Part(w, a + n, b)
  <2> DEFINE m == b - (a + n)
  <2>1. /\ SubSeq(s, n + 1, b - a) \in Seq(Entries) /\ Len(SubSeq(s, n + 1, b - a)) = m
        /\ \A i \in 1..m : SubSeq(s, n + 1, b - a)[i] = s[n + i]
    <3>1. \A i \in (n + 1)..(b - a) : s[i] \in Entries
      BY <1>2
    <3>2. /\ SubSeq(s, n + 1, b - a) \in Seq(Entries)
          /\ Len(SubSeq(s, n + 1, b - a)) =
               IF n + 1 <= b - a THEN (b - a) - (n + 1) + 1 ELSE 0
          /\ \A i \in 1..((b - a) - (n + 1) + 1) :
               SubSeq(s, n + 1, b - a)[i] = s[(n + 1) + i - 1]
      <4> HIDE DEF s
      <4>1. n + 1 \in Int /\ b - a \in Int
        OBVIOUS
      <4> QED BY <3>1, <4>1, SubSeqProperties
    <3>3. Len(SubSeq(s, n + 1, b - a)) = m
      <4>1. n + 1 <= b - a => (b - a) - (n + 1) + 1 = b - (a + n)
        OBVIOUS
      <4>2. ~(n + 1 <= b - a) => b - (a + n) = 0
        OBVIOUS
      <4> QED BY <3>2, <4>1, <4>2, Zenon
    <3>4. ASSUME NEW i \in 1..m PROVE SubSeq(s, n + 1, b - a)[i] = s[n + i]
      <4>1. i \in 1..((b - a) - (n + 1) + 1) /\ (n + 1) + i - 1 = n + i
        OBVIOUS
      <4> HIDE DEF s
      <4> QED BY <3>2, <4>1
    <3> QED BY <3>2, <3>3, <3>4
  <2>2. a + n \in Nat /\ a + n <= b
    OBVIOUS
  <2>3. /\ Part(w, a + n, b) \in Seq(Entries) /\ Len(Part(w, a + n, b)) = m
        /\ \A i \in 1..m : Part(w, a + n, b)[i] = [byte |-> (a + n) + i, at |-> w[(a + n) + i]]
    BY <2>2, PartIsSeq
  <2>4. ASSUME NEW i \in 1..m PROVE SubSeq(s, n + 1, b - a)[i] = Part(w, a + n, b)[i]
    <3>1. n + i \in 1..(b - a) /\ a + (n + i) = (a + n) + i
      OBVIOUS
    <3>2. s[n + i] = [byte |-> (a + n) + i, at |-> w[(a + n) + i]]
      <4> HIDE DEF s
      <4> QED BY <1>1, <3>1
    <3> HIDE DEF s, m
    <3> QED BY <2>1, <2>3, <3>2
  <2>5. SubSeq(s, n + 1, b - a) = Part(w, a + n, b)
    <3> HIDE DEF s, m
    <3> QED BY <2>1, <2>3, <2>4, SeqEqual
  <2> QED BY <1>1, <2>5
<1> QED BY <1>3, <1>4

\* A segment grows when the stream does.
Grows(v, w, a, b, c) ==
  /\ SubSeq(Part(w, a, c), 1, b - a) = Part(v, a, b)
  /\ Len(Part(v, a, b)) = b - a /\ Len(Part(w, a, c)) = c - a
  /\ SubSeq(Part(v, a, b), 1, b - a) = Part(v, a, b)

LEMMA PartGrows ==
  \A v, w \in Seq(Nat), a, b, c \in Nat :
    a <= b /\ b <= c /\ b <= Len(v) /\ c <= Len(w) /\ (\A i \in 1..b : w[i] = v[i]) =>
      Grows(v, w, a, b, c)
<1> TAKE v, w \in Seq(Nat), a, b, c \in Nat
<1> HAVE a <= b /\ b <= c /\ b <= Len(v) /\ c <= Len(w) /\ \A i \in 1..b : w[i] = v[i]
<1>1. b - a \in 0..(c - a) /\ a + (b - a) = b /\ a <= c
  OBVIOUS
<1>2. SubSeq(Part(w, a, c), 1, b - a) = Part(w, a, a + (b - a))
  BY <1>1, PartCut
<1>3. Part(w, a, b) = Part(v, a, b)
  <2>1. \A i \in 1..(b - a) : w[a + i] = v[a + i]
    OBVIOUS
  <2> QED BY <2>1 DEF Part
<1>4. /\ Part(v, a, b) \in Seq(Entries) /\ Len(Part(v, a, b)) = b - a
      /\ Len(Part(w, a, c)) = c - a
  BY <1>1, PartIsSeq
<1>5. SubSeq(Part(v, a, b), 1, b - a) = Part(v, a, b)
  BY <1>4, SubSeqFull
<1> QED BY <1>1, <1>2, <1>3, <1>4, <1>5 DEF Grows

-----------------------------------------------------------------------------
(* The buffer is a segment of the stream                                   *)

LEMMA LargestSize ==
  Max(BufSizes) \in Nat /\ \A s \in BufSizes : s <= Max(BufSizes)
<1>1. PICK m \in BufSizes : \A s \in BufSizes : s <= m
  BY TFWAssumption
<1>2. \A s \in BufSizes : s \in Nat
  BY TFWAssumption
<1>3. \A s \in BufSizes : m >= s
  BY <1>1, <1>2
<1>4. \E x \in BufSizes : \A y \in BufSizes : x >= y
  BY <1>3
<1>5. Max(BufSizes) \in BufSizes /\ \A y \in BufSizes : Max(BufSizes) >= y
  BY <1>4, Zenon DEF Max
<1> QED BY <1>2, <1>5

\* What the buffer holds for DiskLoop starts where the file, or what was dropped, ends.
Segment ==
  /\ put \in Nat /\ Gone \in 0..put /\ want \in Seq(Nat) /\ Len(want) = put
  /\ Done \in 0..BufUsedPriv /\ put - Gone = BufUsedPriv - Done
  /\ BufUsedPriv \in 0..(tfw_buf_size - 1)
  /\ Pending = Part(want, Gone, put)
  /\ ~ignore_writes => Len(disk) = Gone

LEMMA PendingIs == IInv => Segment
<1> SUFFICES ASSUME IInv PROVE Segment OBVIOUS
<1>1. TypeOK /\ LocalsOK /\ RingOK /\ DiskOK
  BY DEF IInv
<1>2. BufUsedPriv \in 0..(tfw_buf_size - 1) /\ BufUsedPriv <= put /\ tfw_buf_size \in Nat
      /\ rpos \in Nat
  BY <1>1, UsedFree, BufSize DEF RingOK
<1>3. put \in Nat /\ want \in Seq(Nat) /\ size \in Nat /\ Len(want) = put
  BY <1>1 DEF TypeOK, DiskOK
<1>4. Done \in 0..BufUsedPriv
  <2>1. dpc = "advance" => size <= BufUsedPriv
    BY <1>1 DEF LocalsOK
  <2> QED BY <2>1, <1>2, <1>3 DEF Done
<1>5. Gone \in 0..put /\ put - Gone = BufUsedPriv - Done
  BY <1>2, <1>3, <1>4 DEF Gone
<1>6. ~ignore_writes => Len(disk) = Gone
  BY <1>1 DEF DiskOK, Gone
<1>7. Pending = Part(want, Gone, put)
  <2>1. Pending = [i \in 1..(BufUsedPriv - Done) |->
                    [byte |-> buf[Wrap(rpos + Done + i - 1)],
                     at |-> want[buf[Wrap(rpos + Done + i - 1)]]]]
    BY Zenon DEF Pending, Done
  <2>2. ASSUME NEW i \in 1..(BufUsedPriv - Done)
        PROVE  buf[Wrap(rpos + Done + i - 1)] = Gone + i
    <3> DEFINE k == Done + (i - 1)
    <3>1. k \in 0..(BufUsedPriv - 1) /\ rpos + k = rpos + Done + i - 1
      BY <1>2, <1>4
    <3>2. buf[Wrap(rpos + k)] = put - BufUsedPriv + 1 + k
      <4> HIDE DEF k
      <4> QED BY <1>1, <3>1 DEF RingOK
    <3>3. put - BufUsedPriv + 1 + k = Gone + i
      BY <1>2, <1>3, <1>4 DEF Gone
    <3> QED BY <3>1, <3>2, <3>3
  <2>3. [i \in 1..(BufUsedPriv - Done) |->
           [byte |-> buf[Wrap(rpos + Done + i - 1)],
            at |-> want[buf[Wrap(rpos + Done + i - 1)]]]]
        = [i \in 1..(BufUsedPriv - Done) |-> [byte |-> Gone + i, at |-> want[Gone + i]]]
    BY <2>2
  <2> QED BY <1>5, <2>1, <2>3 DEF Part
<1> QED BY <1>2, <1>3, <1>4, <1>5, <1>6, <1>7 DEF Segment

-----------------------------------------------------------------------------
(* The steps                                                               *)

\* The end of a chunk of Write: the bytes are accepted.
LEMMA AdvanceAccepts ==
  ASSUME IInv, IInv', WriteAdvance
  PROVE  Promise!Accept
<1>1. TypeOK /\ LocalsOK /\ TypeOK'
  BY DEF IInv
<1>2. /\ put' = put + bytes /\ UNCHANGED <<dpc, size, disk, ignore_writes>>
      /\ want' = want \o [i \in 1..bytes |-> writepos + (count - remaining) + i - 1]
  BY DEF WriteAdvance, diskLoc, file, flags
<1>3. bytes \in Nat /\ bytes >= 1 /\ remaining <= count
  BY <1>1 DEF WriteAdvance, LocalsOK, TypeOK
<1>4. Segment /\ Segment'
  BY PendingIs, PTL
<1>5. /\ put \in Nat /\ Gone \in 0..put /\ want \in Seq(Nat) /\ Len(want) = put
      /\ Done \in 0..BufUsedPriv /\ BufUsedPriv \in 0..(tfw_buf_size - 1)
      /\ want' \in Seq(Nat) /\ Len(want') = put' /\ put' \in Nat
  BY <1>4 DEF Segment
<1>6. Gone' = Gone
  <2>1. Done' = Done
    BY <1>2 DEF Done
  <2>2. BufUsedPriv' = BufUsedPriv + bytes
    BY <1>1, UsedByWrite
  <2> QED BY <1>2, <1>3, <1>5, <2>1, <2>2 DEF Gone
<1>7. \A i \in 1..put : want'[i] = want[i]
  <2> DEFINE t == [i \in 1..bytes |-> writepos + (count - remaining) + i - 1]
  <2>1. t \in [1..bytes -> Nat]
    BY <1>1, <1>3 DEF TypeOK
  <2>2. t \in Seq(Nat) /\ Len(t) = bytes
    BY <1>3, <2>1, FunIsSeq
  <2>3. \A i \in 1..(Len(want) + bytes) :
          (want \o t)[i] = IF i <= Len(want) THEN want[i] ELSE t[i - Len(want)]
    <3> HIDE DEF t
    <3> QED BY <1>5, <2>2, ConcatProperties
  <2>4. want' = want \o t
    BY <1>2
  <2> HIDE DEF t
  <2> QED BY <1>3, <1>5, <2>3, <2>4
<1>8. /\ SubSeq(Pending', 1, put - Gone) = Pending
      /\ Len(Pending) = put - Gone /\ Len(Pending') = put' - Gone
      /\ SubSeq(Pending, 1, put - Gone) = Pending
  <2>1. /\ Gone \in Nat /\ Gone <= put /\ put <= put' /\ put <= Len(want)
        /\ put' <= Len(want')
    BY <1>2, <1>3, <1>5
  <2>2. /\ SubSeq(Part(want', Gone, put'), 1, put - Gone) = Part(want, Gone, put)
        /\ Len(Part(want, Gone, put)) = put - Gone
        /\ Len(Part(want', Gone, put')) = put' - Gone
        /\ SubSeq(Part(want, Gone, put), 1, put - Gone) = Part(want, Gone, put)
    <3>1. /\ want \in Seq(Nat) /\ want' \in Seq(Nat) /\ put \in Nat /\ put' \in Nat
      BY <1>5
    <3>2. Grows(want, want', Gone, put, put')
      BY <3>1, <1>7, <2>1, PartGrows, Zenon
    <3> QED BY <3>2 DEF Grows
  <2>3. Pending = Part(want, Gone, put) /\ Pending' = Part(want', Gone, put')
    BY <1>4, <1>6 DEF Segment
  <2> QED BY <2>2, <2>3
<1>9. Len(Pending') <= Max(BufSizes) - 1
  <2>1. tfw_buf_size' \in BufSizes /\ tfw_buf_size' \in Nat
    BY <1>1, TFWAssumption DEF TypeOK
  <2>2. tfw_buf_size' <= Max(BufSizes) /\ Max(BufSizes) \in Nat
    BY <2>1, LargestSize
  <2>3. /\ put' - Gone' = BufUsedPriv' - Done' /\ Done' \in 0..BufUsedPriv'
        /\ BufUsedPriv' \in 0..(tfw_buf_size' - 1)
    BY <1>4 DEF Segment
  <2>5. Len(Pending') = BufUsedPriv' - Done'
    BY <1>6, <1>8, <2>3, Zenon
  <2>4. \A m, t \in Nat : \A u \in 0..(t - 1) : \A d \in 0..u :
          t <= m => u - d <= m - 1
    OBVIOUS
  <2> QED BY <2>1, <2>2, <2>3, <2>4, <2>5, Zenon
<1>10. Len(Pending) <= Len(Pending') /\ Pending # Pending'
  BY <1>2, <1>3, <1>5, <1>8
<1> QED BY <1>2, <1>8, <1>9, <1>10 DEF Promise!Accept, Promise!IsStrictPrefix, Promise!IsPrefix

\* What DiskLoop takes from the buffer, whether it gets to the file or not.
LEMMA AccountTakes ==
  ASSUME IInv, IInv', dpc = "write", NEW n \in 0..size, Account(n)
  PROVE  /\ n \in 0..Len(Pending)
         /\ Pending' = SubSeq(Pending, n + 1, Len(Pending))
         /\ SubSeq(Pending, 1, n) = Part(want, Gone, Gone + n)
<1>1. Segment /\ Segment'
  BY PendingIs, PTL
<1>2. /\ size \in Nat /\ size <= BufUsedPriv
  BY DEF IInv, LocalsOK, TypeOK
<1>3. UNCHANGED <<rpos, wpos, tfw_buf_size, put, want>> /\ dpc' = "advance" /\ size' = n
  BY DEF Account, ring, stream
<1>4. BufUsedPriv' = BufUsedPriv /\ Done = 0 /\ Done' = n
  BY <1>3, UsedSame DEF Done
<1>5. /\ put \in Nat /\ Gone \in 0..put /\ want \in Seq(Nat) /\ Len(want) = put
      /\ put - Gone = BufUsedPriv - Done /\ BufUsedPriv \in Nat
      /\ Pending = Part(want, Gone, put)
  BY <1>1 DEF Segment
<1>6. n \in 0..(put - Gone) /\ n \in Nat
  BY <1>2, <1>4, <1>5
<1>7. Gone' = Gone + n
  BY <1>3, <1>4, <1>5, <1>6 DEF Gone
<1>8. Pending' = Part(want, Gone + n, put)
  BY <1>1, <1>3, <1>7 DEF Segment
<1>9. Gone \in Nat /\ Gone <= put /\ put <= Len(want)
  BY <1>5
<1>10. Len(Pending) = put - Gone
  BY <1>5, <1>9, PartIsSeq
<1>11. /\ SubSeq(Pending, 1, n) = Part(want, Gone, Gone + n)
       /\ SubSeq(Pending, n + 1, Len(Pending)) = Part(want, Gone + n, put)
  BY <1>5, <1>6, <1>9, PartCut
<1> QED BY <1>6, <1>8, <1>10, <1>11

LEMMA WriteStores ==
  ASSUME IInv, IInv', dpc = "write", ~ignore_writes, NEW n \in 0..size,
         Transfer(n), Account(n)
  PROVE  n \in 0..Len(Pending) /\ Promise!Store(n)
<1>1. Segment
  BY PendingIs
<1>2. /\ put \in Nat /\ Gone \in 0..put /\ want \in Seq(Nat) /\ Len(want) = put
      /\ put - Gone = BufUsedPriv - Done /\ BufUsedPriv \in Nat /\ Len(disk) = Gone
  BY <1>1 DEF Segment
<1>3. Done = 0 /\ n \in Nat /\ n <= BufUsedPriv /\ trpos = rpos /\ rpos \in Nat
  <2>1. size \in Nat /\ size <= BufUsedPriv /\ trpos = rpos /\ rpos \in Nat
    BY BufSize DEF IInv, LocalsOK, TypeOK
  <2> QED BY <2>1, <1>2 DEF Done
<1>4. fpos \in Nat
  BY DEF IInv, TypeOK
<1>5. ASSUME NEW i \in 1..n
      PROVE  /\ buf[Wrap(trpos + i - 1)] = Gone + i
             /\ fpos + i - 1 = want[Gone + i]
  <2> DEFINE k == i - 1
  <2>1. k \in 0..(BufUsedPriv - 1) /\ rpos + k = trpos + i - 1
    BY <1>2, <1>3
  <2>2. buf[Wrap(rpos + k)] = put - BufUsedPriv + 1 + k
    <3> HIDE DEF k
    <3> QED BY <2>1 DEF IInv, RingOK
  <2>3. put - BufUsedPriv + 1 + k = Gone + i
    BY <1>2, <1>3
  <2>4. Gone + i \in (Len(disk) + 1)..put
    BY <1>2, <1>3
  <2>5. want[Gone + i] = fpos + ((Gone + i) - Len(disk) - 1)
    BY <2>4 DEF IInv, DiskOK
  <2>6. fpos + ((Gone + i) - Len(disk) - 1) = fpos + i - 1
    BY <1>2, <1>4
  <2> QED BY <2>1, <2>2, <2>3, <2>5, <2>6
<1>6. [i \in 1..n |-> [byte |-> buf[Wrap(trpos + i - 1)], at |-> fpos + i - 1]]
        = [i \in 1..n |-> [byte |-> Gone + i, at |-> want[Gone + i]]]
  BY <1>5
<1>7. Part(want, Gone, Gone + n)
        = [i \in 1..n |-> [byte |-> Gone + i, at |-> want[Gone + i]]]
  <2>1. (Gone + n) - Gone = n
    BY <1>2, <1>3
  <2> QED BY <2>1 DEF Part
<1>8. disk' = disk \o SubSeq(Pending, 1, n)
  <2>1. SubSeq(Pending, 1, n) = Part(want, Gone, Gone + n)
    BY AccountTakes
  <2>2. disk' = disk \o [i \in 1..n |-> [byte |-> buf[Wrap(trpos + i - 1)],
                                          at |-> fpos + i - 1]]
    BY DEF Transfer
  <2> QED BY <1>6, <1>7, <2>1, <2>2
<1> QED BY <1>8, AccountTakes DEF Promise!Store

\* A step that leaves stream and file alone, and what of the stream is in the buffer.
LEMMA StaysSegment ==
  ASSUME IInv, IInv', UNCHANGED <<put, want, disk, ignore_writes>>, Gone' = Gone
  PROVE  UNCHANGED Promise!vars
<1>1. Segment /\ Segment'
  BY PendingIs, PTL
<1>2. Pending' = Part(want', Gone', put') /\ Pending = Part(want, Gone, put)
  BY <1>1 DEF Segment
<1>3. Pending' = Pending
  BY <1>2
<1> QED BY <1>3 DEF Promise!vars

\* The other steps of DiskLoop, and what the clients do apart from Write.
LEMMA OthersStutter ==
  ASSUME IInv, IInv',
         \/ DiskTest \/ DiskTake \/ DiskAdvance \/ SyncStep \/ Closed \/ Call
         \/ WriteReserve \/ WriteCopy \/ SeekStep
         \/ \E c \in Clients : CallStep(c)
         \/ UNCHANGED vars
  PROVE  UNCHANGED Promise!vars
<1> USE DEF ring, flags, diskLoc, cliLoc, wrLoc, file, stream
<1>seg. put \in Nat /\ Done \in 0..BufUsedPriv /\ BufUsedPriv \in 0..(tfw_buf_size - 1)
  <2>1. Segment
    BY PendingIs
  <2> QED BY <2>1 DEF Segment
<1>num. put \in Nat /\ BufUsedPriv \in Nat /\ Done \in 0..BufUsedPriv /\ size \in Nat
  <2>1. size \in Nat /\ tfw_buf_size \in Nat
    BY BufSize DEF IInv, TypeOK
  <2> QED BY <1>seg, <2>1
<1>same. ASSUME UNCHANGED <<put, want, disk, ignore_writes, rpos, wpos, tfw_buf_size>>,
                Done' = Done
         PROVE  UNCHANGED Promise!vars
  <2>1. Gone' = Gone
    BY <1>same, UsedSame DEF Gone
  <2> QED BY <1>same, <2>1, StaysSegment
<1>1. CASE DiskAdvance
  <2>1. BufUsedPriv' = BufUsedPriv - size
    BY <1>1, UsedByDisk DEF IInv
  <2>2. /\ UNCHANGED <<put, want, disk, ignore_writes>>
        /\ Done = size /\ Done' = 0
    BY <1>1 DEF DiskAdvance, Done
  <2>3. Gone' = Gone
    BY <2>1, <2>2, <1>num DEF Gone
  <2> QED BY <2>2, <2>3, StaysSegment
<1>2. ASSUME NEW c \in Clients, NEW s \in BufSizes, Resize(c, s)
      PROVE  UNCHANGED Promise!vars
  <2>1. BufUsedPriv = 0 /\ BufUsedPriv' = 0
    BY <1>2, UsedByResize DEF Resize, IInv, FlushedOK
  <2>2. /\ UNCHANGED <<put, want, disk, ignore_writes, dpc, size>>
    BY <1>2 DEF Resize
  <2>3. Gone' = Gone
    BY <2>1, <2>2 DEF Gone, Done
  <2> QED BY <2>2, <2>3, StaysSegment
<1>3. CASE DiskTest \/ DiskTake
  <2>1. UNCHANGED <<put, want, disk, ignore_writes, rpos, wpos, tfw_buf_size>>
    BY <1>3 DEF DiskTest, DiskTake
  <2>2. Done' = Done
    BY <1>3 DEF DiskTest, DiskTake, Done
  <2> QED BY <2>1, <2>2, <1>same
<1>4. CASE \/ SyncStep \/ Closed \/ Call \/ WriteReserve \/ WriteCopy \/ SeekStep
           \/ UNCHANGED vars
  <2>1. UNCHANGED <<put, want, disk, ignore_writes, rpos, wpos, tfw_buf_size, dpc, size>>
    BY <1>4 DEF SyncStep, SyncTest, SyncLoop, Closed, Call, WriteCall, Seek, WriterFlush,
                SetWriteBufferSize, Destroy, FlushBegin, WriteReserve, WriteCopy, SeekStep,
                LSeek, vars
  <2> QED BY <2>1, <1>same DEF Done
<1>5. ASSUME NEW c \in Clients, FlushEnd(c) \/ ClientSync(c) \/ DtorExit(c) \/ DtorJoin(c)
      PROVE  UNCHANGED Promise!vars
  <2>1. UNCHANGED <<put, want, disk, ignore_writes, rpos, wpos, tfw_buf_size, dpc, size>>
    BY <1>5 DEF FlushEnd, ClientSync, DtorExit, DtorJoin
  <2> QED BY <2>1, <1>same DEF Done
<1> QED BY <1>1, <1>2, <1>3, <1>4, <1>5 DEF CallStep

-----------------------------------------------------------------------------
(* The theorem                                                             *)

\* The write buffer is an ordered, bounded path to the file: whatever its clients
\* and its two threads do, through wrap-around, partial writes, retries, seeks and
\* resizes, only a file that can grow no more loses data.
THEOREM Refinement == Spec => ImplementsOrderedWriter
<1>1. Init => Promise!Init
  <2> SUFFICES ASSUME Init PROVE Promise!Init OBVIOUS
  <2>1. IInv
    BY InitIInv
  <2>2. put = 0 /\ disk = <<>> /\ ignore_writes = FALSE
    BY DEF Init
  <2>3. Pending = Part(want, Gone, put) /\ Gone \in 0..put
    BY <2>1, PendingIs DEF Segment
  <2>4. Gone = 0
    BY <2>2, <2>3
  <2>5. Pending = <<>>
    BY <2>2, <2>3, <2>4 DEF Part
  <2> QED BY <2>2, <2>5 DEF Promise!Init
<1>2. IInv /\ IInv' /\ [Next]_vars => [Promise!Next]_(Promise!vars)
  <2> SUFFICES ASSUME IInv, IInv', [Next]_vars
               PROVE  Promise!Next \/ UNCHANGED Promise!vars
    OBVIOUS
  <2>typ. TypeOK /\ TypeOK'
    BY DEF IInv
  <2>1. CASE WriteAdvance
    BY <2>1, AdvanceAccepts DEF Promise!Next
  <2>2. ASSUME NEW n \in 0..size, dpc = "write", ~ignore_writes, Transfer(n), Account(n)
        PROVE  Promise!Next
    <3>1. n \in 0..Len(Pending) /\ Promise!Store(n)
      BY <2>2, WriteStores
    <3>2. ignore_writes' \in BOOLEAN
      BY <2>typ DEF TypeOK
    <3> QED BY <3>1, <3>2 DEF Promise!Next
  <2>3. CASE DiskWrite
    <3>1. size \in 0..size
      BY <2>typ DEF TypeOK
    <3> QED BY <2>2, <2>3, <3>1 DEF DiskWrite
  <2>4. ASSUME NEW n \in 0..(size - 1), NEW e \in Faults, DiskFault(n, e)
        PROVE  Promise!Next
    <3>1. n \in 0..size
      BY <2>typ DEF TypeOK
    <3> QED BY <2>2, <2>4, <3>1 DEF DiskFault
  <2>5. CASE DiskDiscard
    <3>1. /\ dpc = "write" /\ ignore_writes /\ Account(size)
          /\ UNCHANGED <<disk, ignore_writes>>
      BY <2>5 DEF DiskDiscard
    <3>2. size \in 0..size /\ size >= 1
      BY <3>1 DEF IInv, TypeOK, LocalsOK
    <3>3. size \in 0..Len(Pending) /\ Pending' = SubSeq(Pending, size + 1, Len(Pending))
      BY <3>1, <3>2, AccountTakes
    <3>4. size \in 1..Len(Pending)
      BY <3>2, <3>3
    <3> QED BY <3>1, <3>3, <3>4 DEF Promise!Next, Promise!Drop
  <2>6. CASE \/ DiskTest \/ DiskTake \/ DiskAdvance \/ SyncStep \/ Closed \/ Call
             \/ WriteReserve \/ WriteCopy \/ SeekStep
             \/ \E c \in Clients : CallStep(c)
             \/ UNCHANGED vars
    BY <2>6, OthersStutter
  <2> QED
    BY <2>1, <2>3, <2>4, <2>5, <2>6 DEF Next, WriteStep, DiskStep
<1> QED BY <1>1, <1>2, Invariance, PTL DEF Spec, ImplementsOrderedWriter, Promise!Spec
=============================================================================
