---------------------------- MODULE OrderedWriter ----------------------------
(***************************************************************************)
(* What ThreadedFileWriter promises its clients: what they give it is      *)
(* stored in the order given, and at most Capacity bytes are in its hands. *)
(* Only a file that can grow no more loses data, and then everything from  *)
(* one point of the stream on.                                             *)
(***************************************************************************)
EXTENDS Integers, Sequences, SequencesExt

CONSTANT Capacity      \* bytes the writer may hold

VARIABLES
  pending,    \* accepted and not yet stored
  stored,     \* the file, in the order it was written
  full        \* the file has outgrown what the file system allows

vars == <<pending, stored, full>>

Init == pending = <<>> /\ stored = <<>> /\ full = FALSE

\* A client adds bytes behind those pending.
Accept ==
  /\ IsStrictPrefix(pending, pending')
  /\ Len(pending') <= Capacity
  /\ UNCHANGED <<stored, full>>

\* The first n pending bytes are stored.
Store(n) ==
  /\ ~full
  /\ stored' = stored \o SubSeq(pending, 1, n)
  /\ pending' = SubSeq(pending, n + 1, Len(pending))

\* Bytes the full file has no room for are dropped, oldest first.
Drop(n) ==
  /\ full
  /\ pending' = SubSeq(pending, n + 1, Len(pending))
  /\ UNCHANGED <<stored, full>>

Next ==
  \/ Accept
  \/ \E n \in 0..Len(pending) : Store(n) /\ full' \in BOOLEAN
  \/ \E n \in 1..Len(pending) : Drop(n)

Spec == Init /\ [][Next]_vars
=============================================================================
