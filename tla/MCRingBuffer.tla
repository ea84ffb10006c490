---------------------------- MODULE MCRingBuffer ----------------------------
(* RingBuffer with a ring of four slots, and what a player does with it.    *)
EXTENDS RingBuffer

SomeCounts == {2}
SomeTargets == {1, 4}

Use(live, fails, stalls, decoder, control) ==
  [live |-> live, fails |-> fails, stalls |-> stalls, decoder |-> decoder,
   control |-> control]

SwitchAndJump == {"SwitchToProgram", "JumpToProgram"}

\* A recording, and the chain of Live TV, each with at most one kind of user.
PlayUses ==
  {Use(FALSE, TRUE, FALSE, {"Read", "Seek"}, {"Delete"}),
   Use(FALSE, FALSE, TRUE, {"Read", "Peek"}, {}),
   Use(FALSE, FALSE, FALSE, {"Read"}, {"StopDecoder"}),
   Use(FALSE, FALSE, FALSE, {"Read"}, {"PauseAndWait", "Delete"}),
   Use(TRUE, FALSE, FALSE, {"Read"} \cup SwitchAndJump, {}),
   Use(TRUE, FALSE, FALSE, {"JumpToProgram"}, {"StopDecoder", "Pause"}),
   Use(TRUE, FALSE, FALSE, {"Read", "SwitchToProgram"}, {"Unpause"})}
=============================================================================
