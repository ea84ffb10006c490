------------------------------- MODULE MCTVRec -------------------------------
(* TVRec with a few programs.                                              *)
EXTENDS TVRec

CONSTANTS p1, p2

OneProgram == {p1}
TwoPrograms == {p1, p2}
NoFailures == {}

Use(programs, calls) == [programs |-> programs, calls |-> calls]
LiveTVOnly == Use({}, {"SpawnLiveTV", "StopLiveTV", "SetChannel"})
SchedulerAndUser == Use({p1}, {"StopRecording"})
AllOfOne == {Use({p1}, {"SpawnLiveTV", "StopLiveTV", "StopRecording", "Cancel"})}
LiveOrScheduled == {LiveTVOnly, SchedulerAndUser}
OneScheduled == {Use({p1}, {})}
TwoScheduled == {Use({p1, p2}, {})}
=============================================================================
