----------------------------- MODULE MCJobQueue -----------------------------
(* JobQueue with two hosts, of which the second has no transcoder, and the  *)
(* jobs of one recording or of two.                                        *)
EXTENDS JobQueue, TLC

CONSTANTS h1, h2, r1, r2

TwoHosts == {h1, h2}
NoTranscodeOnH2 == [h \in Hosts |-> IF h = h2 THEN {"commflag", "user"} ELSE Types]
AllAllowed == [h \in Hosts |-> Types]

Job(r, t) == [rec |-> r, type |-> t]
Flag == <<Job(r1, "commflag")>>
FlagTwice == <<Job(r1, "commflag"), Job(r1, "commflag")>>
Transcode == <<Job(r1, "transcode")>>
FlagAndTranscode == <<Job(r1, "commflag"), Job(r1, "transcode")>>
UserAndFlag == <<Job(r1, "user"), Job(r1, "commflag")>>
FlagAndUser == <<Job(r1, "commflag"), Job(r1, "user")>>
TwoRecordings == <<Job(r1, "commflag"), Job(r2, "user")>>

Use(js, does, crashes, host) ==
  [jobs |-> js, does |-> does, crashes |-> crashes, host |-> host]

\* What the safety properties are checked under.
SafeUses ==
  {Use(FlagAndTranscode, {}, 1, ""),
   Use(UserAndFlag, {}, 0, ""),
   Use(FlagTwice, {"delete"}, 0, ""),
   Use(TwoRecordings, {}, 0, ""),
   Use(Flag, {"modify"}, 0, "")} \cup
  {Use(FlagAndUser, {"stop"}, 0, host) : host \in Hosts} \cup
  {Use(Flag, {does}, 1, host) : host \in Hosts \cup {""},
                                does \in {"stop", "delete", "requeue", "deleteAll"}} \cup
  {Use(Transcode, {does}, 1, "") : does \in {"stop", "delete"}}

\* Nothing tells the hosts apart: they may run the same, and each use is there for both.
HostSymmetry == Permutations(Hosts)

\* What EveryJobEnds is checked under.
FairUses ==
  {Use(FlagAndTranscode, {}, 1, ""),
   Use(FlagTwice, {}, 0, "")} \cup
  {Use(Flag, {does}, 1, "") : does \in {"stop", "requeue", "delete", "deleteAll"}}

\* JobsRunOnRecordHost
StopOnHost == {Use(Flag, {"stop"}, 0, h1)}
=============================================================================
