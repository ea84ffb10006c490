--------------------------- MODULE JobQueueProofs ---------------------------
(***************************************************************************)
(* Proofs about JobQueue: its type invariant holds, and a job is run once  *)
(* at a time, for every set of hosts, limit, list of jobs and number of     *)
(* crashes.                                                                *)
(***************************************************************************)
EXTENDS JobQueue, WellFoundedInduction, TLAPS

-----------------------------------------------------------------------------
(* The inductive invariant: types                                          *)

\* Where a queue thread goes through the rows of its snapshot.
Pass == {"scan", "cancel", "run", "process", "missing", "start", "child"}
Recovers == {"requeue", "uncommand", "disclaim"}

\* Then it is at a row.
AtRow == \A h \in Hosts : qpc[h] \in Pass \cup Recovers => x[h] \in DOMAIN snap[h]

\* A transcoder that ends its job does so by one of these.
EndsOK ==
  \A h \in Hosts, t \in Threads :
    At(h, t, "completed") => thread[h][t].status \in {"Stopping", "Aborting", "Erroring"}

TypeInv == TypeOK /\ AtRow /\ EndsOK

-----------------------------------------------------------------------------
(* The inductive invariant: rows and those who take them for theirs        *)

\* A job is the same in the table, in a snapshot and in its thread.
JobIs(j, i) == i \in DOMAIN use.jobs /\ j.rec = use.jobs[i].rec /\ j.type = use.jobs[i].type
JobsAreTheirs ==
  /\ \A i \in DOMAIN db : JobIs(db[i], i)
  /\ \A h \in Hosts : \A i \in DOMAIN snap[h] : JobIs(snap[h][i], i)
  /\ \A h \in Hosts, t \in Threads :
       thread[h][t] # NULL => JobIs(thread[h][t], thread[h][t].id)

\* When a job got its row, the rows of the same job queued before were gone.
FirstOf(i) == \A j \in DOMAIN db : j < i => use.jobs[j] # use.jobs[i]
FirstRows ==
  /\ \A i \in DOMAIN db : FirstOf(i)
  /\ \A h \in Hosts : \A i \in DOMAIN snap[h] : FirstOf(i)
  /\ \A h \in Hosts, t \in Threads : thread[h][t] # NULL => FirstOf(thread[h][t].id)

\* QueueJob deletes the one that it has found.
QueuesOne ==
  /\ upc = "insert" => \A i \in DOMAIN db : use.jobs[i] # use.jobs[next]
  /\ upc = "replace" => \A i \in DOMAIN db : use.jobs[i] = use.jobs[next] => i = old

\* What a flagger takes for its own is the row of its own job, or of a later one like it.
FlagsAreLike ==
  \A h \in Hosts, t \in Threads : thread[h][t] # NULL =>
    /\ At(h, t, "lookup") => Is(h, t, "commflag")
    /\ thread[h][t].jobID # NoJob =>
         /\ Is(h, t, "commflag") /\ thread[h][t].jobID \in DOMAIN use.jobs
         /\ use.jobs[thread[h][t].jobID] = use.jobs[thread[h][t].id]
         /\ thread[h][t].id <= thread[h][t].jobID

\* Jobs that are yet to be queued are nowhere.
IdsAreNew ==
  /\ \A i \in DOMAIN db : i < next
  /\ \A h \in Hosts : \A i \in DOMAIN snap[h] : i < next
  /\ \A h \in Hosts, t \in Threads : thread[h][t] # NULL => thread[h][t].id < next

RowInv == JobsAreTheirs /\ FirstRows /\ QueuesOne /\ FlagsAreLike

-----------------------------------------------------------------------------
(* The inductive invariant: a job has one owner                            *)

\* Nobody requeues job i, and no flagger of another job takes its row for its own.
Tracked(i) == "requeue" \notin use.does /\ i \in DOMAIN use.jobs /\ OwnRow(i)

\* RunOnce.
OnOneHost == \A i \in Ids, h, g \in Hosts : Owns(h, i) /\ Owns(g, i) => h = g
Once ==
  \A i \in Ids, h \in Hosts : Tracked(i) =>
    /\ \A t, u \in Threads : Has(h, t, i) /\ Has(h, u, i) => t = u
    /\ \A t \in Threads : Has(h, t, i) => ~Starts(h, i)

\* The row of a job names its owner, as long as there is such a row.
RowNamesOwner == \A h \in Hosts, i \in DOMAIN db : Owns(h, i) => db[i].host = h

\* A host that has not recovered yet runs nothing,
RecoveringIsIdle ==
  \A h \in Hosts : Recovering(h) => \A t \in Threads : thread[h][t] = NULL

\* and what it has still to recover is its own.
RecoversOwn ==
  \A h \in Hosts : qpc[h] \in Recovers =>
    \A i \in DOMAIN snap[h] \cap DOMAIN db : i >= x[h] => db[i].host = h

\* The row that it disclaims does not run,
RecoveredIsQueued ==
  \A h \in Hosts :
    qpc[h] \in {"uncommand", "disclaim"} /\ x[h] \in DOMAIN db /\ Tracked(x[h]) =>
      db[x[h]].status \in Done \cup {"Queued"}

\* nor does any other row without a host.
UnclaimedIsQueued ==
  \A i \in DOMAIN db :
    Tracked(i) /\ db[i].host = "" => db[i].status \in Done \cup {"Queued"}

\* A job that is run is not queued.
OwnedIsNotQueued ==
  \A h \in Hosts, i \in DOMAIN db :
    /\ Tracked(i)
    /\ \/ \E t \in Threads : Has(h, t, i)
       \/ x[h] = i /\ qpc[h] \in {"start", "missing", "child"}
    => db[i].status # "Queued"

\* A row of the snapshot that the pass has not come to yet.
Ahead(h, i) == qpc[h] \in Pass /\ i \in DOMAIN snap[h] /\ i >= x[h]

\* What the snapshot says of such a row stays true where it matters: a queued row has
\* no thread here,
AheadIsQueued ==
  \A h \in Hosts, i \in Ids :
    Tracked(i) /\ Ahead(h, i) /\ snap[h][i].status = "Queued" =>
      \A t \in Threads : ~Has(h, t, i)

\* a row that names this host still does, no other host has it,
AheadIsMine ==
  \A h \in Hosts, i \in Ids :
    Ahead(h, i) /\ snap[h][i].host = h =>
      /\ i \in DOMAIN db => db[i].host = h
      /\ \A g \in Hosts \ {h} : ~Owns(g, i)

\* and no other host's snapshot says the same of that host.
AheadIsNotTheirs ==
  \A h, g \in Hosts, i \in Ids :
    /\ Ahead(h, i) /\ snap[h][i].host = h
    /\ Ahead(g, i) /\ snap[g][i].host = g
    => h = g

\* A row without a host was queued, and so was the one that is being started.
AheadUnclaimed ==
  \A h \in Hosts, i \in Ids :
    Tracked(i) /\ Ahead(h, i) /\ snap[h][i].host = "" => snap[h][i].status = "Queued"

\* A dialog offers what users do.
DialogAsks == dialog # NULL => dialog.asks \in use.does

OneOwner ==
  /\ OnOneHost /\ Once /\ RowNamesOwner /\ OwnedIsNotQueued /\ UnclaimedIsQueued
  /\ RecoveringIsIdle /\ RecoversOwn /\ RecoveredIsQueued
  /\ AheadIsQueued /\ AheadIsMine /\ AheadIsNotTheirs /\ AheadUnclaimed
  /\ IdsAreNew

IInv == TypeInv /\ DialogAsks /\ RowInv /\ OneOwner

-----------------------------------------------------------------------------
(* Lemmas about the constants and the operators                            *)

\* A set of numbers that is not empty has a least element.
LEMMA LeastIn ==
  ASSUME NEW S, S \subseteq Nat, S # {}
  PROVE  Least(S) \in S /\ \A j \in S : Least(S) <= j
<1> DEFINE R == {ab \in Nat \X Nat : ab[1] < ab[2]}
<1>1. IsWellFoundedOn(R, Nat)
  <2>1. R = OpToRel(<, Nat)
    BY DEF OpToRel
  <2> QED BY <2>1, NatLessThanWellFounded
<1>2. \E m \in S : \A j \in S : <<j, m>> \notin R
  <2> HIDE DEF R
  <2> QED BY <1>1, WFMin
<1>3. PICK m \in S : \A j \in S : <<j, m>> \notin R
  BY <1>2
<1>4. \A j \in S : <<j, m>>[1] = j /\ <<j, m>>[2] = m /\ <<j, m>> \in Nat \X Nat
  BY <1>3
<1>5. \A j \in S : ~(j < m)
  BY <1>3, <1>4
<1>6. \E i \in S : \A j \in S : i <= j
  BY <1>3, <1>5
<1> QED BY <1>6 DEF Least

LEMMA ElementOf ==
  ASSUME NEW S, NEW q \in Seq(S), NEW i \in DOMAIN q
  PROVE  q[i] \in S
OBVIOUS

LEMMA IdsAreNumbers == Ids \subseteq Nat \ {0}
<1> SUFFICES ASSUME NEW u \in Uses, NEW i \in DOMAIN u.jobs
             PROVE  i \in Nat \ {0}
  BY DEF Ids
<1>1. u.jobs \in Seq([rec : Recordings, type : Types])
  BY JobQueueAssumption
<1>2. DOMAIN u.jobs = 1..Len(u.jobs)
  BY <1>1
<1> QED BY <1>2

\* What a use says, and what does not change of it.
LEMMA UseIs ==
  ASSUME UseOK
  PROVE  /\ use \in [jobs : Seq([rec : Recordings, type : Types]), does : SUBSET Commands,
                     crashes : Nat, host : Hosts \cup {""}]
         /\ DOMAIN use.jobs \subseteq Ids
<1>1. PICK u \in Uses : \E n \in 0..u.crashes : use = [u EXCEPT !.crashes = n]
  BY DEF UseOK
<1>2. PICK n \in 0..u.crashes : use = [u EXCEPT !.crashes = n]
  BY <1>1
<1>3. u \in [jobs : Seq([rec : Recordings, type : Types]), does : SUBSET Commands,
            crashes : Nat, host : Hosts \cup {""}]
  BY JobQueueAssumption
<1>4. n \in Nat
  <2>1. u.crashes \in Nat
    BY <1>3
  <2> QED BY <1>2, <2>1
<1>5. use.jobs = u.jobs
  BY <1>2, <1>3
<1>6. DOMAIN u.jobs \subseteq Ids
  BY DEF Ids
<1> QED BY <1>2, <1>3, <1>4, <1>5, <1>6

-----------------------------------------------------------------------------
(* The operators keep the types                                            *)

LEMMA RowsAre ==
  ASSUME NEW j \in Rows
  PROVE  /\ j.rec \in Recordings /\ j.type \in Types /\ j.status \in Statuses
         /\ j.host \in Hosts \cup {""}
         /\ \A s \in Statuses : [j EXCEPT !.status = s] \in Rows
         /\ \A c \in {"Run", "Stop", "Pause", "Resume"} : [j EXCEPT !.cmds = c] \in Rows
         /\ \A g \in Hosts \cup {""} : [j EXCEPT !.host = g] \in Rows
BY DEF Rows

LEMMA StatusKeepsType ==
  ASSUME DbOK, NEW i, NEW s \in Statuses, ChangeJobStatus(i, s)
  PROVE  DbOK'
<1>1. \A j \in DOMAIN db : [db[j] EXCEPT !.status = s] \in Rows
  BY RowsAre DEF DbOK
<1> QED BY <1>1 DEF DbOK, ChangeJobStatus

LEMMA CmdsKeepType ==
  ASSUME DbOK, NEW i, NEW c \in {"Run", "Stop", "Pause", "Resume"}, ChangeJobCmds(i, c)
  PROVE  DbOK'
<1>1. \A j \in DOMAIN db : [db[j] EXCEPT !.cmds = c] \in Rows
  BY RowsAre DEF DbOK
<1> QED BY <1>1 DEF DbOK, ChangeJobCmds

LEMMA ClaimKeepsType ==
  ASSUME DbOK, NEW i, NEW h \in Hosts, Claim(i, h)
  PROVE  DbOK'
<1>1. i \in DOMAIN db /\ db' = [db EXCEPT ![i].host = h]
  BY DEF Claim, Unclaimed
<1>2. DOMAIN db' = DOMAIN db
  BY <1>1
<1>3. \A j \in DOMAIN db : db'[j] = IF j = i THEN [db[j] EXCEPT !.host = h] ELSE db[j]
  BY <1>1
<1>4. \A j \in DOMAIN db : [db[j] EXCEPT !.host = h] \in Rows
  BY RowsAre DEF DbOK
<1> QED BY <1>2, <1>3, <1>4 DEF DbOK

LEMMA DisclaimKeepsType ==
  ASSUME DbOK, NEW i, Disclaim(i)
  PROVE  DbOK'
<1>1. \A j \in DOMAIN db : [db[j] EXCEPT !.host = ""] \in Rows
  BY RowsAre DEF DbOK
<1> QED BY <1>1 DEF DbOK, Disclaim

LEMMA DeleteKeepsType ==
  ASSUME DbOK, NEW ids, Delete(ids)
  PROVE  DbOK'
BY DEF DbOK, Delete

LEMMA InsertKeepsType ==
  ASSUME DbOK, UseOK, NEW i \in DOMAIN use.jobs, Insert(i)
  PROVE  DbOK'
<1> DEFINE new == [rec |-> use.jobs[i].rec, type |-> use.jobs[i].type,
                   status |-> "Queued", cmds |-> "Run", host |-> use.host]
<1>1. use.jobs[i] \in [rec : Recordings, type : Types]
  <2>1. use.jobs \in Seq([rec : Recordings, type : Types])
    BY UseIs
  <2> QED BY <2>1, ElementOf
<1>2. new \in Rows
  BY <1>1, UseIs DEF Rows, Statuses
<1>3. i \in Ids
  BY UseIs
<1>4. DOMAIN db' = DOMAIN db \cup {i} /\ \A j \in DOMAIN db' : db'[j] = IF j = i THEN new ELSE db[j]
  BY DEF Insert
<1> QED BY <1>2, <1>3, <1>4 DEF DbOK

LEMMA AdvanceKeepsType ==
  ASSUME RowsOK, AtRow, NEW h \in Hosts, NEW pc \in {"scan", "requeue"}, Advance(h, pc)
  PROVE  RowsOK' /\ AtRow'
<1>1. Later(h) \subseteq DOMAIN snap[h] /\ Later(h) \subseteq Ids
  BY DEF Later, RowsOK
<1>2. CASE Later(h) # {}
  <2>1. Least(Later(h)) \in Later(h)
    BY <1>1, <1>2, LeastIn, IdsAreNumbers
  <2>2. /\ x' = [x EXCEPT ![h] = Least(Later(h))] /\ qpc' = [qpc EXCEPT ![h] = pc]
        /\ snap' = snap
    BY <1>2 DEF Advance
  <2> QED BY <1>1, <2>1, <2>2 DEF RowsOK, AtRow, QueuePcs
<1>3. CASE Later(h) = {}
  <2>1. /\ x' = [x EXCEPT ![h] = 0] /\ qpc' = [qpc EXCEPT ![h] = "fetch"]
        /\ snap' = [snap EXCEPT ![h] = <<>>]
    BY <1>3 DEF Advance
  <2>2. snap'[h] = <<>> /\ DOMAIN snap'[h] = {} /\ \A g \in Hosts \ {h} : snap'[g] = snap[g]
    BY <2>1 DEF RowsOK
  <2> QED BY <2>1, <2>2 DEF RowsOK, AtRow, QueuePcs, Pass, Recovers
<1> QED BY <1>2, <1>3

LEMMA GotoKeepsType ==
  ASSUME RowsOK, AtRow, NEW h \in Hosts, NEW pc \in QueuePcs, Goto(h, pc),
         qpc[h] \in Pass \cup Recovers \/ pc \notin Pass \cup Recovers
  PROVE  RowsOK' /\ AtRow'
BY DEF Goto, RowsOK, AtRow

\* What a queue thread sees at a row.
LEMMA RowTyped ==
  ASSUME RowsOK, SeenOK, NEW h \in Hosts, x[h] \in DOMAIN snap[h]
  PROVE  /\ Row(h) \in Rows /\ x[h] \in Ids
         /\ Seen(h) \in [Recordings -> Statuses \cup {NULL}]
<1>1. Row(h) \in Rows /\ x[h] \in Ids
  BY DEF RowsOK, Row
<1>2. Row(h).rec \in Recordings /\ Row(h).status \in Statuses
  BY <1>1, RowsAre
<1>3. jobStatus[h] \in [Recordings -> Statuses \cup {NULL}]
  BY DEF SeenOK
<1> QED BY <1>1, <1>2, <1>3 DEF Seen

LEMMA NextRowKeepsType ==
  ASSUME RowsOK, AtRow, SeenOK, NEW h \in Hosts, NEW any \in BOOLEAN,
         NEW seen \in [Recordings -> Statuses \cup {NULL}], NextRow(h, seen, any)
  PROVE  RowsOK' /\ AtRow' /\ SeenOK'
<1>1. RowsOK' /\ AtRow'
  BY AdvanceKeepsType DEF NextRow
<1>2. (IF Later(h) # {} THEN seen ELSE [r \in Recordings |-> NULL])
        \in [Recordings -> Statuses \cup {NULL}]
  OBVIOUS
<1>3. (any /\ Later(h) # {}) \in BOOLEAN
  OBVIOUS
<1>4. SeenOK'
  BY <1>2, <1>3, Zenon DEF NextRow, SeenOK
<1> QED BY <1>1, <1>4

LEMMA AtRowTyped ==
  ASSUME TypeInv, NEW h \in Hosts, qpc[h] \in Pass
  PROVE  /\ Row(h) \in Rows /\ x[h] \in Ids /\ x[h] \in DOMAIN snap[h]
         /\ Seen(h) \in [Recordings -> Statuses \cup {NULL}]
         /\ jobStatus[h] \in [Recordings -> Statuses \cup {NULL}]
         /\ started[h] \in BOOLEAN
<1>1. RowsOK /\ SeenOK /\ AtRow
  BY DEF TypeInv, TypeOK
<1>2. x[h] \in DOMAIN snap[h]
  BY <1>1 DEF AtRow
<1> QED BY <1>1, <1>2, RowTyped DEF SeenOK

LEMMA UserSame ==
  ASSUME UserOK, UseOK, UNCHANGED user, UNCHANGED use
  PROVE  UserOK' /\ UseOK'
BY DEF UserOK, UseOK, user

LEMMA JobsSame ==
  ASSUME JobsOK, EndsOK, UNCHANGED jobs
  PROVE  JobsOK' /\ EndsOK'
BY DEF JobsOK, EndsOK, jobs, At

LEMMA QueueSame ==
  ASSUME RowsOK, AtRow, SeenOK, UNCHANGED queue
  PROVE  RowsOK' /\ AtRow' /\ SeenOK'
BY DEF RowsOK, AtRow, SeenOK, queue

-----------------------------------------------------------------------------
(* Every step keeps the types                                              *)

LEMMA TypeInit == Init => TypeInv
<1> SUFFICES ASSUME Init PROVE TypeInv
  OBVIOUS
<1>1. UseOK
  <2>1. PICK u \in Uses : use = u
    BY DEF Init
  <2>2. u \in [jobs : Seq([rec : Recordings, type : Types]), does : SUBSET Commands,
              crashes : Nat, host : Hosts \cup {""}]
    BY JobQueueAssumption
  <2>3. u.crashes \in 0..u.crashes
    <3>1. u.crashes \in Nat
      BY <2>2
    <3> QED BY <3>1
  <2>4. u = [u EXCEPT !.crashes = u.crashes]
    BY <2>2
  <2> QED BY <2>1, <2>3, <2>4 DEF UseOK
<1>2. DbOK
  BY DEF Init, DbOK
<1>3. RowsOK /\ AtRow
  BY DEF Init, RowsOK, AtRow, QueuePcs, Pass, Recovers
<1>4. SeenOK
  BY DEF Init, SeenOK
<1>5. JobsOK /\ EndsOK
  BY DEF Init, JobsOK, EndsOK, At, None
<1>6. UserOK
  <2>1. Len(use.jobs) \in Nat
    <3>1. use.jobs \in Seq([rec : Recordings, type : Types])
      BY <1>1, UseIs
    <3> QED BY <3>1
  <2> QED BY <2>1 DEF Init, UserOK
<1> QED BY <1>1, <1>2, <1>3, <1>4, <1>5, <1>6 DEF TypeInv, TypeOK

LEMMA RecoverTypes ==
  ASSUME TypeInv, NEW h \in Hosts, RecoverStep(h)
  PROVE  TypeInv'
<1> USE DEF TypeInv, TypeOK
<1>1. UserOK' /\ UseOK' /\ JobsOK' /\ EndsOK' /\ SeenOK'
  <2>1. UNCHANGED <<jobStatus, started, jobs, user, use>>
    BY DEF RecoverStep, RecoverQueue, RecoverStatus, RecoverCmds, RecoverHost
  <2> QED BY <2>1, UserSame, JobsSame DEF SeenOK
<1>2. CASE RecoverQueue(h)
  <2>1. DbOK'
    BY <1>2 DEF RecoverQueue, DbOK
  <2> DEFINE left == {i \in NotDone : Recoverable(db[i], h)}
  <2>2. CASE left = {}
    BY <1>1, <1>2, <2>1, <2>2, GotoKeepsType DEF RecoverQueue, QueuePcs, Pass, Recovers
  <2>3. CASE left # {}
    <3>1. left \subseteq DOMAIN db /\ left \subseteq Ids
      BY DEF NotDone, DbOK
    <3>2. Least(left) \in left
      BY <2>3, <3>1, LeastIn, IdsAreNumbers
    <3> HIDE DEF left
    <3>3. /\ snap' = [snap EXCEPT ![h] = [i \in left |-> db[i]]]
          /\ x' = [x EXCEPT ![h] = Least(left)]
          /\ qpc' = [qpc EXCEPT ![h] = "requeue"]
      BY <1>2, <2>3 DEF RecoverQueue, left
    <3>4. \A i \in left : db[i] \in Rows
      BY <3>1 DEF DbOK
    <3>5. RowsOK' /\ AtRow'
      BY <3>1, <3>2, <3>3, <3>4 DEF RowsOK, AtRow, QueuePcs
    <3> QED BY <1>1, <2>1, <3>5
  <2> QED BY <2>2, <2>3
<1>3. CASE RecoverStatus(h)
  <2>1. DbOK'
    BY <1>3, StatusKeepsType DEF RecoverStatus, Statuses
  <2>2. RowsOK' /\ AtRow'
    BY <1>3, GotoKeepsType DEF RecoverStatus, QueuePcs, Recovers
  <2> QED BY <1>1, <2>1, <2>2
<1>4. CASE RecoverCmds(h)
  <2>1. DbOK'
    BY <1>4, CmdsKeepType DEF RecoverCmds
  <2>2. RowsOK' /\ AtRow'
    BY <1>4, GotoKeepsType, AdvanceKeepsType DEF RecoverCmds, QueuePcs, Recovers
  <2> QED BY <1>1, <2>1, <2>2
<1>5. CASE RecoverHost(h)
  <2>1. DbOK'
    BY <1>5, DisclaimKeepsType DEF RecoverHost
  <2>2. RowsOK' /\ AtRow'
    BY <1>5, AdvanceKeepsType DEF RecoverHost
  <2> QED BY <1>1, <2>1, <2>2
<1> QED BY <1>2, <1>3, <1>4, <1>5 DEF RecoverStep

\* What the queue thread does at a row that it passes over or commands to.
LEMMA PassTypes ==
  ASSUME TypeInv, NEW h \in Hosts,
         \/ SkipElsewhere(h) \/ SkipBlocked(h) \/ SkipNotAllowed(h) \/ SkipStarted(h)
         \/ StopRunning(h) \/ StopQueued(h) \/ Cancel(h) \/ ResetCmds(h)
         \/ PauseRunning(h) \/ ResetStatus(h)
  PROVE  TypeInv'
<1> USE DEF TypeInv, TypeOK
<1> DEFINE seen == [Recordings -> Statuses \cup {NULL}]
<1>1. qpc[h] \in Pass
  BY DEF SkipElsewhere, SkipBlocked, SkipNotAllowed, SkipStarted, StopRunning, StopQueued,
         Cancel, ResetCmds, PauseRunning, ResetStatus, Mine, Here, Pass
<1>2. /\ Row(h) \in Rows /\ x[h] \in Ids /\ Seen(h) \in seen /\ jobStatus[h] \in seen
      /\ started[h] \in BOOLEAN
  BY <1>1, AtRowTyped
<1>3. UserOK' /\ UseOK'
  <2>1. UNCHANGED <<user, use>>
    BY DEF SkipElsewhere, SkipBlocked, SkipNotAllowed, SkipStarted, StopRunning, StopQueued,
           Cancel, ResetCmds, PauseRunning, ResetStatus
  <2> QED BY <2>1, UserSame
<1> HIDE DEF seen
<1>4. CASE SkipElsewhere(h) \/ SkipBlocked(h) \/ SkipNotAllowed(h) \/ SkipStarted(h)
  <2>1. UNCHANGED <<db, jobs>>
    BY <1>4 DEF SkipElsewhere, SkipBlocked, SkipNotAllowed, SkipStarted
  <2>2. \E s \in seen, any \in BOOLEAN : NextRow(h, s, any)
    BY <1>2, <1>4 DEF SkipElsewhere, SkipBlocked, SkipNotAllowed, SkipStarted
  <2>3. RowsOK' /\ AtRow' /\ SeenOK'
    BY <2>2, NextRowKeepsType DEF seen
  <2>4. DbOK'
    BY <2>1 DEF DbOK
  <2> QED BY <1>3, <2>1, <2>3, <2>4, JobsSame
<1>5. ASSUME NEW f \in {"Stop", "Pause"}, SetFlag(h, f)
      PROVE  JobsOK' /\ EndsOK'
  <2>1. Row(h).rec \in Recordings
    BY <1>2, RowsAre
  <2>2. runningJobs[h][Row(h).rec] \in Entries \cup {NULL}
    BY <2>1 DEF JobsOK
  <2>3. \A e \in Entries : [e EXCEPT !.flag = f] \in Entries
    BY DEF Entries
  <2> DEFINE new == IF runningJobs[h][Row(h).rec] = NULL THEN NULL
                    ELSE [runningJobs[h][Row(h).rec] EXCEPT !.flag = f]
  <2>4. new \in Entries \cup {NULL}
    BY <2>2, <2>3
  <2>5. runningJobs' = [runningJobs EXCEPT ![h][Row(h).rec] = new]
    BY <1>5 DEF SetFlag
  <2> HIDE DEF new
  <2>6. runningJobs' \in [Hosts -> [Recordings -> Entries \cup {NULL}]]
    BY <2>1, <2>4, <2>5 DEF JobsOK
  <2> QED BY <1>5, <2>6 DEF SetFlag, JobsOK, EndsOK, At
<1>6. CASE StopRunning(h)
  <2>1. JobsOK' /\ EndsOK'
    BY <1>5, <1>6 DEF StopRunning
  <2>2. RowsOK' /\ AtRow' /\ SeenOK'
    BY <1>2, <1>6, NextRowKeepsType DEF StopRunning, seen
  <2>3. DbOK'
    BY <1>6 DEF StopRunning, DbOK
  <2> QED BY <1>3, <2>1, <2>2, <2>3
<1>7. CASE StopQueued(h)
  <2>1. JobsOK' /\ EndsOK'
    BY <1>7, JobsSame DEF StopQueued
  <2>2. CASE Claim(x[h], h) /\ Goto(h, "cancel") /\ started' = started
             /\ jobStatus' = [jobStatus EXCEPT ![h] = Seen(h)]
    <3>1. RowsOK' /\ AtRow'
      BY <1>1, <2>2, GotoKeepsType DEF QueuePcs
    <3>2. SeenOK'
      BY <1>2, <2>2 DEF SeenOK, seen
    <3> QED BY <1>3, <2>1, <2>2, <3>1, <3>2, ClaimKeepsType
  <2>3. CASE ClaimFails(x[h]) /\ NextRow(h, Seen(h), started[h])
    <3>1. RowsOK' /\ AtRow' /\ SeenOK'
      BY <1>2, <2>3, NextRowKeepsType DEF seen
    <3> QED BY <1>3, <2>1, <2>3, <3>1 DEF ClaimFails, DbOK
  <2> QED BY <1>7, <2>2, <2>3 DEF StopQueued
<1>8. CASE Cancel(h)
  <2>1. DbOK'
    BY <1>8, StatusKeepsType DEF Cancel, Statuses, Done
  <2>2. RowsOK' /\ AtRow'
    BY <1>1, <1>8, GotoKeepsType DEF Cancel, QueuePcs
  <2> QED BY <1>3, <1>8, <2>1, <2>2, JobsSame DEF Cancel, SeenOK
<1>9. CASE ResetCmds(h)
  <2>1. DbOK'
    BY <1>9, CmdsKeepType DEF ResetCmds
  <2>2. RowsOK' /\ AtRow' /\ SeenOK'
    BY <1>2, <1>9, NextRowKeepsType DEF ResetCmds, seen
  <2> QED BY <1>3, <1>9, <2>1, <2>2, JobsSame DEF ResetCmds
<1>10. CASE PauseRunning(h)
  <2>1. JobsOK' /\ EndsOK'
    BY <1>5, <1>10 DEF PauseRunning
  <2>2. RowsOK' /\ AtRow'
    BY <1>1, <1>10, GotoKeepsType DEF PauseRunning, QueuePcs
  <2>3. SeenOK' /\ DbOK'
    BY <1>2, <1>10 DEF PauseRunning, SeenOK, DbOK, seen
  <2> QED BY <1>3, <2>1, <2>2, <2>3
<1>11. CASE ResetStatus(h)
  <2>1. JobsOK' /\ EndsOK'
    BY <1>11, JobsSame DEF ResetStatus
  <2>2. CASE Row(h).host = ""
    <3>1. DbOK'
      BY <1>11, <2>2, StatusKeepsType DEF ResetStatus, Statuses
    <3>2. RowsOK' /\ AtRow'
      BY <1>1, <1>11, <2>2, GotoKeepsType DEF ResetStatus, QueuePcs
    <3>3. SeenOK'
      BY <1>2, <1>11, <2>2 DEF ResetStatus, SeenOK, seen
    <3> QED BY <1>3, <2>1, <3>1, <3>2, <3>3
  <2>3. CASE Row(h).host # ""
    <3>1. RowsOK' /\ AtRow' /\ SeenOK'
      BY <1>2, <1>11, <2>3, NextRowKeepsType DEF ResetStatus, seen
    <3> QED BY <1>3, <1>11, <2>1, <2>3, <3>1 DEF ResetStatus, DbOK
  <2> QED BY <2>2, <2>3
<1> QED BY <1>4, <1>6, <1>7, <1>8, <1>9, <1>10, <1>11

\* Taking a snapshot, and starting a job.
LEMMA StartTypes ==
  ASSUME TypeInv, NEW h \in Hosts,
         \/ GetJobsInQueue(h) \/ ClaimJob(h) \/ ProcessJob(h) \/ NoProgram(h)
         \/ StartJob(h) \/ StartChildJob(h) \/ ProgramDeleted(h)
  PROVE  TypeInv'
<1> USE DEF TypeInv, TypeOK
<1> DEFINE seen == [Recordings -> Statuses \cup {NULL}]
<1>1. UserOK' /\ UseOK'
  <2>1. UNCHANGED <<user, use>>
    BY DEF GetJobsInQueue, ClaimJob, ProcessJob, NoProgram, StartJob, StartChildJob,
           ProgramDeleted
  <2> QED BY <2>1, UserSame
<1>2. CASE GetJobsInQueue(h)
  <2>1. NotDone \subseteq DOMAIN db /\ NotDone \subseteq Ids
    BY DEF NotDone, DbOK
  <2>2. Least(NotDone) \in NotDone
    BY <1>2, <2>1, LeastIn, IdsAreNumbers DEF GetJobsInQueue
  <2>3. /\ snap' = [snap EXCEPT ![h] = [i \in NotDone |-> db[i]]]
        /\ x' = [x EXCEPT ![h] = Least(NotDone)]
        /\ qpc' = [qpc EXCEPT ![h] = "scan"]
    BY <1>2 DEF GetJobsInQueue
  <2>4. \A i \in NotDone : db[i] \in Rows
    BY <2>1 DEF DbOK
  <2>5. RowsOK' /\ AtRow'
    BY <2>1, <2>2, <2>3, <2>4 DEF RowsOK, AtRow, QueuePcs
  <2> QED BY <1>1, <1>2, <2>5, JobsSame DEF GetJobsInQueue, DbOK, SeenOK
<1>3. ASSUME ~GetJobsInQueue(h)
      PROVE  /\ qpc[h] \in Pass /\ Row(h) \in Rows /\ x[h] \in Ids
             /\ Seen(h) \in seen /\ jobStatus[h] \in seen
  <2>1. qpc[h] \in Pass
    BY <1>3 DEF ClaimJob, ProcessJob, NoProgram, StartJob, StartChildJob, ProgramDeleted,
                Mine, Here, Pass
  <2> QED BY <2>1, AtRowTyped
<1> HIDE DEF seen
<1>4. CASE ClaimJob(h) /\ ~GetJobsInQueue(h)
  <2>1. DbOK'
    <3>1. \/ Claim(x[h], h) \/ UNCHANGED db
      BY <1>4 DEF ClaimJob, ClaimFails
    <3> QED BY <3>1, ClaimKeepsType DEF DbOK
  <2>2. CASE Goto(h, "process") /\ started' = started
             /\ jobStatus' = [jobStatus EXCEPT ![h] = Seen(h)]
    <3>1. RowsOK' /\ AtRow'
      BY <1>3, <1>4, <2>2, GotoKeepsType DEF QueuePcs
    <3>2. SeenOK'
      BY <1>3, <1>4, <2>2 DEF SeenOK, seen
    <3> QED BY <1>1, <1>4, <2>1, <3>1, <3>2, JobsSame DEF ClaimJob
  <2>3. CASE NextRow(h, Seen(h), FALSE)
    <3>1. RowsOK' /\ AtRow' /\ SeenOK'
      BY <1>3, <1>4, <2>3, NextRowKeepsType DEF seen
    <3> QED BY <1>1, <1>4, <2>1, <3>1, JobsSame DEF ClaimJob
  <2> QED BY <1>4, <2>2, <2>3 DEF ClaimJob
<1>5. CASE ProcessJob(h) /\ ~GetJobsInQueue(h)
  <2>1. DbOK'
    BY <1>5, StatusKeepsType DEF ProcessJob, Statuses
  <2>2. RowsOK' /\ AtRow'
    BY <1>3, <1>5, GotoKeepsType DEF ProcessJob, QueuePcs
  <2> QED BY <1>1, <1>5, <2>1, <2>2, JobsSame DEF ProcessJob, SeenOK
<1>6. CASE NoProgram(h) /\ ~GetJobsInQueue(h)
  <2>1. DbOK'
    BY <1>6, StatusKeepsType DEF NoProgram, Statuses, Done
  <2>2. RowsOK' /\ AtRow' /\ SeenOK'
    BY <1>3, <1>6, NextRowKeepsType DEF NoProgram, seen
  <2> QED BY <1>1, <1>6, <2>1, <2>2, JobsSame DEF NoProgram
<1>7. CASE StartJob(h) /\ ~GetJobsInQueue(h)
  <2>1. DbOK'
    BY <1>7, StatusKeepsType DEF StartJob, Statuses, Busy
  <2>2. RowsOK' /\ AtRow'
    BY <1>3, <1>7, GotoKeepsType DEF StartJob, QueuePcs
  <2>3. JobsOK' /\ EndsOK'
    BY <1>7 DEF StartJob, JobsOK, EndsOK, At
  <2> QED BY <1>1, <1>7, <2>1, <2>2, <2>3 DEF StartJob, SeenOK
<1>8. CASE StartChildJob(h) /\ ~GetJobsInQueue(h)
  <2>1. DbOK'
    BY <1>8 DEF StartChildJob, DbOK
  <2>2. RowsOK' /\ AtRow' /\ SeenOK'
    BY <1>3, <1>8, NextRowKeepsType DEF StartChildJob, seen
  <2>3. PICK t \in Threads :
          /\ thread' = [thread EXCEPT ![h][t] = NewThread(Row(h), x[h])]
          /\ runningJobs' = [runningJobs EXCEPT ![h][Row(h).rec] =
               [id |-> x[h], type |-> Row(h).type, flag |-> "Run", thread |-> t]]
    BY <1>8 DEF StartChildJob
  <2>4. Row(h).rec \in Recordings /\ Row(h).type \in Types
    BY <1>3, <1>8, RowsAre
  <2>5. NewThread(Row(h), x[h]) \in ThreadStates
    <3>1. RetryLimit \in 0..RetryLimit
      <4>1. RetryLimit \in Nat
        BY JobQueueAssumption
      <4> QED BY <4>1
    <3>2. (IF Row(h).type = "commflag" THEN "command" ELSE "run") \in ThreadPcs
      BY DEF ThreadPcs
    <3>3. NoJob \in Ids \cup {NoJob}
      OBVIOUS
    <3> QED BY <1>3, <1>8, <2>4, <3>1, <3>2, <3>3 DEF NewThread, ThreadStates
  <2>6. [id |-> x[h], type |-> Row(h).type, flag |-> "Run", thread |-> t] \in Entries
    BY <1>3, <1>8, <2>4 DEF Entries
  <2>7. runningJobs' \in [Hosts -> [Recordings -> Entries \cup {NULL}]]
    BY <2>3, <2>4, <2>6 DEF JobsOK
  <2>8. thread' \in [Hosts -> [Threads -> ThreadStates \cup {NULL}]]
    BY <2>3, <2>5 DEF JobsOK
  <2>9. lock' \in [Hosts -> Threads \cup {NULL, QueueThread}]
    BY <1>8 DEF StartChildJob, JobsOK
  <2>10. EndsOK'
    <3>1. NewThread(Row(h), x[h]).pc # "completed"
      BY DEF NewThread
    <3>2. \A g \in Hosts, u \in Threads :
            thread'[g][u] = thread[g][u] \/ thread'[g][u] = NewThread(Row(h), x[h])
      BY <2>3 DEF JobsOK
    <3> QED BY <3>1, <3>2 DEF EndsOK, At
  <2> QED BY <1>1, <2>1, <2>2, <2>7, <2>8, <2>9, <2>10 DEF JobsOK
<1>9. CASE ProgramDeleted(h) /\ ~GetJobsInQueue(h)
  <2>1. DbOK'
    BY <1>9, StatusKeepsType DEF ProgramDeleted, Statuses, Done
  <2>2. RowsOK' /\ AtRow' /\ SeenOK'
    BY <1>3, <1>9, NextRowKeepsType DEF ProgramDeleted, seen
  <2>3. Row(h).rec \in Recordings
    BY <1>3, <1>9, RowsAre
  <2>4. JobsOK' /\ EndsOK'
    BY <1>9, <2>3 DEF ProgramDeleted, JobsOK, EndsOK, At
  <2> QED BY <1>1, <2>1, <2>2, <2>4
<1> QED BY <1>2, <1>4, <1>5, <1>6, <1>7, <1>8, <1>9

\* A thread's step changes its own record only.
LEMMA ThreadKeepsType ==
  ASSUME JobsOK, EndsOK, NEW h \in Hosts, NEW t \in Threads, NEW r \in ThreadStates \cup {NULL},
         thread' = [thread EXCEPT ![h][t] = r],
         r # NULL /\ r.pc = "completed" => r.status \in {"Stopping", "Aborting", "Erroring"}
  PROVE  thread' \in [Hosts -> [Threads -> ThreadStates \cup {NULL}]] /\ EndsOK'
<1>1. thread' \in [Hosts -> [Threads -> ThreadStates \cup {NULL}]]
  BY DEF JobsOK
<1>2. \A g \in Hosts, u \in Threads :
        thread'[g][u] = IF g = h /\ u = t THEN r ELSE thread[g][u]
  BY DEF JobsOK
<1> QED BY <1>1, <1>2 DEF EndsOK, At

LEMMA ThreadAt ==
  ASSUME JobsOK, NEW h \in Hosts, NEW t \in Threads, NEW pc, At(h, t, pc)
  PROVE  thread[h][t] \in ThreadStates /\ thread[h][t] # NULL
BY DEF JobsOK, At

LEMMA StepKeepsType ==
  ASSUME JobsOK, EndsOK, NEW h \in Hosts, NEW t \in Threads, NEW old_pc, At(h, t, old_pc),
         NEW pc \in ThreadPcs \ {"completed"}, Step(h, t, pc)
  PROVE  thread' \in [Hosts -> [Threads -> ThreadStates \cup {NULL}]] /\ EndsOK'
<1> DEFINE r == [thread[h][t] EXCEPT !.pc = pc]
<1>1. r \in ThreadStates /\ r.pc = pc
  BY ThreadAt DEF ThreadStates
<1>2. thread' = [thread EXCEPT ![h][t] = r]
  BY DEF Step
<1> HIDE DEF r
<1> QED BY <1>1, <1>2, ThreadKeepsType

LEMMA ExitKeepsType ==
  ASSUME JobsOK, EndsOK, NEW h \in Hosts, NEW t \in Threads, NEW old_pc, At(h, t, old_pc),
         NEW e \in {"ok", "error", "notFound", "restart"}, Exit(h, t, e)
  PROVE  thread' \in [Hosts -> [Threads -> ThreadStates \cup {NULL}]] /\ EndsOK'
<1> DEFINE r == [thread[h][t] EXCEPT !.pc = "exited", !.exit = e]
<1>1. r \in ThreadStates /\ r.pc = "exited"
  BY ThreadAt DEF ThreadStates, ThreadPcs
<1>2. thread' = [thread EXCEPT ![h][t] = r]
  <2>1. thread[h] \in [Threads -> ThreadStates \cup {NULL}]
    BY DEF JobsOK
  <2> QED BY <2>1 DEF Exit, JobsOK
<1> HIDE DEF r
<1> QED BY <1>1, <1>2, ThreadKeepsType

LEMMA StatusTyped ==
  ASSUME DbOK, NEW i
  PROVE  GetJobStatus(i) \in Statuses \cup {"Unknown"}
BY RowsAre DEF GetJobStatus, DbOK

\* What a thread and its child do.
Acts(h, t) == ThreadStep(h, t) \/ CommFlagPauses(h, t) \/ CommFlagReports(h, t)

LEMMA ThreadTypes ==
  ASSUME TypeInv, NEW h \in Hosts, NEW t \in Threads, Acts(h, t)
  PROVE  TypeInv'
<1> USE DEF TypeInv, TypeOK
<1> DEFINE TypedThreads == [Hosts -> [Threads -> ThreadStates \cup {NULL}]]
<1>1. UserOK' /\ UseOK' /\ RowsOK' /\ AtRow' /\ SeenOK'
  <2>1. UNCHANGED <<queue, user, use>>
    BY DEF Acts, ThreadStep, ThreadRuns, Try, CommandFails, CommandRuns, CommFlagStarts,
           CommFlagFinds, TranscodeEnds,
           CompleteJob, CompletedJob, CommFlagPauses, CommFlagResumes, CommFlagReports,
           CommandEnds, TranscodeExited, TranscodeRetries, TranscodeOver, TranscodeLimit,
           UserJobExited, CommFlagExited, RemoveRunningJob, Keep
  <2> QED BY <2>1, UserSame, QueueSame
<1>2. ASSUME DbOK', thread' \in TypedThreads, EndsOK', UNCHANGED <<runningJobs, lock>>
      PROVE  TypeInv'
  BY <1>1, <1>2 DEF JobsOK
<1> HIDE DEF TypeInv, TypeOK
<1>3. DbOK /\ JobsOK /\ EndsOK
  BY DEF TypeInv, TypeOK
<1>4. DbOK' \/ db' # db
  BY <1>3 DEF DbOK
<1>5. CASE ThreadRuns(h, t)
  <2>1. DbOK'
    BY <1>3, <1>5, StatusKeepsType DEF ThreadRuns, Statuses, Busy
  <2>2. thread' \in TypedThreads /\ EndsOK'
    BY <1>3, <1>5, StepKeepsType DEF ThreadRuns, ThreadPcs
  <2> QED BY <1>2, <1>5, <2>1, <2>2 DEF ThreadRuns
<1>6. CASE Try(h, t)
  <2>1. DbOK'
    BY <1>3, <1>6, StatusKeepsType DEF Try, Statuses, Busy
  <2>2. thread' \in TypedThreads /\ EndsOK'
    BY <1>3, <1>6, StepKeepsType DEF Try, ThreadPcs
  <2> QED BY <1>2, <1>6, <2>1, <2>2 DEF Try
<1>7. CASE \E e \in {"notFound", "error"} : CommandFails(h, t, e)
  <2>1. thread' \in TypedThreads /\ EndsOK'
    BY <1>3, <1>7, ExitKeepsType DEF CommandFails
  <2> QED BY <1>2, <1>4, <1>7, <2>1 DEF CommandFails
<1>23. CASE CommFlagStarts(h, t)
  <2>1. thread' \in TypedThreads /\ EndsOK'
    BY <1>3, <1>23, StepKeepsType DEF CommFlagStarts, ThreadPcs
  <2> QED BY <1>2, <1>4, <1>23, <2>1 DEF CommFlagStarts
<1>24. CASE CommFlagFinds(h, t)
  <2>1. PICK i \in GetJobID(thread[h][t]) :
          thread' = [thread EXCEPT ![h][t].pc = "work", ![h][t].jobID = i]
    BY <1>24 DEF CommFlagFinds
  <2>2. i \in Ids \cup {NoJob}
    BY <1>3 DEF GetJobID, DbOK
  <2> DEFINE r == [thread[h][t] EXCEPT !.pc = "work", !.jobID = i]
  <2>3. r \in ThreadStates /\ r.pc # "completed"
    <3>1. thread[h][t] \in ThreadStates
      BY <1>3, <1>24, ThreadAt DEF CommFlagFinds
    <3>2. "work" \in ThreadPcs
      BY DEF ThreadPcs
    <3> QED BY <2>2, <3>1, <3>2 DEF ThreadStates
  <2>4. thread' = [thread EXCEPT ![h][t] = r]
    <3>1. thread[h] \in [Threads -> ThreadStates \cup {NULL}]
      BY <1>3 DEF JobsOK
    <3> QED BY <1>3, <2>1, <3>1 DEF JobsOK
  <2> HIDE DEF r
  <2>5. thread' \in TypedThreads /\ EndsOK'
    BY <1>3, <2>3, <2>4, ThreadKeepsType
  <2> QED BY <1>2, <1>4, <1>24, <2>5 DEF CommFlagFinds
<1>8. CASE CommandRuns(h, t)
  <2>1. DbOK'
    BY <1>3, <1>4, <1>8, StatusKeepsType DEF CommandRuns, Statuses, Busy
  <2>2. thread' \in TypedThreads /\ EndsOK'
    BY <1>3, <1>8, StepKeepsType DEF CommandRuns, ThreadPcs
  <2> QED BY <1>2, <1>8, <2>1, <2>2 DEF CommandRuns
<1>9. CASE \E s \in {"Stopping", "Retry", "Erroring", "Aborting"} : TranscodeEnds(h, t, s)
  <2>1. DbOK'
    BY <1>3, <1>9, StatusKeepsType DEF TranscodeEnds, Statuses, Busy
  <2>2. thread' \in TypedThreads /\ EndsOK'
    BY <1>3, <1>9, StepKeepsType DEF TranscodeEnds, ThreadPcs
  <2> QED BY <1>2, <1>9, <2>1, <2>2 DEF TranscodeEnds
<1>10. CASE CompleteJob(h, t)
  <2> DEFINE s == GetJobStatus(Id(h, t))
             r == [thread[h][t] EXCEPT !.pc = "completed", !.status = s]
  <2>1. At(h, t, "complete") /\ UNCHANGED <<db, runningJobs, lock>>
    BY <1>10 DEF CompleteJob
  <2>2. CASE s \in {"Stopping", "Aborting", "Erroring"}
    <3>1. r \in ThreadStates /\ r.status = s
      BY <1>3, <2>1, StatusTyped, ThreadAt DEF ThreadStates, ThreadPcs
    <3>2. thread' = [thread EXCEPT ![h][t] = r]
      <4>1. thread' = [thread EXCEPT ![h][t].pc = "completed", ![h][t].status = s]
        BY <1>10, <2>2 DEF CompleteJob
      <4>2. thread[h] \in [Threads -> ThreadStates \cup {NULL}]
        BY <1>3 DEF JobsOK
      <4> QED BY <1>3, <4>1, <4>2 DEF JobsOK
    <3> HIDE DEF r, s
    <3>3. thread' \in TypedThreads /\ EndsOK'
      BY <1>3, <2>2, <3>1, <3>2, ThreadKeepsType
    <3> QED BY <1>2, <1>4, <2>1, <3>3
  <2>3. CASE s \notin {"Stopping", "Aborting", "Erroring"}
    <3>1. Exit(h, t, "restart")
      BY <1>10, <2>3 DEF CompleteJob
    <3>2. thread' \in TypedThreads /\ EndsOK'
      BY <1>3, <2>1, <3>1, ExitKeepsType
    <3> QED BY <1>2, <1>4, <2>1, <3>2
  <2> QED BY <2>2, <2>3
<1>11. CASE CompletedJob(h, t)
  <2> DEFINE s == thread[h][t].status
             result == CASE s = "Stopping" -> "Finished" [] s = "Aborting" -> "Aborted"
                         [] s = "Erroring" -> "Errored"
  <2>1. s \in {"Stopping", "Aborting", "Erroring"}
    BY <1>3, <1>11 DEF CompletedJob, EndsOK
  <2>2. result \in Statuses
    BY <2>1 DEF Statuses, Done
  <2>3. ChangeJobStatus(Id(h, t), result)
    BY <1>11 DEF CompletedJob
  <2> HIDE DEF result
  <2>4. DbOK'
    BY <1>3, <2>2, <2>3, StatusKeepsType
  <2>5. thread' \in TypedThreads /\ EndsOK'
    BY <1>3, <1>11, ExitKeepsType DEF CompletedJob
  <2> QED BY <1>2, <1>11, <2>4, <2>5 DEF CompletedJob
<1>12. CASE CommFlagPauses(h, t)
  <2>1. DbOK'
    BY <1>3, <1>12, StatusKeepsType DEF CommFlagPauses, Statuses, Busy
  <2>2. thread' \in TypedThreads /\ EndsOK'
    BY <1>3, <1>12, StepKeepsType DEF CommFlagPauses, ThreadPcs
  <2> QED BY <1>2, <1>12, <2>1, <2>2 DEF CommFlagPauses
<1>13. CASE CommFlagResumes(h, t)
  <2>1. DbOK'
    BY <1>3, <1>13, StatusKeepsType DEF CommFlagResumes, Statuses, Busy
  <2>2. thread' \in TypedThreads /\ EndsOK'
    BY <1>3, <1>13, StepKeepsType DEF CommFlagResumes, ThreadPcs
  <2> QED BY <1>2, <1>13, <2>1, <2>2 DEF CommFlagResumes
<1>14. CASE CommFlagReports(h, t)
  <2>1. DbOK'
    BY <1>3, <1>14, StatusKeepsType DEF CommFlagReports, Statuses, Busy
  <2>2. JobsOK' /\ EndsOK'
    BY <1>3, <1>14, JobsSame DEF CommFlagReports
  <2> QED BY <1>1, <2>1, <2>2 DEF TypeInv, TypeOK
<1>15. CASE \E e \in {"ok", "error"} : CommandEnds(h, t, e)
  <2>1. thread' \in TypedThreads /\ EndsOK'
    BY <1>3, <1>15, ExitKeepsType DEF CommandEnds
  <2> QED BY <1>2, <1>4, <1>15, <2>1 DEF CommandEnds
<1>16. CASE TranscodeExited(h, t)
  <2> DEFINE s == GetJobStatus(Id(h, t))
             r == [thread[h][t] EXCEPT !.pc = "judge", !.status = s]
  <2>1. r \in ThreadStates /\ r.pc # "completed"
    BY <1>3, <1>16, StatusTyped, ThreadAt DEF TranscodeExited, ThreadStates, ThreadPcs
  <2>2. thread' = [thread EXCEPT ![h][t] = r]
    <3>1. thread[h] \in [Threads -> ThreadStates \cup {NULL}]
      BY <1>3 DEF JobsOK
    <3> QED BY <1>3, <1>16, <3>1 DEF TranscodeExited, JobsOK
  <2> HIDE DEF r
  <2>3. thread' \in TypedThreads /\ EndsOK'
    BY <1>3, <2>1, <2>2, ThreadKeepsType
  <2> QED BY <1>2, <1>4, <1>16, <2>3 DEF TranscodeExited
<1>17. CASE TranscodeRetries(h, t)
  <2> DEFINE r == [thread[h][t] EXCEPT !.pc = "try",
                                       !.retrylimit = thread[h][t].retrylimit - 1]
  <2>1. thread[h][t] \in ThreadStates /\ thread[h][t].retrylimit \in 0..RetryLimit
    BY <1>3, <1>17, ThreadAt DEF TranscodeRetries, ThreadStates
  <2>2. RetryLimit \in Nat
    BY JobQueueAssumption
  <2>3. thread[h][t].retrylimit - 1 \in 0..RetryLimit
    BY <1>17, <2>1, <2>2 DEF TranscodeRetries, Restarts
  <2>4. r \in ThreadStates /\ r.pc # "completed"
    BY <2>1, <2>3 DEF ThreadStates, ThreadPcs
  <2>5. thread' = [thread EXCEPT ![h][t] = r]
    <3>1. thread[h] \in [Threads -> ThreadStates \cup {NULL}]
      BY <1>3 DEF JobsOK
    <3> QED BY <1>3, <1>17, <3>1 DEF TranscodeRetries, JobsOK
  <2> HIDE DEF r
  <2>6. thread' \in TypedThreads /\ EndsOK'
    BY <1>3, <2>4, <2>5, ThreadKeepsType
  <2> QED BY <1>2, <1>4, <1>17, <2>6 DEF TranscodeRetries
<1>18. CASE TranscodeOver(h, t)
  <2>1. DbOK'
    BY <1>3, <1>18, StatusKeepsType DEF TranscodeOver, Statuses, Done
  <2>2. thread' \in TypedThreads /\ EndsOK'
    BY <1>3, <1>18, StepKeepsType DEF TranscodeOver, ThreadPcs
  <2> QED BY <1>2, <1>18, <2>1, <2>2 DEF TranscodeOver
<1>19. CASE TranscodeLimit(h, t)
  <2>1. DbOK'
    BY <1>3, <1>19, StatusKeepsType DEF TranscodeLimit, Statuses, Done
  <2>2. thread' \in TypedThreads /\ EndsOK'
    BY <1>3, <1>19, StepKeepsType DEF TranscodeLimit, ThreadPcs
  <2> QED BY <1>2, <1>19, <2>1, <2>2 DEF TranscodeLimit
<1>20. CASE UserJobExited(h, t)
  <2>1. DbOK'
    BY <1>3, <1>20, StatusKeepsType DEF UserJobExited, Statuses, Done
  <2>2. thread' \in TypedThreads /\ EndsOK'
    BY <1>3, <1>20, StepKeepsType DEF UserJobExited, ThreadPcs
  <2> QED BY <1>2, <1>20, <2>1, <2>2 DEF UserJobExited
<1>21. CASE CommFlagExited(h, t)
  <2> DEFINE s == CASE thread[h][t].exit = "notFound" -> "Errored"
                    [] thread[h][t].exit # "notFound" /\ Flagged(h, t) -> "Aborted"
                    [] thread[h][t].exit = "ok" -> "Finished"
                    [] OTHER -> "Errored"
  <2>1. s \in Statuses
    BY DEF Statuses, Done
  <2>2. ChangeJobStatus(Id(h, t), s)
    BY <1>21 DEF CommFlagExited
  <2> HIDE DEF s
  <2>3. DbOK'
    BY <1>3, <2>1, <2>2, StatusKeepsType
  <2>4. thread' \in TypedThreads /\ EndsOK'
    BY <1>3, <1>21, StepKeepsType DEF CommFlagExited, ThreadPcs
  <2>5. JobsOK'
    BY <1>3, <1>21, <2>4 DEF CommFlagExited, JobsOK
  <2> QED BY <1>1, <2>3, <2>4, <2>5 DEF TypeInv, TypeOK
<1>22. CASE RemoveRunningJob(h, t)
  <2>1. thread' \in TypedThreads /\ EndsOK'
    BY <1>3, <1>22, ThreadKeepsType DEF RemoveRunningJob
  <2>2. thread[h][t].rec \in Recordings
    BY <1>3, <1>22, ThreadAt DEF RemoveRunningJob, ThreadStates
  <2>3. JobsOK'
    BY <1>3, <1>22, <2>1, <2>2 DEF RemoveRunningJob, JobsOK
  <2> QED BY <1>1, <1>4, <1>22, <2>1, <2>3 DEF TypeInv, TypeOK, RemoveRunningJob
<1> QED BY <1>5, <1>6, <1>7, <1>8, <1>9, <1>10, <1>11, <1>12, <1>13, <1>14, <1>15, <1>16,
           <1>17, <1>18, <1>19, <1>20, <1>21, <1>22, <1>23, <1>24 DEF Acts, ThreadStep

LEMMA CrashTypes ==
  ASSUME TypeInv, NEW h \in Hosts, Crash(h) \/ Restart(h)
  PROVE  TypeInv'
<1> USE DEF TypeInv, TypeOK
<1>1. CASE Crash(h)
  <2>1. UseOK' /\ use'.jobs = use.jobs
    <3>1. PICK u \in Uses : \E n \in 0..u.crashes : use = [u EXCEPT !.crashes = n]
      BY DEF UseOK
    <3>2. PICK n \in 0..u.crashes : use = [u EXCEPT !.crashes = n]
      BY <3>1
    <3>3. u \in [jobs : Seq([rec : Recordings, type : Types]), does : SUBSET Commands,
                crashes : Nat, host : Hosts \cup {""}]
      BY JobQueueAssumption
    <3>4. u.crashes \in Nat
      BY <3>3
    <3>5. use.crashes = n /\ use.jobs = u.jobs
      BY <3>2, <3>3
    <3>6. n - 1 \in 0..u.crashes
      BY <1>1, <3>2, <3>4, <3>5 DEF Crash
    <3>7. use' = [use EXCEPT !.crashes = n - 1]
      BY <1>1, <3>5 DEF Crash
    <3>8. use' = [u EXCEPT !.crashes = n - 1]
      BY <3>2, <3>3, <3>7
    <3> QED BY <3>3, <3>5, <3>6, <3>8 DEF UseOK
  <2>2. UserOK'
    BY <1>1, <2>1 DEF Crash, UserOK, user
  <2>3. DbOK'
    BY <1>1 DEF Crash, DbOK
  <2>4. RowsOK' /\ AtRow'
    <3>1. snap' = [snap EXCEPT ![h] = <<>>]
      BY <1>1 DEF Crash
    <3>2. DOMAIN snap' = Hosts /\ snap'[h] = <<>> /\ DOMAIN snap'[h] = {}
          /\ \A g \in Hosts \ {h} : snap'[g] = snap[g]
      BY <3>1 DEF RowsOK
    <3> QED BY <1>1, <3>2 DEF Crash, RowsOK, AtRow, QueuePcs, Pass, Recovers
  <2>5. SeenOK'
    BY <1>1 DEF Crash, SeenOK
  <2>6. thread' \in [Hosts -> [Threads -> ThreadStates \cup {NULL}]] /\ EndsOK'
    <3>1. thread' = [thread EXCEPT ![h] = [t \in Threads |-> NULL]]
      BY <1>1 DEF Crash
    <3> QED BY <3>1 DEF JobsOK, EndsOK, At
  <2>7. JobsOK'
    BY <1>1, <2>6 DEF Crash, JobsOK
  <2> QED BY <2>1, <2>2, <2>3, <2>4, <2>5, <2>6, <2>7
<1>2. CASE Restart(h)
  <2>1. RowsOK' /\ AtRow'
    BY <1>2 DEF Restart, RowsOK, AtRow, QueuePcs, Pass, Recovers
  <2>2. DbOK' /\ SeenOK'
    BY <1>2 DEF Restart, DbOK, SeenOK
  <2> QED BY <1>2, <2>1, <2>2, UserSame, JobsSame DEF Restart
<1> QED BY <1>1, <1>2

LEMMA UserTypes ==
  ASSUME TypeInv, UserStep
  PROVE  TypeInv'
<1> USE DEF TypeInv, TypeOK
<1>1. UNCHANGED <<queue, jobs, use>>
  BY DEF UserStep, QueueJob, QueueDeletes, QueueInserts, StopJob, SelectJob, DialogStop,
         DialogPause, DialogRequeue, DialogDelete, Confirmed, DeleteAllJobs, StopAllJobs,
         WaitForJobs, WaitTimesOut, DeleteRows, Rest
<1>2. RowsOK' /\ AtRow' /\ SeenOK' /\ JobsOK' /\ EndsOK' /\ UseOK'
  BY <1>1, QueueSame, JobsSame DEF UseOK
<1>3. Len(use.jobs) \in Nat /\ DOMAIN use.jobs = 1..Len(use.jobs)
  <2>1. use.jobs \in Seq([rec : Recordings, type : Types])
    BY UseIs
  <2> QED BY <2>1
<1>4. DbOK' \/ db' # db
  BY DEF DbOK
<1>5. CASE QueueJob
  <2>1. next \in DOMAIN use.jobs
    BY <1>3, <1>5 DEF QueueJob, UserOK
  <2> DEFINE same == Same(use.jobs[next])
  <2>2. same \subseteq DOMAIN db /\ same \subseteq Ids
    BY DEF Same, DbOK
  <2>3. DbOK'
    BY <1>4, <1>5, <2>1, InsertKeepsType DEF QueueJob
  <2>4. UserOK'
    BY <1>1, <1>3, <1>5, <2>1, <2>2 DEF QueueJob, UserOK
  <2> QED BY <1>2, <2>3, <2>4
<1>6. CASE QueueDeletes
  <2>1. DbOK'
    BY <1>6, DeleteKeepsType DEF QueueDeletes
  <2>2. /\ next' \in 1..(Len(use.jobs) + 1)
        /\ upc' # "idle" => next' <= Len(use.jobs)
    BY <1>3, <1>6 DEF QueueDeletes, UserOK
  <2> QED BY <1>1, <1>2, <1>6, <2>1, <2>2 DEF QueueDeletes, UserOK
<1>7. CASE QueueInserts
  <2>1. next \in DOMAIN use.jobs /\ next' \in 1..(Len(use.jobs) + 1)
    BY <1>3, <1>7 DEF QueueInserts, UserOK
  <2>2. DbOK'
    BY <1>7, <2>1, InsertKeepsType DEF QueueInserts
  <2> QED BY <1>1, <1>2, <1>7, <2>1, <2>2 DEF QueueInserts, UserOK
<1>8. CASE \E i \in Ids : StopJob(i)
  <2>1. DbOK'
    BY <1>8, CmdsKeepType DEF StopJob
  <2> QED BY <1>1, <1>2, <1>8, <2>1 DEF StopJob, UserOK, user
<1>9. CASE \E i \in Ids : SelectJob(i)
  <2>1. PICK i \in Ids : SelectJob(i)
    BY <1>9
  <2>2. Asks(db[i].status) \in Commands
    <3>1. use.does \subseteq Commands
      BY UseIs
    <3> QED BY <2>1, <3>1 DEF SelectJob
  <2>3. Asks(db[i].status) \in {"modify", "requeue", "delete"}
    BY <2>1, <2>2, JobQueueAssumption DEF Asks
  <2>4. dialog' = [id |-> i, asks |-> Asks(db[i].status)]
    BY <2>1 DEF SelectJob
  <2>5. dialog' \in [id : Ids, asks : {"modify", "requeue", "delete"}]
    BY <2>3, <2>4
  <2> QED BY <1>1, <1>2, <1>4, <2>1, <2>5 DEF SelectJob, UserOK
<1>10. CASE DialogStop \/ DialogPause \/ DialogRequeue \/ DialogDelete
  <2>1. DbOK'
    BY <1>10, CmdsKeepType, StatusKeepsType, DeleteKeepsType
       DEF DialogStop, DialogPause, DialogRequeue, DialogDelete, Statuses
  <2> QED BY <1>1, <1>2, <1>10, <2>1
       DEF DialogStop, DialogPause, DialogRequeue, DialogDelete, Confirmed, UserOK
<1>11. CASE \E r \in Recordings : DeleteAllJobs(r)
  <2>1. PICK r \in Recordings : DeleteAllJobs(r)
    BY <1>11
  <2>2. \A i \in DOMAIN db : [db[i] EXCEPT !.status = "Cancelled"] \in Rows
    BY RowsAre DEF DbOK, Statuses, Done
  <2>3. DbOK'
    BY <2>1, <2>2 DEF DeleteAllJobs, DbOK
  <2> QED BY <1>1, <1>2, <2>1, <2>3 DEF DeleteAllJobs, UserOK
<1>12. CASE StopAllJobs
  <2>1. \A i \in DOMAIN db : [db[i] EXCEPT !.cmds = "Stop"] \in Rows
    BY RowsAre DEF DbOK
  <2>2. DbOK'
    BY <1>12, <2>1 DEF StopAllJobs, DbOK
  <2> QED BY <1>1, <1>2, <1>12, <2>2 DEF StopAllJobs, UserOK
<1>13. CASE WaitForJobs \/ WaitTimesOut
  BY <1>1, <1>2, <1>4, <1>13 DEF WaitForJobs, WaitTimesOut, UserOK
<1>14. CASE DeleteRows
  <2>1. DbOK'
    BY <1>14, DeleteKeepsType DEF DeleteRows
  <2> QED BY <1>1, <1>2, <1>14, <2>1 DEF DeleteRows, UserOK
<1> QED BY <1>5, <1>6, <1>7, <1>8, <1>9, <1>10, <1>11, <1>12, <1>13, <1>14 DEF UserStep

LEMMA TypeStep == TypeInv /\ [Next]_vars => TypeInv'
<1> SUFFICES ASSUME TypeInv, [Next]_vars PROVE TypeInv'
  OBVIOUS
<1>1. ASSUME NEW h \in Hosts, QueueStep(h) PROVE TypeInv'
  BY <1>1, RecoverTypes, PassTypes, StartTypes DEF QueueStep
<1>2. ASSUME NEW h \in Hosts, Crash(h) \/ Restart(h) PROVE TypeInv'
  BY <1>2, CrashTypes
<1>3. ASSUME NEW h \in Hosts, NEW t \in Threads, Acts(h, t) PROVE TypeInv'
  BY <1>3, ThreadTypes
<1>4. CASE UserStep
  BY <1>4, UserTypes
<1>5. CASE UNCHANGED vars
  BY <1>5, UserSame, JobsSame, QueueSame DEF vars, TypeInv, TypeOK, DbOK, UseOK
<1> QED BY <1>1, <1>2, <1>3, <1>4, <1>5 DEF Next, Acts

\* Every variable keeps its type: for every number of hosts, jobs, threads, crashes
\* and retries, and whatever users do.
THEOREM TypeCorrect == Spec => []TypeOK
<1>1. Spec => []TypeInv
  BY TypeInit, TypeStep, PTL DEF Spec
<1>2. TypeInv => TypeOK
  BY DEF TypeInv
<1> QED BY <1>1, <1>2, PTL

-----------------------------------------------------------------------------
(* Jobs stay what they are                                                 *)

RowsKept ==
  \A i \in DOMAIN db' : /\ i \in DOMAIN db
                        /\ db'[i].rec = db[i].rec /\ db'[i].type = db[i].type

SnapsKept ==
  \A h \in Hosts : \A i \in DOMAIN snap'[h] :
    \/ i \in DOMAIN snap[h] /\ snap'[h][i] = snap[h][i]
    \/ i \in DOMAIN db /\ snap'[h][i] = db[i]

\* What a thread's job is stays; a flagger looks for its row once.
Remains(q, r) ==
  /\ r.id = q.id /\ r.rec = q.rec /\ r.type = q.type
  /\ r.pc = "lookup" => q.pc = "lookup" \/ q.type = "commflag"
  /\ r.jobID = q.jobID \/ (q.pc = "lookup" /\ r.jobID \in GetJobID(q))

ThreadsKept ==
  \A h \in Hosts, t \in Threads : thread'[h][t] # NULL =>
    \/ thread[h][t] # NULL /\ Remains(thread[h][t], thread'[h][t])
    \/ x[h] \in DOMAIN snap[h] /\ thread'[h][t] = NewThread(Row(h), x[h])

LEMMA StatusKeeps ==
  ASSUME DbOK, NEW i, NEW s, ChangeJobStatus(i, s)
  PROVE  RowsKept
<1>1. \A r \in Rows : /\ [r EXCEPT !.status = s].rec = r.rec
                      /\ [r EXCEPT !.status = s].type = r.type
  BY DEF Rows
<1> QED BY <1>1 DEF ChangeJobStatus, DbOK, RowsKept

LEMMA CmdsKeep ==
  ASSUME DbOK, NEW i, NEW c, ChangeJobCmds(i, c)
  PROVE  RowsKept
<1>1. \A r \in Rows : [r EXCEPT !.cmds = c].rec = r.rec /\ [r EXCEPT !.cmds = c].type = r.type
  BY DEF Rows
<1> QED BY <1>1 DEF ChangeJobCmds, DbOK, RowsKept

LEMMA ClaimKeeps ==
  ASSUME DbOK, NEW i, NEW h, Claim(i, h)
  PROVE  RowsKept
<1>1. i \in DOMAIN db /\ db' = [db EXCEPT ![i].host = h]
  BY DEF Claim, Unclaimed
<1>2. [db[i] EXCEPT !.host = h].rec = db[i].rec /\ [db[i] EXCEPT !.host = h].type = db[i].type
  BY <1>1 DEF DbOK, Rows
<1> QED BY <1>1, <1>2 DEF RowsKept

LEMMA DisclaimKeeps ==
  ASSUME DbOK, NEW i, Disclaim(i)
  PROVE  RowsKept
<1>1. \A r \in Rows : [r EXCEPT !.host = ""].rec = r.rec /\ [r EXCEPT !.host = ""].type = r.type
  BY DEF Rows
<1> QED BY <1>1 DEF Disclaim, DbOK, RowsKept

LEMMA DeleteKeeps ==
  ASSUME NEW ids, Delete(ids)
  PROVE  RowsKept
BY DEF Delete, RowsKept

LEMMA SameKeeps ==
  ASSUME UNCHANGED db
  PROVE  RowsKept
BY DEF RowsKept

LEMMA UsersJobs ==
  ASSUME UseOK, [Next]_vars
  PROVE  use'.jobs = use.jobs /\ use'.does = use.does
<1>1. use \in [jobs : Seq([rec : Recordings, type : Types]), does : SUBSET Commands,
               crashes : Nat, host : Hosts \cup {""}]
  BY UseIs
<1>2. \/ use' = use
      \/ use' = [use EXCEPT !.crashes = @ - 1]
  <2>1. ASSUME NEW h \in Hosts, QueueStep(h) \/ Restart(h) \/ Crash(h)
        PROVE  use' = use \/ use' = [use EXCEPT !.crashes = @ - 1]
    BY <2>1 DEF QueueStep, RecoverStep, RecoverQueue, RecoverStatus, RecoverCmds, RecoverHost,
              GetJobsInQueue, SkipElsewhere, SkipBlocked, SkipNotAllowed, StopRunning,
              StopQueued, Cancel, ResetCmds, PauseRunning, ResetStatus, SkipStarted, ClaimJob,
              ProcessJob, NoProgram, StartJob, StartChildJob, ProgramDeleted, Restart, Crash
  <2>2. ASSUME NEW h \in Hosts, NEW t \in Threads, Acts(h, t) PROVE use' = use
    BY <2>2 DEF Acts, ThreadStep, ThreadRuns, Try, CommandFails, CommandRuns, CommFlagStarts,
       CommFlagFinds, TranscodeEnds,
              CompleteJob, CompletedJob, CommFlagPauses, CommFlagResumes, CommFlagReports,
              CommandEnds, TranscodeExited, TranscodeRetries, TranscodeOver, TranscodeLimit,
              UserJobExited, CommFlagExited, RemoveRunningJob, Keep
  <2>3. UserStep => use' = use
    BY DEF UserStep, QueueJob, QueueDeletes, QueueInserts, StopJob, SelectJob, DialogStop,
           DialogPause, DialogRequeue, DialogDelete, Confirmed, DeleteAllJobs, StopAllJobs,
           WaitForJobs, WaitTimesOut, DeleteRows, Rest
  <2> QED BY <2>1, <2>2, <2>3 DEF Next, Acts, vars
<1> QED BY <1>1, <1>2

LEMMA AdvanceKeeps ==
  ASSUME RowsOK, NEW h \in Hosts, NEW pc, Advance(h, pc) \/ Goto(h, pc)
  PROVE  SnapsKept
<1>1. snap' = snap \/ snap' = [snap EXCEPT ![h] = <<>>]
  BY DEF Advance, Goto
<1>2. CASE snap' = [snap EXCEPT ![h] = <<>>]
  <2>1. snap'[h] = <<>> /\ DOMAIN snap'[h] = {} /\ \A g \in Hosts \ {h} : snap'[g] = snap[g]
    BY <1>2 DEF RowsOK
  <2> QED BY <2>1 DEF SnapsKept
<1> QED BY <1>1, <1>2 DEF SnapsKept

LEMMA QueueKeeps ==
  ASSUME TypeInv, NEW h \in Hosts, QueueStep(h) \/ Crash(h) \/ Restart(h)
  PROVE  RowsKept /\ SnapsKept /\ ThreadsKept
<1>1. DbOK /\ RowsOK /\ JobsOK
  BY DEF TypeInv, TypeOK
<1>2. ThreadsKept
  <2>1. CASE UNCHANGED thread
    BY <2>1 DEF ThreadsKept, Remains
  <2>2. CASE StartChildJob(h)
    <3>1. x[h] \in DOMAIN snap[h]
      BY <2>2, AtRowTyped DEF StartChildJob, Pass
    <3>2. PICK t \in Threads : thread' = [thread EXCEPT ![h][t] = NewThread(Row(h), x[h])]
      BY <2>2 DEF StartChildJob
    <3>3. \A g \in Hosts, u \in Threads :
            thread'[g][u] = IF g = h /\ u = t THEN NewThread(Row(h), x[h]) ELSE thread[g][u]
      BY <1>1, <3>2 DEF JobsOK
    <3> QED BY <3>1, <3>3 DEF ThreadsKept, Remains
  <2>3. CASE Crash(h)
    <3>1. \A g \in Hosts, u \in Threads :
            thread'[g][u] = IF g = h THEN NULL ELSE thread[g][u]
      BY <1>1, <2>3 DEF Crash, JobsOK
    <3> QED BY <3>1 DEF ThreadsKept, Remains
  <2> QED BY <2>1, <2>2, <2>3
       DEF QueueStep, RecoverStep, RecoverQueue, RecoverStatus, RecoverCmds, RecoverHost,
           GetJobsInQueue, SkipElsewhere, SkipBlocked, SkipNotAllowed, StopRunning,
           StopQueued, Cancel, ResetCmds, PauseRunning, ResetStatus, SkipStarted, ClaimJob,
           ProcessJob, NoProgram, StartJob, ProgramDeleted, Restart, SetFlag, jobs
<1>3. SnapsKept
  <2>1. CASE \E pc : Advance(h, pc) \/ Goto(h, pc)
    BY <1>1, <2>1, AdvanceKeeps
  <2>2. CASE RecoverQueue(h) \/ GetJobsInQueue(h)
    <3>1. CASE Goto(h, "fetch")
      BY <1>1, <3>1, AdvanceKeeps
    <3>2. ASSUME NEW S \in SUBSET DOMAIN db, snap' = [snap EXCEPT ![h] = [i \in S |-> db[i]]]
          PROVE  SnapsKept
      <4>1. /\ DOMAIN snap'[h] = S /\ \A i \in S : snap'[h][i] = db[i]
            /\ \A g \in Hosts \ {h} : snap'[g] = snap[g]
        BY <1>1, <3>2 DEF RowsOK
      <4> QED BY <4>1 DEF SnapsKept
    <3>3. \A S : {i \in NotDone : Recoverable(db[i], h)} = S => S \in SUBSET DOMAIN db
      BY DEF NotDone
    <3>4. NotDone \in SUBSET DOMAIN db
      BY DEF NotDone
    <3> QED BY <2>2, <3>1, <3>2, <3>3, <3>4 DEF RecoverQueue, GetJobsInQueue
  <2>3. CASE Crash(h) \/ Restart(h)
    <3>1. snap' = snap \/ snap' = [snap EXCEPT ![h] = <<>>]
      BY <2>3 DEF Crash, Restart
    <3>2. CASE snap' = [snap EXCEPT ![h] = <<>>]
      <4>1. DOMAIN snap'[h] = {} /\ \A g \in Hosts \ {h} : snap'[g] = snap[g]
        BY <1>1, <3>2 DEF RowsOK
      <4> QED BY <4>1 DEF SnapsKept
    <3> QED BY <3>1, <3>2 DEF SnapsKept
  <2> QED BY <2>1, <2>2, <2>3
       DEF QueueStep, RecoverStep, RecoverStatus, RecoverCmds, RecoverHost,
           SkipElsewhere, SkipBlocked, SkipNotAllowed, StopRunning,
           StopQueued, Cancel, ResetCmds, PauseRunning, ResetStatus, SkipStarted, ClaimJob,
           ProcessJob, NoProgram, StartJob, StartChildJob, ProgramDeleted, NextRow
<1>4. RowsKept
  <2>1. CASE UNCHANGED db
    BY <2>1, SameKeeps
  <2>2. CASE RecoverStep(h)
    BY <1>1, <2>1, <2>2, StatusKeeps, CmdsKeep, DisclaimKeeps
       DEF RecoverStep, RecoverQueue, RecoverStatus, RecoverCmds, RecoverHost
  <2>3. CASE StopQueued(h) \/ ClaimJob(h)
    BY <1>1, <2>1, <2>3, ClaimKeeps DEF StopQueued, ClaimJob, ClaimFails
  <2>4. CASE \E i, s : ChangeJobStatus(i, s)
    BY <1>1, <2>4, StatusKeeps
  <2>5. CASE ResetCmds(h)
    BY <1>1, <2>5, CmdsKeep DEF ResetCmds
  <2> QED BY <2>1, <2>2, <2>3, <2>4, <2>5
       DEF QueueStep, GetJobsInQueue, SkipElsewhere, SkipBlocked, SkipNotAllowed, StopRunning,
           Cancel, PauseRunning, ResetStatus, SkipStarted,
           ProcessJob, NoProgram, StartJob, StartChildJob, ProgramDeleted, Restart, Crash
<1> QED BY <1>2, <1>3, <1>4

\* What a thread does changes no row but for its status.
LEMMA ActsKeep ==
  ASSUME TypeInv, NEW h \in Hosts, NEW t \in Threads, Acts(h, t)
  PROVE  /\ RowsKept /\ SnapsKept /\ ThreadsKept
         /\ UNCHANGED <<queue, user, use>>
<1> DEFINE q == thread[h][t]
<1>1. DbOK /\ JobsOK
  BY DEF TypeInv, TypeOK
<1>2. UNCHANGED <<queue, user, use>>
  BY DEF Acts, ThreadStep, ThreadRuns, Try, CommandFails, CommandRuns, CommFlagStarts,
         CommFlagFinds, TranscodeEnds,
         CompleteJob, CompletedJob, CommFlagPauses, CommFlagResumes, CommFlagReports,
         CommandEnds, TranscodeExited, TranscodeRetries, TranscodeOver, TranscodeLimit,
         UserJobExited, CommFlagExited, RemoveRunningJob, Keep
<1>3. q # NULL
  BY DEF Acts, ThreadStep, ThreadRuns, Try, CommandFails, CommandRuns, CommFlagStarts,
         CommFlagFinds, TranscodeEnds,
         CompleteJob, CompletedJob, CommFlagPauses, CommFlagResumes, CommFlagReports,
         CommandEnds, TranscodeExited, TranscodeRetries, TranscodeOver, TranscodeLimit,
         UserJobExited, CommFlagExited, RemoveRunningJob, At
<1>4. RowsKept
  <2>1. UNCHANGED db \/ \E i, s : ChangeJobStatus(i, s)
    BY DEF Acts, ThreadStep, ThreadRuns, Try, CommandFails, CommandRuns, CommFlagStarts,
           CommFlagFinds, TranscodeEnds,
           CompleteJob, CompletedJob, CommFlagPauses, CommFlagResumes, CommFlagReports,
           CommandEnds, TranscodeExited, TranscodeRetries, TranscodeOver, TranscodeLimit,
           UserJobExited, CommFlagExited, RemoveRunningJob
  <2> QED BY <1>1, <2>1, SameKeeps, StatusKeeps
<1>5. SnapsKept
  BY <1>2 DEF SnapsKept, queue
<1>20. SUFFICES ThreadsKept
  BY <1>2, <1>4, <1>5
<1>6. q \in ThreadStates /\ thread[h] \in [Threads -> ThreadStates \cup {NULL}]
  BY <1>1, <1>3 DEF JobsOK
<1>7. ASSUME NEW r, thread' = [thread EXCEPT ![h][t] = r], r = NULL \/ Remains(q, r)
      PROVE  ThreadsKept
  <2>1. \A g \in Hosts, u \in Threads :
          thread'[g][u] = IF g = h /\ u = t THEN r ELSE thread[g][u]
    BY <1>1, <1>7 DEF JobsOK
  <2> QED BY <1>3, <1>7, <2>1 DEF ThreadsKept, Remains
<1>8. ASSUME NEW pc, Step(h, t, pc), pc = "lookup" => q.type = "commflag"
      PROVE  ThreadsKept
  <2> DEFINE r == [q EXCEPT !.pc = pc]
  <2>1. Remains(q, r)
    BY <1>6, <1>8 DEF Remains, ThreadStates
  <2>2. thread' = [thread EXCEPT ![h][t] = r]
    BY <1>8 DEF Step
  <2> HIDE DEF r
  <2> QED BY <1>7, <2>1, <2>2
<1>9. ASSUME NEW e, Exit(h, t, e)
      PROVE  ThreadsKept
  <2> DEFINE r == [q EXCEPT !.pc = "exited", !.exit = e]
  <2>1. Remains(q, r)
    BY <1>6 DEF Remains, ThreadStates
  <2>2. thread' = [thread EXCEPT ![h][t] = r]
    BY <1>1, <1>6, <1>9 DEF Exit, JobsOK
  <2> HIDE DEF r
  <2> QED BY <1>7, <2>1, <2>2
<1>10. ASSUME NEW pc \in {"completed", "judge"}, NEW s,
              thread' = [thread EXCEPT ![h][t].pc = pc, ![h][t].status = s]
       PROVE  ThreadsKept
  <2> DEFINE r == [q EXCEPT !.pc = pc, !.status = s]
  <2>1. Remains(q, r)
    BY <1>6 DEF Remains, ThreadStates
  <2>2. thread' = [thread EXCEPT ![h][t] = r]
    BY <1>1, <1>6, <1>10 DEF JobsOK
  <2> HIDE DEF r
  <2> QED BY <1>7, <2>1, <2>2
<1>11. CASE CommFlagFinds(h, t)
  <2>1. PICK i \in GetJobID(q) :
          thread' = [thread EXCEPT ![h][t].pc = "work", ![h][t].jobID = i]
    BY <1>11 DEF CommFlagFinds
  <2> DEFINE r == [q EXCEPT !.pc = "work", !.jobID = i]
  <2>2. q.pc = "lookup"
    BY <1>11 DEF CommFlagFinds, At
  <2>3. Remains(q, r)
    BY <1>6, <2>1, <2>2 DEF Remains, ThreadStates
  <2>4. thread' = [thread EXCEPT ![h][t] = r]
    BY <1>1, <1>6, <2>1 DEF JobsOK
  <2> HIDE DEF r
  <2> QED BY <1>7, <2>3, <2>4
<1>12. CASE TranscodeRetries(h, t)
  <2> DEFINE r == [q EXCEPT !.pc = "try", !.retrylimit = @ - 1]
  <2>1. Remains(q, r)
    BY <1>6 DEF Remains, ThreadStates
  <2>2. thread' = [thread EXCEPT ![h][t] = r]
    BY <1>1, <1>6, <1>12 DEF TranscodeRetries, JobsOK
  <2> HIDE DEF r
  <2> QED BY <1>7, <2>1, <2>2
<1>13. CASE RemoveRunningJob(h, t)
  BY <1>7, <1>13 DEF RemoveRunningJob
<1>14. CASE CommFlagReports(h, t)
  BY <1>14 DEF CommFlagReports, jobs, ThreadsKept, Remains
<1>15. CASE CommFlagStarts(h, t)
  BY <1>8, <1>15 DEF CommFlagStarts, Is
<1>16. CASE \/ ThreadRuns(h, t) \/ Try(h, t) \/ CommandRuns(h, t)
            \/ \E s \in {"Stopping", "Retry", "Erroring", "Aborting"} : TranscodeEnds(h, t, s)
            \/ CommFlagPauses(h, t) \/ CommFlagResumes(h, t)
            \/ TranscodeOver(h, t) \/ TranscodeLimit(h, t)
            \/ UserJobExited(h, t) \/ CommFlagExited(h, t)
  <2>1. \E pc \in {"try", "command", "work", "paused", "complete", "limit", "remove"} :
          Step(h, t, pc)
    BY <1>16 DEF ThreadRuns, Try, CommandRuns, TranscodeEnds, CommFlagPauses, CommFlagResumes,
                 TranscodeOver, TranscodeLimit, UserJobExited, CommFlagExited
  <2> QED BY <1>8, <2>1
<1>17. CASE \/ \E e \in {"notFound", "error"} : CommandFails(h, t, e)
            \/ CompletedJob(h, t)
            \/ \E e \in {"ok", "error"} : CommandEnds(h, t, e)
  <2>1. \E e : Exit(h, t, e)
    BY <1>17 DEF CommandFails, CompletedJob, CommandEnds
  <2> QED BY <1>9, <2>1
<1>18. CASE CompleteJob(h, t)
  BY <1>9, <1>10, <1>18 DEF CompleteJob
<1>19. CASE TranscodeExited(h, t)
  BY <1>10, <1>19 DEF TranscodeExited
<1> QED BY <1>11, <1>12, <1>13, <1>14, <1>15, <1>16, <1>17, <1>18, <1>19 DEF Acts, ThreadStep

\* The same job: the same recording and type.
LEMMA SameJob ==
  ASSUME UseOK, NEW i \in DOMAIN use.jobs, NEW j \in DOMAIN use.jobs,
         use.jobs[i].rec = use.jobs[j].rec, use.jobs[i].type = use.jobs[j].type
  PROVE  use.jobs[i] = use.jobs[j]
<1>1. use.jobs \in Seq([rec : Recordings, type : Types])
  BY UseIs
<1>2. \A k \in DOMAIN use.jobs : use.jobs[k] \in [rec : Recordings, type : Types]
  BY <1>1, ElementOf
<1> QED BY <1>2

\* A step that makes no row.
LEMMA RowInvStays ==
  ASSUME TypeInv, RowInv, use'.jobs = use.jobs, RowsKept, SnapsKept, ThreadsKept,
         UNCHANGED <<upc, old, next>>
  PROVE  RowInv'
<1>1. /\ \A i \in DOMAIN db : JobIs(db[i], i) /\ FirstOf(i)
      /\ \A h \in Hosts : \A i \in DOMAIN snap[h] : JobIs(snap[h][i], i) /\ FirstOf(i)
      /\ \A h \in Hosts, t \in Threads : thread[h][t] # NULL =>
           JobIs(thread[h][t], thread[h][t].id) /\ FirstOf(thread[h][t].id)
  BY DEF RowInv, JobsAreTheirs, FirstRows
<1>2. /\ \A j, i : JobIs(j, i)' <=> JobIs(j', i)
      /\ \A i : FirstOf(i) => FirstOf(i)'
  BY DEF JobIs, FirstOf, RowsKept
<1>3. ASSUME NEW i \in DOMAIN db' PROVE JobIs(db'[i], i) /\ FirstOf(i)
  BY <1>1, <1>3 DEF RowsKept, JobIs
<1>4. ASSUME NEW h \in Hosts, NEW i \in DOMAIN snap'[h]
      PROVE  JobIs(snap'[h][i], i) /\ FirstOf(i)
  BY <1>1, <1>4 DEF SnapsKept
<1>5. ASSUME NEW h \in Hosts, NEW t \in Threads, thread'[h][t] # NULL
      PROVE  JobIs(thread'[h][t], thread'[h][t].id) /\ FirstOf(thread'[h][t].id)
  <2>1. CASE thread[h][t] # NULL /\ Remains(thread[h][t], thread'[h][t])
    BY <1>1, <2>1 DEF Remains, JobIs
  <2>2. CASE x[h] \in DOMAIN snap[h] /\ thread'[h][t] = NewThread(Row(h), x[h])
    BY <1>1, <2>2 DEF NewThread, Row, JobIs
  <2> QED BY <1>5, <2>1, <2>2 DEF ThreadsKept
<1>6. JobsAreTheirs' /\ FirstRows'
  BY <1>2, <1>3, <1>4, <1>5 DEF JobsAreTheirs, FirstRows
<1>7. QueuesOne'
  BY DEF RowInv, QueuesOne, RowsKept
<1>8. ASSUME NEW h \in Hosts, NEW t \in Threads, thread'[h][t] # NULL
      PROVE  /\ At(h, t, "lookup")' => Is(h, t, "commflag")'
             /\ thread'[h][t].jobID # NoJob =>
                  /\ Is(h, t, "commflag")' /\ thread'[h][t].jobID \in DOMAIN use.jobs
                  /\ use.jobs[thread'[h][t].jobID] = use.jobs[thread'[h][t].id]
                  /\ thread'[h][t].id <= thread'[h][t].jobID
  <2> DEFINE q == thread[h][t]
             r == thread'[h][t]
  <2>1. CASE x[h] \in DOMAIN snap[h] /\ r = NewThread(Row(h), x[h])
    <3>1. r.jobID = NoJob /\ r.pc # "lookup"
      BY <2>1 DEF NewThread
    <3> QED BY <3>1 DEF At
  <2>2. CASE q # NULL /\ Remains(q, r)
    <3>1. /\ q.pc = "lookup" => q.type = "commflag"
          /\ q.jobID # NoJob =>
               /\ q.type = "commflag" /\ q.jobID \in DOMAIN use.jobs
               /\ use.jobs[q.jobID] = use.jobs[q.id] /\ q.id <= q.jobID
      BY <2>2 DEF RowInv, FlagsAreLike, At, Is
    <3>2. CASE r.jobID = q.jobID
      BY <2>2, <3>1, <3>2 DEF Remains, At, Is
    <3>3. CASE q.pc = "lookup" /\ r.jobID \in GetJobID(q) /\ r.jobID # NoJob
      <4> DEFINE i == r.jobID
      <4>1. i \in DOMAIN db /\ db[i].rec = q.rec /\ db[i].type = q.type
        BY <3>3 DEF GetJobID
      <4>2. JobIs(db[i], i) /\ JobIs(q, q.id) /\ FirstOf(q.id)
        BY <1>1, <2>2, <4>1
      <4>3. use.jobs[i] = use.jobs[q.id]
        BY <4>1, <4>2, SameJob DEF JobIs, TypeInv, TypeOK
      <4>4. i \in Nat /\ q.id \in Nat
        <5>1. i \in Ids /\ q.id \in Ids
          BY <2>2, <4>1 DEF TypeInv, TypeOK, DbOK, JobsOK, ThreadStates
        <5> QED BY <5>1, IdsAreNumbers
      <4>5. ~(i < q.id)
        BY <4>1, <4>2, <4>3 DEF FirstOf
      <4> QED BY <2>2, <3>1, <3>3, <4>2, <4>3, <4>4, <4>5 DEF Remains, At, Is, JobIs
    <3>4. CASE r.jobID = NoJob
      BY <2>2, <3>1, <3>4 DEF Remains, At, Is
    <3> QED BY <2>2, <3>2, <3>3, <3>4 DEF Remains
  <2> QED BY <1>8, <2>1, <2>2 DEF ThreadsKept
<1>9. FlagsAreLike'
  BY <1>8 DEF FlagsAreLike
<1> QED BY <1>6, <1>7, <1>9 DEF RowInv

\* A new row is the first of its job, and comes after all others.
LEMMA RowInvInsert ==
  ASSUME TypeInv, RowInv, IdsAreNew, Insert(next), next <= Len(use.jobs), upc' = "idle",
         \A i \in DOMAIN db : use.jobs[i] # use.jobs[next],
         UNCHANGED <<queue, jobs, use>>
  PROVE  RowInv'
<1>1. next \in DOMAIN use.jobs /\ next \in Nat
  <2>1. use.jobs \in Seq([rec : Recordings, type : Types])
    BY UseIs DEF TypeInv, TypeOK
  <2> QED BY <2>1 DEF TypeInv, TypeOK, UserOK
<1>2. /\ DOMAIN db' = DOMAIN db \cup {next} /\ \A i \in DOMAIN db : i # next /\ db'[i] = db[i]
      /\ db'[next].rec = use.jobs[next].rec /\ db'[next].type = use.jobs[next].type
  BY <1>1 DEF Insert, IdsAreNew
<1>3. UNCHANGED <<snap, thread, use>>
  BY DEF queue, jobs
<1>4. JobsAreTheirs'
  <2>1. \A i \in DOMAIN db' : JobIs(db'[i], i)
    BY <1>1, <1>2 DEF RowInv, JobsAreTheirs, JobIs
  <2> QED BY <1>3, <2>1 DEF RowInv, JobsAreTheirs, JobIs
<1> DEFINE First(i) == \A j \in DOMAIN db' : j < i => use.jobs[j] # use.jobs[i]
<1>5. ASSUME NEW i \in Nat, i < next, FirstOf(i)
      PROVE  First(i)
  <2>1. ~(next < i)
    BY <1>1, <1>5
  <2> QED BY <1>2, <1>5, <2>1 DEF FirstOf
<1>6. First(next)
  BY <1>2
<1>7. /\ \A i \in DOMAIN db : i \in Nat
      /\ \A h \in Hosts : \A i \in DOMAIN snap[h] : i \in Nat
      /\ \A h \in Hosts, t \in Threads : thread[h][t] # NULL => thread[h][t].id \in Nat
  BY IdsAreNumbers DEF TypeInv, TypeOK, DbOK, RowsOK, JobsOK, ThreadStates
<1>8. FirstRows'
  <2> HIDE DEF First
  <2>1. \A i \in DOMAIN db' : First(i)
    BY <1>2, <1>5, <1>6, <1>7 DEF RowInv, FirstRows, IdsAreNew
  <2>2. \A h \in Hosts : \A i \in DOMAIN snap[h] : First(i)
    BY <1>5, <1>7 DEF RowInv, FirstRows, IdsAreNew
  <2>3. \A h \in Hosts, t \in Threads : thread[h][t] # NULL => First(thread[h][t].id)
    BY <1>5, <1>7 DEF RowInv, FirstRows, IdsAreNew
  <2>4. FirstRows' <=>
          /\ \A i \in DOMAIN db' : First(i)
          /\ \A h \in Hosts : \A i \in DOMAIN snap[h] : First(i)
          /\ \A h \in Hosts, t \in Threads : thread[h][t] # NULL => First(thread[h][t].id)
    BY <1>3 DEF FirstRows, FirstOf, First
  <2> QED BY <2>1, <2>2, <2>3, <2>4
<1>9. QueuesOne'
  BY DEF QueuesOne
<1>10. FlagsAreLike'
  BY <1>3 DEF RowInv, FlagsAreLike, At, Is
<1> QED BY <1>4, <1>8, <1>9, <1>10 DEF RowInv

\* What QueueJob looks for: the rows of the same job.
LEMMA SameRows ==
  ASSUME TypeInv, RowInv, NEW n \in DOMAIN use.jobs
  PROVE  Same(use.jobs[n]) = {i \in DOMAIN db : use.jobs[i] = use.jobs[n]}
<1>1. \A i \in DOMAIN db : JobIs(db[i], i)
  BY DEF RowInv, JobsAreTheirs
<1>2. ASSUME NEW i \in DOMAIN db
      PROVE  db[i].rec = use.jobs[n].rec /\ db[i].type = use.jobs[n].type
               <=> use.jobs[i] = use.jobs[n]
  BY <1>1, SameJob DEF JobIs, TypeInv, TypeOK
<1> QED BY <1>2 DEF Same

LEMMA RowInvStep ==
  ASSUME TypeInv, RowInv, IdsAreNew, [Next]_vars
  PROVE  RowInv'
<1>1. DbOK /\ JobsOK /\ UserOK /\ UseOK
  BY DEF TypeInv, TypeOK
<1>2. use'.jobs = use.jobs
  BY <1>1, UsersJobs
<1>3. ASSUME NEW h \in Hosts, QueueStep(h) \/ Crash(h) \/ Restart(h)
      PROVE  RowInv'
  <2>1. UNCHANGED user
    BY <1>3 DEF QueueStep, RecoverStep, RecoverQueue, RecoverStatus, RecoverCmds, RecoverHost,
              GetJobsInQueue, SkipElsewhere, SkipBlocked, SkipNotAllowed, StopRunning,
              StopQueued, Cancel, ResetCmds, PauseRunning, ResetStatus, SkipStarted, ClaimJob,
              ProcessJob, NoProgram, StartJob, StartChildJob, ProgramDeleted, Restart, Crash
  <2> QED BY <1>2, <1>3, <2>1, QueueKeeps, RowInvStays DEF user
<1>4. ASSUME NEW h \in Hosts, NEW t \in Threads, Acts(h, t)
      PROVE  RowInv'
  BY <1>2, <1>4, ActsKeep, RowInvStays DEF user
<1>5. CASE UserStep
  <2>1. UNCHANGED <<queue, jobs, use>>
    BY <1>5 DEF UserStep, QueueJob, QueueDeletes, QueueInserts, StopJob, SelectJob, DialogStop,
            DialogPause, DialogRequeue, DialogDelete, Confirmed, DeleteAllJobs, StopAllJobs,
            WaitForJobs, WaitTimesOut, DeleteRows, Rest
  <2>2. ThreadsKept /\ SnapsKept
    BY <2>1 DEF ThreadsKept, Remains, SnapsKept, queue, jobs
  <2>3. ASSUME RowsKept, UNCHANGED <<upc, old, next>> PROVE RowInv'
    BY <1>2, <2>2, <2>3, RowInvStays
  <2>4. \A n \in Nat \ {0} : n <= Len(use.jobs) => n \in DOMAIN use.jobs
    <3>1. use.jobs \in Seq([rec : Recordings, type : Types])
      BY <1>1, UseIs
    <3> QED BY <3>1
  <2>5. next \in Nat \ {0} /\ (upc # "idle" => next <= Len(use.jobs))
    BY <1>1 DEF UserOK
  <2>6. JobsAreTheirs /\ FirstRows /\ QueuesOne /\ FlagsAreLike
    BY DEF RowInv
  <2>7. ASSUME RowsKept, QueuesOne' PROVE RowInv'
    <3>1. ASSUME NEW i, FirstOf(i) PROVE FirstOf(i)'
      BY <2>1, <2>7, <3>1 DEF FirstOf, RowsKept
    <3>2. JobsAreTheirs' /\ FlagsAreLike'
      BY <2>1, <2>6, <2>7
         DEF JobsAreTheirs, FlagsAreLike, JobIs, RowsKept, At, Is, queue, jobs
    <3>3. /\ \A i \in DOMAIN db' : FirstOf(i)
          /\ \A h \in Hosts : \A i \in DOMAIN snap[h] : FirstOf(i)
          /\ \A h \in Hosts, t \in Threads : thread[h][t] # NULL => FirstOf(thread[h][t].id)
      BY <2>6, <2>7 DEF FirstRows, RowsKept
    <3>4. FirstRows'
      BY <2>1, <3>1, <3>3 DEF FirstRows, queue, jobs
    <3> QED BY <2>7, <3>2, <3>4 DEF RowInv
  <2>8. CASE QueueJob
    <3>1. next \in DOMAIN use.jobs
      BY <2>4, <2>5, <2>8 DEF QueueJob
    <3> DEFINE same == Same(use.jobs[next])
    <3>2. same = {i \in DOMAIN db : use.jobs[i] = use.jobs[next]}
      BY <3>1, SameRows
    <3> HIDE DEF same
    <3>3. CASE same = {} /\ Insert(next) /\ UNCHANGED upc
      <4>1. \A i \in DOMAIN db : use.jobs[i] # use.jobs[next]
        BY <3>2, <3>3
      <4>2. upc' = "idle" /\ next <= Len(use.jobs)
        BY <2>8, <3>3 DEF QueueJob
      <4> QED BY <2>1, <3>3, <4>1, <4>2, RowInvInsert
    <3>4. CASE UNCHANGED <<db, upc>>
      <4>1. QueuesOne'
        BY <2>8, <3>4 DEF QueueJob, QueuesOne
      <4> QED BY <2>7, <3>4, <4>1, SameKeeps
    <3>5. CASE UNCHANGED <<db, next>> /\ old' \in same /\ upc' \in {"delete", "replace"}
      <4>1. \A i \in DOMAIN db : FirstOf(i)
        BY <2>6 DEF FirstRows
      <4>2. ASSUME NEW i \in DOMAIN db, use.jobs[i] = use.jobs[next]
            PROVE  i = old'
        <5>1. old' \in DOMAIN db /\ use.jobs[old'] = use.jobs[next]
          BY <3>2, <3>5
        <5>2. i \in Nat /\ old' \in Nat
          BY <1>1, <4>2, <5>1, IdsAreNumbers DEF DbOK
        <5>3. ~(i < old') /\ ~(old' < i)
          BY <4>1, <4>2, <5>1 DEF FirstOf
        <5> QED BY <5>2, <5>3
      <4>3. QueuesOne'
        BY <2>1, <3>5, <4>2 DEF QueuesOne
      <4> QED BY <2>7, <3>5, <4>3, SameKeeps
    <3>6. \/ same = {} /\ Insert(next) /\ UNCHANGED upc
          \/ UNCHANGED <<db, upc>>
          \/ UNCHANGED <<db, next>> /\ old' \in same /\ upc' \in {"delete", "replace"}
      BY <2>8 DEF QueueJob, same
    <3> QED BY <3>3, <3>4, <3>5, <3>6
  <2>9. CASE QueueDeletes
    <3>1. RowsKept
      BY <2>9, DeleteKeeps DEF QueueDeletes
    <3>2. QueuesOne'
      <4>1. CASE upc = "replace"
        <5>1. DOMAIN db' = DOMAIN db \ {old} /\ upc' = "insert" /\ next' = next
          BY <2>9, <4>1 DEF QueueDeletes, Delete
        <5>2. \A i \in DOMAIN db : use.jobs[i] = use.jobs[next] => i = old
          BY <2>6, <4>1 DEF QueuesOne
        <5>3. \A i \in DOMAIN db' : use.jobs[i] # use.jobs[next]
          BY <5>1, <5>2
        <5> QED BY <2>1, <5>1, <5>3 DEF QueuesOne
      <4>2. CASE upc # "replace"
        BY <2>9, <4>2 DEF QueueDeletes, QueuesOne
      <4> QED BY <4>1, <4>2
    <3> QED BY <2>7, <3>1, <3>2
  <2>10. CASE QueueInserts
    <3>1. Insert(next) /\ next <= Len(use.jobs) /\ upc' = "idle"
      BY <2>5, <2>10 DEF QueueInserts
    <3>2. \A i \in DOMAIN db : use.jobs[i] # use.jobs[next]
      BY <2>6, <2>10 DEF QueueInserts, QueuesOne
    <3> QED BY <2>1, <3>1, <3>2, RowInvInsert
  <2>11. CASE DialogDelete \/ DeleteRows
    BY <2>3, <2>11, DeleteKeeps DEF DialogDelete, Confirmed, DeleteRows
  <2>12. CASE (\E i \in Ids : StopJob(i)) \/ DialogStop \/ DialogPause
    BY <1>1, <2>3, <2>12, CmdsKeep DEF StopJob, DialogStop, DialogPause, Confirmed, user
  <2>13. CASE (\E i \in Ids : SelectJob(i)) \/ WaitForJobs \/ WaitTimesOut
    BY <2>3, <2>13, SameKeeps DEF SelectJob, WaitForJobs, WaitTimesOut
  <2>14. CASE DialogRequeue
    BY <1>1, <2>3, <2>14, StatusKeeps DEF DialogRequeue, Confirmed
  <2>15. CASE (\E r \in Recordings : DeleteAllJobs(r)) \/ StopAllJobs
    <3>1. \A j \in Rows :
            /\ [j EXCEPT !.status = "Cancelled"].rec = j.rec
            /\ [j EXCEPT !.status = "Cancelled"].type = j.type
            /\ [j EXCEPT !.cmds = "Stop"].rec = j.rec /\ [j EXCEPT !.cmds = "Stop"].type = j.type
      BY DEF Rows
    <3>2. RowsKept
      BY <1>1, <2>15, <3>1 DEF DeleteAllJobs, StopAllJobs, RowsKept, DbOK
    <3>3. UNCHANGED <<upc, old, next>>
      BY <2>15 DEF DeleteAllJobs, StopAllJobs
    <3> QED BY <2>3, <3>2, <3>3
  <2> QED BY <1>5, <2>8, <2>9, <2>10, <2>11, <2>12, <2>13, <2>14, <2>15 DEF UserStep
<1>6. CASE UNCHANGED vars
  BY <1>2, <1>6, SameKeeps, RowInvStays
     DEF vars, queue, jobs, user, SnapsKept, ThreadsKept, Remains
<1> QED BY <1>3, <1>4, <1>5, <1>6 DEF Next, Acts

LEMMA RowInvInit == Init => RowInv
BY DEF Init, RowInv, JobsAreTheirs, FirstRows, QueuesOne, FlagsAreLike

-----------------------------------------------------------------------------
(* Steps that give no job a new owner                                      *)

Starting == {"process", "missing", "start", "child"}

\* Rows may go.  One without a host may be claimed by h, or h disclaims one that it
\* recovers.  The status of a tracked job changes to one that is done, or is changed by
\* the job's owner, or the job has no owner and is queued.
TableStep(h) ==
  /\ DOMAIN db' \subseteq DOMAIN db
  /\ \A i \in DOMAIN db' :
       /\ \/ db'[i].host = db[i].host
          \/ db[i].host = "" /\ db'[i].host = h
          \/ /\ db[i].host = h /\ db'[i].host = "" /\ qpc[h] \in Recovers /\ qpc' # qpc
             /\ Tracked(i) => db'[i].status \in Done \cup {"Queued"}
       /\ \/ ~Tracked(i)
          \/ db'[i].status = db[i].status
          \/ db'[i].status \in Done
          \/ db'[i].status # "Queued" /\ \E g \in Hosts : Owns(g, i)
          \/ db'[i].status = "Queued" /\ \A g \in Hosts : ~Owns(g, i)

\* Threads keep their jobs, or end.
ThreadsStep ==
  \A g \in Hosts, t \in Threads :
    \/ thread'[g][t] = NULL
    \/ thread[g][t] # NULL /\ thread'[g][t].id = thread[g][t].id

\* Host h goes on in its pass,
PassesOn(h) ==
  /\ qpc[h] \in Pass /\ qpc'[h] \in Pass
  /\ snap'[h] = snap[h] /\ x'[h] >= x[h]
  /\ qpc'[h] \in Starting => qpc[h] \in Starting /\ x'[h] = x[h]
  /\ qpc'[h] \in Starting \ {"process"} /\ x'[h] \in DOMAIN db' /\ Tracked(x'[h]) =>
       db'[x'[h]].status # "Queued"

\* goes on with what it recovers,
RecoversOn(h) ==
  /\ Recovering(h) /\ qpc'[h] \in Recovers
  /\ \A i \in DOMAIN snap'[h] : i < next
  /\ \A i \in DOMAIN snap'[h] \cap DOMAIN db' : i >= x'[h] => db'[i].host = h
  /\ qpc'[h] \in {"uncommand", "disclaim"} /\ x'[h] \in DOMAIN db' /\ Tracked(x'[h]) =>
       db'[x'[h]].status \in Done \cup {"Queued"}

\* or does neither.
Rests(h) ==
  /\ qpc'[h] \notin Pass \cup Recovers
  /\ DOMAIN snap'[h] \subseteq DOMAIN snap[h]
  /\ Recovering(h)' => Recovering(h) \/ \A t \in Threads : thread'[h][t] = NULL

MovesOn(h) ==
  /\ \A g \in Hosts \ {h} : qpc'[g] = qpc[g] /\ x'[g] = x[g] /\ snap'[g] = snap[g]
  /\ PassesOn(h) \/ RecoversOn(h) \/ Rests(h)

Stays == UNCHANGED <<qpc, x, snap>>

\* Which jobs are tracked never changes.
SameUse == use'.jobs = use.jobs /\ use'.does = use.does

LEMMA TrackedStays ==
  ASSUME SameUse
  PROVE  \A i : Tracked(i)' <=> Tracked(i)
BY DEF SameUse, Tracked, OwnRow

LEMMA NumbersTyped ==
  ASSUME RowsOK, NEW h \in Hosts
  PROVE  x[h] \in Nat /\ DOMAIN snap[h] \subseteq Nat
<1>1. x[h] \in Ids \cup {0} /\ DOMAIN snap[h] \subseteq Ids
  BY DEF RowsOK
<1>2. Ids \subseteq Nat /\ 0 \in Nat
  BY IdsAreNumbers
<1> QED BY <1>1, <1>2

\* The empty string names no host; a job with an owner has a row that says so.
LEMMA OwnersAreHosts == "" \notin Hosts
BY JobQueueAssumption

LEMMA NothingNew ==
  ASSUME TypeInv, TypeInv', OneOwner, SameUse, NEW h \in Hosts,
         TableStep(h), ThreadsStep, next <= next',
         Stays \/ MovesOn(h)
  PROVE  OneOwner'
<1>1. \A i : \A g \in Hosts, t \in Threads : Has(g, t, i)' => Has(g, t, i)
  BY DEF ThreadsStep, Has
<1>2. \A i : \A g \in Hosts : Starts(g, i)' => Starts(g, i)
  BY DEF Starts, Stays, MovesOn, PassesOn, RecoversOn, Rests, Starting, Pass, Recovers
<1>3. \A i : \A g \in Hosts : Owns(g, i)' => Owns(g, i)
  BY <1>1, <1>2 DEF Owns
<1>4. \A g \in Hosts, i \in Ids : Ahead(g, i)' => Ahead(g, i) /\ snap'[g][i] = snap[g][i]
  <2>1. \A g \in Hosts : x[g] \in Nat /\ x'[g] \in Nat
    <3>1. x \in [Hosts -> Ids \cup {0}] /\ x' \in [Hosts -> Ids \cup {0}]
      BY DEF TypeInv, TypeOK, RowsOK
    <3>2. Ids \cup {0} \subseteq Nat
      BY IdsAreNumbers
    <3> QED BY <3>1, <3>2
  <2>2. \A i \in Ids : i \in Nat
    BY IdsAreNumbers
  <2> QED BY <2>1, <2>2
          DEF Ahead, Stays, MovesOn, PassesOn, RecoversOn, Rests, Pass, Recovers
<1>20. \A i : Tracked(i)' <=> Tracked(i)
  BY TrackedStays
<1>21. OnOneHost'
  BY <1>3 DEF OneOwner, OnOneHost
<1>5. Once'
  <2>1. Once
    BY DEF OneOwner
  <2> QED BY <1>1, <1>2, <1>20, <2>1, SMT DEF Once
<1>6. \A g \in Hosts, i \in Ids : qpc[h] \in Recovers => ~Owns(h, i) /\ ~Ahead(h, i)
  BY DEF OneOwner, RecoveringIsIdle, Recovering, Owns, Has, Starts, Ahead, Recovers, Pass
<1>7. \A i \in DOMAIN db' : i \in DOMAIN db /\ i \in Ids
  BY DEF TableStep, TypeInv, TypeOK, DbOK
<1>8. RowNamesOwner'
  <2> SUFFICES ASSUME NEW g \in Hosts, NEW i \in DOMAIN db', Owns(g, i)'
               PROVE  db'[i].host = g
    BY DEF RowNamesOwner
  <2>1. Owns(g, i) /\ db[i].host = g
    BY <1>3, <1>7 DEF OneOwner, RowNamesOwner
  <2> QED BY <1>6, <1>7, <2>1, OwnersAreHosts DEF TableStep
<1>9. OwnedIsNotQueued'
  <2> SUFFICES ASSUME NEW g \in Hosts, NEW i \in DOMAIN db', Tracked(i),
                      \/ \E t \in Threads : Has(g, t, i)'
                      \/ x'[g] = i /\ qpc'[g] \in {"start", "missing", "child"}
               PROVE  db'[i].status # "Queued"
    BY <1>20 DEF OwnedIsNotQueued
  <2>1. "Queued" \notin Done
    BY DEF Done
  <2>2. i \in DOMAIN db
    BY <1>7
  <2>3. CASE \E t \in Threads : Has(g, t, i)'
    <3>1. Owns(g, i) /\ \E t \in Threads : Has(g, t, i)
      BY <1>1, <2>3 DEF Owns
    <3>2. db[i].status # "Queued"
      BY <2>2, <3>1 DEF OneOwner, OwnedIsNotQueued
    <3> QED BY <2>1, <3>1, <3>2 DEF TableStep
  <2>4. CASE x'[g] = i /\ qpc'[g] \in {"start", "missing", "child"}
    <3>1. CASE Stays \/ g # h
      <4>1. x[g] = i /\ qpc[g] \in {"start", "missing", "child"}
        BY <2>4, <3>1 DEF Stays, MovesOn
      <4>2. Owns(g, i) /\ db[i].status # "Queued"
        BY <2>2, <4>1 DEF OneOwner, OwnedIsNotQueued, Owns, Starts
      <4> QED BY <2>1, <4>2 DEF TableStep
    <3>2. CASE MovesOn(h) /\ g = h
      BY <2>4, <3>2 DEF MovesOn, PassesOn, RecoversOn, Rests, Starting, Pass, Recovers
    <3> QED BY <3>1, <3>2
  <2> QED BY <2>3, <2>4
<1>10. UnclaimedIsQueued'
  <2> SUFFICES ASSUME NEW i \in DOMAIN db', db'[i].host = "", Tracked(i)
               PROVE  db'[i].status \in Done \cup {"Queued"}
    BY <1>20 DEF UnclaimedIsQueued
  <2>1. CASE db[i].host = ""
    <3>1. db[i].status \in Done \cup {"Queued"}
      BY <1>7, <2>1 DEF OneOwner, UnclaimedIsQueued
    <3>2. \A g \in Hosts : ~Owns(g, i)
      BY <1>7, <2>1, OwnersAreHosts DEF OneOwner, RowNamesOwner
    <3> QED BY <3>1, <3>2 DEF TableStep
  <2>2. CASE db[i].host # ""
    BY <2>2, OwnersAreHosts DEF TableStep
  <2> QED BY <2>1, <2>2
<1>11. RecoveringIsIdle'
  <2>1. \A g \in Hosts : Recovering(g)' =>
          Recovering(g) \/ \A t \in Threads : thread'[g][t] = NULL
    BY DEF Recovering, Stays, MovesOn, PassesOn, RecoversOn, Rests, Pass
  <2> QED BY <2>1 DEF OneOwner, RecoveringIsIdle, ThreadsStep
<1>12. \A g \in Hosts : qpc'[g] \in Recovers =>
         \/ g = h /\ RecoversOn(h)
         \/ /\ Recovering(g) /\ qpc'[g] = qpc[g] /\ x'[g] = x[g] /\ snap'[g] = snap[g]
            /\ g = h => Stays
  BY DEF Recovering, Stays, MovesOn, PassesOn, Rests, Recovers, Pass
<1>13. RecoversOwn'
  <2> SUFFICES ASSUME NEW g \in Hosts, qpc'[g] \in Recovers,
                      NEW i \in DOMAIN snap'[g] \cap DOMAIN db', i >= x'[g]
               PROVE  db'[i].host = g
    BY DEF RecoversOwn
  <2>1. CASE g = h /\ RecoversOn(h)
    BY <2>1 DEF RecoversOn
  <2>2. CASE /\ qpc'[g] = qpc[g] /\ x'[g] = x[g] /\ snap'[g] = snap[g]
             /\ g = h => Stays
    <3>1. db[i].host = g
      BY <1>7, <2>2 DEF OneOwner, RecoversOwn
    <3> QED BY <1>7, <2>2, <3>1, OwnersAreHosts DEF TableStep, Stays
  <2> QED BY <1>12, <2>1, <2>2
<1>14. RecoveredIsQueued'
  <2> SUFFICES ASSUME NEW g \in Hosts, qpc'[g] \in {"uncommand", "disclaim"},
                      x'[g] \in DOMAIN db', Tracked(x'[g])
               PROVE  db'[x'[g]].status \in Done \cup {"Queued"}
    <3>1. \A g \in Hosts : Tracked(x[g])' <=> Tracked(x'[g])
      BY DEF SameUse, Tracked, OwnRow
    <3> QED BY <3>1 DEF RecoveredIsQueued
  <2>1. CASE g = h /\ RecoversOn(h)
    BY <2>1 DEF RecoversOn
  <2>2. CASE Recovering(g) /\ qpc'[g] = qpc[g] /\ x'[g] = x[g] /\ snap'[g] = snap[g]
    <3>1. x[g] \in DOMAIN db /\ x[g] \in DOMAIN snap[g] /\ x[g] \in Nat
      BY <1>7, <2>2, NumbersTyped DEF TypeInv, TypeOK, AtRow, Recovers
    <3>2. db[x[g]].status \in Done \cup {"Queued"} /\ db[x[g]].host = g
      BY <2>2, <3>1 DEF OneOwner, RecoveredIsQueued, RecoversOwn, Recovers
    <3>3. \A k \in Hosts : Owns(k, x[g]) => k = g
      BY <3>1, <3>2 DEF OneOwner, RowNamesOwner
    <3>4. ~Owns(g, x[g])
      BY <2>2 DEF OneOwner, RecoveringIsIdle, Owns, Has, Starts, Recovering
    <3> QED BY <2>2, <3>2, <3>3, <3>4 DEF TableStep
  <2> QED BY <1>12, <2>1, <2>2 DEF Recovers
<1>15. AheadIsQueued'
  BY <1>1, <1>4, <1>20 DEF OneOwner, AheadIsQueued
<1>16. AheadIsMine'
  <2> SUFFICES ASSUME NEW g \in Hosts, NEW i \in Ids,
                      Ahead(g, i)', snap'[g][i].host = g
               PROVE  /\ i \in DOMAIN db' => db'[i].host = g
                      /\ \A k \in Hosts \ {g} : ~Owns(k, i)'
    BY DEF AheadIsMine
  <2>1. Ahead(g, i) /\ snap[g][i].host = g
    BY <1>4
  <2>2. /\ i \in DOMAIN db => db[i].host = g
        /\ \A k \in Hosts \ {g} : ~Owns(k, i)
    BY <2>1 DEF OneOwner, AheadIsMine
  <2>3. i \in DOMAIN db' => db'[i].host = g
    BY <1>6, <1>7, <2>1, <2>2, OwnersAreHosts DEF TableStep
  <2> QED BY <1>3, <2>2, <2>3
<1>17. AheadIsNotTheirs'
  BY <1>4 DEF OneOwner, AheadIsNotTheirs
<1>18. AheadUnclaimed'
  <2> SUFFICES ASSUME NEW g \in Hosts, NEW i \in Ids, Ahead(g, i)', snap'[g][i].host = "",
                      Tracked(i)
               PROVE  snap'[g][i].status = "Queued"
    BY TrackedStays DEF AheadUnclaimed
  <2>1. Ahead(g, i) /\ snap'[g][i] = snap[g][i]
    BY <1>4
  <2>2. AheadUnclaimed
    BY DEF OneOwner
  <2>3. snap[g][i].host = "" => snap[g][i].status = "Queued"
    BY <2>1, <2>2 DEF AheadUnclaimed
  <2> QED BY <2>1, <2>3
<1>19. IdsAreNew'
  <2>1. next \in Nat /\ next' \in Nat
    BY DEF TypeInv, TypeOK, UserOK
  <2>2. \A i \in Ids : i \in Nat
    BY IdsAreNumbers
  <2>3. \A i \in DOMAIN db' : i < next'
    <3> TAKE i \in DOMAIN db'
    <3>1. i \in Nat /\ i < next
      BY <1>7, <2>2 DEF OneOwner, IdsAreNew
    <3> QED BY <2>1, <3>1
  <2>4. \A g \in Hosts : \A i \in DOMAIN snap'[g] : i < next'
    <3> TAKE g \in Hosts
    <3> TAKE i \in DOMAIN snap'[g]
    <3>1. i \in DOMAIN snap[g] \/ i < next
      BY DEF Stays, MovesOn, PassesOn, RecoversOn, Rests
    <3>2. i < next
      BY <3>1 DEF OneOwner, IdsAreNew
    <3>3. i \in Nat
      BY <2>2 DEF TypeInv, TypeOK, RowsOK
    <3> QED BY <2>1, <3>2, <3>3
  <2>5. \A g \in Hosts, t \in Threads : thread'[g][t] # NULL => thread'[g][t].id < next'
    <3>1. \A g \in Hosts, t \in Threads : thread'[g][t] # NULL => thread'[g][t].id \in Nat
      BY <2>2 DEF TypeInv, TypeOK, JobsOK, ThreadStates
    <3> QED BY <2>1, <3>1 DEF OneOwner, IdsAreNew, ThreadsStep
  <2> QED BY <2>3, <2>4, <2>5 DEF IdsAreNew
<1> QED BY <1>5, <1>8, <1>9, <1>10, <1>11, <1>13, <1>14, <1>15, <1>16, <1>17, <1>18, <1>19,
           <1>21 DEF OneOwner

-----------------------------------------------------------------------------
(* Steps that give a job an owner, or a pass its rows                       *)

\* A new row is nobody's.
LEMMA InsertOneOwner ==
  ASSUME TypeInv, TypeInv', OneOwner, SameUse, Insert(next), next' = next + 1,
         UNCHANGED <<queue, jobs>>
  PROVE  OneOwner'
<1>1. /\ \A i : \A h \in Hosts, t \in Threads : Has(h, t, i)' <=> Has(h, t, i)
      /\ \A i : \A h \in Hosts : Starts(h, i)' <=> Starts(h, i)
      /\ \A i : \A h \in Hosts : Ahead(h, i)' <=> Ahead(h, i)
      /\ \A h \in Hosts : Recovering(h)' <=> Recovering(h)
      /\ UNCHANGED <<qpc, x, snap, thread>>
  BY DEF queue, jobs, Has, Starts, Ahead, Recovering
<1>2. \A i : \A h \in Hosts : Owns(h, i)' <=> Owns(h, i)
  BY <1>1 DEF Owns
<1>3. next \in Nat /\ next \notin DOMAIN db /\ \A h \in Hosts : next \notin DOMAIN snap[h]
  BY DEF TypeInv, TypeOK, UserOK, OneOwner, IdsAreNew
<1>4. \A h \in Hosts : ~Owns(h, next)
  <2> SUFFICES ASSUME NEW h \in Hosts, Owns(h, next) PROVE FALSE
    OBVIOUS
  <2>1. CASE Starts(h, next)
    BY <1>3, <2>1 DEF Starts, Pass, AtRow, TypeInv
  <2>2. CASE \E t \in Threads : Has(h, t, next)
    BY <1>3, <2>2 DEF Has, OneOwner, IdsAreNew
  <2> QED BY <2>1, <2>2 DEF Owns
<1>5. \A h \in Hosts : qpc[h] \in Pass \cup Recovers => x[h] # next
  BY <1>3 DEF AtRow, TypeInv
<1>6. /\ DOMAIN db' = DOMAIN db \cup {next} /\ \A i \in DOMAIN db : db'[i] = db[i]
      /\ db'[next].status = "Queued"
  BY <1>3 DEF Insert
<1>15. \A i : Tracked(i)' <=> Tracked(i)
  BY TrackedStays
<1>7. OnOneHost' /\ Once'
  BY <1>1, <1>2, <1>15 DEF OneOwner, OnOneHost, Once
<1>8. RowNamesOwner'
  BY <1>2, <1>4, <1>6 DEF OneOwner, RowNamesOwner
<1>9. OwnedIsNotQueued'
  BY <1>1, <1>4, <1>5, <1>6, <1>15 DEF OneOwner, OwnedIsNotQueued, Owns, Pass
<1>10. UnclaimedIsQueued'
  BY <1>6, <1>15 DEF OneOwner, UnclaimedIsQueued
<1>11. RecoveringIsIdle' /\ RecoversOwn' /\ RecoveredIsQueued'
  <2>1. \A h \in Hosts : Tracked(x[h])' <=> Tracked(x[h])
    BY <1>1 DEF SameUse, Tracked, OwnRow
  <2> QED BY <1>1, <1>3, <1>5, <1>6, <2>1
          DEF OneOwner, RecoveringIsIdle, RecoversOwn, RecoveredIsQueued, Recovers
<1>12. AheadIsQueued' /\ AheadIsNotTheirs' /\ AheadUnclaimed'
  BY <1>1, <1>15 DEF OneOwner, AheadIsQueued, AheadIsNotTheirs, AheadUnclaimed
<1>13. AheadIsMine'
  BY <1>1, <1>2, <1>3, <1>6 DEF OneOwner, AheadIsMine, Ahead
<1>14. IdsAreNew'
  <2>1. /\ \A i \in DOMAIN db : i \in Nat
        /\ \A h \in Hosts : \A i \in DOMAIN snap[h] : i \in Nat
        /\ \A h \in Hosts, t \in Threads : thread[h][t] # NULL => thread[h][t].id \in Nat
    BY IdsAreNumbers DEF TypeInv, TypeOK, DbOK, RowsOK, JobsOK, ThreadStates
  <2> QED BY <1>1, <1>3, <1>6, <2>1 DEF OneOwner, IdsAreNew
<1> QED BY <1>7, <1>8, <1>9, <1>10, <1>11, <1>12, <1>13, <1>14 DEF OneOwner

\* What the snapshot says is true when it is taken.
LEMMA FetchOneOwner ==
  ASSUME TypeInv, TypeInv', OneOwner, SameUse, NEW h \in Hosts, GetJobsInQueue(h)
  PROVE  OneOwner'
<1>1. /\ qpc[h] = "fetch" /\ qpc'[h] = "scan"
      /\ DOMAIN snap'[h] = NotDone /\ \A i \in NotDone : snap'[h][i] = db[i]
      /\ \A g \in Hosts \ {h} : qpc'[g] = qpc[g] /\ x'[g] = x[g] /\ snap'[g] = snap[g]
      /\ UNCHANGED <<db, thread, next>>
  BY DEF GetJobsInQueue, TypeInv, TypeOK, RowsOK, jobs, user
<1>2. NotDone = {i \in DOMAIN db : db[i].status \notin Done}
  BY DEF NotDone
<1>3. /\ \A i : \A g \in Hosts, t \in Threads : Has(g, t, i)' <=> Has(g, t, i)
      /\ \A i : \A g \in Hosts : Starts(g, i)' <=> Starts(g, i)
      /\ \A g \in Hosts : Recovering(g)' <=> Recovering(g)
      /\ \A i : \A g \in Hosts \ {h} : Ahead(g, i)' <=> Ahead(g, i)
      /\ \A i : Ahead(h, i)' => i \in NotDone
  BY <1>1 DEF Has, Starts, Ahead, Recovering
<1>4. \A i : \A g \in Hosts : Owns(g, i)' <=> Owns(g, i)
  BY <1>3 DEF Owns
<1>15. \A i : Tracked(i)' <=> Tracked(i)
  BY TrackedStays
<1>5. OnOneHost' /\ Once'
  BY <1>3, <1>4, <1>15 DEF OneOwner, OnOneHost, Once
<1>6. RowNamesOwner'
  BY <1>1, <1>4 DEF OneOwner, RowNamesOwner
<1>7. OwnedIsNotQueued'
  BY <1>1, <1>3, <1>15 DEF OneOwner, OwnedIsNotQueued
<1>8. UnclaimedIsQueued' /\ RecoveringIsIdle'
  BY <1>1, <1>3, <1>15 DEF OneOwner, UnclaimedIsQueued, RecoveringIsIdle
<1>9. RecoversOwn' /\ RecoveredIsQueued'
  <2>1. \A g \in Hosts \ {h} : Tracked(x[g])' <=> Tracked(x[g])
    BY <1>1 DEF SameUse, Tracked, OwnRow
  <2> QED BY <1>1, <2>1 DEF OneOwner, RecoversOwn, RecoveredIsQueued, Recovers
<1>10. AheadIsQueued'
  BY <1>1, <1>2, <1>3, <1>15 DEF OneOwner, AheadIsQueued, OwnedIsNotQueued
<1>11. AheadIsMine'
  BY <1>1, <1>2, <1>3, <1>4 DEF OneOwner, AheadIsMine, RowNamesOwner
<1>12. AheadIsNotTheirs'
  <2>1. \A g \in Hosts, i \in NotDone :
          Ahead(g, i) /\ snap[g][i].host = g => db[i].host = g
    <3>1. NotDone \subseteq Ids /\ NotDone \subseteq DOMAIN db
      BY <1>2 DEF TypeInv, TypeOK, DbOK
    <3>2. AheadIsMine
      BY DEF OneOwner
    <3> QED BY <3>1, <3>2 DEF AheadIsMine
  <2> QED BY <1>1, <1>3, <2>1 DEF OneOwner, AheadIsNotTheirs
<1>13. AheadUnclaimed'
  <2> SUFFICES ASSUME NEW g \in Hosts, NEW i \in Ids, Ahead(g, i)', snap'[g][i].host = "",
                      Tracked(i)
               PROVE  snap'[g][i].status = "Queued"
    BY TrackedStays DEF AheadUnclaimed
  <2>1. CASE g = h
    <3>1. i \in NotDone
      BY <1>3, <2>1
    <3>2. snap'[g][i] = db[i] /\ i \in DOMAIN db /\ db[i].status \notin Done
      BY <1>1, <1>2, <2>1, <3>1
    <3>3. UnclaimedIsQueued
      BY DEF OneOwner
    <3> QED BY <3>2, <3>3 DEF UnclaimedIsQueued
  <2>2. CASE g # h
    <3>1. Ahead(g, i) /\ snap'[g][i] = snap[g][i]
      BY <1>1, <1>3, <2>2
    <3>2. AheadUnclaimed
      BY DEF OneOwner
    <3>3. snap[g][i].host = "" => snap[g][i].status = "Queued"
      BY <3>1, <3>2 DEF AheadUnclaimed
    <3> QED BY <3>1, <3>3
  <2> QED BY <2>1, <2>2
<1>14. IdsAreNew'
  BY <1>1, <1>2 DEF OneOwner, IdsAreNew
<1> QED BY <1>5, <1>6, <1>7, <1>8, <1>9, <1>10, <1>11, <1>12, <1>13, <1>14 DEF OneOwner

\* A host claims a row that has no host, or takes up one that it has already.
Takes(h) ==
  /\ qpc[h] = "scan" /\ Queued(h)
  /\ \/ Row(h).host = "" /\ Claim(x[h], h)
     \/ Row(h).host = h /\ UNCHANGED db
  /\ Goto(h, "process") /\ UNCHANGED <<jobs, next>>

LEMMA ClaimOneOwner ==
  ASSUME TypeInv, TypeInv', OneOwner, SameUse, NEW h \in Hosts, Takes(h)
  PROVE  OneOwner'
<1> DEFINE i == x[h]
<1>0. /\ qpc[h] = "scan" /\ Queued(h) /\ Goto(h, "process") /\ UNCHANGED <<jobs, next>>
      /\ Claim(i, h) \/ (Row(h).host = h /\ UNCHANGED db)
  BY DEF Takes
<1>1. /\ qpc'[h] = "process" /\ UNCHANGED <<x, snap, thread, next>>
      /\ \A g \in Hosts \ {h} : qpc'[g] = qpc[g]
  BY <1>0 DEF Goto, TypeInv, TypeOK, RowsOK, jobs
<1>2. i \in DOMAIN snap[h] /\ i \in Ids /\ i \in Nat
  BY <1>0, NumbersTyped, AtRowTyped DEF Pass, TypeInv, TypeOK
<1>3. Ahead(h, i) /\ snap[h][i].status = "Queued"
  <2>1. snap[h][i].status = "Queued"
    BY <1>0 DEF Queued, Row
  <2>2. x[h] \in Nat /\ i = x[h]
    BY <1>2
  <2> HIDE DEF i
  <2>3. i >= x[h]
    BY <2>2
  <2> QED BY <1>0, <1>2, <2>1, <2>3 DEF Ahead, Pass
<1>4. /\ DOMAIN db' = DOMAIN db
      /\ \A j \in DOMAIN db : /\ db'[j].status = db[j].status
                              /\ j # i => db'[j] = db[j]
                              /\ db'[j].host = db[j].host \/ db[j].host = ""
      /\ i \in DOMAIN db => db'[i].host = h
  <2>1. CASE Claim(i, h)
    <3>1. /\ i \in DOMAIN db /\ db[i].host = ""
          /\ db' = [db EXCEPT ![i].host = h] /\ db[i] \in Rows
      BY <2>1 DEF Claim, Unclaimed, TypeInv, TypeOK, DbOK
    <3>2. [db[i] EXCEPT !.host = h].status = db[i].status
          /\ [db[i] EXCEPT !.host = h].host = h
      BY <3>1 DEF Rows
    <3> QED BY <3>1, <3>2
  <2>2. CASE Row(h).host = h /\ UNCHANGED db
    BY <1>2, <1>3, <2>2 DEF OneOwner, AheadIsMine, Row
  <2> QED BY <1>0, <2>1, <2>2
<1>5. \A g \in Hosts \ {h} : ~Owns(g, i)
  <2>1. CASE Claim(i, h)
    BY <2>1, OwnersAreHosts DEF Claim, Unclaimed, OneOwner, RowNamesOwner
  <2>2. CASE Row(h).host = h
    BY <1>2, <1>3, <2>2 DEF OneOwner, AheadIsMine, Row
  <2> QED BY <1>0, <2>1, <2>2
<1>6. Tracked(i) => \A t \in Threads : ~Has(h, t, i)
  BY <1>2, <1>3 DEF OneOwner, AheadIsQueued
<1>17. \A j : Tracked(j)' <=> Tracked(j)
  BY TrackedStays
<1>7. /\ \A j : \A g \in Hosts, t \in Threads : Has(g, t, j)' <=> Has(g, t, j)
      /\ \A j : \A g \in Hosts : Starts(g, j)' <=> Starts(g, j) \/ (g = h /\ j = i)
      /\ \A j : \A g \in Hosts : Ahead(g, j)' <=> Ahead(g, j)
      /\ \A g \in Hosts : Recovering(g)' <=> Recovering(g)
  BY <1>0, <1>1 DEF Has, Starts, Ahead, Recovering, Pass
<1>8. \A j : \A g \in Hosts : Owns(g, j)' <=> Owns(g, j) \/ (g = h /\ j = i)
  BY <1>7 DEF Owns
<1> HIDE DEF i
<1>9. OnOneHost' /\ Once'
  <2>1. OnOneHost /\ Once
    BY DEF OneOwner
  <2>2. OnOneHost'
    BY <1>5, <1>8, <2>1 DEF OnOneHost
  <2>3. ASSUME NEW j \in Ids, NEW g \in Hosts, Tracked(j)
        PROVE  /\ \A t, u \in Threads : Has(g, t, j)' /\ Has(g, u, j)' => t = u
               /\ \A t \in Threads : Has(g, t, j)' => ~Starts(g, j)'
    <3>1. \A t, u \in Threads : Has(g, t, j)' /\ Has(g, u, j)' => t = u
      BY <1>7, <2>1, <2>3 DEF Once
    <3>2. \A t \in Threads : Has(g, t, j)' => ~Starts(g, j)'
      BY <1>6, <1>7, <2>1, <2>3 DEF Once
    <3> QED BY <3>1, <3>2
  <2>4. Once'
    BY <1>17, <2>3 DEF Once
  <2> QED BY <2>2, <2>4
<1>10. RowNamesOwner'
  <2> SUFFICES ASSUME NEW g \in Hosts, NEW j \in DOMAIN db, Owns(g, j)'
               PROVE  db'[j].host = g
    BY <1>4 DEF RowNamesOwner
  <2>1. CASE g = h /\ j = i
    BY <1>4, <2>1
  <2>2. CASE Owns(g, j)
    <3>1. db[j].host = g
      BY <2>2 DEF OneOwner, RowNamesOwner
    <3> QED BY <1>4, <3>1, OwnersAreHosts
  <2> QED BY <1>8, <2>1, <2>2
<1>11. OwnedIsNotQueued'
  <2>1. \A g \in Hosts : qpc'[g] \in {"start", "missing", "child"} =>
          qpc'[g] = qpc[g] /\ x'[g] = x[g]
    BY <1>1
  <2>2. OwnedIsNotQueued
    BY DEF OneOwner
  <2> SUFFICES ASSUME NEW g \in Hosts, NEW j \in DOMAIN db, Tracked(j),
                      \/ \E t \in Threads : Has(g, t, j)'
                      \/ x'[g] = j /\ qpc'[g] \in {"start", "missing", "child"}
               PROVE  db'[j].status # "Queued"
    BY <1>4, <1>17 DEF OwnedIsNotQueued
  <2>3. \/ \E t \in Threads : Has(g, t, j)
        \/ x[g] = j /\ qpc[g] \in {"start", "missing", "child"}
    BY <1>7, <2>1
  <2>4. db[j].status # "Queued"
    BY <2>2, <2>3 DEF OwnedIsNotQueued
  <2> QED BY <1>4, <2>4
<1>12. UnclaimedIsQueued' /\ RecoveringIsIdle'
  <2>1. ASSUME NEW j \in DOMAIN db, db'[j].host = ""
        PROVE  db[j].host = "" /\ db'[j].status = db[j].status
    BY <1>4, <2>1, OwnersAreHosts
  <2>2. UnclaimedIsQueued
    BY DEF OneOwner
  <2>3. UnclaimedIsQueued'
    BY <1>4, <1>17, <2>1, <2>2 DEF UnclaimedIsQueued
  <2>4. RecoveringIsIdle'
    BY <1>1, <1>7 DEF OneOwner, RecoveringIsIdle
  <2> QED BY <2>3, <2>4
<1>13. RecoversOwn' /\ RecoveredIsQueued'
  <2>1. \A g \in Hosts : qpc'[g] \in Recovers => g # h /\ qpc[g] = qpc'[g]
    BY <1>1 DEF Recovers
  <2>2. RecoversOwn'
    <3> SUFFICES ASSUME NEW g \in Hosts, qpc'[g] \in Recovers,
                        NEW j \in DOMAIN snap[g] \cap DOMAIN db, j >= x[g]
                 PROVE  db'[j].host = g
      BY <1>1, <1>4 DEF RecoversOwn
    <3>1. db[j].host = g
      BY <2>1 DEF OneOwner, RecoversOwn
    <3> QED BY <1>4, <3>1, OwnersAreHosts
  <2>3. RecoveredIsQueued'
    <3>1. \A g \in Hosts : Tracked(x[g])' <=> Tracked(x[g])
      BY <1>1 DEF SameUse, Tracked, OwnRow
    <3> QED BY <1>1, <1>4, <2>1, <3>1 DEF OneOwner, RecoveredIsQueued, Recovers
  <2> QED BY <2>2, <2>3
<1>14. AheadIsQueued' /\ AheadIsNotTheirs' /\ AheadUnclaimed'
  <2>1. AheadIsQueued' /\ AheadIsNotTheirs'
    BY <1>1, <1>7, <1>17 DEF OneOwner, AheadIsQueued, AheadIsNotTheirs
  <2>2. AheadUnclaimed
    BY DEF OneOwner
  <2>3. AheadUnclaimed'
    BY <1>1, <1>7, <1>17, <2>2, Zenon DEF AheadUnclaimed
  <2> QED BY <2>1, <2>3
<1>15. AheadIsMine'
  <2> SUFFICES ASSUME NEW g \in Hosts, NEW j \in Ids, Ahead(g, j), snap[g][j].host = g
               PROVE  /\ j \in DOMAIN db => db'[j].host = g
                      /\ \A k \in Hosts \ {g} : ~Owns(k, j)'
    BY <1>1, <1>4, <1>7 DEF AheadIsMine
  <2>1. /\ j \in DOMAIN db => db[j].host = g
        /\ \A k \in Hosts \ {g} : ~Owns(k, j)
    BY DEF OneOwner, AheadIsMine
  <2>2. j = i => g = h
    <3>1. CASE Claim(i, h)
      BY <2>1, <3>1, OwnersAreHosts DEF Claim, Unclaimed
    <3>2. CASE Row(h).host = h
      BY <1>2, <1>3, <3>2 DEF OneOwner, AheadIsNotTheirs, Row, i
    <3> QED BY <1>0, <3>1, <3>2 DEF i
  <2>3. j \in DOMAIN db => db'[j].host = g
    BY <1>4, <2>1, OwnersAreHosts
  <2> QED BY <1>8, <2>1, <2>2, <2>3
<1>16. IdsAreNew'
  BY <1>1, <1>4 DEF OneOwner, IdsAreNew
<1> QED BY <1>9, <1>10, <1>11, <1>12, <1>13, <1>14, <1>15, <1>16 DEF OneOwner

\* The job that ProcessJob was at work on gets its thread, and the pass goes on.
LEMMA ChildOneOwner ==
  ASSUME TypeInv, TypeInv', OneOwner, SameUse, NEW h \in Hosts, StartChildJob(h)
  PROVE  OneOwner'
<1> DEFINE i == x[h]
<1>1. PICK t \in Threads :
        /\ thread[h][t] = NULL
        /\ thread' = [thread EXCEPT ![h][t] = NewThread(Row(h), i)]
  BY DEF StartChildJob
<1>2. /\ qpc[h] = "child" /\ Advance(h, "scan") /\ UNCHANGED <<db, next>>
  BY DEF StartChildJob, NextRow, user
<1>3. i \in DOMAIN snap[h] /\ i \in Ids /\ i \in Nat
  BY <1>2, NumbersTyped, AtRowTyped DEF Pass, TypeInv, TypeOK
<1>4. NewThread(Row(h), i).id = i
  BY DEF NewThread
<1>5. \A g \in Hosts, u \in Threads :
        thread'[g][u] = IF g = h /\ u = t THEN NewThread(Row(h), i) ELSE thread[g][u]
  BY <1>1 DEF TypeInv, TypeOK, JobsOK
<1>6. \A j : \A g \in Hosts, u \in Threads :
        Has(g, u, j)' => Has(g, u, j) \/ (g = h /\ u = t /\ j = i)
  BY <1>1, <1>4, <1>5 DEF Has
<1>7. /\ \A g \in Hosts \ {h} : qpc'[g] = qpc[g] /\ x'[g] = x[g] /\ snap'[g] = snap[g]
      /\ \/ qpc'[h] = "scan" /\ snap'[h] = snap[h] /\ x'[h] \in Later(h)
         \/ qpc'[h] = "fetch" /\ snap'[h] = <<>>
  <2>1. Later(h) \subseteq Nat
    BY NumbersTyped DEF Later, TypeInv, TypeOK
  <2>2. Later(h) # {} => Least(Later(h)) \in Later(h)
    BY <2>1, LeastIn
  <2> QED BY <1>2, <2>2 DEF Advance, TypeInv, TypeOK, RowsOK
<1>8. /\ \A j : \A g \in Hosts \ {h} : Starts(g, j)' <=> Starts(g, j)
      /\ \A j : ~Starts(h, j)'
      /\ Starts(h, i)
      /\ \A g \in Hosts : Recovering(g)' <=> Recovering(g)
  BY <1>2, <1>7 DEF Starts, Recovering
<1>9. \A j : \A g \in Hosts : Owns(g, j)' => Owns(g, j)
  BY <1>6, <1>8 DEF Owns
<1>10. /\ \A g \in Hosts, j \in Ids : Ahead(g, j)' => Ahead(g, j) /\ snap'[g][j] = snap[g][j]
       /\ \A j \in Ids : Ahead(h, j)' => j # i
  <2>1. \A j \in Ids : j \in Nat
    BY IdsAreNumbers
  <2>2. Later(h) = {j \in DOMAIN snap[h] : j > i} /\ DOMAIN snap[h] \subseteq Nat
    BY NumbersTyped DEF Later, TypeInv, TypeOK
  <2>3. CASE qpc'[h] = "scan" /\ snap'[h] = snap[h] /\ x'[h] \in Later(h)
    BY <1>2, <1>3, <1>7, <2>1, <2>2, <2>3 DEF Ahead, Pass
  <2>4. CASE qpc'[h] = "fetch"
    BY <1>7, <2>4 DEF Ahead, Pass
  <2> QED BY <1>7, <2>3, <2>4
<1>11. Tracked(i) => \A u \in Threads : ~Has(h, u, i)
  BY <1>3, <1>8 DEF OneOwner, Once
<1>12. \A j : Tracked(j)' <=> Tracked(j)
  BY TrackedStays
<1>24. \A g \in Hosts : Tracked(x[g])' <=> Tracked(x'[g])
  BY DEF SameUse, Tracked, OwnRow
<1> HIDE DEF i
<1>13. OnOneHost' /\ Once'
  <2>1. OnOneHost /\ Once
    BY DEF OneOwner
  <2>2. OnOneHost'
    BY <1>9, <2>1 DEF OnOneHost
  <2>3. Once'
    BY <1>6, <1>8, <1>11, <1>12, <2>1 DEF Once
  <2> QED BY <2>2, <2>3
<1>14. RowNamesOwner'
  BY <1>2, <1>9 DEF OneOwner, RowNamesOwner
<1>15. OwnedIsNotQueued'
  <2> SUFFICES ASSUME NEW g \in Hosts, NEW j \in DOMAIN db, Tracked(j),
                      \/ \E u \in Threads : Has(g, u, j)'
                      \/ x'[g] = j /\ qpc'[g] \in {"start", "missing", "child"}
               PROVE  db[j].status # "Queued"
    BY <1>2, <1>12 DEF OwnedIsNotQueued
  <2>1. \/ \E u \in Threads : Has(g, u, j)
        \/ x[g] = j /\ qpc[g] \in {"start", "missing", "child"}
    BY <1>2, <1>6, <1>7 DEF i
  <2> QED BY <2>1 DEF OneOwner, OwnedIsNotQueued
<1>16. UnclaimedIsQueued'
  BY <1>2, <1>12 DEF OneOwner, UnclaimedIsQueued
<1>17. RecoveringIsIdle'
  BY <1>2, <1>5, <1>8 DEF OneOwner, RecoveringIsIdle, Recovering
<1>18. RecoversOwn' /\ RecoveredIsQueued'
  BY <1>2, <1>7, <1>24 DEF OneOwner, RecoversOwn, RecoveredIsQueued, Recovers
<1>19. AheadIsQueued'
  BY <1>6, <1>10, <1>12 DEF OneOwner, AheadIsQueued
<1>20. AheadIsMine'
  BY <1>2, <1>9, <1>10 DEF OneOwner, AheadIsMine
<1>21. AheadIsNotTheirs'
  BY <1>10 DEF OneOwner, AheadIsNotTheirs
<1>22. AheadUnclaimed'
  <2> SUFFICES ASSUME NEW g \in Hosts, NEW j \in Ids, Ahead(g, j)', snap'[g][j].host = "",
                      Tracked(j)
               PROVE  snap'[g][j].status = "Queued"
    BY TrackedStays DEF AheadUnclaimed
  <2>1. Ahead(g, j) /\ snap'[g][j] = snap[g][j]
    BY <1>10
  <2>2. AheadUnclaimed
    BY DEF OneOwner
  <2>3. snap[g][j].host = "" => snap[g][j].status = "Queued"
    BY <2>1, <2>2 DEF AheadUnclaimed
  <2> QED BY <2>1, <2>3
<1>23. IdsAreNew'
  <2>1. i < next
    BY <1>3 DEF OneOwner, IdsAreNew
  <2>2. \A g \in Hosts : DOMAIN snap'[g] \subseteq DOMAIN snap[g]
    BY <1>7
  <2> QED BY <1>2, <1>4, <1>5, <2>1, <2>2 DEF OneOwner, IdsAreNew
<1> QED BY <1>13, <1>14, <1>15, <1>16, <1>17, <1>18, <1>19, <1>20, <1>21, <1>22, <1>23
        DEF OneOwner

-----------------------------------------------------------------------------
(* The operators as such steps                                             *)

LEMMA StatusChanges ==
  ASSUME DbOK, NEW i, NEW s, ChangeJobStatus(i, s)
  PROVE  /\ DOMAIN db' = DOMAIN db
         /\ \A j \in DOMAIN db : /\ db'[j].host = db[j].host
                                 /\ db'[j].status = IF j = i THEN s ELSE db[j].status
<1>1. \A r \in Rows : /\ [r EXCEPT !.status = s].host = r.host
                      /\ [r EXCEPT !.status = s].status = s
  BY DEF Rows
<1> QED BY <1>1 DEF ChangeJobStatus, DbOK

LEMMA StatusStep ==
  ASSUME DbOK, NEW h, NEW i, NEW s, ChangeJobStatus(i, s),
         \/ ~Tracked(i)
         \/ s \in Done
         \/ s # "Queued" /\ \E g \in Hosts : Owns(g, i)
         \/ s = "Queued" /\ \A g \in Hosts : ~Owns(g, i)
  PROVE  TableStep(h)
<1>1. /\ DOMAIN db' = DOMAIN db
      /\ \A j \in DOMAIN db : /\ db'[j].host = db[j].host
                              /\ db'[j].status = IF j = i THEN s ELSE db[j].status
  BY StatusChanges
<1>2. ASSUME NEW j \in DOMAIN db
      PROVE  \/ ~Tracked(j)
             \/ db'[j].status = db[j].status
             \/ db'[j].status \in Done
             \/ db'[j].status # "Queued" /\ \E g \in Hosts : Owns(g, j)
             \/ db'[j].status = "Queued" /\ \A g \in Hosts : ~Owns(g, j)
  <2>1. CASE j = i
    <3>1. db'[j].status = s
      BY <1>1, <2>1
    <3> QED BY <2>1, <3>1
  <2>2. CASE j # i
    BY <1>1, <2>2
  <2> QED BY <2>1, <2>2
<1> QED BY <1>1, <1>2 DEF TableStep

LEMMA CmdsChange ==
  ASSUME DbOK, NEW i, NEW c, ChangeJobCmds(i, c)
  PROVE  /\ DOMAIN db' = DOMAIN db
         /\ \A j \in DOMAIN db : db'[j].host = db[j].host /\ db'[j].status = db[j].status
<1>1. \A r \in Rows : /\ [r EXCEPT !.cmds = c].host = r.host
                      /\ [r EXCEPT !.cmds = c].status = r.status
  BY DEF Rows
<1> QED BY <1>1 DEF ChangeJobCmds, DbOK

LEMMA CmdsStep ==
  ASSUME DbOK, NEW h, NEW i, NEW c, ChangeJobCmds(i, c)
  PROVE  TableStep(h)
BY CmdsChange DEF TableStep

LEMMA ClaimStep ==
  ASSUME DbOK, NEW h, NEW i, Claim(i, h)
  PROVE  TableStep(h)
<1>1. i \in DOMAIN db /\ db[i].host = "" /\ db' = [db EXCEPT ![i].host = h]
  BY DEF Claim, Unclaimed
<1>2. [db[i] EXCEPT !.host = h].host = h /\ [db[i] EXCEPT !.host = h].status = db[i].status
  BY <1>1 DEF DbOK, Rows
<1> QED BY <1>1, <1>2 DEF TableStep

LEMMA DeleteStep ==
  ASSUME NEW h, NEW ids, Delete(ids)
  PROVE  TableStep(h)
BY DEF Delete, TableStep

LEMMA SameStep ==
  ASSUME NEW h, UNCHANGED db
  PROVE  TableStep(h)
BY DEF TableStep

\* The pass goes on to a later row, or is over.
LEMMA AdvanceMoves ==
  ASSUME TypeInv, NEW h \in Hosts, qpc[h] \in Pass, Advance(h, "scan")
  PROVE  MovesOn(h)
<1>1. Later(h) \subseteq Nat /\ x[h] \in Nat
  BY NumbersTyped DEF Later, TypeInv, TypeOK
<1>2. Later(h) # {} => Least(Later(h)) \in Later(h)
  BY <1>1, LeastIn
<1>3. \A g \in Hosts \ {h} : qpc'[g] = qpc[g] /\ x'[g] = x[g] /\ snap'[g] = snap[g]
  BY DEF Advance, TypeInv, TypeOK, RowsOK
<1>4. CASE Later(h) # {}
  <2>1. qpc'[h] = "scan" /\ snap'[h] = snap[h] /\ x'[h] = Least(Later(h))
    BY <1>4 DEF Advance, TypeInv, TypeOK, RowsOK
  <2>2. Least(Later(h)) \in Nat /\ Least(Later(h)) > x[h]
    BY <1>1, <1>2, <1>4 DEF Later
  <2>3. x'[h] >= x[h]
    BY <1>1, <2>1, <2>2
  <2> QED BY <1>3, <2>1, <2>3 DEF MovesOn, PassesOn, Pass, Starting
<1>5. CASE Later(h) = {}
  <2>1. qpc'[h] = "fetch" /\ snap'[h] = <<>>
    BY <1>5 DEF Advance, TypeInv, TypeOK, RowsOK
  <2> QED BY <1>3, <2>1 DEF MovesOn, Rests, Pass, Recovers, Recovering
<1> QED BY <1>4, <1>5

\* The pass stays at its row.
LEMMA GotoMoves ==
  ASSUME TypeInv, NEW h \in Hosts, qpc[h] \in Pass, NEW pc \in Pass, Goto(h, pc),
         pc \in Starting => qpc[h] \in Starting,
         pc \in Starting \ {"process"} /\ x[h] \in DOMAIN db' /\ Tracked(x[h]) =>
           db'[x[h]].status # "Queued"
  PROVE  MovesOn(h)
<1>1. /\ \A g \in Hosts \ {h} : qpc'[g] = qpc[g] /\ x'[g] = x[g] /\ snap'[g] = snap[g]
      /\ qpc'[h] = pc /\ x'[h] = x[h] /\ snap'[h] = snap[h]
  BY DEF Goto, TypeInv, TypeOK, RowsOK
<1>2. x'[h] >= x[h]
  <2>1. x[h] \in Nat
    BY NumbersTyped DEF TypeInv, TypeOK
  <2> QED BY <1>1, <2>1
<1> QED BY <1>1, <1>2 DEF MovesOn, PassesOn

-----------------------------------------------------------------------------
(* Every step keeps one owner to a job                                     *)

\* A step of the queue thread at a row.
LEMMA PassOneOwner ==
  ASSUME TypeInv, TypeInv', OneOwner, SameUse, NEW h \in Hosts,
         \/ SkipElsewhere(h) \/ SkipBlocked(h) \/ SkipNotAllowed(h) \/ SkipStarted(h)
         \/ StopRunning(h) \/ StopQueued(h) \/ Cancel(h) \/ ResetCmds(h)
         \/ PauseRunning(h) \/ ResetStatus(h)
  PROVE  OneOwner'
<1>1. qpc[h] \in Pass
  BY DEF SkipElsewhere, SkipBlocked, SkipNotAllowed, SkipStarted, StopRunning, StopQueued,
         Cancel, ResetCmds, PauseRunning, ResetStatus, Mine, Here, Pass
<1>2. UNCHANGED <<thread, next>>
  BY DEF SkipElsewhere, SkipBlocked, SkipNotAllowed, SkipStarted, StopRunning, StopQueued,
         Cancel, ResetCmds, PauseRunning, ResetStatus, SetFlag, jobs, user
<1>3. DbOK /\ next \in Nat /\ next <= next'
  BY <1>2 DEF TypeInv, TypeOK, UserOK
<1>4. ThreadsStep
  BY <1>2 DEF ThreadsStep
<1>5. SUFFICES TableStep(h) /\ MovesOn(h)
  BY <1>3, <1>4, NothingNew
<1>6. CASE \/ SkipElsewhere(h) \/ SkipBlocked(h) \/ SkipNotAllowed(h) \/ SkipStarted(h)
           \/ StopRunning(h)
  <2>1. Advance(h, "scan") /\ UNCHANGED db
    BY <1>6 DEF SkipElsewhere, SkipBlocked, SkipNotAllowed, SkipStarted, StopRunning, NextRow
  <2> QED BY <1>1, <2>1, SameStep, AdvanceMoves
<1>7. CASE StopQueued(h)
  <2>1. CASE Claim(x[h], h) /\ Goto(h, "cancel")
    BY <1>1, <1>3, <2>1, ClaimStep, GotoMoves DEF Pass, Starting
  <2>2. CASE ClaimFails(x[h]) /\ Advance(h, "scan")
    BY <1>1, <2>2, SameStep, AdvanceMoves DEF ClaimFails
  <2> QED BY <1>7, <2>1, <2>2 DEF StopQueued, NextRow
<1>8. CASE Cancel(h)
  <2>1. ChangeJobStatus(x[h], "Cancelled") /\ Goto(h, "run")
    BY <1>8 DEF Cancel
  <2>2. TableStep(h)
    BY <1>3, <2>1, StatusStep DEF Done
  <2> QED BY <1>1, <2>1, <2>2, GotoMoves DEF Pass, Starting
<1>9. CASE ResetCmds(h)
  <2>1. ChangeJobCmds(x[h], "Run") /\ Advance(h, "scan")
    BY <1>9 DEF ResetCmds, NextRow
  <2> QED BY <1>1, <1>3, <2>1, CmdsStep, AdvanceMoves
<1>10. CASE PauseRunning(h)
  <2>1. Goto(h, "run") /\ UNCHANGED db
    BY <1>10 DEF PauseRunning
  <2> QED BY <1>1, <2>1, SameStep, GotoMoves DEF Pass, Starting
<1>11. CASE ResetStatus(h)
  <2>1. x[h] \in DOMAIN snap[h] /\ x[h] \in Ids /\ x[h] \in Nat
    BY <1>1, AtRowTyped, NumbersTyped DEF TypeInv, TypeOK
  <2>2. Ahead(h, x[h])
    BY <1>1, <2>1 DEF Ahead
  <2>3. CASE Row(h).host = ""
    <3>1. ~Queued(h) /\ ChangeJobStatus(x[h], "Queued") /\ Goto(h, "run")
      BY <1>11, <2>3 DEF ResetStatus
    <3>2. AheadUnclaimed
      BY DEF OneOwner
    <3>3. ~Tracked(x[h])
      BY <2>1, <2>2, <2>3, <3>1, <3>2 DEF AheadUnclaimed, Queued, Row
    <3>4. TableStep(h)
      BY <1>3, <3>1, <3>3, StatusStep
    <3> QED BY <1>1, <3>1, <3>4, GotoMoves DEF Pass, Starting
  <2>4. CASE Row(h).host # ""
    <3>1. Advance(h, "scan") /\ UNCHANGED db
      BY <1>11, <2>4 DEF ResetStatus, NextRow
    <3> QED BY <1>1, <3>1, SameStep, AdvanceMoves
  <2> QED BY <2>3, <2>4
<1> QED BY <1>6, <1>7, <1>8, <1>9, <1>10, <1>11

\* A step that starts a job.
LEMMA StartOneOwner ==
  ASSUME TypeInv, TypeInv', OneOwner, SameUse, NEW h \in Hosts,
         \/ ClaimJob(h) \/ ProcessJob(h) \/ NoProgram(h) \/ StartJob(h)
         \/ StartChildJob(h) \/ ProgramDeleted(h)
  PROVE  OneOwner'
<1>1. qpc[h] \in Pass
  BY DEF ClaimJob, ProcessJob, NoProgram, StartJob, StartChildJob, ProgramDeleted, Mine,
         Here, Pass
<1>2. DbOK /\ next \in Nat
  BY DEF TypeInv, TypeOK, UserOK
<1>3. ASSUME TableStep(h), MovesOn(h), UNCHANGED <<thread, next>>
      PROVE  OneOwner'
  <2>1. ThreadsStep /\ next <= next'
    BY <1>2, <1>3 DEF ThreadsStep
  <2> QED BY <1>3, <2>1, NothingNew
<1>4. CASE ClaimJob(h)
  <2>1. /\ qpc[h] = "scan" /\ Queued(h) /\ Row(h).host \in {"", h} /\ UNCHANGED <<jobs, user>>
    BY <1>4 DEF ClaimJob, Mine, Here
  <2>2. CASE /\ IF Row(h).host = "" THEN Claim(x[h], h) ELSE UNCHANGED db
             /\ Goto(h, "process")
    <3>1. Takes(h)
      BY <2>1, <2>2 DEF Takes, user
    <3> QED BY <3>1, ClaimOneOwner
  <2>3. CASE ClaimFails(x[h]) /\ Advance(h, "scan")
    BY <1>1, <1>3, <2>1, <2>3, SameStep, AdvanceMoves DEF ClaimFails, jobs, user
  <2> QED BY <1>4, <2>2, <2>3 DEF ClaimJob, NextRow
<1>5. qpc[h] \in Starting => \E g \in Hosts : Owns(g, x[h])
  BY DEF Owns, Starts, Starting
<1>6. \A s \in Statuses : ChangeJobStatus(x[h], s) /\ x[h] \in DOMAIN db' =>
        db'[x[h]].status = s
  BY <1>2, StatusChanges
<1>7. CASE ProcessJob(h)
  <2>1. /\ qpc[h] = "process" /\ ChangeJobStatus(x[h], "Pending")
        /\ Goto(h, "start") \/ Goto(h, "missing")
        /\ UNCHANGED <<thread, next>>
    BY <1>7 DEF ProcessJob, jobs, user
  <2>2. TableStep(h)
    BY <1>2, <1>5, <2>1, StatusStep DEF Starting
  <2>3. x[h] \in DOMAIN db' => db'[x[h]].status # "Queued"
    BY <1>6, <2>1 DEF Statuses
  <2>4. MovesOn(h)
    BY <1>1, <2>1, <2>3, GotoMoves DEF Pass, Starting
  <2> QED BY <1>3, <2>1, <2>2, <2>4
<1>8. CASE NoProgram(h)
  <2>1. ChangeJobStatus(x[h], "Errored") /\ Advance(h, "scan") /\ UNCHANGED <<thread, next>>
    BY <1>8 DEF NoProgram, NextRow, jobs, user
  <2>2. TableStep(h)
    BY <1>2, <2>1, StatusStep DEF Done
  <2> QED BY <1>1, <1>3, <2>1, <2>2, AdvanceMoves
<1>9. CASE StartJob(h)
  <2>1. /\ qpc[h] = "start" /\ ChangeJobStatus(x[h], "Starting") /\ Goto(h, "child")
        /\ UNCHANGED <<thread, next>>
    BY <1>9 DEF StartJob, user
  <2>2. TableStep(h)
    BY <1>2, <1>5, <2>1, StatusStep DEF Starting
  <2>3. x[h] \in DOMAIN db' => db'[x[h]].status # "Queued"
    BY <1>6, <2>1 DEF Statuses, Busy
  <2>4. MovesOn(h)
    BY <1>1, <2>1, <2>3, GotoMoves DEF Pass, Starting
  <2> QED BY <1>3, <2>1, <2>2, <2>4
<1>10. CASE StartChildJob(h)
  BY <1>10, ChildOneOwner
<1>11. CASE ProgramDeleted(h)
  <2>1. ChangeJobStatus(x[h], "Cancelled") /\ Advance(h, "scan") /\ UNCHANGED <<thread, next>>
    BY <1>11 DEF ProgramDeleted, NextRow, user
  <2>2. TableStep(h)
    BY <1>2, <2>1, StatusStep DEF Done
  <2> QED BY <1>1, <1>3, <2>1, <2>2, AdvanceMoves
<1> QED BY <1>4, <1>7, <1>8, <1>9, <1>10, <1>11

\* A step of the queue thread that recovers.  No thread of the host runs then, so that
\* the rows that name the host have no owner.
LEMMA RecoverOneOwner ==
  ASSUME TypeInv, TypeInv', OneOwner, SameUse, NEW h \in Hosts, RecoverStep(h)
  PROVE  OneOwner'
<1>1. /\ qpc[h] \in {"recover", "requeue", "uncommand", "disclaim"}
      /\ UNCHANGED <<thread, next>>
      /\ \A g \in Hosts \ {h} : qpc'[g] = qpc[g] /\ x'[g] = x[g] /\ snap'[g] = snap[g]
  BY DEF RecoverStep, RecoverQueue, RecoverStatus, RecoverCmds, RecoverHost, Goto, Advance,
         jobs, user, TypeInv, TypeOK, RowsOK
<1>2. DbOK /\ next \in Nat /\ next <= next'
  BY <1>1 DEF TypeInv, TypeOK, UserOK
<1>3. ThreadsStep /\ Recovering(h)
  BY <1>1 DEF ThreadsStep, Recovering
<1>4. SUFFICES TableStep(h) /\ (RecoversOn(h) \/ Rests(h))
  BY <1>1, <1>2, <1>3, NothingNew DEF MovesOn
<1>5. \A i \in DOMAIN db : db[i].host = h => \A g \in Hosts : ~Owns(g, i)
  BY <1>1, <1>3 DEF OneOwner, RowNamesOwner, RecoveringIsIdle, Owns, Has, Starts
<1>6. /\ \A i \in DOMAIN snap[h] : i < next
      /\ qpc[h] \in Recovers =>
           \A i \in DOMAIN snap[h] \cap DOMAIN db : i >= x[h] => db[i].host = h
      /\ qpc[h] \in {"uncommand", "disclaim"} /\ x[h] \in DOMAIN db /\ Tracked(x[h]) =>
           db[x[h]].status \in Done \cup {"Queued"}
  BY DEF OneOwner, IdsAreNew, RecoversOwn, RecoveredIsQueued
<1>7. /\ x[h] \in Nat /\ DOMAIN snap[h] \subseteq Nat
      /\ qpc[h] \in Recovers => x[h] \in DOMAIN snap[h]
  BY NumbersTyped DEF TypeInv, TypeOK, AtRow
<1>8. qpc[h] \in Recovers /\ x[h] \in DOMAIN db => db[x[h]].host = h
  <2>1. x[h] >= x[h]
    BY <1>7
  <2> QED BY <1>6, <1>7, <2>1
<1>9. ASSUME qpc[h] \in Recovers, Advance(h, "requeue"),
             \A i \in DOMAIN db' : /\ i \in DOMAIN db
                                   /\ i # x[h] => db'[i].host = db[i].host
      PROVE  RecoversOn(h) \/ Rests(h)
  <2>1. CASE Later(h) # {}
    <3>1. Least(Later(h)) \in Later(h)
      BY <1>7, <2>1, LeastIn DEF Later
    <3>2. qpc'[h] = "requeue" /\ snap'[h] = snap[h] /\ x'[h] \in Nat /\ x'[h] > x[h]
      BY <1>7, <1>9, <2>1, <3>1 DEF Advance, Later, TypeInv, TypeOK, RowsOK
    <3>3. \A i \in DOMAIN snap[h] : i >= x'[h] => i >= x[h] /\ i # x[h]
      BY <1>7, <3>2
    <3> QED BY <1>3, <1>6, <1>9, <3>2, <3>3 DEF RecoversOn, Recovers
  <2>2. CASE Later(h) = {}
    <3>1. qpc'[h] = "fetch" /\ snap'[h] = <<>>
      BY <1>9, <2>2 DEF Advance, TypeInv, TypeOK, RowsOK
    <3> QED BY <3>1 DEF Rests, Pass, Recovers, Recovering
  <2> QED BY <2>1, <2>2
<1>10. CASE RecoverQueue(h)
  <2> DEFINE left == {i \in NotDone : Recoverable(db[i], h)}
  <2>1. TableStep(h)
    BY <1>10, SameStep DEF RecoverQueue
  <2>2. CASE left = {}
    <3>1. Goto(h, "fetch")
      BY <1>10, <2>2 DEF RecoverQueue
    <3>2. qpc'[h] = "fetch" /\ snap'[h] = snap[h]
      BY <3>1 DEF Goto, TypeInv, TypeOK, RowsOK
    <3> QED BY <2>1, <3>2 DEF Rests, Pass, Recovers, Recovering
  <2>3. CASE left # {}
    <3>1. /\ snap' = [snap EXCEPT ![h] = [i \in left |-> db[i]]]
          /\ qpc' = [qpc EXCEPT ![h] = "requeue"] /\ db' = db
      BY <1>10, <2>3 DEF RecoverQueue
    <3>2. left \subseteq DOMAIN db /\ \A i \in left : db[i].host = h
      BY DEF NotDone, Recoverable
    <3> HIDE DEF left
    <3>3. DOMAIN snap'[h] = left /\ qpc'[h] = "requeue"
      BY <3>1 DEF TypeInv, TypeOK, RowsOK
    <3>4. \A i \in left : i < next
      BY <3>2 DEF OneOwner, IdsAreNew
    <3>5. \A i \in DOMAIN snap'[h] \cap DOMAIN db' : db'[i].host = h
      BY <3>1, <3>2, <3>3
    <3>6. \A i \in DOMAIN snap'[h] : i < next
      BY <3>3, <3>4
    <3>7. Recovering(h) /\ qpc'[h] \in Recovers /\ qpc'[h] \notin {"uncommand", "disclaim"}
      BY <1>3, <3>3 DEF Recovers
    <3>8. RecoversOn(h)
      BY <3>5, <3>6, <3>7 DEF RecoversOn
    <3> QED BY <2>1, <3>8
  <2> QED BY <2>2, <2>3
<1>11. CASE RecoverStatus(h)
  <2>1. qpc[h] = "requeue" /\ ChangeJobStatus(x[h], "Queued") /\ Goto(h, "uncommand")
    BY <1>11 DEF RecoverStatus
  <2>2. TableStep(h)
    <3>1. CASE x[h] \in DOMAIN db
      BY <1>2, <1>5, <1>8, <2>1, <3>1, StatusStep DEF Recovers
    <3>2. CASE x[h] \notin DOMAIN db
      <4>1. /\ DOMAIN db' = DOMAIN db
            /\ \A j \in DOMAIN db : /\ db'[j].host = db[j].host
                                    /\ db'[j].status = IF j = x[h] THEN "Queued"
                                                      ELSE db[j].status
        BY <1>2, <2>1, StatusChanges
      <4>2. \A j \in DOMAIN db : db'[j].status = db[j].status
        BY <3>2, <4>1
      <4> QED BY <4>1, <4>2 DEF TableStep
    <3> QED BY <3>1, <3>2
  <2>3. qpc'[h] = "uncommand" /\ x'[h] = x[h] /\ snap'[h] = snap[h]
    BY <2>1 DEF Goto, TypeInv, TypeOK, RowsOK
  <2>4. /\ DOMAIN db' = DOMAIN db
        /\ \A i \in DOMAIN db : db'[i].host = db[i].host
        /\ x[h] \in DOMAIN db => db'[x[h]].status = "Queued"
    BY <1>2, <2>1, StatusChanges
  <2>5. RecoversOn(h)
    BY <1>3, <1>6, <2>1, <2>3, <2>4 DEF RecoversOn, Recovers
  <2> QED BY <2>2, <2>5
<1>12. CASE RecoverCmds(h)
  <2>1. /\ qpc[h] = "uncommand" /\ ChangeJobCmds(x[h], "Run")
        /\ Goto(h, "disclaim") \/ Advance(h, "requeue")
    BY <1>12 DEF RecoverCmds
  <2>2. TableStep(h)
    BY <1>2, <2>1, CmdsStep
  <2>3. /\ DOMAIN db' = DOMAIN db
        /\ \A i \in DOMAIN db : db'[i].host = db[i].host /\ db'[i].status = db[i].status
    BY <1>2, <2>1, CmdsChange
  <2>4. CASE Goto(h, "disclaim")
    <3>1. qpc'[h] = "disclaim" /\ x'[h] = x[h] /\ snap'[h] = snap[h]
      BY <2>4 DEF Goto, TypeInv, TypeOK, RowsOK
    <3> QED BY <1>3, <1>6, <2>1, <2>2, <2>3, <3>1 DEF RecoversOn, Recovers
  <2>5. CASE Advance(h, "requeue")
    BY <1>9, <2>1, <2>2, <2>3, <2>5 DEF Recovers
  <2> QED BY <2>1, <2>4, <2>5
<1>13. CASE RecoverHost(h)
  <2>1. qpc[h] = "disclaim" /\ Disclaim(x[h]) /\ Advance(h, "requeue")
    BY <1>13 DEF RecoverHost
  <2>2. /\ DOMAIN db' = DOMAIN db
        /\ \A i \in DOMAIN db : /\ db'[i].status = db[i].status
                                /\ db'[i].host = IF i = x[h] THEN "" ELSE db[i].host
    <3>1. \A r \in Rows : /\ [r EXCEPT !.host = ""].host = ""
                          /\ [r EXCEPT !.host = ""].status = r.status
      BY DEF Rows
    <3> QED BY <1>2, <2>1, <3>1 DEF Disclaim, DbOK
  <2>3. qpc' # qpc
    <3>1. qpc'[h] \in {"requeue", "fetch"}
      BY <2>1 DEF Advance, TypeInv, TypeOK, RowsOK
    <3> QED BY <2>1, <3>1
  <2>4. TableStep(h)
    BY <1>6, <1>8, <2>1, <2>2, <2>3 DEF TableStep, Recovers
  <2> QED BY <1>9, <2>1, <2>2, <2>4 DEF Recovers
<1> QED BY <1>10, <1>11, <1>12, <1>13 DEF RecoverStep

LEMMA CrashOneOwner ==
  ASSUME TypeInv, TypeInv', OneOwner, SameUse, NEW h \in Hosts, Crash(h) \/ Restart(h)
  PROVE  OneOwner'
<1>1. next \in Nat
  BY DEF TypeInv, TypeOK, UserOK
<1>2. CASE Crash(h)
  <2>1. /\ qpc'[h] = "down" /\ snap'[h] = <<>> /\ UNCHANGED <<db, next>>
        /\ \A g \in Hosts \ {h} : /\ qpc'[g] = qpc[g] /\ x'[g] = x[g] /\ snap'[g] = snap[g]
                                  /\ thread'[g] = thread[g]
        /\ \A t \in Threads : thread'[h][t] = NULL
    BY <1>2 DEF Crash, TypeInv, TypeOK, RowsOK, JobsOK, user
  <2>2. ThreadsStep
    BY <2>1 DEF ThreadsStep
  <2>3. MovesOn(h)
    BY <2>1 DEF MovesOn, Rests, Pass, Recovers
  <2>4. next <= next'
    BY <1>1, <2>1
  <2> QED BY <2>1, <2>2, <2>3, <2>4, SameStep, NothingNew
<1>3. CASE Restart(h)
  <2>1. /\ qpc[h] = "down" /\ qpc'[h] = "recover" /\ UNCHANGED <<db, x, snap, thread, next>>
        /\ \A g \in Hosts \ {h} : qpc'[g] = qpc[g]
    BY <1>3 DEF Restart, TypeInv, TypeOK, RowsOK, jobs, user
  <2>2. ThreadsStep
    BY <2>1 DEF ThreadsStep
  <2>3. MovesOn(h)
    BY <2>1 DEF MovesOn, Rests, Pass, Recovers, Recovering
  <2>4. next <= next'
    BY <1>1, <2>1
  <2> QED BY <2>1, <2>2, <2>3, <2>4, SameStep, NothingNew
<1> QED BY <1>2, <1>3

\* A flagger that takes the row of a tracked job for its own is right.
LEMMA OwnJob ==
  ASSUME TypeInv, RowInv, NEW h \in Hosts, NEW t \in Threads, thread[h][t] # NULL,
         JobID(h, t) \in DOMAIN db, OwnRow(JobID(h, t))
  PROVE  JobID(h, t) = Id(h, t)
<1> DEFINE j == JobID(h, t)
           i == Id(h, t)
<1>1. j \in Ids /\ i \in Ids /\ Ids \subseteq Nat \ {0}
  BY IdsAreNumbers DEF TypeInv, TypeOK, DbOK, JobsOK, ThreadStates, Id
<1>2. j # NoJob
  BY <1>1 DEF NoJob
<1>3. /\ Is(h, t, "commflag") /\ j \in DOMAIN use.jobs
      /\ use.jobs[j] = use.jobs[i] /\ i <= j
      /\ i \in DOMAIN use.jobs /\ thread[h][t].type = use.jobs[i].type
  BY <1>2 DEF RowInv, FlagsAreLike, JobsAreTheirs, JobIs, JobID, Id
<1>4. j <= i
  BY <1>3 DEF OwnRow, Is
<1>5. j \in Nat /\ i \in Nat /\ i <= j /\ j <= i
  BY <1>1, <1>3, <1>4
<1>6. j = i
  <2> HIDE DEF j, i
  <2> QED BY <1>5
<1> QED BY <1>6

\* A thread or its child changes the status of its own job only, or of one that is not
\* tracked.
LEMMA ThreadOneOwner ==
  ASSUME TypeInv, TypeInv', RowInv, OneOwner, SameUse,
         NEW h \in Hosts, NEW t \in Threads, Acts(h, t)
  PROVE  OneOwner'
<1>1. JobsOK /\ DbOK /\ EndsOK /\ next \in Nat
  BY DEF TypeInv, TypeOK, UserOK
<1>2. Stays /\ next <= next'
  <2>1. UNCHANGED <<queue, user>>
    BY DEF Acts, ThreadStep, ThreadRuns, Try, CommandFails, CommandRuns, CommFlagStarts,
           CommFlagFinds, TranscodeEnds,
           CompleteJob, CompletedJob, CommFlagPauses, CommFlagResumes, CommFlagReports,
           CommandEnds, TranscodeExited, TranscodeRetries, TranscodeOver, TranscodeLimit,
           UserJobExited, CommFlagExited, RemoveRunningJob, Keep
  <2> QED BY <1>1, <2>1 DEF Stays, queue, user
<1>3. SUFFICES TableStep(h) /\ ThreadsStep
  BY <1>2, NothingNew
<1>4. thread[h][t] # NULL
  BY DEF Acts, ThreadStep, ThreadRuns, Try, CommandFails, CommandRuns, CommFlagStarts,
         CommFlagFinds, TranscodeEnds,
         CompleteJob, CompletedJob, CommFlagPauses, CommFlagResumes, CommFlagReports,
         CommandEnds, TranscodeExited, TranscodeRetries, TranscodeOver, TranscodeLimit,
         UserJobExited, CommFlagExited, RemoveRunningJob, At
<1>5. Owns(h, Id(h, t))
  BY <1>4 DEF Owns, Has, Id
<1>6. ASSUME NEW s \in Statuses \ {"Queued"}, ChangeJobStatus(Id(h, t), s)
      PROVE  TableStep(h)
  BY <1>1, <1>5, <1>6, StatusStep
<1>7. ASSUME NEW r, thread' = [thread EXCEPT ![h][t] = r],
             r = NULL \/ r.id = thread[h][t].id
      PROVE  ThreadsStep
  <2>1. \A g \in Hosts, u \in Threads :
          thread'[g][u] = IF g = h /\ u = t THEN r ELSE thread[g][u]
    BY <1>1, <1>7 DEF JobsOK
  <2> QED BY <1>4, <1>7, <2>1 DEF ThreadsStep
<1>8. thread[h][t] \in ThreadStates /\ thread[h] \in [Threads -> ThreadStates \cup {NULL}]
  BY <1>1, <1>4 DEF JobsOK
<1>9. ASSUME NEW pc, Step(h, t, pc)
      PROVE  ThreadsStep
  <2> DEFINE r == [thread[h][t] EXCEPT !.pc = pc]
  <2>1. r.id = thread[h][t].id
    BY <1>8 DEF ThreadStates
  <2>2. thread' = [thread EXCEPT ![h][t] = r]
    BY <1>9 DEF Step
  <2> HIDE DEF r
  <2> QED BY <1>7, <2>1, <2>2
<1>10. ASSUME NEW e, Exit(h, t, e)
       PROVE  ThreadsStep
  <2> DEFINE r == [thread[h][t] EXCEPT !.pc = "exited", !.exit = e]
  <2>1. r.id = thread[h][t].id
    BY <1>8 DEF ThreadStates
  <2>2. thread' = [thread EXCEPT ![h][t] = r]
    BY <1>1, <1>8, <1>10 DEF Exit, JobsOK
  <2> HIDE DEF r
  <2> QED BY <1>7, <2>1, <2>2
<1>11. ASSUME NEW pc, NEW s,
              thread' = [thread EXCEPT ![h][t].pc = pc, ![h][t].status = s]
       PROVE  ThreadsStep
  <2> DEFINE r == [thread[h][t] EXCEPT !.pc = pc, !.status = s]
  <2>1. r.id = thread[h][t].id
    BY <1>8 DEF ThreadStates
  <2>2. thread' = [thread EXCEPT ![h][t] = r]
    BY <1>1, <1>8, <1>11 DEF JobsOK
  <2> HIDE DEF r
  <2> QED BY <1>7, <2>1, <2>2
<1>12. CASE ThreadRuns(h, t) \/ Try(h, t)
  BY <1>6, <1>9, <1>12 DEF ThreadRuns, Try, Statuses, Busy
<1>13. CASE \E e \in {"notFound", "error"} : CommandFails(h, t, e)
  BY <1>10, <1>13, SameStep DEF CommandFails
<1>14. CASE CommandRuns(h, t)
  BY <1>6, <1>9, <1>14, SameStep DEF CommandRuns, Statuses, Busy
<1>15. CASE \E s \in {"Stopping", "Retry", "Erroring", "Aborting"} : TranscodeEnds(h, t, s)
  BY <1>6, <1>9, <1>15 DEF TranscodeEnds, Statuses, Busy
<1>16. CASE CompleteJob(h, t)
  BY <1>10, <1>11, <1>16, SameStep DEF CompleteJob
<1>17. CASE CompletedJob(h, t)
  <2>1. thread[h][t].status \in {"Stopping", "Aborting", "Erroring"}
    BY <1>1, <1>17 DEF CompletedJob, EndsOK
  <2>2. \E s \in {"Finished", "Aborted", "Errored"} : ChangeJobStatus(Id(h, t), s)
    BY <1>17, <2>1 DEF CompletedJob
  <2>3. TableStep(h)
    BY <1>6, <2>2 DEF Statuses, Done
  <2> QED BY <1>10, <1>17, <2>3 DEF CompletedJob
<1>26. ASSUME NEW s \in Statuses \ {"Queued"}, ChangeJobStatus(JobID(h, t), s)
       PROVE  TableStep(h)
  <2>1. JobID(h, t) \in DOMAIN db /\ Tracked(JobID(h, t)) => JobID(h, t) = Id(h, t)
    BY <1>4, OwnJob DEF Tracked
  <2>2. CASE JobID(h, t) \in DOMAIN db
    BY <1>1, <1>5, <1>26, <2>1, <2>2, StatusStep
  <2>3. CASE JobID(h, t) \notin DOMAIN db
    <3>1. /\ DOMAIN db' = DOMAIN db
          /\ \A i \in DOMAIN db : db'[i].host = db[i].host /\ db'[i].status = db[i].status
      <4>1. DbOK
        BY DEF TypeInv, TypeOK
      <4> QED BY <1>26, <2>3, <4>1, StatusChanges
    <3> QED BY <3>1 DEF TableStep
  <2> QED BY <2>2, <2>3
<1>18. CASE CommFlagPauses(h, t) \/ CommFlagResumes(h, t)
  BY <1>9, <1>18, <1>26 DEF CommFlagPauses, CommFlagResumes, Statuses, Busy
<1>19. CASE CommFlagReports(h, t)
  <2>1. ThreadsStep
    BY <1>19 DEF CommFlagReports, jobs, ThreadsStep
  <2> QED BY <1>19, <1>26, <2>1 DEF CommFlagReports, Statuses, Busy
<1>27. CASE CommFlagStarts(h, t)
  BY <1>9, <1>27, SameStep DEF CommFlagStarts
<1>28. CASE CommFlagFinds(h, t)
  <2>1. PICK i : thread' = [thread EXCEPT ![h][t].pc = "work", ![h][t].jobID = i]
    BY <1>28 DEF CommFlagFinds
  <2> DEFINE r == [thread[h][t] EXCEPT !.pc = "work", !.jobID = i]
  <2>2. r.id = thread[h][t].id
    BY <1>8 DEF ThreadStates
  <2>3. thread' = [thread EXCEPT ![h][t] = r]
    BY <1>1, <1>8, <2>1 DEF JobsOK
  <2>4. ThreadsStep
    <3> HIDE DEF r
    <3> QED BY <1>7, <2>2, <2>3
  <2> QED BY <1>28, <2>4, SameStep DEF CommFlagFinds
<1>20. CASE \E e \in {"ok", "error"} : CommandEnds(h, t, e)
  BY <1>10, <1>20, SameStep DEF CommandEnds
<1>21. CASE TranscodeExited(h, t)
  BY <1>11, <1>21, SameStep DEF TranscodeExited
<1>22. CASE TranscodeRetries(h, t)
  <2> DEFINE r == [thread[h][t] EXCEPT !.pc = "try", !.retrylimit = @ - 1]
  <2>1. r.id = thread[h][t].id
    BY <1>8 DEF ThreadStates
  <2>2. thread' = [thread EXCEPT ![h][t] = r]
    BY <1>1, <1>8, <1>22 DEF TranscodeRetries, JobsOK
  <2>3. ThreadsStep
    <3> HIDE DEF r
    <3> QED BY <1>7, <2>1, <2>2
  <2> QED BY <1>22, <2>3, SameStep DEF TranscodeRetries
<1>23. CASE TranscodeOver(h, t) \/ TranscodeLimit(h, t) \/ UserJobExited(h, t)
  <2>1. \E s \in {"Finished", "Errored"} : ChangeJobStatus(Id(h, t), s)
    BY <1>23 DEF TranscodeOver, TranscodeLimit, UserJobExited
  <2>2. TableStep(h)
    BY <1>6, <2>1 DEF Statuses, Done
  <2> QED BY <1>9, <1>23, <2>2 DEF TranscodeOver, TranscodeLimit, UserJobExited
<1>24. CASE CommFlagExited(h, t)
  <2>1. \E s \in {"Aborted", "Finished", "Errored"} : ChangeJobStatus(Id(h, t), s)
    <3> DEFINE s == CASE thread[h][t].exit = "notFound" -> "Errored"
                      [] thread[h][t].exit # "notFound" /\ Flagged(h, t) -> "Aborted"
                      [] thread[h][t].exit = "ok" -> "Finished"
                      [] OTHER -> "Errored"
    <3>1. s \in {"Aborted", "Finished", "Errored"}
      OBVIOUS
    <3>2. ChangeJobStatus(Id(h, t), s)
      BY <1>24 DEF CommFlagExited
    <3> HIDE DEF s
    <3> QED BY <3>1, <3>2
  <2>2. TableStep(h)
    BY <1>6, <2>1 DEF Statuses, Done
  <2> QED BY <1>9, <1>24, <2>2 DEF CommFlagExited
<1>25. CASE RemoveRunningJob(h, t)
  BY <1>7, <1>25, SameStep DEF RemoveRunningJob
<1> QED BY <1>12, <1>13, <1>14, <1>15, <1>16, <1>17, <1>18, <1>19, <1>20, <1>21, <1>22, <1>23,
           <1>24, <1>25, <1>27, <1>28 DEF Acts, ThreadStep

\* What users do.
LEMMA UserOneOwner ==
  ASSUME TypeInv, TypeInv', OneOwner, SameUse, DialogAsks, UserStep
  PROVE  OneOwner'
<1>1. UNCHANGED <<queue, jobs>>
  BY DEF UserStep, QueueJob, QueueDeletes, QueueInserts, StopJob, SelectJob, DialogStop,
         DialogPause, DialogRequeue, DialogDelete, Confirmed, DeleteAllJobs, StopAllJobs,
         WaitForJobs, WaitTimesOut, DeleteRows, Rest
<1>2. DbOK /\ next \in Nat
  BY DEF TypeInv, TypeOK, UserOK
<1>3. PICK h : h \in Hosts
  BY JobQueueAssumption
<1>4. Stays /\ ThreadsStep
  BY <1>1 DEF Stays, ThreadsStep, queue, jobs
<1>5. ASSUME TableStep(h), next' \in {next, next + 1}
      PROVE  OneOwner'
  <2>1. next <= next'
    BY <1>2, <1>5
  <2> QED BY <1>3, <1>4, <1>5, <2>1, NothingNew
<1>6. ASSUME Insert(next), next' = next + 1
      PROVE  OneOwner'
  BY <1>1, <1>6, InsertOneOwner
<1>7. CASE QueueJob
  BY <1>5, <1>6, <1>7, SameStep DEF QueueJob
<1>8. CASE QueueDeletes
  BY <1>5, <1>8, DeleteStep DEF QueueDeletes
<1>9. CASE QueueInserts
  BY <1>6, <1>9 DEF QueueInserts
<1>10. CASE \E i \in Ids : StopJob(i)
  BY <1>2, <1>5, <1>10, CmdsStep DEF StopJob, user
<1>11. CASE (\E i \in Ids : SelectJob(i)) \/ WaitForJobs \/ WaitTimesOut
  BY <1>5, <1>11, SameStep DEF SelectJob, WaitForJobs, WaitTimesOut
<1>12. CASE DialogStop \/ DialogPause
  BY <1>2, <1>5, <1>12, CmdsStep DEF DialogStop, DialogPause, Confirmed
<1>13. CASE DialogRequeue
  <2>1. \A i : ~Tracked(i)
    BY <1>13 DEF DialogRequeue, Confirmed, DialogAsks, Tracked
  <2> QED BY <1>2, <1>5, <1>13, <2>1, StatusStep DEF DialogRequeue, Confirmed
<1>14. CASE DialogDelete
  BY <1>5, <1>14, DeleteStep DEF DialogDelete, Confirmed
<1>15. CASE \E r \in Recordings : DeleteAllJobs(r)
  <2>1. PICK r \in Recordings : DeleteAllJobs(r)
    BY <1>15
  <2>2. \A j \in Rows : /\ [j EXCEPT !.status = "Cancelled"].host = j.host
                        /\ [j EXCEPT !.status = "Cancelled"].status = "Cancelled"
    BY DEF Rows
  <2>3. DOMAIN db' = DOMAIN db /\ next' = next
    BY <2>1 DEF DeleteAllJobs
  <2>4. \A i \in DOMAIN db :
          db'[i].host = db[i].host /\ db'[i].status \in {db[i].status, "Cancelled"}
    BY <1>2, <2>1, <2>2 DEF DeleteAllJobs, DbOK
  <2>5. TableStep(h)
    BY <2>3, <2>4 DEF TableStep, Done
  <2> QED BY <1>5, <2>3, <2>5
<1>16. CASE StopAllJobs
  <2>1. \A j \in Rows : /\ [j EXCEPT !.cmds = "Stop"].host = j.host
                        /\ [j EXCEPT !.cmds = "Stop"].status = j.status
    BY DEF Rows
  <2>2. DOMAIN db' = DOMAIN db /\ next' = next
    BY <1>16 DEF StopAllJobs
  <2>3. \A i \in DOMAIN db : db'[i].host = db[i].host /\ db'[i].status = db[i].status
    BY <1>2, <1>16, <2>1 DEF StopAllJobs, DbOK
  <2>4. TableStep(h)
    BY <2>2, <2>3 DEF TableStep
  <2> QED BY <1>5, <2>2, <2>4
<1>17. CASE DeleteRows
  BY <1>5, <1>17, DeleteStep DEF DeleteRows
<1> QED BY <1>7, <1>8, <1>9, <1>10, <1>11, <1>12, <1>13, <1>14, <1>15, <1>16, <1>17
        DEF UserStep

\* What users do never changes, and a dialog offers nothing else.
LEMMA DialogStep ==
  ASSUME TypeInv, DialogAsks, [Next]_vars
  PROVE  DialogAsks' /\ use'.does = use.does
<1>1. ASSUME NEW h \in Hosts, Crash(h)
      PROVE  DialogAsks' /\ use'.does = use.does
  <2>1. use \in [jobs : Seq([rec : Recordings, type : Types]), does : SUBSET Commands,
                 crashes : Nat, host : Hosts \cup {""}]
    BY UseIs DEF TypeInv, TypeOK
  <2>2. use'.does = use.does /\ dialog' = dialog
    BY <1>1, <2>1 DEF Crash, user
  <2> QED BY <2>2 DEF DialogAsks
<1>2. ASSUME UNCHANGED <<dialog, use>> PROVE DialogAsks' /\ use'.does = use.does
  BY <1>2 DEF DialogAsks
<1>3. ASSUME NEW h \in Hosts, QueueStep(h) \/ Restart(h)
      PROVE  UNCHANGED <<dialog, use>>
  BY <1>3 DEF QueueStep, RecoverStep, RecoverQueue, RecoverStatus, RecoverCmds, RecoverHost,
              GetJobsInQueue, SkipElsewhere, SkipBlocked, SkipNotAllowed, StopRunning,
              StopQueued, Cancel, ResetCmds, PauseRunning, ResetStatus, SkipStarted, ClaimJob,
              ProcessJob, NoProgram, StartJob, StartChildJob, ProgramDeleted, Restart, user
<1>4. ASSUME NEW h \in Hosts, NEW t \in Threads, Acts(h, t)
      PROVE  UNCHANGED <<dialog, use>>
  BY <1>4 DEF Acts, ThreadStep, ThreadRuns, Try, CommandFails, CommandRuns, CommFlagStarts,
     CommFlagFinds, TranscodeEnds,
              CompleteJob, CompletedJob, CommFlagPauses, CommFlagResumes, CommFlagReports,
              CommandEnds, TranscodeExited, TranscodeRetries, TranscodeOver, TranscodeLimit,
              UserJobExited, CommFlagExited, RemoveRunningJob, Keep, user
<1>5. CASE UserStep
  <2>1. use' = use
    BY <1>5 DEF UserStep, QueueJob, QueueDeletes, QueueInserts, StopJob, SelectJob,
            DialogStop, DialogPause, DialogRequeue, DialogDelete, Confirmed, DeleteAllJobs,
            StopAllJobs, WaitForJobs, WaitTimesOut, DeleteRows, Rest
  <2>2. CASE \E i \in Ids : SelectJob(i)
    BY <2>1, <2>2 DEF SelectJob, DialogAsks
  <2>3. CASE DialogStop \/ DialogPause \/ DialogRequeue \/ DialogDelete
    BY <2>1, <2>3 DEF DialogStop, DialogPause, DialogRequeue, DialogDelete, Confirmed,
                      DialogAsks
  <2>4. CASE ~(\E i \in Ids : SelectJob(i))
             /\ ~(DialogStop \/ DialogPause \/ DialogRequeue \/ DialogDelete)
    <3>1. dialog' = dialog
      BY <1>5, <2>4 DEF UserStep, QueueJob, QueueDeletes, QueueInserts, StopJob,
                        DeleteAllJobs, StopAllJobs, WaitForJobs, WaitTimesOut, DeleteRows, user
    <3> QED BY <1>2, <2>1, <3>1
  <2> QED BY <2>2, <2>3, <2>4
<1>6. CASE UNCHANGED vars
  BY <1>2, <1>6 DEF vars, user
<1> QED BY <1>1, <1>2, <1>3, <1>4, <1>5, <1>6 DEF Next, Acts

LEMMA OneOwnerInit == Init => DialogAsks /\ OneOwner
<1> SUFFICES ASSUME Init PROVE DialogAsks /\ OneOwner
  OBVIOUS
<1>1. \A h \in Hosts : /\ qpc[h] = "recover" /\ snap[h] = <<>>
                       /\ \A t \in Threads : thread[h][t] = NULL
  BY DEF Init
<1>2. \A i : \A h \in Hosts :
        /\ ~Owns(h, i) /\ ~Starts(h, i) /\ ~Ahead(h, i)
        /\ \A t \in Threads : ~Has(h, t, i)
  BY <1>1 DEF Owns, Starts, Has, Ahead, Pass
<1>3. DOMAIN db = {}
  BY DEF Init
<1>4. DialogAsks
  BY DEF Init, DialogAsks
<1>5. OnOneHost /\ Once /\ RowNamesOwner /\ OwnedIsNotQueued /\ UnclaimedIsQueued
  BY <1>2, <1>3 DEF OnOneHost, Once, RowNamesOwner, OwnedIsNotQueued, UnclaimedIsQueued
<1>6. RecoveringIsIdle /\ RecoversOwn /\ RecoveredIsQueued
  BY <1>1, <1>3 DEF RecoveringIsIdle, RecoversOwn, RecoveredIsQueued
<1>7. AheadIsQueued /\ AheadIsMine /\ AheadIsNotTheirs /\ AheadUnclaimed
  BY <1>2 DEF AheadIsQueued, AheadIsMine, AheadIsNotTheirs, AheadUnclaimed
<1>8. IdsAreNew
  BY <1>1, <1>3 DEF IdsAreNew
<1> QED BY <1>4, <1>5, <1>6, <1>7, <1>8 DEF OneOwner

LEMMA OwnerStep == IInv /\ [Next]_vars => IInv'
<1> SUFFICES ASSUME IInv, [Next]_vars PROVE IInv'
  OBVIOUS
<1>1. TypeInv /\ TypeInv'
  BY TypeStep DEF IInv
<1>2. DialogAsks /\ DialogAsks' /\ use'.does = use.does
  BY <1>1, DialogStep DEF IInv
<1>3. SameUse
  BY <1>1, UsersJobs DEF SameUse, TypeInv, TypeOK
<1>4. RowInv /\ OneOwner
  BY DEF IInv
<1>5. RowInv'
  BY <1>1, <1>4, RowInvStep DEF OneOwner
<1>6. OneOwner'
  <2>1. ASSUME NEW h \in Hosts, QueueStep(h) PROVE OneOwner'
    BY <1>1, <1>3, <1>4, <2>1, RecoverOneOwner, FetchOneOwner, PassOneOwner, StartOneOwner
       DEF QueueStep
  <2>2. ASSUME NEW h \in Hosts, Crash(h) \/ Restart(h) PROVE OneOwner'
    BY <1>1, <1>3, <1>4, <2>2, CrashOneOwner
  <2>3. ASSUME NEW h \in Hosts, NEW t \in Threads, Acts(h, t) PROVE OneOwner'
    BY <1>1, <1>3, <1>4, <2>3, ThreadOneOwner
  <2>4. CASE UserStep
    BY <1>1, <1>2, <1>3, <1>4, <2>4, UserOneOwner
  <2>5. CASE UNCHANGED vars
    <3>1. PICK h : h \in Hosts
      BY JobQueueAssumption
    <3>2. Stays /\ ThreadsStep /\ TableStep(h) /\ next \in Nat /\ next' = next
      BY <1>1, <2>5, SameStep
         DEF vars, queue, jobs, user, Stays, ThreadsStep, TypeInv, TypeOK, UserOK
    <3>3. next <= next'
      BY <3>2
    <3> QED BY <1>1, <1>3, <1>4, <3>1, <3>2, <3>3, NothingNew
  <2> QED BY <2>1, <2>2, <2>3, <2>4, <2>5 DEF Next, Acts
<1> QED BY <1>1, <1>2, <1>5, <1>6 DEF IInv

\* The inductive invariant: the row of every job names the host that runs it, and what
\* the hosts have yet to do with their snapshots of the table agrees with that; a flagger
\* takes no row for its own but that of its own job, or of a later one like it.
THEOREM Invariance == Spec => []IInv
<1>1. Init => IInv
  BY TypeInit, RowInvInit, OneOwnerInit DEF IInv
<1> QED BY <1>1, OwnerStep, PTL DEF Spec

\* No job is run by two hosts, in spite of snapshots that are out of date, crashes at
\* every point, flaggers that write into other rows, and whatever users do; and none is
\* run twice by one, unless users requeue jobs, or its row is not its own.
THEOREM RunOnceHolds == Spec => []RunOnce
<1>1. IInv => RunOnce
  BY DEF IInv, OneOwner, OnOneHost, Once, Tracked, RunOnce
<1> QED BY <1>1, Invariance, PTL
=============================================================================
