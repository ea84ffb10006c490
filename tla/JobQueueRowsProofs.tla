------------------------- MODULE JobQueueRowsProofs -------------------------
(***************************************************************************)
(* Proofs about JobQueue: a row that says that its job runs names a host    *)
(* that is at work on it, or one that has yet to recover; unless a flagger  *)
(* of an earlier job has written into it (OwnRow).                          *)
(***************************************************************************)
EXTENDS JobQueueProofs

-----------------------------------------------------------------------------
(* The inductive invariant                                                 *)

\* What a row says of a job that is run.
Runs == {"Starting", "Running", "Paused", "Stopping"}

\* Host h is at work on job i: it starts the job's thread, or has it.
AtWork(h, i) ==
  \/ x[h] = i /\ qpc[h] = "child"
  \/ \E t \in Threads : Has(h, t, i) /\ thread[h][t].pc # "remove"

\* A row that says that its job runs has a host that is at work on it, or one that
\* has yet to recover.
RunsHaveWork ==
  \A i \in DOMAIN db : OwnRow(i) /\ db[i].status \in Runs =>
    db[i].host \in Hosts /\ (Recovering(db[i].host) \/ AtWork(db[i].host, i))

\* RecoverQueue finds all of these rows.
RecoversAll ==
  \A h \in Hosts : qpc[h] \in Recovers =>
    \A i \in DOMAIN db : OwnRow(i) /\ db[i].host = h /\ db[i].status \in Runs =>
      i \in DOMAIN snap[h] /\ (i > x[h] \/ (i = x[h] /\ qpc[h] = "requeue"))

RowsInv == IInv /\ RunsHaveWork /\ RecoversAll

-----------------------------------------------------------------------------
(* Steps that bring no row                                                 *)

\* Rows may go.  One without a host may be claimed by h in its pass, or h disclaims one
\* that it recovers and that does not run.  A row comes to say that its job runs by
\* those who are at work on it.
RowStep(h) ==
  /\ DOMAIN db' \subseteq DOMAIN db
  /\ \A i \in DOMAIN db' :
       /\ \/ db'[i].host = db[i].host
          \/ db[i].host = "" /\ db'[i].host = h /\ qpc[h] \in Pass
          \/ /\ db[i].host = h /\ db'[i].host = "" /\ qpc[h] \in Recovers /\ qpc' # qpc
             /\ OwnRow(i) => db'[i].status \notin Runs
       /\ OwnRow(i) /\ db'[i].status \in Runs =>
            db'[i].status = db[i].status \/ \E g \in Hosts : AtWork(g, i)'

\* Nobody leaves a job while its row says that it runs, but by a crash.
WorkStep ==
  \A g \in Hosts, i \in DOMAIN db' :
    AtWork(g, i) /\ db'[i].status \in Runs => AtWork(g, i)' \/ Recovering(g)'

\* Host h stays where it is, or has all the rows before it that it must still recover,
Halts(h) == qpc'[h] = qpc[h] /\ x'[h] = x[h] /\ snap'[h] = snap[h]

RecoversRows(h) ==
  \A i \in DOMAIN db' : OwnRow(i) /\ db'[i].host = h /\ db'[i].status \in Runs =>
    i \in DOMAIN snap'[h] /\ (i > x'[h] \/ (i = x'[h] /\ qpc'[h] = "requeue"))

\* and it goes on when there are none.
AllRecovered(h) ==
  \A i \in DOMAIN db' : OwnRow(i) /\ db'[i].host = h => db'[i].status \notin Runs

GoesOn(h) ==
  /\ \A g \in Hosts \ {h} : Halts(g)
  /\ qpc'[h] \in Recovers => Halts(h) \/ RecoversRows(h)
  /\ Recovering(h) /\ ~Recovering(h)' => AllRecovered(h)

LEMMA PcsApart ==
  /\ Pass \cap Recovers = {} /\ "child" \in Pass /\ "fetch" \notin Pass \cup Recovers
  /\ \A h \in Hosts : /\ qpc[h] \in Recovers => Recovering(h)
                      /\ Recovering(h) => qpc[h] \notin Pass
                      /\ Recovering(h)' => qpc'[h] \notin Pass
                      /\ qpc'[h] \in Recovers => Recovering(h)'
BY DEF Pass, Recovers, Recovering

\* Such a step keeps the invariant.
LEMMA RowsStay ==
  ASSUME TypeInv, IInv', RowsInv, SameUse, NEW h \in Hosts, RowStep(h), WorkStep, GoesOn(h)
  PROVE  RowsInv'
<1>1. \A i \in DOMAIN db' : i \in DOMAIN db /\ i \in Ids
  BY DEF RowStep, TypeInv, TypeOK, DbOK
<1>2. \A i : OwnRow(i)' <=> OwnRow(i)
  BY DEF SameUse, OwnRow
<1>3. RowNamesOwner' /\ RecoveringIsIdle'
  BY DEF IInv, OneOwner
<1>4. RunsHaveWork'
  <2> SUFFICES ASSUME NEW i \in DOMAIN db', OwnRow(i), db'[i].status \in Runs
               PROVE  /\ db'[i].host \in Hosts
                      /\ Recovering(db[i].host)' \/ AtWork(db[i].host, i)'
    BY <1>2 DEF RunsHaveWork
  <2>1. CASE \E g \in Hosts : AtWork(g, i)'
    <3>1. PICK g \in Hosts : AtWork(g, i)'
      BY <2>1
    <3>2. Owns(g, i)'
      BY <3>1 DEF AtWork, Owns, Starts
    <3>3. db'[i].host = g
      BY <1>3, <3>2 DEF RowNamesOwner
    <3> QED BY <3>1, <3>3
  <2>2. CASE db'[i].status = db[i].status
    <3>1. /\ db[i].host \in Hosts
          /\ Recovering(db[i].host) \/ AtWork(db[i].host, i)
      BY <1>1, <2>2 DEF RowsInv, RunsHaveWork
    <3>2. db'[i].host = db[i].host
      BY <3>1, OwnersAreHosts DEF RowStep
    <3>3. CASE AtWork(db[i].host, i)
      BY <3>1, <3>2, <3>3 DEF WorkStep
    <3>4. CASE Recovering(db[i].host)
      <4>1. CASE db[i].host = h
        BY <3>2, <3>4, <4>1 DEF GoesOn, AllRecovered
      <4>2. CASE db[i].host # h
        BY <3>1, <3>2, <3>4, <4>2 DEF GoesOn, Halts, Recovering
      <4> QED BY <4>1, <4>2
    <3> QED BY <3>1, <3>3, <3>4
  <2> QED BY <2>1, <2>2 DEF RowStep
<1>5. RecoversAll'
  <2> SUFFICES ASSUME NEW g \in Hosts, qpc'[g] \in Recovers,
                      NEW i \in DOMAIN db', OwnRow(i), db'[i].host = g,
                      db'[i].status \in Runs
               PROVE  i \in DOMAIN snap'[g] /\ (i > x'[g] \/ (i = x'[g] /\ qpc'[g] = "requeue"))
    BY <1>2 DEF RecoversAll
  <2>1. CASE g = h /\ RecoversRows(h)
    BY <2>1 DEF RecoversRows
  <2>2. CASE Halts(g)
    <3>1. qpc[g] \in Recovers /\ qpc[g] \notin Pass
      BY <2>2, PcsApart DEF Halts
    <3>2. db[i].host = g
      BY <3>1, OwnersAreHosts DEF RowStep
    <3>3. ~\E k \in Hosts : AtWork(k, i)'
      <4> SUFFICES ASSUME NEW k \in Hosts, AtWork(k, i)' PROVE FALSE
        OBVIOUS
      <4>1. Owns(k, i)'
        BY DEF AtWork, Owns, Starts
      <4>2. k = g
        BY <1>3, <4>1 DEF RowNamesOwner
      <4>3. \A t \in Threads : thread'[g][t] = NULL
        BY <1>3, PcsApart DEF RecoveringIsIdle
      <4>4. qpc'[g] # "child"
        BY PcsApart
      <4> QED BY <4>2, <4>3, <4>4 DEF AtWork, Has
    <3>4. db[i].status \in Runs
      BY <3>3 DEF RowStep
    <3>5. i \in DOMAIN snap[g] /\ (i > x[g] \/ (i = x[g] /\ qpc[g] = "requeue"))
      BY <1>1, <3>1, <3>2, <3>4 DEF RowsInv, RecoversAll
    <3> QED BY <2>2, <3>5 DEF Halts
  <2>3. Halts(g) \/ (g = h /\ RecoversRows(h))
    BY DEF GoesOn
  <2> QED BY <2>1, <2>2, <2>3
<1> QED BY <1>4, <1>5 DEF RowsInv

-----------------------------------------------------------------------------
(* The operators as such steps                                             *)

LEMMA StatusRows ==
  ASSUME DbOK, NEW h \in Hosts, NEW i, NEW s, ChangeJobStatus(i, s),
         s \notin Runs \/ ~OwnRow(i) \/ \E g \in Hosts : AtWork(g, i)'
  PROVE  RowStep(h)
<1>1. /\ DOMAIN db' = DOMAIN db
      /\ \A j \in DOMAIN db : /\ db'[j].host = db[j].host
                              /\ db'[j].status = IF j = i THEN s ELSE db[j].status
  BY StatusChanges
<1>2. ASSUME NEW j \in DOMAIN db, OwnRow(j), db'[j].status \in Runs
      PROVE  db'[j].status = db[j].status \/ \E g \in Hosts : AtWork(g, j)'
  <2>1. CASE j = i
    BY <1>1, <1>2, <2>1
  <2>2. CASE j # i
    BY <1>1, <2>2
  <2> QED BY <2>1, <2>2
<1> QED BY <1>1, <1>2 DEF RowStep

LEMMA CmdsRows ==
  ASSUME DbOK, NEW h \in Hosts, NEW i, NEW c, ChangeJobCmds(i, c)
  PROVE  RowStep(h)
BY CmdsChange DEF RowStep

LEMMA DeletedRows ==
  ASSUME NEW h \in Hosts, NEW ids, Delete(ids)
  PROVE  RowStep(h)
BY DEF Delete, RowStep

LEMMA KeptRows ==
  ASSUME NEW h \in Hosts, UNCHANGED db
  PROVE  RowStep(h)
BY DEF RowStep

LEMMA ClaimRows ==
  ASSUME DbOK, NEW h \in Hosts, qpc[h] \in Pass, NEW i, Claim(i, h)
  PROVE  /\ RowStep(h) /\ i \in DOMAIN db /\ db'[i].host = h
         /\ \A j \in DOMAIN db : db'[j].status = db[j].status
<1>1. i \in DOMAIN db /\ db[i].host = "" /\ db' = [db EXCEPT ![i].host = h]
  BY DEF Claim, Unclaimed
<1>2. [db[i] EXCEPT !.host = h].host = h /\ [db[i] EXCEPT !.host = h].status = db[i].status
  BY <1>1 DEF DbOK, Rows
<1> QED BY <1>1, <1>2 DEF RowStep

\* When no thread changes, those that are at work stay there; only "child" is such a
\* place for the queue thread.
LEMMA WorkStays ==
  ASSUME NEW h \in Hosts, UNCHANGED thread, qpc[h] # "child" \/ Halts(h),
         \A g \in Hosts \ {h} : Halts(g)
  PROVE  WorkStep
BY DEF WorkStep, AtWork, Halts, Has

\* A host is in its pass and remains so, or ends it.
Moves(h) == qpc'[h] \notin Recovers /\ \A g \in Hosts \ {h} : Halts(g)

LEMMA PassMoves ==
  ASSUME TypeInv, NEW h \in Hosts,
         Advance(h, "scan") \/ \E pc \in Pass : Goto(h, pc)
  PROVE  Moves(h)
BY DEF Moves, Halts, Advance, Goto, Pass, Recovers, TypeInv, TypeOK, RowsOK

LEMMA PassRows ==
  ASSUME TypeInv, IInv', RowsInv, SameUse, NEW h \in Hosts, qpc[h] \in Pass \cup {"fetch"},
         RowStep(h), Moves(h), WorkStep
  PROVE  RowsInv'
<1>1. ~Recovering(h)
  BY PcsApart DEF Recovering
<1>2. GoesOn(h)
  BY <1>1 DEF Moves, GoesOn
<1> QED BY <1>2, RowsStay

-----------------------------------------------------------------------------
(* Every step keeps the invariant                                          *)

\* A step of the queue thread in its pass.
LEMMA ScanRows ==
  ASSUME TypeInv, IInv', RowsInv, SameUse, NEW h \in Hosts,
         \/ SkipElsewhere(h) \/ SkipBlocked(h) \/ SkipNotAllowed(h) \/ SkipStarted(h)
         \/ StopRunning(h) \/ StopQueued(h) \/ Cancel(h) \/ ResetCmds(h)
         \/ PauseRunning(h) \/ ResetStatus(h) \/ GetJobsInQueue(h)
  PROVE  RowsInv'
<1>1. qpc[h] \in Pass \cup {"fetch"} /\ qpc[h] # "child"
  BY DEF SkipElsewhere, SkipBlocked, SkipNotAllowed, SkipStarted, StopRunning, StopQueued,
         Cancel, ResetCmds, PauseRunning, ResetStatus, GetJobsInQueue, Mine, Here, Pass
<1>2. UNCHANGED thread
  BY DEF SkipElsewhere, SkipBlocked, SkipNotAllowed, SkipStarted, StopRunning, StopQueued,
         Cancel, ResetCmds, PauseRunning, ResetStatus, GetJobsInQueue, SetFlag, jobs
<1>3. DbOK
  BY DEF TypeInv, TypeOK
<1>4. SUFFICES RowStep(h) /\ Moves(h)
  BY <1>1, <1>2, WorkStays, PassRows DEF Moves
<1>5. CASE \/ SkipElsewhere(h) \/ SkipBlocked(h) \/ SkipNotAllowed(h) \/ SkipStarted(h)
           \/ StopRunning(h)
  <2>1. Advance(h, "scan") /\ UNCHANGED db
    BY <1>5 DEF SkipElsewhere, SkipBlocked, SkipNotAllowed, SkipStarted, StopRunning, NextRow
  <2> QED BY <2>1, KeptRows, PassMoves
<1>6. CASE StopQueued(h)
  <2>1. qpc[h] \in Pass
    BY <1>6 DEF StopQueued, Mine, Here, Pass
  <2>2. CASE Claim(x[h], h) /\ Goto(h, "cancel")
    BY <1>3, <2>1, <2>2, ClaimRows, PassMoves DEF Pass
  <2>3. CASE ClaimFails(x[h]) /\ Advance(h, "scan")
    BY <2>3, KeptRows, PassMoves DEF ClaimFails
  <2> QED BY <1>6, <2>2, <2>3 DEF StopQueued, NextRow
<1>7. CASE Cancel(h)
  <2>1. ChangeJobStatus(x[h], "Cancelled") /\ Goto(h, "run")
    BY <1>7 DEF Cancel
  <2> QED BY <1>3, <2>1, StatusRows, PassMoves DEF Pass, Runs
<1>8. CASE ResetCmds(h)
  <2>1. ChangeJobCmds(x[h], "Run") /\ Advance(h, "scan")
    BY <1>8 DEF ResetCmds, NextRow
  <2> QED BY <1>3, <2>1, CmdsRows, PassMoves
<1>9. CASE PauseRunning(h)
  <2>1. Goto(h, "run") /\ UNCHANGED db
    BY <1>9 DEF PauseRunning
  <2> QED BY <2>1, KeptRows, PassMoves DEF Pass
<1>10. CASE ResetStatus(h)
  <2>1. CASE ChangeJobStatus(x[h], "Queued") /\ Goto(h, "run")
    BY <1>3, <2>1, StatusRows, PassMoves DEF Pass, Runs
  <2>2. CASE Advance(h, "scan") /\ UNCHANGED db
    BY <2>2, KeptRows, PassMoves
  <2> QED BY <1>10, <2>1, <2>2 DEF ResetStatus, NextRow
<1>11. CASE GetJobsInQueue(h)
  <2>1. UNCHANGED db
    BY <1>11 DEF GetJobsInQueue
  <2>2. Moves(h)
    BY <1>11 DEF GetJobsInQueue, Moves, Halts, Recovers, TypeInv, TypeOK, RowsOK
  <2> QED BY <2>1, <2>2, KeptRows
<1> QED BY <1>5, <1>6, <1>7, <1>8, <1>9, <1>10, <1>11

\* The thread of a job takes over from the queue thread.
LEMMA ChildRows ==
  ASSUME TypeInv, IInv', RowsInv, SameUse, NEW h \in Hosts, StartChildJob(h)
  PROVE  RowsInv'
<1>1. /\ qpc[h] = "child" /\ Advance(h, "scan") /\ UNCHANGED <<db, next>>
  BY DEF StartChildJob, NextRow, user
<1>2. qpc[h] \in Pass /\ x[h] \in Ids /\ x[h] \in DOMAIN snap[h]
  BY <1>1, AtRowTyped DEF Pass
<1>3. PICK t \in Threads :
        /\ thread[h][t] = NULL
        /\ thread' = [thread EXCEPT ![h][t] = NewThread(Row(h), x[h])]
  BY DEF StartChildJob
<1>4. \A g \in Hosts, u \in Threads :
        thread'[g][u] = IF g = h /\ u = t THEN NewThread(Row(h), x[h]) ELSE thread[g][u]
  BY <1>3 DEF TypeInv, TypeOK, JobsOK
<1>5. /\ NewThread(Row(h), x[h]).id = x[h] /\ NewThread(Row(h), x[h]).pc # "remove"
      /\ NewThread(Row(h), x[h]) # NULL
  <2>1. Row(h) \in Rows
    BY <1>2, AtRowTyped
  <2>2. NewThread(Row(h), x[h]) \in ThreadStates
    <3>1. Row(h).rec \in Recordings /\ Row(h).type \in Types
      BY <2>1, RowsAre
    <3>2. RetryLimit \in 0..RetryLimit
      <4>1. RetryLimit \in Nat
        BY JobQueueAssumption
      <4> QED BY <4>1
    <3>3. (IF Row(h).type = "commflag" THEN "command" ELSE "run") \in ThreadPcs
      BY DEF ThreadPcs
    <3> QED BY <1>2, <3>1, <3>2, <3>3 DEF NewThread, ThreadStates
  <2> QED BY <2>2, NullAssumption DEF NewThread
<1>6. Moves(h)
  BY <1>1, PassMoves
<1>7. RowStep(h)
  BY <1>1, KeptRows
<1>8. WorkStep
  <2> SUFFICES ASSUME NEW g \in Hosts, NEW i \in DOMAIN db', AtWork(g, i)
               PROVE  AtWork(g, i)'
    BY DEF WorkStep
  <2>1. CASE x[g] = i /\ qpc[g] = "child"
    <3>1. CASE g = h
      BY <1>4, <1>5, <2>1, <3>1 DEF AtWork, Has
    <3>2. CASE g # h
      BY <1>6, <2>1, <3>2 DEF AtWork, Moves, Halts
    <3> QED BY <3>1, <3>2
  <2>2. CASE \E u \in Threads : Has(g, u, i) /\ thread[g][u].pc # "remove"
    BY <1>3, <1>4, <2>2 DEF AtWork, Has
  <2> QED BY <2>1, <2>2 DEF AtWork
<1> QED BY <1>2, <1>6, <1>7, <1>8, PassRows

\* A step of the queue thread with the job that it has claimed.
LEMMA StartRows ==
  ASSUME TypeInv, IInv', RowsInv, SameUse, NEW h \in Hosts,
         \/ ClaimJob(h) \/ ProcessJob(h) \/ NoProgram(h) \/ StartJob(h)
         \/ StartChildJob(h) \/ ProgramDeleted(h)
  PROVE  RowsInv'
<1>1. qpc[h] \in Pass
  BY DEF ClaimJob, ProcessJob, NoProgram, StartJob, StartChildJob, ProgramDeleted, Mine,
         Here, Pass
<1>2. DbOK
  BY DEF TypeInv, TypeOK
<1>3. ASSUME RowStep(h), Moves(h), UNCHANGED thread, qpc[h] # "child"
      PROVE  RowsInv'
  BY <1>1, <1>3, WorkStays, PassRows DEF Moves
<1>4. CASE ClaimJob(h)
  <2>1. UNCHANGED thread /\ qpc[h] # "child"
    BY <1>4 DEF ClaimJob, Mine, Here, jobs
  <2>2. CASE Goto(h, "process") /\ (Claim(x[h], h) \/ UNCHANGED db)
    BY <1>1, <1>2, <1>3, <2>1, <2>2, ClaimRows, KeptRows, PassMoves DEF Pass
  <2>3. CASE ClaimFails(x[h]) /\ Advance(h, "scan")
    BY <1>3, <2>1, <2>3, KeptRows, PassMoves DEF ClaimFails
  <2> QED BY <1>4, <2>2, <2>3 DEF ClaimJob, NextRow
<1>5. CASE ProcessJob(h)
  <2>1. /\ qpc[h] = "process" /\ ChangeJobStatus(x[h], "Pending")
        /\ Goto(h, "start") \/ Goto(h, "missing")
        /\ UNCHANGED thread
    BY <1>5 DEF ProcessJob, jobs
  <2>2. Moves(h)
    BY <2>1, PassMoves DEF Pass
  <2> QED BY <1>2, <1>3, <2>1, <2>2, StatusRows DEF Runs
<1>6. CASE NoProgram(h)
  <2>1. /\ qpc[h] = "missing" /\ ChangeJobStatus(x[h], "Errored") /\ Advance(h, "scan")
        /\ UNCHANGED thread
    BY <1>6 DEF NoProgram, NextRow, jobs
  <2> QED BY <1>2, <1>3, <2>1, StatusRows, PassMoves DEF Runs
<1>7. CASE StartJob(h)
  <2>1. /\ qpc[h] = "start" /\ ChangeJobStatus(x[h], "Starting") /\ Goto(h, "child")
        /\ UNCHANGED thread
    BY <1>7 DEF StartJob
  <2>2. PICK i : i = x[h]
    OBVIOUS
  <2>3. AtWork(h, i)'
    BY <2>1, <2>2 DEF AtWork, Goto, TypeInv, TypeOK, RowsOK
  <2>4. RowStep(h)
    BY <1>2, <2>1, <2>2, <2>3, StatusRows
  <2>5. Moves(h)
    BY <2>1, PassMoves DEF Pass
  <2> QED BY <1>3, <2>1, <2>4, <2>5
<1>8. CASE StartChildJob(h)
  BY <1>8, ChildRows
<1>9. CASE ProgramDeleted(h)
  <2>1. /\ ChangeJobStatus(x[h], "Cancelled") /\ Advance(h, "scan")
        /\ UNCHANGED thread
    BY <1>9 DEF ProgramDeleted, NextRow
  <2>2. RowStep(h)
    BY <1>2, <2>1, StatusRows DEF Runs
  <2>3. x[h] \in DOMAIN db' => db'[x[h]].status = "Cancelled"
    BY <1>2, <2>1, StatusChanges
  <2>4. Moves(h)
    BY <2>1, PassMoves
  <2>5. WorkStep
    BY <2>1, <2>3, <2>4 DEF WorkStep, AtWork, Has, Moves, Halts, Runs
  <2> QED BY <1>1, <2>2, <2>4, <2>5, PassRows
<1> QED BY <1>4, <1>5, <1>6, <1>7, <1>8, <1>9

\* A host recovers.
LEMMA RecoverRows ==
  ASSUME TypeInv, IInv', RowsInv, SameUse, NEW h \in Hosts, RecoverStep(h)
  PROVE  RowsInv'
<1>1. /\ qpc[h] \in {"recover", "requeue", "uncommand", "disclaim"}
      /\ qpc'[h] \in {"fetch", "requeue", "uncommand", "disclaim"}
      /\ UNCHANGED <<thread, next>>
      /\ \A g \in Hosts \ {h} : Halts(g)
  BY DEF RecoverStep, RecoverQueue, RecoverStatus, RecoverCmds, RecoverHost, Goto, Advance,
         jobs, user, TypeInv, TypeOK, RowsOK, Halts
<1>2. DbOK
  BY DEF TypeInv, TypeOK
<1>3. WorkStep
  BY <1>1, WorkStays
<1>4. SUFFICES /\ RowStep(h)
               /\ qpc'[h] \in Recovers => RecoversRows(h)
               /\ qpc'[h] \notin Recovers => AllRecovered(h)
  BY <1>1, <1>3, RowsStay DEF GoesOn, Recovering, Recovers
<1>6. h # ""
  BY OwnersAreHosts
<1>7. qpc[h] \in Recovers =>
        /\ \A i \in DOMAIN snap[h] \cap DOMAIN db : i >= x[h] => db[i].host = h
        /\ \A i \in DOMAIN db : OwnRow(i) /\ db[i].host = h /\ db[i].status \in Runs =>
             i \in DOMAIN snap[h] /\ (i > x[h] \/ (i = x[h] /\ qpc[h] = "requeue"))
  BY DEF RowsInv, IInv, OneOwner, RecoversOwn, RecoversAll
<1>8. /\ x[h] \in Nat /\ DOMAIN snap[h] \subseteq Nat
      /\ qpc[h] \in Recovers => x[h] \in DOMAIN snap[h]
  BY NumbersTyped DEF TypeInv, TypeOK, AtRow
<1>9. qpc[h] \in Recovers /\ x[h] \in DOMAIN db => db[x[h]].host = h
  <2>1. x[h] >= x[h]
    BY <1>8
  <2> QED BY <1>7, <1>8, <2>1
<1>10. ASSUME qpc[h] \in {"uncommand", "disclaim"}, Advance(h, "requeue"),
              \A i \in DOMAIN db' :
                /\ i \in DOMAIN db /\ db'[i].status = db[i].status
                /\ db'[i].host = db[i].host \/ (i = x[h] /\ db'[i].host = "")
       PROVE  /\ qpc'[h] \in Recovers => RecoversRows(h)
              /\ qpc'[h] \notin Recovers => AllRecovered(h)
  <2>1. ASSUME NEW i \in DOMAIN db', OwnRow(i), db'[i].host = h, db'[i].status \in Runs
        PROVE  i \in Later(h)
    BY <1>6, <1>7, <1>10, <2>1 DEF Later, Recovers
  <2>2. CASE Later(h) # {}
    <3>1. Least(Later(h)) \in Later(h) /\ \A j \in Later(h) : Least(Later(h)) <= j
      BY <1>8, <2>2, LeastIn DEF Later
    <3>2. /\ qpc'[h] = "requeue" /\ snap'[h] = snap[h]
          /\ x'[h] \in Later(h) /\ \A j \in Later(h) : x'[h] <= j
      BY <1>10, <2>2, <3>1 DEF Advance, TypeInv, TypeOK, RowsOK
    <3>3. \A i \in Later(h) : i \in DOMAIN snap'[h] /\ (i > x'[h] \/ i = x'[h])
      BY <1>8, <3>2 DEF Later
    <3> QED BY <2>1, <3>2, <3>3 DEF RecoversRows, Recovers
  <2>3. CASE Later(h) = {}
    <3>1. qpc'[h] = "fetch"
      BY <1>10, <2>3 DEF Advance, TypeInv, TypeOK, RowsOK
    <3> QED BY <2>1, <2>3, <3>1 DEF AllRecovered, Recovers
  <2> QED BY <2>2, <2>3
<1>11. CASE RecoverQueue(h)
  <2> DEFINE left == {i \in NotDone : Recoverable(db[i], h)}
  <2>1. RowStep(h)
    BY <1>11, KeptRows DEF RecoverQueue
  <2>2. \A i \in DOMAIN db : db[i].host = h /\ db[i].status \in Runs => i \in left
    BY DEF Runs, NotDone, Done, Recoverable
  <2>3. CASE left = {}
    <3>1. Goto(h, "fetch") /\ db' = db
      BY <1>11, <2>3 DEF RecoverQueue
    <3>2. qpc'[h] = "fetch"
      BY <3>1 DEF Goto, TypeInv, TypeOK, RowsOK
    <3> QED BY <2>1, <2>2, <2>3, <3>1, <3>2 DEF AllRecovered, Recovers
  <2>4. CASE left # {}
    <3>1. /\ snap' = [snap EXCEPT ![h] = [i \in left |-> db[i]]]
          /\ x' = [x EXCEPT ![h] = Least(left)]
          /\ qpc' = [qpc EXCEPT ![h] = "requeue"] /\ db' = db
      BY <1>11, <2>4 DEF RecoverQueue
    <3>2. left \subseteq DOMAIN db /\ \A i \in left : db[i].host = h
      BY DEF NotDone, Recoverable
    <3>3. left \subseteq Nat
      BY <1>2, <3>2, IdsAreNumbers DEF DbOK
    <3> HIDE DEF left
    <3>4. Least(left) \in left /\ \A j \in left : Least(left) <= j
      BY <2>4, <3>3, LeastIn
    <3>5. DOMAIN snap'[h] = left /\ qpc'[h] = "requeue" /\ x'[h] = Least(left)
      BY <3>1 DEF TypeInv, TypeOK, RowsOK
    <3>6. x'[h] \in Nat /\ \A i \in left : i \in Nat /\ x'[h] <= i
      BY <3>3, <3>4, <3>5
    <3>8. \A i \in left : i > x'[h] \/ i = x'[h]
      BY <3>6
    <3>9. RecoversRows(h)
      BY <2>2, <3>1, <3>5, <3>8 DEF RecoversRows
    <3> QED BY <2>1, <3>5, <3>9 DEF Recovers
  <2> QED BY <2>3, <2>4
<1>12. CASE RecoverStatus(h)
  <2>1. qpc[h] = "requeue" /\ ChangeJobStatus(x[h], "Queued") /\ Goto(h, "uncommand")
    BY <1>12 DEF RecoverStatus
  <2>2. RowStep(h)
    BY <1>2, <2>1, StatusRows DEF Runs
  <2>3. qpc'[h] = "uncommand" /\ x'[h] = x[h] /\ snap'[h] = snap[h]
    BY <2>1 DEF Goto, TypeInv, TypeOK, RowsOK
  <2>4. /\ DOMAIN db' = DOMAIN db
        /\ \A i \in DOMAIN db : /\ db'[i].host = db[i].host
                                /\ db'[i].status = IF i = x[h] THEN "Queued" ELSE db[i].status
    BY <1>2, <2>1, StatusChanges
  <2>5. \A i \in DOMAIN db' : OwnRow(i) /\ db'[i].host = h /\ db'[i].status \in Runs =>
          i \in DOMAIN snap[h] /\ i > x[h]
    BY <1>7, <2>1, <2>4 DEF Recovers, Runs
  <2>6. RecoversRows(h)
    BY <2>3, <2>5 DEF RecoversRows
  <2> QED BY <2>2, <2>3, <2>6 DEF Recovers
<1>13. CASE RecoverCmds(h)
  <2>1. /\ qpc[h] = "uncommand" /\ ChangeJobCmds(x[h], "Run")
        /\ Goto(h, "disclaim") \/ Advance(h, "requeue")
    BY <1>13 DEF RecoverCmds
  <2>2. RowStep(h)
    BY <1>2, <2>1, CmdsRows
  <2>3. /\ DOMAIN db' = DOMAIN db
        /\ \A i \in DOMAIN db : db'[i].host = db[i].host /\ db'[i].status = db[i].status
    BY <1>2, <2>1, CmdsChange
  <2>4. CASE Goto(h, "disclaim")
    <3>1. qpc'[h] = "disclaim" /\ x'[h] = x[h] /\ snap'[h] = snap[h]
      BY <2>4 DEF Goto, TypeInv, TypeOK, RowsOK
    <3> QED BY <1>7, <2>1, <2>2, <2>3, <3>1 DEF RecoversRows, Recovers
  <2>5. CASE Advance(h, "requeue")
    BY <1>10, <2>1, <2>2, <2>3, <2>5
  <2> QED BY <2>1, <2>4, <2>5
<1>14. CASE RecoverHost(h)
  <2>1. qpc[h] = "disclaim" /\ Disclaim(x[h]) /\ Advance(h, "requeue")
    BY <1>14 DEF RecoverHost
  <2>2. /\ DOMAIN db' = DOMAIN db
        /\ \A i \in DOMAIN db : /\ db'[i].status = db[i].status
                                /\ db'[i].host = IF i = x[h] THEN "" ELSE db[i].host
    <3>1. \A r \in Rows : /\ [r EXCEPT !.host = ""].host = ""
                          /\ [r EXCEPT !.host = ""].status = r.status
      BY DEF Rows
    <3> QED BY <1>2, <2>1, <3>1 DEF Disclaim, DbOK
  <2>3. qpc' # qpc
    <3>1. qpc'[h] \in {"requeue", "fetch"}
      BY <2>1 DEF Advance, TypeInv, TypeOK, RowsOK
    <3> QED BY <2>1, <3>1
  <2>4. x[h] \in DOMAIN db =>
          db[x[h]].host = h /\ (OwnRow(x[h]) => db[x[h]].status \notin Runs)
    <3>1. ~(x[h] > x[h])
      BY <1>8
    <3> QED BY <1>7, <1>9, <2>1, <3>1 DEF Recovers
  <2>5. RowStep(h)
    BY <2>1, <2>2, <2>3, <2>4 DEF RowStep, Recovers
  <2> QED BY <1>10, <2>1, <2>2, <2>5
<1> QED BY <1>11, <1>12, <1>13, <1>14 DEF RecoverStep

LEMMA CrashRows ==
  ASSUME TypeInv, IInv', RowsInv, SameUse, NEW h \in Hosts, Crash(h) \/ Restart(h)
  PROVE  RowsInv'
<1>1. /\ Recovering(h)' /\ qpc'[h] \in {"down", "recover"} /\ UNCHANGED db
      /\ \A g \in Hosts \ {h} : Halts(g) /\ thread'[g] = thread[g]
  BY DEF Crash, Restart, Recovering, TypeInv, TypeOK, RowsOK, JobsOK, jobs, Halts
<1>2. GoesOn(h)
  BY <1>1 DEF GoesOn, Recovers
<1>3. WorkStep
  BY <1>1 DEF WorkStep, AtWork, Has, Halts
<1> QED BY <1>1, <1>2, <1>3, KeptRows, RowsStay

\* A thread is at work on its job until it has written its last status.
LEMMA ThreadRows ==
  ASSUME TypeInv, IInv', RowsInv, SameUse, NEW h \in Hosts, NEW t \in Threads, Acts(h, t)
  PROVE  RowsInv'
<1> DEFINE id == thread[h][t].id
<1> DEFINE Goal == RowStep(h) /\ WorkStep
<1>1. JobsOK /\ DbOK /\ EndsOK
  BY DEF TypeInv, TypeOK
<1>2. UNCHANGED <<qpc, x, snap>>
  BY DEF Acts, ThreadStep, ThreadRuns, Try, CommandFails, CommandRuns, CommFlagStarts,
         CommFlagFinds, TranscodeEnds, CompleteJob, CompletedJob, CommFlagPauses, CommFlagResumes,
         CommFlagReports,
         CommandEnds, TranscodeExited, TranscodeRetries, TranscodeOver, TranscodeLimit,
         UserJobExited, CommFlagExited, RemoveRunningJob, Keep, queue
<1>3. SUFFICES Goal
  <2>1. GoesOn(h)
    BY <1>2 DEF GoesOn, Halts, Recovering
  <2> QED BY <2>1, RowsStay
<1>4. thread[h][t] # NULL
  BY DEF Acts, ThreadStep, ThreadRuns, Try, CommandFails, CommandRuns, CommFlagStarts,
         CommFlagFinds, TranscodeEnds, CompleteJob, CompletedJob, CommFlagPauses, CommFlagResumes,
         CommFlagReports,
         CommandEnds, TranscodeExited, TranscodeRetries, TranscodeOver, TranscodeLimit,
         UserJobExited, CommFlagExited, RemoveRunningJob, At
<1>5. thread[h][t] \in ThreadStates /\ thread[h] \in [Threads -> ThreadStates \cup {NULL}]
  BY <1>1, <1>4 DEF JobsOK
<1>6. RowInv /\ Id(h, t) = id
  BY DEF RowsInv, IInv, Id
\* What a thread or its child writes into its row, or into the one it takes for its own.
<1> DEFINE Writes(s) == ChangeJobStatus(id, s) \/ ChangeJobStatus(JobID(h, t), s)
<1> HIDE DEF id
<1>7. ASSUME NEW r, thread' = [thread EXCEPT ![h][t] = r],
             r = NULL \/ (r \in ThreadStates /\ r.id = id),
             (r # NULL /\ r.pc # "remove") \/ thread[h][t].pc = "remove"
               \/ (id \in DOMAIN db' => db'[id].status \notin Runs)
      PROVE  WorkStep
  <2>1. \A g \in Hosts, u \in Threads :
          thread'[g][u] = IF g = h /\ u = t THEN r ELSE thread[g][u]
    BY <1>1, <1>7 DEF JobsOK
  <2> SUFFICES ASSUME NEW g \in Hosts, NEW i \in DOMAIN db', AtWork(g, i),
                      db'[i].status \in Runs
               PROVE  AtWork(g, i)'
    BY DEF WorkStep
  <2>2. CASE x[g] = i /\ qpc[g] = "child"
    BY <1>2, <2>2 DEF AtWork
  <2>3. CASE \E u \in Threads : Has(g, u, i) /\ thread[g][u].pc # "remove"
    BY <1>7, <2>1, <2>3 DEF AtWork, Has, id
  <2> QED BY <2>2, <2>3 DEF AtWork
<1>8. ASSUME NEW r \in ThreadStates, r.id = id, r.pc # "remove",
             thread' = [thread EXCEPT ![h][t] = r],
             UNCHANGED db \/ \E s \in Statuses : Writes(s)
      PROVE  Goal
  <2>1. r # NULL
    BY NullAssumption
  <2>2. WorkStep
    BY <1>7, <1>8, <2>1
  <2>3. thread'[h][t] = r
    BY <1>1, <1>8 DEF JobsOK
  <2>4. PICK i : i = id
    OBVIOUS
  <2>5. AtWork(h, i)'
    BY <1>8, <2>1, <2>3, <2>4 DEF AtWork, Has
  <2>6. RowStep(h)
    <3>1. ASSUME NEW s \in Statuses, Writes(s) PROVE RowStep(h)
      <4>1. PICK j : ChangeJobStatus(j, s) /\ (j = id \/ j = JobID(h, t))
        BY <3>1 DEF Writes
      <4>2. CASE j \notin DOMAIN db
        <5>1. /\ DOMAIN db' = DOMAIN db
              /\ \A k \in DOMAIN db : db'[k].host = db[k].host /\ db'[k].status = db[k].status
          BY <1>1, <4>1, <4>2, StatusChanges
        <5> QED BY <5>1 DEF RowStep
      <4>3. CASE j \in DOMAIN db
        <5>1. j = i \/ ~OwnRow(j)
          BY <1>4, <1>6, <2>4, <4>1, <4>3, OwnJob
        <5> QED BY <1>1, <2>5, <4>1, <5>1, StatusRows
      <4> QED BY <4>2, <4>3
    <3> QED BY <1>8, <3>1, KeptRows
  <2> QED BY <2>2, <2>6
<1>9. \A pc \in ThreadPcs : /\ [thread[h][t] EXCEPT !.pc = pc] \in ThreadStates
                            /\ [thread[h][t] EXCEPT !.pc = pc].id = id
                            /\ [thread[h][t] EXCEPT !.pc = pc].pc = pc
  BY <1>5 DEF ThreadStates, id
<1>10. ASSUME NEW s \in Done, ChangeJobStatus(id, s), Step(h, t, "remove")
       PROVE  Goal
  <2> DEFINE r == [thread[h][t] EXCEPT !.pc = "remove"]
  <2>1. r \in ThreadStates /\ r.id = id
    BY <1>9 DEF ThreadPcs
  <2>2. thread' = [thread EXCEPT ![h][t] = r]
    BY <1>10 DEF Step
  <2>3. id \in DOMAIN db' => db'[id].status \notin Runs
    BY <1>1, <1>10, StatusChanges DEF Done, Runs
  <2> HIDE DEF r
  <2>4. WorkStep
    BY <1>7, <2>1, <2>2, <2>3
  <2>5. RowStep(h)
    BY <1>1, <1>10, StatusRows DEF Done, Runs
  <2> QED BY <2>4, <2>5
<1>11. ASSUME NEW pc \in ThreadPcs \ {"remove"}, Step(h, t, pc),
              UNCHANGED db \/ \E s \in Statuses : Writes(s)
       PROVE  Goal
  <2> DEFINE r == [thread[h][t] EXCEPT !.pc = pc]
  <2>1. r \in ThreadStates /\ r.id = id /\ r.pc # "remove"
    BY <1>9
  <2>2. thread' = [thread EXCEPT ![h][t] = r]
    BY <1>11 DEF Step
  <2> HIDE DEF r
  <2> QED BY <1>8, <1>11, <2>1, <2>2
<1>12. ASSUME NEW e \in {"ok", "error", "notFound", "restart"}, Exit(h, t, e),
              UNCHANGED db \/ \E s \in Statuses : Writes(s)
       PROVE  Goal
  <2> DEFINE r == [thread[h][t] EXCEPT !.pc = "exited", !.exit = e]
  <2>1. r \in ThreadStates /\ r.id = id /\ r.pc # "remove"
    BY <1>5 DEF ThreadStates, ThreadPcs, id
  <2>2. thread' = [thread EXCEPT ![h][t] = r]
    BY <1>1, <1>5, <1>12 DEF Exit, JobsOK
  <2> HIDE DEF r
  <2> QED BY <1>8, <1>12, <2>1, <2>2
<1>13. ASSUME NEW pc \in ThreadPcs \ {"remove"}, NEW s \in Statuses \cup {"Unknown"},
              thread' = [thread EXCEPT ![h][t].pc = pc, ![h][t].status = s], UNCHANGED db
       PROVE  Goal
  <2> DEFINE r == [thread[h][t] EXCEPT !.pc = pc, !.status = s]
  <2>1. r \in ThreadStates /\ r.id = id /\ r.pc # "remove"
    BY <1>5 DEF ThreadStates, id
  <2>2. thread' = [thread EXCEPT ![h][t] = r]
    BY <1>1, <1>5, <1>13 DEF JobsOK
  <2> HIDE DEF r
  <2> QED BY <1>8, <1>13, <2>1, <2>2
<1> HIDE DEF Goal
<1>15. CASE ThreadRuns(h, t) \/ Try(h, t)
  BY <1>11, <1>6, <1>15 DEF ThreadRuns, Try, Statuses, Busy, ThreadPcs
<1>16. CASE \E e \in {"notFound", "error"} : CommandFails(h, t, e)
  BY <1>12, <1>16 DEF CommandFails
<1>17. CASE CommandRuns(h, t)
  BY <1>11, <1>6, <1>17 DEF CommandRuns, Statuses, Busy, ThreadPcs
<1>18. CASE \E s \in {"Stopping", "Retry", "Erroring", "Aborting"} : TranscodeEnds(h, t, s)
  BY <1>11, <1>6, <1>18 DEF TranscodeEnds, Statuses, Busy, ThreadPcs
<1>19. CASE CompleteJob(h, t)
  <2>1. GetJobStatus(Id(h, t)) \in Statuses \cup {"Unknown"} /\ UNCHANGED db
    BY <1>1, <1>19, StatusTyped DEF CompleteJob
  <2>2. CASE Exit(h, t, "restart")
    BY <1>12, <2>1, <2>2
  <2>3. CASE thread' = [thread EXCEPT ![h][t].pc = "completed",
                                      ![h][t].status = GetJobStatus(Id(h, t))]
    BY <1>13, <2>1, <2>3 DEF ThreadPcs
  <2> QED BY <1>19, <2>2, <2>3 DEF CompleteJob
<1>20. CASE CompletedJob(h, t)
  <2>1. thread[h][t].status \in {"Stopping", "Aborting", "Erroring"}
    BY <1>1, <1>20 DEF CompletedJob, EndsOK
  <2>2. \E s \in {"Finished", "Aborted", "Errored"} : ChangeJobStatus(id, s)
    BY <1>6, <1>20, <2>1 DEF CompletedJob
  <2>3. \E s \in Statuses : Writes(s)
    BY <2>2 DEF Statuses, Done
  <2>4. \E e \in {"ok", "error"} : Exit(h, t, e)
    BY <1>20 DEF CompletedJob
  <2> QED BY <1>12, <2>3, <2>4
<1>21. CASE CommFlagPauses(h, t) \/ CommFlagResumes(h, t)
  BY <1>11, <1>6, <1>21 DEF CommFlagPauses, CommFlagResumes, Statuses, Busy, ThreadPcs
<1>14. CASE CommFlagStarts(h, t)
  BY <1>11, <1>14 DEF CommFlagStarts, ThreadPcs
<1>30. CASE CommFlagFinds(h, t)
  <2>1. PICK i \in GetJobID(thread[h][t]) :
          thread' = [thread EXCEPT ![h][t].pc = "work", ![h][t].jobID = i]
    BY <1>30 DEF CommFlagFinds
  <2> DEFINE r == [thread[h][t] EXCEPT !.pc = "work", !.jobID = i]
  <2>2. i \in Ids \cup {NoJob} /\ UNCHANGED db
    BY <1>1, <1>30, <2>1 DEF GetJobID, CommFlagFinds, DbOK
  <2>3. r \in ThreadStates
    BY <1>5, <2>2 DEF ThreadStates, ThreadPcs
  <2>4. r.id = id /\ r.pc # "remove"
    BY <1>5 DEF ThreadStates, id
  <2>5. thread' = [thread EXCEPT ![h][t] = r]
    BY <1>1, <1>5, <2>1 DEF JobsOK
  <2> HIDE DEF r
  <2> QED BY <1>8, <2>2, <2>3, <2>4, <2>5
<1>22. CASE CommFlagReports(h, t)
  <2>1. thread' = [thread EXCEPT ![h][t] = thread[h][t]]
    BY <1>1, <1>22 DEF CommFlagReports, jobs, JobsOK
  <2>2. thread[h][t].pc # "remove" /\ thread[h][t].id = id
    BY <1>22 DEF CommFlagReports, At, id
  <2>3. \E s \in Statuses : Writes(s)
    BY <1>6, <1>22 DEF CommFlagReports, Statuses, Busy
  <2> QED BY <1>5, <1>8, <2>1, <2>2, <2>3
<1>23. CASE \E e \in {"ok", "error"} : CommandEnds(h, t, e)
  BY <1>12, <1>23 DEF CommandEnds
<1>24. CASE TranscodeExited(h, t)
  <2>1. GetJobStatus(Id(h, t)) \in Statuses \cup {"Unknown"} /\ UNCHANGED db
    BY <1>1, <1>24, StatusTyped DEF TranscodeExited
  <2>2. thread' = [thread EXCEPT ![h][t].pc = "judge",
                                 ![h][t].status = GetJobStatus(Id(h, t))]
    BY <1>24 DEF TranscodeExited
  <2> QED BY <1>13, <2>1, <2>2 DEF ThreadPcs
<1>25. CASE TranscodeRetries(h, t)
  <2> DEFINE r == [thread[h][t] EXCEPT !.pc = "try", !.retrylimit = @ - 1]
  <2>1. thread[h][t].retrylimit \in 0..RetryLimit /\ thread[h][t].retrylimit > 0
    BY <1>5, <1>25 DEF TranscodeRetries, Restarts, ThreadStates
  <2>2. RetryLimit \in Nat
    BY JobQueueAssumption
  <2>3. thread[h][t].retrylimit - 1 \in 0..RetryLimit
    BY <2>1, <2>2
  <2>4. r \in ThreadStates /\ r.id = id /\ r.pc # "remove"
    BY <1>5, <2>3 DEF ThreadStates, ThreadPcs, id
  <2>5. thread' = [thread EXCEPT ![h][t] = r] /\ UNCHANGED db
    BY <1>1, <1>5, <1>25 DEF TranscodeRetries, JobsOK
  <2> HIDE DEF r
  <2> QED BY <1>8, <2>4, <2>5
<1>26. CASE TranscodeOver(h, t)
  <2>1. \E s \in {"Finished", "Errored"} : ChangeJobStatus(id, s)
    BY <1>6, <1>26 DEF TranscodeOver
  <2>2. Step(h, t, "limit") \/ Step(h, t, "remove")
    BY <1>26 DEF TranscodeOver
  <2> QED BY <1>10, <1>11, <2>1, <2>2 DEF Statuses, Done, ThreadPcs
<1>27. CASE TranscodeLimit(h, t) \/ UserJobExited(h, t)
  <2>1. \E s \in {"Finished", "Errored"} : ChangeJobStatus(id, s)
    BY <1>6, <1>27 DEF TranscodeLimit, UserJobExited
  <2>2. Step(h, t, "remove")
    BY <1>27 DEF TranscodeLimit, UserJobExited
  <2> QED BY <1>10, <2>1, <2>2 DEF Done
<1>28. CASE CommFlagExited(h, t)
  <2>1. \E s \in {"Aborted", "Finished", "Errored"} : ChangeJobStatus(id, s)
    <3> DEFINE s == CASE thread[h][t].exit = "notFound" -> "Errored"
                      [] thread[h][t].exit # "notFound" /\ Flagged(h, t) -> "Aborted"
                      [] thread[h][t].exit = "ok" -> "Finished"
                      [] OTHER -> "Errored"
    <3>1. s \in {"Aborted", "Finished", "Errored"}
      OBVIOUS
    <3>2. ChangeJobStatus(id, s)
      BY <1>6, <1>28 DEF CommFlagExited
    <3> HIDE DEF s
    <3> QED BY <3>1, <3>2
  <2>2. Step(h, t, "remove")
    BY <1>28 DEF CommFlagExited
  <2> QED BY <1>10, <2>1, <2>2 DEF Done
<1>29. CASE RemoveRunningJob(h, t)
  <2>1. thread' = [thread EXCEPT ![h][t] = NULL] /\ thread[h][t].pc = "remove"
    BY <1>29 DEF RemoveRunningJob, At
  <2>2. RowStep(h)
    BY <1>29, KeptRows DEF RemoveRunningJob
  <2> QED BY <1>7, <2>1, <2>2 DEF Goal
<1> QED BY <1>15, <1>16, <1>17, <1>18, <1>19, <1>20, <1>21, <1>22, <1>23, <1>24, <1>25, <1>26,
           <1>27, <1>28, <1>29, <1>14, <1>30 DEF Acts, ThreadStep

\* A new row is nobody's.
LEMMA InsertRows ==
  ASSUME TypeInv, IInv', RowsInv, SameUse, Insert(next), next' = next + 1,
         UNCHANGED <<queue, jobs>>
  PROVE  RowsInv'
<1>1. /\ \A i : \A h \in Hosts : AtWork(h, i)' <=> AtWork(h, i)
      /\ \A h \in Hosts : Recovering(h)' <=> Recovering(h)
      /\ UNCHANGED <<qpc, x, snap>>
  BY DEF queue, jobs, Has, AtWork, Recovering
<1>2. \A i : OwnRow(i)' <=> OwnRow(i)
  BY DEF SameUse, OwnRow
<1>3. /\ DOMAIN db' = DOMAIN db \cup {next}
      /\ \A i \in DOMAIN db' : db'[i].status \in Runs => i \in DOMAIN db /\ db'[i] = db[i]
  <2>1. next \notin DOMAIN db
    BY DEF TypeInv, TypeOK, UserOK, RowsInv, IInv, OneOwner, IdsAreNew
  <2> QED BY <2>1 DEF Insert, Runs
<1>4. RunsHaveWork'
  <2> SUFFICES ASSUME NEW i \in DOMAIN db', OwnRow(i), db'[i].status \in Runs
               PROVE  /\ db'[i].host \in Hosts
                      /\ Recovering(db[i].host)' \/ AtWork(db[i].host, i)'
    BY <1>2 DEF RunsHaveWork
  <2>1. i \in DOMAIN db /\ db'[i] = db[i]
    BY <1>3
  <2>2. db[i].host \in Hosts /\ (Recovering(db[i].host) \/ AtWork(db[i].host, i))
    BY <2>1 DEF RowsInv, RunsHaveWork
  <2> QED BY <1>1, <2>1, <2>2
<1>5. RecoversAll'
  BY <1>1, <1>2, <1>3 DEF RowsInv, RecoversAll
<1> QED BY <1>4, <1>5 DEF RowsInv

\* Users make no row say that its job runs.
LEMMA UserRows ==
  ASSUME TypeInv, IInv', RowsInv, SameUse, UserStep
  PROVE  RowsInv'
<1>1. UNCHANGED <<queue, jobs>>
  BY DEF UserStep, QueueJob, QueueDeletes, QueueInserts, StopJob, SelectJob, DialogStop,
         DialogPause, DialogRequeue, DialogDelete, Confirmed, DeleteAllJobs, StopAllJobs,
         WaitForJobs, WaitTimesOut, DeleteRows, Rest
<1>2. DbOK
  BY DEF TypeInv, TypeOK
<1>3. PICK h : h \in Hosts
  BY JobQueueAssumption
<1>4. UNCHANGED <<qpc, x, snap, thread>>
  BY <1>1 DEF queue, jobs
<1>5. ASSUME RowStep(h) PROVE RowsInv'
  <2>1. \A g \in Hosts : Halts(g)
    BY <1>4 DEF Halts
  <2>2. WorkStep /\ GoesOn(h)
    BY <1>3, <1>4, <2>1, WorkStays DEF GoesOn, Halts, Recovering
  <2> QED BY <1>3, <1>5, <2>2, RowsStay
<1>6. ASSUME Insert(next), next' = next + 1
      PROVE  RowsInv'
  BY <1>1, <1>6, InsertRows
<1>7. CASE QueueJob
  BY <1>3, <1>5, <1>6, <1>7, KeptRows DEF QueueJob
<1>8. CASE QueueDeletes
  BY <1>3, <1>5, <1>8, DeletedRows DEF QueueDeletes
<1>9. CASE QueueInserts
  BY <1>6, <1>9 DEF QueueInserts
<1>10. CASE \E i \in Ids : StopJob(i)
  BY <1>2, <1>3, <1>5, <1>10, CmdsRows DEF StopJob, user
<1>11. CASE (\E i \in Ids : SelectJob(i)) \/ WaitForJobs \/ WaitTimesOut
  BY <1>3, <1>5, <1>11, KeptRows DEF SelectJob, WaitForJobs, WaitTimesOut
<1>12. CASE DialogStop \/ DialogPause
  BY <1>2, <1>3, <1>5, <1>12, CmdsRows DEF DialogStop, DialogPause, Confirmed
<1>13. CASE DialogRequeue
  BY <1>2, <1>3, <1>5, <1>13, StatusRows DEF DialogRequeue, Confirmed, Runs
<1>14. CASE DialogDelete
  BY <1>3, <1>5, <1>14, DeletedRows DEF DialogDelete, Confirmed
<1>15. CASE \E r \in Recordings : DeleteAllJobs(r)
  <2>1. PICK r \in Recordings : DeleteAllJobs(r)
    BY <1>15
  <2>2. \A j \in Rows : /\ [j EXCEPT !.status = "Cancelled"].host = j.host
                        /\ [j EXCEPT !.status = "Cancelled"].status = "Cancelled"
    BY DEF Rows
  <2>3. DOMAIN db' = DOMAIN db
    BY <2>1 DEF DeleteAllJobs
  <2>4. \A i \in DOMAIN db :
          db'[i].host = db[i].host /\ db'[i].status \in {db[i].status, "Cancelled"}
    BY <1>2, <2>1, <2>2 DEF DeleteAllJobs, DbOK
  <2>5. RowStep(h)
    BY <2>3, <2>4 DEF RowStep, Runs
  <2> QED BY <1>5, <2>3, <2>5
<1>16. CASE StopAllJobs
  <2>1. \A j \in Rows : /\ [j EXCEPT !.cmds = "Stop"].host = j.host
                        /\ [j EXCEPT !.cmds = "Stop"].status = j.status
    BY DEF Rows
  <2>2. DOMAIN db' = DOMAIN db
    BY <1>16 DEF StopAllJobs
  <2>3. \A i \in DOMAIN db : db'[i].host = db[i].host /\ db'[i].status = db[i].status
    BY <1>2, <1>16, <2>1 DEF StopAllJobs, DbOK
  <2>4. RowStep(h)
    BY <2>2, <2>3 DEF RowStep
  <2> QED BY <1>5, <2>2, <2>4
<1>17. CASE DeleteRows
  BY <1>3, <1>5, <1>17, DeletedRows DEF DeleteRows
<1> QED BY <1>7, <1>8, <1>9, <1>10, <1>11, <1>12, <1>13, <1>14, <1>15, <1>16, <1>17
        DEF UserStep

LEMMA RowsInit == Init => RowsInv
<1> SUFFICES ASSUME Init PROVE RowsInv
  OBVIOUS
<1>1. IInv
  BY TypeInit, RowInvInit, OneOwnerInit DEF IInv
<1>2. DOMAIN db = {} /\ \A h \in Hosts : qpc[h] = "recover"
  BY DEF Init
<1> QED BY <1>1, <1>2 DEF RowsInv, RunsHaveWork, RecoversAll, Recovers

LEMMA RowsInvStep == RowsInv /\ [Next]_vars => RowsInv'
<1> SUFFICES ASSUME RowsInv, [Next]_vars PROVE RowsInv'
  OBVIOUS
<1>1. TypeInv /\ IInv'
  BY OwnerStep DEF RowsInv, IInv
<1>2. SameUse
  BY <1>1, UsersJobs DEF SameUse, TypeInv, TypeOK
<1>3. ASSUME NEW h \in Hosts, QueueStep(h) PROVE RowsInv'
  BY <1>1, <1>2, <1>3, RecoverRows, ScanRows, StartRows DEF QueueStep
<1>4. ASSUME NEW h \in Hosts, Crash(h) \/ Restart(h) PROVE RowsInv'
  BY <1>1, <1>2, <1>4, CrashRows
<1>5. ASSUME NEW h \in Hosts, NEW t \in Threads, Acts(h, t) PROVE RowsInv'
  BY <1>1, <1>2, <1>5, ThreadRows
<1>6. CASE UserStep
  BY <1>1, <1>2, <1>6, UserRows
<1>7. CASE UNCHANGED vars
  <2>1. PICK h : h \in Hosts
    BY JobQueueAssumption
  <2>2. UNCHANGED <<db, qpc, x, snap, thread>>
    BY <1>7 DEF vars, queue, jobs
  <2>3. WorkStep /\ GoesOn(h) /\ RowStep(h)
    BY <2>1, <2>2, WorkStays, KeptRows DEF GoesOn, Halts, Recovering
  <2> QED BY <1>1, <1>2, <2>1, <2>3, RowsStay
<1> QED BY <1>3, <1>4, <1>5, <1>6, <1>7 DEF Next, Acts

\* The inductive invariant, for every use: a row that says its job runs has a host that
\* is at work on the job or one that has yet to recover, and that finds the row then;
\* unless it is a row that a flagger of an earlier job may take for its own.
THEOREM RowsInvariance == Spec => []RowsInv
<1>1. Init => RowsInv
  BY RowsInit
<1>2. RowsInv /\ [Next]_vars => RowsInv'
  BY RowsInvStep
<1> QED BY <1>1, <1>2, PTL DEF Spec

\* No crash leaves a row behind that says that its job runs, and no end of a thread,
\* whatever users delete and requeue meanwhile.
THEOREM RowsHaveThreadsHolds == Spec => []RowsHaveThreads
<1>1. RowsInv => RowsHaveThreads
  <2> SUFFICES ASSUME RowsInv, NEW i \in DOMAIN db, OwnRow(i), db[i].status \in Runs
               PROVE  /\ db[i].host \in Hosts
                      /\ \/ Recovering(db[i].host) \/ Starts(db[i].host, i)
                         \/ \E t \in Threads : Has(db[i].host, t, i)
    BY DEF RowsHaveThreads, Runs
  <2>1. db[i].host \in Hosts /\ (Recovering(db[i].host) \/ AtWork(db[i].host, i))
    BY DEF RowsInv, RunsHaveWork
  <2> QED BY <2>1 DEF AtWork, Starts
<1> QED BY <1>1, RowsInvariance, PTL
=============================================================================
