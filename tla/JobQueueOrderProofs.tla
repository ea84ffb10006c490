------------------------ MODULE JobQueueOrderProofs ------------------------
(***************************************************************************)
(* Proofs about JobQueue.  As long as nobody deletes or requeues a job, or  *)
(* queues one again, the jobs of a recording are done one after the other,  *)
(* on whichever hosts, and the entry of a recording in runningJobs is that  *)
(* of the job that has a thread.  Whatever users do but delete all jobs of  *)
(* a recording, a job that has ended stays ended until it is requeued: but  *)
(* for a row that the flagger of an earlier job may take for its own.      *)
(***************************************************************************)
EXTENDS JobQueueRowsProofs

-----------------------------------------------------------------------------
(* The inductive invariant: whatever users do                              *)

\* Only a transcode is completed by its child, and judged by its thread.
EndsAreTranscodes ==
  \A h \in Hosts, t \in Threads :
    thread[h][t] # NULL /\ thread[h][t].pc \in {"complete", "completed", "judge", "limit"}
      => Is(h, t, "transcode")

\* runningJobsLock is held while a job is started, and at the end of a flagger.
LockOK ==
  /\ \A h \in Hosts : qpc[h] = "child" => lock[h] = QueueThread
  /\ \A h \in Hosts, t \in Threads : At(h, t, "remove") /\ Is(h, t, "commflag") => lock[h] = t

-----------------------------------------------------------------------------
(* The inductive invariant: rows that come and go in order                 *)

\* No flagger takes the row of another job for its own.
AllTracked == \A i \in DOMAIN use.jobs : Tracked(i)

\* Rows come one by one, and do not go.
AllAreThere == upc = "idle" /\ dpc = "idle" /\ DOMAIN db = 1..(next - 1)

\* This thread has not seen the end of its job.
Unfinished(r) ==
  \/ r.pc \in Works
  \/ r.pc = "exited" /\ r.type # "transcode"
  \/ r.pc \in {"exited", "judge"} /\ r.exit = "restart"

\* Host h is at work on job i, or about to start it.
IsAt(h, i) ==
  Starts(h, i) \/ \E t \in Threads : Has(h, t, i) /\ Unfinished(thread[h][t])

WorkIsNotDone ==
  \A h \in Hosts, i \in DOMAIN db : IsAt(h, i) => db[i].status \notin Done

\* A host cancels a job that is its own and that nobody has started.
CancelOK(h) ==
  qpc[h] = "cancel" => Row(h).status = "Queued" /\ (x[h] \in DOMAIN db => db[x[h]].host = h)

\* What a host has still to recover has not ended,
RecoveryOK(h) ==
  qpc[h] \in Recovers =>
    \A i \in DOMAIN snap[h] \cap DOMAIN db : i >= x[h] => db[i].status \notin Done

\* and a row without a host is queued.
UnclaimedWaits == \A i \in DOMAIN db : db[i].host = "" => db[i].status = "Queued"

\* A row that this host has, and that its pass has not come to yet, is still queued.
AheadWaits(h) ==
  \A i \in DOMAIN db :
    /\ Ahead(h, i) /\ (i = x[h] => qpc[h] = "scan")
    /\ snap[h][i].host = h /\ snap[h][i].status = "Queued"
    => db[i].status = "Queued"

\* The snapshot has every job that may not have ended,
SnapHasAll(h) ==
  qpc[h] \in Pass =>
    /\ \A i \in DOMAIN snap[h] : snap[h][i].status \notin Done
    /\ \A i \in DOMAIN snap[h], j \in DOMAIN db :
         j < i => j \in DOMAIN snap[h] \/ db[j].status \in Done

\* and once the pass has seen a job its recording has no other job in this pass.
SeenBlocks(h) ==
  qpc[h] \in Pass =>
    \A i \in DOMAIN snap[h] :
      i < x[h] \/ (i = x[h] /\ qpc[h] # "scan") =>
        jobStatus[h][snap[h][i].rec] \notin Done \cup {NULL}

\* The jobs of a recording that were queued before job i have ended.
IsNext(i) == \A j \in DOMAIN db : j < i /\ db[j].rec = db[i].rec => db[j].status \in Done
InTurn == \A h \in Hosts, i \in DOMAIN db : Owns(h, i) => IsNext(i)

OrderInv ==
  /\ AllTracked /\ AllAreThere /\ WorkIsNotDone /\ UnclaimedWaits /\ InTurn
  /\ \A h \in Hosts : /\ CancelOK(h) /\ RecoveryOK(h) /\ AheadWaits(h)
                       /\ SnapHasAll(h) /\ SeenBlocks(h)

\* A thread's recording has its entry.
EntriesAreOwn ==
  \A h \in Hosts, t \in Threads : thread[h][t] # NULL =>
    Entry(h, t) # NULL /\ Entry(h, t).thread = t

OInv ==
  /\ IInv /\ EndsAreTranscodes /\ LockOK
  /\ InOrder => OrderInv
  /\ InOrder /\ FlagsFirst => EntriesAreOwn

-----------------------------------------------------------------------------
(* What a thread and its child do, in short                                *)

\* Thread t of host h becomes r.
Becomes(h, t, r) ==
  /\ thread' = [thread EXCEPT ![h][t] = r]
  /\ r # NULL =>
       /\ r \in ThreadStates
       /\ r.id = thread[h][t].id /\ r.rec = thread[h][t].rec /\ r.type = thread[h][t].type
       /\ r.pc \in {"complete", "completed", "judge", "limit"} => r.type = "transcode"
       /\ Unfinished(r) => Unfinished(thread[h][t])

\* It writes a status of its job: never that it is queued, no end before it has seen one,
\* and nothing else after; or a flagger writes that it is at work into a row that it takes
\* for its own.
Writes(h, t, r) ==
  \/ UNCHANGED db
  \/ /\ r # NULL
     /\ \E s \in Statuses \ {"Queued"} :
          /\ ChangeJobStatus(Id(h, t), s)
          /\ s \in Done => ~Unfinished(r)
          /\ s \notin Done => Unfinished(thread[h][t])
  \/ /\ r # NULL
     /\ \E i \in Ids \cup {NoJob}, s \in Statuses \ (Done \cup {"Queued"}) :
          /\ i \in DOMAIN db => ~OwnRow(i)
          /\ ChangeJobStatus(i, s)

\* The lock is a flagger's own at its end; the end of a thread takes its entry away.
Locks(h, t, r) ==
  \/ /\ UNCHANGED <<lock, runningJobs>>
     /\ r # NULL /\ (r.pc = "remove" => r.type # "commflag")
  \/ /\ lock[h] = NULL /\ lock' = [lock EXCEPT ![h] = t]
     /\ UNCHANGED runningJobs /\ r # NULL
  \/ /\ lock[h] \in {NULL, t} /\ lock' = [lock EXCEPT ![h] = NULL]
     /\ r = NULL /\ runningJobs' = [runningJobs EXCEPT ![h][thread[h][t].rec] = NULL]

\* It is at work on its job.
LEMMA WritesOwn ==
  ASSUME NEW h \in Hosts, NEW t \in Threads, NEW r, r # NULL, Unfinished(thread[h][t]),
         NEW s \in Statuses \ (Done \cup {"Queued"}), ChangeJobStatus(Id(h, t), s)
  PROVE  Writes(h, t, r)
BY DEF Writes

\* A flagger is.
LEMMA WritesOther ==
  ASSUME TypeInv, RowInv, NEW h \in Hosts, NEW t \in Threads, thread[h][t] # NULL,
         NEW r, r # NULL, Unfinished(thread[h][t]),
         NEW s \in Statuses \ (Done \cup {"Queued"}), ChangeJobStatus(JobID(h, t), s)
  PROVE  Writes(h, t, r)
<1>1. JobID(h, t) \in Ids \cup {NoJob}
  BY DEF TypeInv, TypeOK, JobsOK, ThreadStates, JobID
<1>2. CASE JobID(h, t) \in DOMAIN db => ~OwnRow(JobID(h, t))
  BY <1>1, <1>2 DEF Writes
<1>3. CASE JobID(h, t) \in DOMAIN db /\ OwnRow(JobID(h, t))
  BY <1>3, OwnJob, WritesOwn
<1> QED BY <1>2, <1>3

\* Every step of a thread or its child is one of these.
LEMMA ThreadDoes ==
  ASSUME TypeInv, RowInv, EndsAreTranscodes, NEW h \in Hosts, NEW t \in Threads, Acts(h, t)
  PROVE  /\ thread[h][t] # NULL /\ UNCHANGED <<queue, user, use>>
         /\ \E r : Becomes(h, t, r) /\ Writes(h, t, r) /\ Locks(h, t, r)
<1> DEFINE q == thread[h][t]
<1> DEFINE Goal == \E r : Becomes(h, t, r) /\ Writes(h, t, r) /\ Locks(h, t, r)
<1>1. JobsOK /\ DbOK /\ EndsOK
  BY DEF TypeInv, TypeOK
<1>2. UNCHANGED <<queue, user, use>>
  BY DEF Acts, ThreadStep, ThreadRuns, Try, CommandFails, CommandRuns, CommFlagStarts,
         CommFlagFinds, TranscodeEnds,
         CompleteJob, CompletedJob, CommFlagPauses, CommFlagResumes, CommFlagReports,
         CommandEnds, TranscodeExited, TranscodeRetries, TranscodeOver, TranscodeLimit,
         UserJobExited, CommFlagExited, RemoveRunningJob, Keep
<1>3. q # NULL
  BY DEF Acts, ThreadStep, ThreadRuns, Try, CommandFails, CommandRuns, CommFlagStarts,
         CommFlagFinds, TranscodeEnds,
         CompleteJob, CompletedJob, CommFlagPauses, CommFlagResumes, CommFlagReports,
         CommandEnds, TranscodeExited, TranscodeRetries, TranscodeOver, TranscodeLimit,
         UserJobExited, CommFlagExited, RemoveRunningJob, At
<1>4. q \in ThreadStates /\ thread[h] \in [Threads -> ThreadStates \cup {NULL}]
  BY <1>1, <1>3 DEF JobsOK
<1>5. SUFFICES Goal
  BY <1>2, <1>3
<1>6. \A r \in ThreadStates : r # NULL
  BY NullAssumption
<1>7. \A pc \in ThreadPcs :
        LET r == [q EXCEPT !.pc = pc]
        IN  /\ r \in ThreadStates /\ r.id = q.id /\ r.rec = q.rec /\ r.type = q.type
            /\ r.pc = pc /\ r.exit = q.exit
  BY <1>4 DEF ThreadStates
<1>8. \A e \in {"ok", "error", "notFound", "restart"} :
        LET r == [q EXCEPT !.pc = "exited", !.exit = e]
        IN  /\ r \in ThreadStates /\ r.id = q.id /\ r.rec = q.rec /\ r.type = q.type
            /\ r.pc = "exited" /\ r.exit = e
  BY <1>4 DEF ThreadStates, ThreadPcs
<1>9. q.pc \in {"complete", "completed", "judge", "limit"} => q.type = "transcode"
  BY <1>3 DEF EndsAreTranscodes, Is
\* A step of its work,
<1>10. ASSUME NEW pc \in Works, Step(h, t, pc), q.pc \in Works,
              pc \in {"complete", "completed"} => q.type = "transcode",
              \/ UNCHANGED db
              \/ \E s \in Statuses \ (Done \cup {"Queued"}) :
                   ChangeJobStatus(Id(h, t), s) \/ ChangeJobStatus(JobID(h, t), s),
              UNCHANGED <<runningJobs, lock>>
       PROVE  Goal
  <2> DEFINE r == [q EXCEPT !.pc = pc]
  <2>1. /\ r \in ThreadStates /\ r.id = q.id /\ r.rec = q.rec /\ r.type = q.type
        /\ r.pc = pc /\ r # NULL
    BY <1>6, <1>7 DEF Works, ThreadPcs
  <2>2. thread' = [thread EXCEPT ![h][t] = r]
    BY <1>10 DEF Step
  <2> HIDE DEF r
  <2>3. Unfinished(q) /\ pc \notin {"judge", "limit", "remove"}
    BY <1>10 DEF Unfinished, Works
  <2>4. Becomes(h, t, r) /\ Locks(h, t, r)
    BY <1>10, <2>1, <2>2, <2>3 DEF Becomes, Locks
  <2>5. Writes(h, t, r)
    <3>1. CASE UNCHANGED db
      BY <3>1 DEF Writes
    <3>2. CASE \E s \in Statuses \ (Done \cup {"Queued"}) : ChangeJobStatus(Id(h, t), s)
      BY <2>1, <2>3, <3>2, WritesOwn
    <3>3. CASE \E s \in Statuses \ (Done \cup {"Queued"}) : ChangeJobStatus(JobID(h, t), s)
      BY <1>3, <2>1, <2>3, <3>3, WritesOther
    <3> QED BY <1>10, <3>1, <3>2, <3>3
  <2> QED BY <2>4, <2>5
\* the end of the child,
<1>11. ASSUME NEW e \in {"ok", "error", "notFound", "restart"}, Exit(h, t, e), q.pc \in Works,
              \/ UNCHANGED db
              \/ /\ q.type = "transcode" /\ e # "restart"
                 /\ \E s \in Done : ChangeJobStatus(Id(h, t), s),
              UNCHANGED <<runningJobs, lock>>
       PROVE  Goal
  <2> DEFINE r == [q EXCEPT !.pc = "exited", !.exit = e]
  <2>1. /\ r \in ThreadStates /\ r.id = q.id /\ r.rec = q.rec /\ r.type = q.type
        /\ r.pc = "exited" /\ r.exit = e /\ r # NULL
    BY <1>6, <1>8
  <2>2. thread' = [thread EXCEPT ![h][t] = r]
    BY <1>1, <1>4, <1>11 DEF Exit, JobsOK
  <2> HIDE DEF r
  <2>3. Unfinished(q)
    BY <1>11 DEF Unfinished
  <2>4. q.type = "transcode" /\ e # "restart" => ~Unfinished(r)
    BY <2>1 DEF Unfinished, Works
  <2>5. Becomes(h, t, r) /\ Locks(h, t, r)
    BY <1>11, <2>1, <2>2, <2>3 DEF Becomes, Locks
  <2>6. Writes(h, t, r)
    BY <1>11, <2>1, <2>4 DEF Writes, Statuses, Done
  <2> QED BY <2>5, <2>6
\* and the end of the thread's job.
<1>12. ASSUME NEW pc \in {"limit", "remove"}, Step(h, t, pc),
              pc = "limit" => q.type = "transcode",
              \E s \in Done : ChangeJobStatus(Id(h, t), s),
              UNCHANGED runningJobs,
              \/ UNCHANGED lock /\ q.type # "commflag"
              \/ lock[h] = NULL /\ lock' = [lock EXCEPT ![h] = t]
       PROVE  Goal
  <2> DEFINE r == [q EXCEPT !.pc = pc]
  <2>1. /\ r \in ThreadStates /\ r.id = q.id /\ r.rec = q.rec /\ r.type = q.type
        /\ r.pc = pc /\ r # NULL
    BY <1>6, <1>7 DEF ThreadPcs
  <2>2. thread' = [thread EXCEPT ![h][t] = r]
    BY <1>12 DEF Step
  <2> HIDE DEF r
  <2>3. ~Unfinished(r)
    BY <2>1 DEF Unfinished, Works
  <2>4. Becomes(h, t, r) /\ Locks(h, t, r)
    BY <1>12, <2>1, <2>2, <2>3 DEF Becomes, Locks
  <2>5. Writes(h, t, r)
    BY <1>12, <2>1, <2>3 DEF Writes, Statuses, Done
  <2> QED BY <2>4, <2>5
<1> HIDE DEF Goal
<1>13. CASE ThreadRuns(h, t) \/ Try(h, t)
  BY <1>10, <1>13 DEF ThreadRuns, Try, Statuses, Busy, Done, Works, At
<1>14. CASE \E e \in {"notFound", "error"} : CommandFails(h, t, e)
  BY <1>11, <1>14 DEF CommandFails, Works, At
<1>15. CASE CommandRuns(h, t) \/ CommFlagStarts(h, t)
  BY <1>10, <1>15 DEF CommandRuns, CommFlagStarts, Statuses, Busy, Done, Works, At
<1>27. CASE CommFlagFinds(h, t)
  <2>1. PICK i \in GetJobID(q) :
          thread' = [thread EXCEPT ![h][t].pc = "work", ![h][t].jobID = i]
    BY <1>27 DEF CommFlagFinds
  <2> DEFINE r == [q EXCEPT !.pc = "work", !.jobID = i]
  <2>2. thread' = [thread EXCEPT ![h][t] = r]
    BY <1>1, <1>4, <2>1 DEF JobsOK
  <2>3. i \in Ids \cup {NoJob}
    BY <1>1, <2>1 DEF GetJobID, DbOK
  <2>4. q.pc = "lookup" /\ UNCHANGED <<db, runningJobs, lock>>
    BY <1>27 DEF CommFlagFinds, At
  <2>5. /\ r \in ThreadStates /\ r.id = q.id /\ r.rec = q.rec /\ r.type = q.type
        /\ r.pc = "work" /\ r # NULL
    <3>1. r \in ThreadStates
      BY <1>4, <2>3 DEF ThreadStates, ThreadPcs
    <3>2. r.id = q.id /\ r.rec = q.rec /\ r.type = q.type /\ r.pc = "work"
      BY <1>4 DEF ThreadStates
    <3> QED BY <1>6, <3>1, <3>2
  <2> HIDE DEF r
  <2>6. Unfinished(q)
    BY <2>4 DEF Unfinished, Works
  <2>7. Becomes(h, t, r) /\ Writes(h, t, r) /\ Locks(h, t, r)
    BY <2>2, <2>4, <2>5, <2>6 DEF Becomes, Writes, Locks
  <2> QED BY <2>7 DEF Goal
<1>16. CASE \E s \in {"Stopping", "Retry", "Erroring", "Aborting"} : TranscodeEnds(h, t, s)
  BY <1>10, <1>16 DEF TranscodeEnds, Statuses, Busy, Done, Works, At, Is
<1>17. CASE CompleteJob(h, t)
  <2>1. q.pc = "complete" /\ UNCHANGED <<db, runningJobs, lock>>
    BY <1>17 DEF CompleteJob, At
  <2>2. CASE Exit(h, t, "restart")
    BY <1>11, <2>1, <2>2 DEF Works
  <2>3. CASE /\ GetJobStatus(Id(h, t)) \in {"Stopping", "Aborting", "Erroring"}
             /\ thread' = [thread EXCEPT ![h][t].pc = "completed",
                                         ![h][t].status = GetJobStatus(Id(h, t))]
    <3> DEFINE s == GetJobStatus(Id(h, t))
    <3> DEFINE r == [q EXCEPT !.pc = "completed", !.status = s]
    <3>1. s \in Statuses \cup {"Unknown"}
      BY <2>3 DEF Statuses, Busy
    <3>2. thread' = [thread EXCEPT ![h][t] = r]
      BY <1>1, <1>4, <2>3 DEF JobsOK
    <3> HIDE DEF s
    <3>3. /\ r \in ThreadStates /\ r.id = q.id /\ r.rec = q.rec /\ r.type = q.type
          /\ r.pc = "completed" /\ r # NULL
      <4>1. r \in ThreadStates
        BY <1>4, <3>1 DEF ThreadStates, ThreadPcs
      <4>2. /\ r.id = q.id /\ r.rec = q.rec /\ r.type = q.type /\ r.pc = "completed"
        BY <1>4 DEF ThreadStates
      <4> QED BY <1>6, <4>1, <4>2
    <3> HIDE DEF r
    <3>4. Unfinished(q)
      BY <2>1 DEF Unfinished, Works
    <3>5. Becomes(h, t, r) /\ Writes(h, t, r) /\ Locks(h, t, r)
      BY <1>9, <2>1, <3>2, <3>3, <3>4 DEF Becomes, Writes, Locks
    <3> QED BY <3>5 DEF Goal
  <2> QED BY <1>17, <2>2, <2>3 DEF CompleteJob
<1>18. CASE CompletedJob(h, t)
  <2>1. q.status \in {"Stopping", "Aborting", "Erroring"} /\ q.pc = "completed"
    BY <1>1, <1>18 DEF CompletedJob, EndsOK, At
  <2>2. \E s \in Done : ChangeJobStatus(Id(h, t), s)
    <3>1. \E s \in {"Finished", "Aborted", "Errored"} : ChangeJobStatus(Id(h, t), s)
      BY <1>18, <2>1 DEF CompletedJob
    <3> QED BY <3>1 DEF Done
  <2>3. \E e \in {"ok", "error"} : Exit(h, t, e)
    BY <1>18 DEF CompletedJob
  <2>4. UNCHANGED <<runningJobs, lock>>
    BY <1>18 DEF CompletedJob
  <2> QED BY <1>9, <1>11, <2>1, <2>2, <2>3, <2>4 DEF Works
<1>19. CASE CommFlagPauses(h, t) \/ CommFlagResumes(h, t)
  BY <1>10, <1>19 DEF CommFlagPauses, CommFlagResumes, Statuses, Busy, Done, Works, At
<1>20. CASE CommFlagReports(h, t)
  <2>1. q.pc = "work" /\ UNCHANGED jobs /\ ChangeJobStatus(JobID(h, t), "Running")
    BY <1>20 DEF CommFlagReports, At
  <2>2. Unfinished(q)
    BY <2>1 DEF Unfinished, Works
  <2>3. thread' = [thread EXCEPT ![h][t] = q]
    BY <1>1, <2>1 DEF jobs, JobsOK
  <2>4. Becomes(h, t, q) /\ Locks(h, t, q)
    BY <1>3, <1>4, <2>1, <2>3 DEF Becomes, Locks, jobs
  <2>5. Writes(h, t, q)
    BY <1>3, <2>1, <2>2, WritesOther DEF Statuses, Busy, Done
  <2> QED BY <2>4, <2>5 DEF Goal
<1>21. CASE \E e \in {"ok", "error"} : CommandEnds(h, t, e)
  BY <1>11, <1>21 DEF CommandEnds, Works, At
<1>22. CASE TranscodeExited(h, t)
  <2> DEFINE s == GetJobStatus(Id(h, t))
  <2> DEFINE r == [q EXCEPT !.pc = "judge", !.status = s]
  <2>1. s \in Statuses \cup {"Unknown"}
    BY <1>1, StatusTyped
  <2>2. /\ q.pc = "exited" /\ q.type = "transcode" /\ UNCHANGED <<db, runningJobs, lock>>
        /\ thread' = [thread EXCEPT ![h][t] = r]
    BY <1>1, <1>4, <1>22 DEF TranscodeExited, At, Is, JobsOK
  <2> HIDE DEF s
  <2>3. /\ r \in ThreadStates /\ r.id = q.id /\ r.rec = q.rec /\ r.type = q.type
        /\ r.pc = "judge" /\ r.exit = q.exit /\ r # NULL
    <3>1. r \in ThreadStates
      BY <1>4, <2>1 DEF ThreadStates, ThreadPcs
    <3>2. /\ r.id = q.id /\ r.rec = q.rec /\ r.type = q.type /\ r.pc = "judge"
          /\ r.exit = q.exit
      BY <1>4 DEF ThreadStates
    <3> QED BY <1>6, <3>1, <3>2
  <2> HIDE DEF r
  <2>4. Unfinished(r) => Unfinished(q)
    BY <2>2, <2>3 DEF Unfinished, Works
  <2>5. Becomes(h, t, r) /\ Writes(h, t, r) /\ Locks(h, t, r)
    BY <2>2, <2>3, <2>4 DEF Becomes, Writes, Locks
  <2> QED BY <2>5 DEF Goal
<1>23. CASE TranscodeRetries(h, t)
  <2> DEFINE r == [q EXCEPT !.pc = "try", !.retrylimit = @ - 1]
  <2>1. q.retrylimit \in 0..RetryLimit /\ q.retrylimit > 0
    BY <1>4, <1>23 DEF TranscodeRetries, Restarts, ThreadStates
  <2>2. RetryLimit \in Nat
    BY JobQueueAssumption
  <2>3. q.retrylimit - 1 \in 0..RetryLimit
    BY <2>1, <2>2
  <2>4. /\ r \in ThreadStates /\ r.id = q.id /\ r.rec = q.rec /\ r.type = q.type
        /\ r.pc = "try"
    BY <1>4, <2>3 DEF ThreadStates, ThreadPcs
  <2>5. /\ thread' = [thread EXCEPT ![h][t] = r] /\ UNCHANGED <<db, runningJobs, lock>>
        /\ q.pc = "judge" /\ q.exit = "restart"
    BY <1>1, <1>4, <1>23 DEF TranscodeRetries, JobsOK, At, Restarts
  <2> HIDE DEF r
  <2>6. Unfinished(q) /\ r # NULL
    BY <1>6, <2>4, <2>5 DEF Unfinished
  <2>7. Becomes(h, t, r) /\ Writes(h, t, r) /\ Locks(h, t, r)
    BY <2>4, <2>5, <2>6 DEF Becomes, Writes, Locks
  <2> QED BY <2>7 DEF Goal
<1>24. CASE TranscodeOver(h, t) \/ TranscodeLimit(h, t) \/ UserJobExited(h, t)
  <2>1. \E s \in {"Finished", "Errored"} : ChangeJobStatus(Id(h, t), s)
    BY <1>24 DEF TranscodeOver, TranscodeLimit, UserJobExited
  <2>2. \/ Step(h, t, "limit") /\ q.type = "transcode"
        \/ Step(h, t, "remove") /\ q.type # "commflag"
    BY <1>9, <1>24 DEF TranscodeOver, TranscodeLimit, UserJobExited, At, Is
  <2>3. q.type # "commflag" /\ UNCHANGED <<runningJobs, lock>>
    BY <1>24, <2>2 DEF TranscodeOver, TranscodeLimit, UserJobExited
  <2> QED BY <1>12, <2>1, <2>2, <2>3 DEF Done
<1>25. CASE CommFlagExited(h, t)
  <2>1. \E s \in {"Aborted", "Finished", "Errored"} : ChangeJobStatus(Id(h, t), s)
    <3> DEFINE s == CASE thread[h][t].exit = "notFound" -> "Errored"
                      [] thread[h][t].exit # "notFound" /\ Flagged(h, t) -> "Aborted"
                      [] thread[h][t].exit = "ok" -> "Finished"
                      [] OTHER -> "Errored"
    <3>1. s \in {"Aborted", "Finished", "Errored"}
      OBVIOUS
    <3>2. ChangeJobStatus(Id(h, t), s)
      BY <1>25 DEF CommFlagExited
    <3> HIDE DEF s
    <3> QED BY <3>1, <3>2
  <2>2. /\ Step(h, t, "remove") /\ lock[h] = NULL /\ lock' = [lock EXCEPT ![h] = t]
        /\ UNCHANGED runningJobs
    BY <1>25 DEF CommFlagExited
  <2> QED BY <1>12, <2>1, <2>2 DEF Done
<1>26. CASE RemoveRunningJob(h, t)
  <2>1. Becomes(h, t, NULL)
    BY <1>26 DEF RemoveRunningJob, Becomes
  <2>2. Writes(h, t, NULL) /\ Locks(h, t, NULL)
    BY <1>26 DEF RemoveRunningJob, Writes, Locks
  <2> QED BY <2>1, <2>2 DEF Goal
<1> QED BY <1>13, <1>14, <1>15, <1>16, <1>17, <1>18, <1>19, <1>20, <1>21, <1>22, <1>23, <1>24,
           <1>25, <1>26, <1>27 DEF Acts, ThreadStep

-----------------------------------------------------------------------------
(* Steps that bring no row                                                 *)

\* Host h claims rows, recovers its own, goes on with jobs that are its own, and cancels
\* the row it looks at.
RowsGo(h) ==
  /\ DOMAIN db' = DOMAIN db
  /\ \A i \in DOMAIN db :
       /\ \/ db'[i].host = db[i].host
          \/ db[i].host = "" /\ db'[i].host = h /\ db'[i].status = db[i].status
          \/ db[i].host = h /\ db'[i].host = "" /\ Recovering(h) /\ db'[i].status = "Queued"
       /\ \/ db'[i].status = db[i].status
          \/ /\ Recovering(h) /\ db[i].host = h
             /\ db[i].status \notin Done /\ db'[i].status = "Queued"
          \/ /\ Owns(h, i)
             /\ db[i].status \in Done => db'[i].status \in Done
             /\ db'[i].status \in Done => ~IsAt(h, i)'
          \/ qpc[h] = "cancel" /\ x[h] = i /\ db'[i].status = "Cancelled"

\* It takes up jobs that have not ended, and that are next.
WorkGoes(h) ==
  \A g \in Hosts, i \in Ids :
    /\ IsAt(g, i)' => IsAt(g, i) \/ (g = h /\ (i \in DOMAIN db' => db'[i].status \notin Done))
    /\ Owns(g, i)' => Owns(g, i) \/ (g = h /\ (i \in DOMAIN db => IsNext(i)))

\* A host stays where it is,
Stands(h) == /\ qpc'[h] = qpc[h] /\ x'[h] = x[h] /\ snap'[h] = snap[h]
             /\ jobStatus'[h] = jobStatus[h]

\* goes on in its pass,
PassGoes(h) ==
  /\ qpc[h] \in Pass /\ qpc'[h] \in Pass
  /\ snap'[h] = snap[h] /\ x'[h] >= x[h] /\ (qpc'[h] = "scan" => x'[h] > x[h])
  /\ SeenBlocks(h)' /\ CancelOK(h)'

\* begins one,
PassBegins(h) ==
  /\ qpc'[h] = "scan" /\ UNCHANGED db
  /\ DOMAIN snap'[h] = NotDone /\ \A i \in NotDone : snap'[h][i] = db[i]
  /\ SeenBlocks(h)'

\* goes on with what it recovers, or does neither.
RecoveryGoes(h) == Recovering(h) /\ qpc'[h] \in Recovers /\ RecoveryOK(h)'
Ends(h) == qpc'[h] \notin Pass \cup Recovers

HostGoes(h) ==
  /\ \A g \in Hosts \ {h} : Stands(g)
  /\ Stands(h) \/ PassGoes(h) \/ PassBegins(h) \/ RecoveryGoes(h) \/ Ends(h)

LEMMA PlacesApart ==
  /\ Pass \cap Recovers = {} /\ "scan" \in Pass /\ "cancel" \in Pass
  /\ \A h \in Hosts : /\ qpc[h] \in Recovers => Recovering(h)
                      /\ Recovering(h) => qpc[h] \notin Pass
BY DEF Pass, Recovers, Recovering

LEMMA WorkOwned ==
  ASSUME NEW h \in Hosts, NEW i, IsAt(h, i)
  PROVE  Owns(h, i)
BY DEF IsAt, Owns

\* So every row of the table, of a snapshot and of a thread is its own.
LEMMA RowsTracked ==
  ASSUME JobsAreTheirs, OrderInv
  PROVE  /\ \A i \in DOMAIN db : Tracked(i)
         /\ \A h \in Hosts : \A i \in DOMAIN snap[h] : Tracked(i)
         /\ \A h \in Hosts, t \in Threads :
              thread[h][t] # NULL => Tracked(thread[h][t].id)
BY DEF JobsAreTheirs, JobIs, OrderInv, AllTracked

\* Such a step keeps the order of a recording's jobs.
LEMMA OrderStays ==
  ASSUME TypeInv, TypeInv', OneOwner, JobsAreTheirs, JobsAreTheirs', OrderInv,
         NEW h \in Hosts, RowsGo(h), WorkGoes(h), HostGoes(h),
         UNCHANGED <<next, upc, dpc>>, SameUse
  PROVE  OrderInv'
<1>1. \A i \in DOMAIN db : i \in Ids /\ i \in Nat
  BY IdsAreNumbers DEF TypeInv, TypeOK, DbOK
<1>2. \A g \in Hosts : /\ x[g] \in Nat /\ x'[g] \in Nat /\ DOMAIN snap[g] \subseteq Nat
                       /\ DOMAIN snap[g] \subseteq Ids
                       /\ qpc[g] \in Pass \cup Recovers => x[g] \in DOMAIN snap[g]
  <2>1. x \in [Hosts -> Ids \cup {0}] /\ x' \in [Hosts -> Ids \cup {0}]
    BY DEF TypeInv, TypeOK, RowsOK
  <2>2. Ids \cup {0} \subseteq Nat
    BY IdsAreNumbers
  <2> QED BY <2>1, <2>2 DEF TypeInv, TypeOK, RowsOK, AtRow
<1>3. \A g \in Hosts, i \in DOMAIN db : Owns(g, i) => db[i].host = g
  BY DEF OneOwner, RowNamesOwner
<1>4. \A i \in Ids : Recovering(h) => ~Owns(h, i)
  <2>1. Recovering(h) => \A t \in Threads : thread[h][t] = NULL
    BY DEF OneOwner, RecoveringIsIdle
  <2> QED BY <2>1 DEF Owns, Has, Starts, Recovering
\* The row that a host cancels is its own, and nobody has it.
<1>5. ASSUME NEW i \in DOMAIN db, qpc[h] = "cancel", x[h] = i
      PROVE  db[i].host = h /\ \A g \in Hosts : ~Owns(g, i)
  <2>1. db[i].host = h /\ snap[h][i].status = "Queued"
    BY <1>5 DEF OrderInv, CancelOK, Row
  <2>2. Ahead(h, i)
    <3>1. i >= x[h]
      BY <1>2, <1>5
    <3> QED BY <1>2, <1>5, <3>1, PlacesApart DEF Ahead
  <2>3. ~Owns(h, i)
    BY <1>1, <1>5, <2>1, <2>2, RowsTracked DEF OneOwner, AheadIsQueued, Owns, Starts
  <2> QED BY <1>3, <2>1, <2>3
<1>6. \A i \in DOMAIN db : db[i].status \in Done => db'[i].status \in Done
  BY DEF RowsGo, Done
\* A status changes by the row's host.
<1>7. \A i \in DOMAIN db : db'[i].status # db[i].status => db[i].host = h
  BY <1>3, <1>5 DEF RowsGo
<1>8. \A i \in DOMAIN db : db[i].rec = db'[i].rec
  <2>1. \A i \in DOMAIN db : db[i].rec = use.jobs[i].rec
    BY DEF JobsAreTheirs, JobIs
  <2>2. \A i \in DOMAIN db' : db'[i].rec = use'.jobs[i].rec
    BY DEF JobsAreTheirs, JobIs
  <2> QED BY <2>1, <2>2 DEF RowsGo, SameUse
<1>9. AllAreThere'
  BY DEF OrderInv, AllAreThere, RowsGo
<1>10. WorkIsNotDone'
  <2> SUFFICES ASSUME NEW g \in Hosts, NEW i \in DOMAIN db', IsAt(g, i)', db'[i].status \in Done
               PROVE  FALSE
    BY DEF WorkIsNotDone
  <2>1. i \in DOMAIN db /\ i \in Ids
    BY <1>1 DEF RowsGo
  <2>2. IsAt(g, i)
    BY <2>1 DEF WorkGoes
  <2>3. db[i].status \notin Done /\ Owns(g, i)
    BY <2>1, <2>2, WorkOwned DEF OrderInv, WorkIsNotDone
  <2>4. g = h
    BY <1>3, <1>7, <2>1, <2>3
  <2>5. ~(qpc[h] = "cancel" /\ x[h] = i)
    BY <1>5, <2>1, <2>3
  <2> QED BY <2>1, <2>3, <2>4, <2>5 DEF RowsGo, Done
<1>11. UnclaimedWaits'
  <2> SUFFICES ASSUME NEW i \in DOMAIN db', db'[i].host = ""
               PROVE  db'[i].status = "Queued"
    BY DEF UnclaimedWaits
  <2>1. CASE db[i].host = ""
    BY <1>7, <2>1, OwnersAreHosts DEF RowsGo, OrderInv, UnclaimedWaits
  <2>2. CASE db[i].host # ""
    BY <2>2, OwnersAreHosts DEF RowsGo
  <2> QED BY <2>1, <2>2
<1>12. InTurn'
  <2> SUFFICES ASSUME NEW g \in Hosts, NEW i \in DOMAIN db', Owns(g, i)',
                      NEW j \in DOMAIN db', j < i, db'[j].rec = db'[i].rec
               PROVE  db'[j].status \in Done
    BY DEF InTurn, IsNext
  <2>1. i \in DOMAIN db /\ j \in DOMAIN db /\ i \in Ids
    BY <1>1 DEF RowsGo
  <2>2. IsNext(i)
    BY <2>1 DEF WorkGoes, OrderInv, InTurn
  <2>3. db[j].status \in Done
    BY <1>8, <2>1, <2>2 DEF IsNext
  <2> QED BY <1>6, <2>1, <2>3
<1>13. ASSUME NEW g \in Hosts, Stands(g)
       PROVE  CancelOK(g)' /\ RecoveryOK(g)' /\ SeenBlocks(g)'
  <2>1. CancelOK(g)'
    <3>1. CancelOK(g) /\ ~(qpc[g] = "cancel" /\ Recovering(g))
      BY PlacesApart DEF OrderInv
    <3> QED BY <1>13, <3>1, OwnersAreHosts DEF CancelOK, Stands, RowsGo, Row
  <2>2. RecoveryOK(g)'
    <3> SUFFICES ASSUME qpc'[g] \in Recovers, NEW i \in DOMAIN snap'[g] \cap DOMAIN db',
                        i >= x'[g]
                 PROVE  db'[i].status \notin Done
      BY DEF RecoveryOK
    <3>1. /\ qpc[g] \in Recovers /\ i \in DOMAIN snap[g] \cap DOMAIN db /\ i >= x[g]
          /\ Recovering(g) /\ qpc[g] # "cancel"
      BY <1>13, PlacesApart DEF Stands, RowsGo
    <3>2. db[i].status \notin Done
      BY <3>1 DEF OrderInv, RecoveryOK
    <3>3. db[i].host = g
      BY <3>1 DEF OneOwner, RecoversOwn
    <3>4. g = h => ~Owns(h, i)
      BY <1>1, <1>4, <3>1
    <3>5. CASE db'[i].status = db[i].status
      BY <3>2, <3>5
    <3>6. CASE db'[i].status # db[i].status
      <4>1. g = h
        BY <1>7, <3>1, <3>3, <3>6
      <4> QED BY <3>1, <3>4, <3>6, <4>1 DEF RowsGo, Done
    <3> QED BY <3>5, <3>6
  <2>3. SeenBlocks(g)'
    <3>1. SeenBlocks(g)
      BY DEF OrderInv
    <3> QED BY <1>13, <3>1 DEF SeenBlocks, Stands
  <2> QED BY <2>1, <2>2, <2>3
<1>14. ASSUME NEW g \in Hosts, Stands(g) \/ (g = h /\ PassGoes(g))
       PROVE  AheadWaits(g)' /\ SnapHasAll(g)'
  <2>1. SnapHasAll(g)'
    <3>1. SnapHasAll(g) /\ snap'[g] = snap[g] /\ (qpc'[g] \in Pass => qpc[g] \in Pass)
      BY <1>14 DEF OrderInv, Stands, PassGoes
    <3> QED BY <1>6, <3>1 DEF SnapHasAll, RowsGo
  <2>2. AheadWaits(g)'
    <3> SUFFICES ASSUME NEW i \in DOMAIN db', Ahead(g, i)', i = x'[g] => qpc'[g] = "scan",
                        snap'[g][i].host = g, snap'[g][i].status = "Queued"
                 PROVE  db'[i].status = "Queued"
      BY DEF AheadWaits
    <3>1. i \in DOMAIN db /\ snap'[g] = snap[g] /\ qpc[g] \in Pass /\ i \in Nat /\ i \in Ids
      BY <1>1, <1>14 DEF RowsGo, Ahead, Stands, PassGoes
    <3>2. i >= x[g] /\ (i = x[g] => qpc[g] = "scan")
      BY <1>2, <1>14, <3>1 DEF Ahead, Stands, PassGoes
    <3>3. Ahead(g, i) /\ i \in DOMAIN snap[g]
      BY <3>1, <3>2 DEF Ahead
    <3>4. db[i].status = "Queued"
      BY <3>1, <3>2, <3>3 DEF OrderInv, AheadWaits
    <3>5. db[i].host = g
      BY <3>1, <3>3 DEF OneOwner, AheadIsMine
    <3>6. ~Owns(g, i)
      <4>1. \A t \in Threads : ~Has(g, t, i)
        BY <3>1, <3>3, RowsTracked DEF OneOwner, AheadIsQueued
      <4> QED BY <3>2, <4>1 DEF Owns, Starts
    <3>7. CASE db'[i].status = db[i].status
      BY <3>4, <3>7
    <3>8. CASE db'[i].status # db[i].status
      <4>1. g = h
        BY <1>7, <3>1, <3>5, <3>8
      <4>2. ~(qpc[g] = "cancel" /\ x[g] = i)
        BY <3>2
      <4> QED BY <3>1, <3>4, <3>6, <3>8, <4>1, <4>2 DEF RowsGo
    <3> QED BY <3>7, <3>8
  <2> QED BY <2>1, <2>2
<1>15. \A g \in Hosts : Ends(g) => /\ CancelOK(g)' /\ RecoveryOK(g)' /\ AheadWaits(g)'
                                  /\ SnapHasAll(g)' /\ SeenBlocks(g)'
  BY PlacesApart DEF Ends, CancelOK, RecoveryOK, AheadWaits, Ahead, SnapHasAll, SeenBlocks
<1>16. PassGoes(h) => CancelOK(h)' /\ RecoveryOK(h)' /\ SeenBlocks(h)'
  BY PlacesApart DEF PassGoes, RecoveryOK
<1>17. RecoveryGoes(h) => /\ CancelOK(h)' /\ RecoveryOK(h)' /\ AheadWaits(h)'
                          /\ SnapHasAll(h)' /\ SeenBlocks(h)'
  BY PlacesApart DEF RecoveryGoes, CancelOK, AheadWaits, Ahead, SnapHasAll, SeenBlocks
<1>18. PassBegins(h) => /\ CancelOK(h)' /\ RecoveryOK(h)' /\ AheadWaits(h)'
                        /\ SnapHasAll(h)' /\ SeenBlocks(h)'
  <2> SUFFICES ASSUME PassBegins(h)
               PROVE  CancelOK(h)' /\ RecoveryOK(h)' /\ AheadWaits(h)' /\ SnapHasAll(h)'
    BY DEF PassBegins
  <2>1. CancelOK(h)' /\ RecoveryOK(h)'
    BY DEF PassBegins, CancelOK, RecoveryOK, Recovers
  <2>2. AheadWaits(h)'
    BY DEF PassBegins, AheadWaits, Ahead
  <2>3. SnapHasAll(h)'
    BY DEF PassBegins, SnapHasAll, NotDone
  <2> QED BY <2>1, <2>2, <2>3
<1>19. \A g \in Hosts : /\ CancelOK(g)' /\ RecoveryOK(g)' /\ AheadWaits(g)'
                        /\ SnapHasAll(g)' /\ SeenBlocks(g)'
  BY <1>13, <1>14, <1>15, <1>16, <1>17, <1>18 DEF HostGoes
<1>20. AllTracked'
  BY TrackedStays DEF OrderInv, AllTracked, SameUse
<1> QED BY <1>9, <1>10, <1>11, <1>12, <1>19, <1>20 DEF OrderInv

-----------------------------------------------------------------------------
(* The lock                                                                *)

LEMMA LockStep ==
  TypeInv /\ RowInv /\ EndsAreTranscodes /\ LockOK /\ [Next]_vars
    => EndsAreTranscodes' /\ LockOK'
<1> SUFFICES ASSUME TypeInv, RowInv, EndsAreTranscodes, LockOK, [Next]_vars
             PROVE  EndsAreTranscodes' /\ LockOK'
  OBVIOUS
<1>1. RowsOK /\ JobsOK
  BY DEF TypeInv, TypeOK
<1>2. /\ \A h \in Hosts : qpc[h] = "child" => lock[h] = QueueThread
      /\ \A h \in Hosts, t \in Threads :
           thread[h][t] # NULL /\ thread[h][t].pc = "remove" /\ thread[h][t].type = "commflag"
             => lock[h] = t
  BY DEF LockOK, At, Is
<1>3. NULL \notin Threads /\ QueueThread \notin Threads /\ NULL # QueueThread
  BY NullAssumption, JobQueueAssumption DEF QueueThread
<1>4. CASE UNCHANGED <<qpc, lock, thread>>
  BY <1>4 DEF LockOK, EndsAreTranscodes, At, Is
<1>5. ASSUME NEW h \in Hosts, QueueStep(h)
      PROVE  EndsAreTranscodes' /\ LockOK'
  <2>1. \A g \in Hosts \ {h} : qpc'[g] = qpc[g]
    BY <1>1, <1>5
       DEF QueueStep, RecoverStep, RecoverQueue, RecoverStatus, RecoverCmds, RecoverHost,
           GetJobsInQueue, SkipElsewhere, SkipBlocked, SkipNotAllowed, StopRunning,
           StopQueued, Cancel, ResetCmds, PauseRunning, ResetStatus, SkipStarted, ClaimJob,
           ProcessJob, NoProgram, StartJob, StartChildJob, ProgramDeleted, NextRow, Advance,
           Goto, RowsOK
  <2>2. CASE StartJob(h)
    <3>1. /\ lock[h] = NULL /\ lock'[h] = QueueThread /\ UNCHANGED thread
          /\ \A g \in Hosts \ {h} : lock'[g] = lock[g]
      BY <1>1, <2>2 DEF StartJob, JobsOK
    <3>2. LockOK'
      BY <1>2, <1>3, <2>1, <3>1 DEF LockOK, At, Is
    <3>3. EndsAreTranscodes'
      BY <3>1 DEF EndsAreTranscodes, Is
    <3> QED BY <3>2, <3>3
  <2>3. CASE StartChildJob(h) \/ ProgramDeleted(h)
    <3>1. /\ lock[h] = QueueThread /\ lock'[h] = NULL /\ qpc'[h] \in {"scan", "fetch"}
          /\ \A g \in Hosts \ {h} : lock'[g] = lock[g]
      BY <1>1, <1>2, <2>3 DEF StartChildJob, ProgramDeleted, NextRow, Advance, JobsOK, RowsOK
    <3>2. \A g \in Hosts, u \in Threads :
            \/ thread'[g][u] = thread[g][u]
            \/ thread'[g][u].pc \in {"command", "run"}
      <4>1. CASE StartChildJob(h)
        <5>1. PICK t \in Threads :
                thread' = [thread EXCEPT ![h][t] = NewThread(Row(h), x[h])]
          BY <4>1 DEF StartChildJob
        <5>2. NewThread(Row(h), x[h]).pc \in {"command", "run"}
          BY DEF NewThread
        <5>3. \A g \in Hosts, u \in Threads :
            thread'[g][u] = IF g = h /\ u = t THEN NewThread(Row(h), x[h]) ELSE thread[g][u]
          BY <1>1, <5>1 DEF JobsOK
        <5> QED BY <5>2, <5>3
      <4>2. CASE ProgramDeleted(h)
        BY <4>2 DEF ProgramDeleted
      <4> QED BY <2>3, <4>1, <4>2
    <3>3. LockOK'
      <4>1. \A g \in Hosts : qpc'[g] = "child" => lock'[g] = QueueThread
        BY <1>2, <2>1, <3>1
      <4>2. ASSUME NEW g \in Hosts, NEW u \in Threads, thread'[g][u] # NULL,
                   thread'[g][u].pc = "remove", thread'[g][u].type = "commflag"
            PROVE  lock'[g] = u
        <5>1. thread'[g][u] = thread[g][u]
          BY <3>2, <4>2
        <5>2. lock[g] = u
          BY <1>2, <4>2, <5>1
        <5> QED BY <1>3, <3>1, <5>2
      <4> QED BY <4>1, <4>2 DEF LockOK, At, Is
    <3>4. EndsAreTranscodes'
      <4> SUFFICES ASSUME NEW g \in Hosts, NEW u \in Threads, thread'[g][u] # NULL,
                          thread'[g][u].pc \in {"complete", "completed", "judge", "limit"}
                   PROVE  thread'[g][u].type = "transcode"
        BY DEF EndsAreTranscodes, Is
      <4>1. thread'[g][u] = thread[g][u]
        BY <3>2
      <4> QED BY <4>1 DEF EndsAreTranscodes, Is
    <3> QED BY <3>3, <3>4
  <2>4. CASE ~StartJob(h) /\ ~StartChildJob(h) /\ ~ProgramDeleted(h)
    <3>1. UNCHANGED <<lock, thread>>
      BY <1>5, <2>4
         DEF QueueStep, RecoverStep, RecoverQueue, RecoverStatus, RecoverCmds, RecoverHost,
             GetJobsInQueue, SkipElsewhere, SkipBlocked, SkipNotAllowed, StopRunning,
             StopQueued, Cancel, ResetCmds, PauseRunning, ResetStatus, SkipStarted, ClaimJob,
             ProcessJob, NoProgram, SetFlag, jobs
    <3>2. qpc'[h] # "child"
      BY <1>1, <1>5, <2>4
         DEF QueueStep, RecoverStep, RecoverQueue, RecoverStatus, RecoverCmds, RecoverHost,
             GetJobsInQueue, SkipElsewhere, SkipBlocked, SkipNotAllowed, StopRunning,
             StopQueued, Cancel, ResetCmds, PauseRunning, ResetStatus, SkipStarted, ClaimJob,
             ProcessJob, NoProgram, NextRow, Advance, Goto, RowsOK
    <3>3. LockOK'
      BY <1>2, <2>1, <3>1, <3>2 DEF LockOK, At, Is
    <3> QED BY <3>1, <3>3 DEF EndsAreTranscodes, Is
  <2> QED BY <2>2, <2>3, <2>4
<1>6. ASSUME NEW h \in Hosts, Crash(h) \/ Restart(h)
      PROVE  EndsAreTranscodes' /\ LockOK'
  <2>1. /\ \A g \in Hosts \ {h} : /\ qpc'[g] = qpc[g] /\ lock'[g] = lock[g]
                                  /\ thread'[g] = thread[g]
        /\ qpc'[h] # "child"
        /\ \/ \A u \in Threads : thread'[h][u] = NULL
           \/ thread'[h] = thread[h] /\ lock'[h] = lock[h]
    BY <1>1, <1>6 DEF Crash, Restart, JobsOK, RowsOK, jobs
  <2>2. LockOK'
    BY <1>2, <2>1 DEF LockOK, At, Is
  <2> QED BY <2>1, <2>2 DEF EndsAreTranscodes, Is
<1>7. ASSUME NEW h \in Hosts, NEW t \in Threads, Acts(h, t)
      PROVE  EndsAreTranscodes' /\ LockOK'
  <2>1. PICK r : Becomes(h, t, r) /\ Locks(h, t, r) /\ UNCHANGED queue /\ thread[h][t] # NULL
    BY <1>7, ThreadDoes
  <2>2. \A g \in Hosts, u \in Threads :
          thread'[g][u] = IF g = h /\ u = t THEN r ELSE thread[g][u]
    BY <1>1, <2>1 DEF Becomes, JobsOK
  <2>3. EndsAreTranscodes'
    BY <2>1, <2>2 DEF EndsAreTranscodes, Is, Becomes
  <2>4. \A g \in Hosts \ {h} : lock'[g] = lock[g]
    BY <1>1, <2>1 DEF Locks, JobsOK
  <2>5. UNCHANGED qpc
    BY <2>1 DEF queue
  <2>6. CASE UNCHANGED lock /\ r # NULL /\ (r.pc = "remove" => r.type # "commflag")
    <3>1. \A g \in Hosts : qpc'[g] = "child" => lock'[g] = QueueThread
      BY <1>2, <2>5, <2>6
    <3>2. ASSUME NEW g \in Hosts, NEW u \in Threads, thread'[g][u] # NULL,
                 thread'[g][u].pc = "remove", thread'[g][u].type = "commflag"
          PROVE  lock'[g] = u
      <4>1. thread'[g][u] = thread[g][u]
        BY <2>2, <2>6, <3>2
      <4> QED BY <1>2, <2>6, <3>2, <4>1
    <3>3. LockOK'
      BY <3>1, <3>2 DEF LockOK, At, Is
    <3> QED BY <2>3, <3>3
  <2>7. CASE lock[h] = NULL /\ lock' = [lock EXCEPT ![h] = t]
    <3>1. lock'[h] = t
      BY <1>1, <2>7 DEF JobsOK
    <3> QED BY <1>2, <1>3, <2>2, <2>3, <2>4, <2>5, <2>7, <3>1 DEF LockOK, At, Is
  <2>8. CASE lock[h] \in {NULL, t} /\ lock' = [lock EXCEPT ![h] = NULL] /\ r = NULL
    <3>1. lock'[h] = NULL
      BY <1>1, <2>8 DEF JobsOK
    <3> QED BY <1>2, <1>3, <2>2, <2>3, <2>4, <2>5, <2>8, <3>1 DEF LockOK, At, Is
  <2> QED BY <2>1, <2>3, <2>6, <2>7, <2>8 DEF Locks
<1>8. CASE UserStep
  <2>1. UNCHANGED <<queue, jobs>>
    BY <1>8 DEF UserStep, QueueJob, QueueDeletes, QueueInserts, StopJob, SelectJob, DialogStop,
            DialogPause, DialogRequeue, DialogDelete, Confirmed, DeleteAllJobs, StopAllJobs,
            WaitForJobs, WaitTimesOut, DeleteRows, Rest
  <2> QED BY <1>4, <2>1 DEF queue, jobs
<1>9. CASE UNCHANGED vars
  BY <1>4, <1>9 DEF vars, queue, jobs
<1> QED BY <1>5, <1>6, <1>7, <1>8, <1>9 DEF Next, Acts

-----------------------------------------------------------------------------
(* Every step keeps the order                                              *)

\* Threads and their children.
LEMMA ThreadOrder ==
  ASSUME TypeInv, TypeInv', OneOwner, RowInv, RowInv', EndsAreTranscodes, OrderInv,
         NEW h \in Hosts, NEW t \in Threads, Acts(h, t), SameUse
  PROVE  OrderInv'
<1> DEFINE id == thread[h][t].id
<1>1. PICK r : /\ Becomes(h, t, r) /\ Writes(h, t, r)
               /\ UNCHANGED <<queue, user>> /\ thread[h][t] # NULL
  BY ThreadDoes
<1>2. DbOK /\ JobsOK
  BY DEF TypeInv, TypeOK
<1>3. \A g \in Hosts, u \in Threads :
        thread'[g][u] = IF g = h /\ u = t THEN r ELSE thread[g][u]
  BY <1>1, <1>2 DEF Becomes, JobsOK
<1>4. id \in Ids
  BY <1>1, <1>2 DEF JobsOK, ThreadStates
<1>5. Has(h, t, id) /\ Owns(h, id)
  BY <1>1 DEF Has, Owns
<1>14. Tracked(id)
  BY <1>1, RowsTracked DEF RowInv
<1>6. \A u \in Threads : Has(h, u, id) => u = t
  BY <1>4, <1>5, <1>14 DEF OneOwner, Once
<1>7. ~Starts(h, id)
  BY <1>4, <1>5, <1>14 DEF OneOwner, Once
<1>8. UNCHANGED <<qpc, x, snap, jobStatus, next, upc, dpc>>
  BY <1>1 DEF queue, user
<1>9. \A i : \A g \in Hosts : Starts(g, i)' <=> Starts(g, i)
  BY <1>8 DEF Starts
<1>10. \A i : \A g \in Hosts, u \in Threads :
         /\ Has(g, u, i)' => Has(g, u, i)
         /\ Has(g, u, i)' /\ Unfinished(thread[g][u])' => Unfinished(thread[g][u])
  <2> SUFFICES ASSUME NEW i, NEW g \in Hosts, NEW u \in Threads, Has(g, u, i)'
               PROVE  Has(g, u, i) /\ (Unfinished(thread'[g][u]) => Unfinished(thread[g][u]))
    BY DEF Unfinished
  <2>1. CASE g = h /\ u = t
    BY <1>1, <1>3, <2>1 DEF Has, Becomes
  <2>2. CASE ~(g = h /\ u = t)
    BY <1>3, <2>2 DEF Has
  <2> QED BY <2>1, <2>2
<1>11. WorkGoes(h)
  BY <1>9, <1>10 DEF WorkGoes, IsAt, Owns
<1>12. HostGoes(h)
  BY <1>8 DEF HostGoes, Stands
<1>13. RowsGo(h)
  <2>1. CASE UNCHANGED db
    BY <2>1 DEF RowsGo
  <2>2. ASSUME NEW s \in Statuses, ChangeJobStatus(Id(h, t), s), r # NULL,
               s \in Done => ~Unfinished(r), s \notin Done => Unfinished(thread[h][t])
        PROVE  RowsGo(h)
    <3>1. /\ DOMAIN db' = DOMAIN db
          /\ \A i \in DOMAIN db : /\ db'[i].host = db[i].host
                                  /\ db'[i].status = IF i = id THEN s ELSE db[i].status
      BY <1>2, <2>2, StatusChanges DEF Id
    <3> HIDE DEF id
    <3>2. CASE id \notin DOMAIN db
      BY <3>1, <3>2 DEF RowsGo
    <3>3. CASE id \in DOMAIN db
      <4>1. s \notin Done => db[id].status \notin Done
        <5>1. s \notin Done => IsAt(h, id)
          BY <1>5, <2>2 DEF IsAt
        <5> QED BY <3>3, <5>1 DEF OrderInv, WorkIsNotDone
      <4>2. PICK i : i = id
        OBVIOUS
      <4>3. s \in Done => ~IsAt(h, i)'
        <5> SUFFICES ASSUME s \in Done, IsAt(h, i)' PROVE FALSE
          OBVIOUS
        <5>1. ~Starts(h, i)'
          BY <1>7, <1>9, <4>2
        <5>2. PICK u \in Threads : Has(h, u, i)' /\ Unfinished(thread'[h][u])
          BY <5>1 DEF IsAt, Unfinished
        <5>3. u = t
          BY <1>6, <1>10, <4>2, <5>2
        <5> QED BY <1>3, <2>2, <5>2, <5>3
      <4>4. ASSUME NEW j \in DOMAIN db
            PROVE  /\ db'[j].host = db[j].host
                   /\ \/ db'[j].status = db[j].status
                      \/ /\ Owns(h, j)
                         /\ db[j].status \in Done => db'[j].status \in Done
                         /\ db'[j].status \in Done => ~IsAt(h, j)'
        <5>1. CASE j = i
          <6>1. db'[j].status = s /\ Owns(h, j)
            BY <1>5, <3>1, <4>2, <5>1
          <6>2. db[j].status \in Done => s \in Done
            BY <4>1, <4>2, <5>1
          <6>3. s \in Done => ~IsAt(h, j)'
            BY <4>3, <5>1
          <6> QED BY <3>1, <6>1, <6>2, <6>3
        <5>2. CASE j # i
          BY <3>1, <4>2, <5>2
        <5> QED BY <5>1, <5>2
      <4> QED BY <3>1, <4>4 DEF RowsGo
    <3> QED BY <3>2, <3>3
  <2>3. ASSUME NEW i \in Ids \cup {NoJob}, NEW s, ChangeJobStatus(i, s),
               i \in DOMAIN db => ~OwnRow(i)
        PROVE  RowsGo(h)
    <3>1. i \notin DOMAIN db
      BY <2>3, RowsTracked DEF RowInv, Tracked
    <3>2. /\ DOMAIN db' = DOMAIN db
          /\ \A j \in DOMAIN db : db'[j].host = db[j].host /\ db'[j].status = db[j].status
      BY <1>2, <2>3, <3>1, StatusChanges
    <3> QED BY <3>2 DEF RowsGo
  <2> QED BY <1>1, <2>1, <2>2, <2>3 DEF Writes
<1> QED BY <1>8, <1>11, <1>12, <1>13, OrderStays DEF RowInv

\* What the pass has seen blocks the recordings of the rows up to this one.
LEMMA Sees ==
  ASSUME TypeInv, OrderInv, NEW h \in Hosts, qpc[h] \in Pass, NEW seen,
         \/ seen = Seen(h)
         \/ seen = jobStatus[h] /\ (qpc[h] # "scan" \/ Blocked(h))
  PROVE  \A i \in DOMAIN snap[h] : i <= x[h] => seen[snap[h][i].rec] \notin Done \cup {NULL}
<1> SUFFICES ASSUME NEW i \in DOMAIN snap[h], i <= x[h]
             PROVE  seen[snap[h][i].rec] \notin Done \cup {NULL}
  OBVIOUS
<1>1. RowsOK /\ SeenBlocks(h) /\ SnapHasAll(h)
  BY DEF TypeInv, TypeOK, OrderInv
<1>2. i \in Nat /\ x[h] \in Nat /\ snap[h][i].rec \in Recordings
  BY <1>1, NumbersTyped, RowsAre DEF RowsOK
<1>3. /\ Row(h) = snap[h][x[h]] /\ x[h] \in DOMAIN snap[h]
      /\ jobStatus[h] \in [Recordings -> Statuses \cup {NULL}]
      /\ Row(h).rec \in Recordings /\ Row(h).status \in Statuses
  BY AtRowTyped, RowsAre DEF Row
<1>4. Row(h).status \notin Done \cup {NULL}
  BY <1>1, <1>3, NullAssumption DEF SnapHasAll
<1>5. i < x[h] \/ (i = x[h] /\ qpc[h] # "scan") =>
        jobStatus[h][snap[h][i].rec] \notin Done \cup {NULL}
  BY <1>1 DEF SeenBlocks
<1>6. CASE seen = Seen(h)
  <2>1. CASE snap[h][i].rec = Row(h).rec
    BY <1>3, <1>4, <1>6, <2>1 DEF Seen
  <2>2. CASE snap[h][i].rec # Row(h).rec
    <3>1. i # x[h]
      BY <1>3, <2>2
    <3>2. i < x[h]
      BY <1>2, <3>1
    <3> QED BY <1>2, <1>3, <1>5, <1>6, <2>2, <3>2 DEF Seen
  <2> QED BY <2>1, <2>2
<1>7. CASE seen = jobStatus[h] /\ (qpc[h] # "scan" \/ Blocked(h))
  <2>1. CASE i = x[h] /\ qpc[h] = "scan"
    BY <1>3, <1>7, <2>1 DEF Blocked
  <2>2. CASE ~(i = x[h] /\ qpc[h] = "scan")
    <3>1. i < x[h] \/ (i = x[h] /\ qpc[h] # "scan")
      BY <1>2, <2>2
    <3> QED BY <1>5, <1>7, <3>1
  <2> QED BY <2>1, <2>2
<1> QED BY <1>6, <1>7

\* The pass goes on to the next row, or ends.
LEMMA PassAdvances ==
  ASSUME TypeInv, OrderInv, NEW h \in Hosts, qpc[h] \in Pass, NEW seen, NEW any,
         NextRow(h, seen, any),
         \/ seen = Seen(h)
         \/ seen = jobStatus[h] /\ (qpc[h] # "scan" \/ Blocked(h))
  PROVE  HostGoes(h) /\ qpc'[h] \in {"scan", "fetch"}
<1>1. RowsOK /\ SeenOK
  BY DEF TypeInv, TypeOK
<1>2. x[h] \in Nat /\ DOMAIN snap[h] \subseteq Nat
  BY <1>1, NumbersTyped
<1>3. \A g \in Hosts \ {h} : Stands(g)
  BY <1>1 DEF NextRow, Advance, Stands, RowsOK, SeenOK
<1>4. CASE Later(h) = {}
  <2>1. qpc'[h] = "fetch"
    BY <1>1, <1>4 DEF NextRow, Advance, RowsOK
  <2> QED BY <1>3, <2>1 DEF HostGoes, Ends, Pass, Recovers
<1>5. CASE Later(h) # {}
  <2>1. /\ qpc'[h] = "scan" /\ snap'[h] = snap[h] /\ x'[h] = Least(Later(h))
        /\ jobStatus'[h] = seen
    BY <1>1, <1>5 DEF NextRow, Advance, RowsOK, SeenOK
  <2>2. /\ Least(Later(h)) \in Later(h) /\ \A j \in Later(h) : Least(Later(h)) <= j
    <3>1. Later(h) \subseteq Nat
      BY <1>2 DEF Later
    <3> QED BY <1>5, <3>1, LeastIn
  <2>3. x'[h] \in Nat /\ x'[h] > x[h]
    BY <1>2, <2>1, <2>2 DEF Later
  <2>4. \A i \in DOMAIN snap[h] : i < x'[h] => i <= x[h]
    <3> SUFFICES ASSUME NEW i \in DOMAIN snap[h], i < x'[h], ~(i <= x[h]) PROVE FALSE
      OBVIOUS
    <3>1. i \in Later(h) /\ i \in Nat
      BY <1>2 DEF Later
    <3>2. x'[h] <= i
      BY <2>1, <2>2, <3>1
    <3> QED BY <2>3, <3>1, <3>2
  <2>5. SeenBlocks(h)'
    <3>1. \A i \in DOMAIN snap[h] : i <= x[h] => seen[snap[h][i].rec] \notin Done \cup {NULL}
      BY Sees
    <3> QED BY <2>1, <2>4, <3>1 DEF SeenBlocks
  <2>6. CancelOK(h)'
    BY <2>1 DEF CancelOK
  <2>7. x'[h] >= x[h]
    BY <1>2, <2>3
  <2> QED BY <1>3, <2>1, <2>3, <2>5, <2>6, <2>7, PlacesApart DEF HostGoes, PassGoes
<1> QED BY <1>4, <1>5

\* The pass stays at its row.
LEMMA PassStays ==
  ASSUME TypeInv, OrderInv, NEW h \in Hosts, qpc[h] \in Pass,
         NEW pc \in Pass \ {"scan"}, Goto(h, pc),
         \/ jobStatus' = [jobStatus EXCEPT ![h] = Seen(h)]
         \/ UNCHANGED jobStatus /\ qpc[h] # "scan",
         pc = "cancel" => /\ Row(h).status = "Queued"
                          /\ x[h] \in DOMAIN db' => db'[x[h]].host = h
  PROVE  HostGoes(h) /\ qpc'[h] = pc /\ x'[h] = x[h]
<1>1. RowsOK /\ SeenOK
  BY DEF TypeInv, TypeOK
<1>2. x[h] \in Nat /\ DOMAIN snap[h] \subseteq Nat
  BY <1>1, NumbersTyped
<1>3. \A g \in Hosts \ {h} : Stands(g)
  BY <1>1 DEF Goto, Stands, RowsOK, SeenOK
<1>4. qpc'[h] = pc /\ x'[h] = x[h] /\ snap'[h] = snap[h]
  BY <1>1 DEF Goto, RowsOK
<1>5. SeenBlocks(h)'
  <2>1. \A i \in DOMAIN snap[h] : i < x[h] \/ i = x[h] => i <= x[h]
    BY <1>2
  <2>2. PICK seen : /\ jobStatus'[h] = seen
                    /\ \/ seen = Seen(h)
                       \/ seen = jobStatus[h] /\ (qpc[h] # "scan" \/ Blocked(h))
    BY <1>1 DEF SeenOK
  <2>3. \A i \in DOMAIN snap[h] : i <= x[h] => seen[snap[h][i].rec] \notin Done \cup {NULL}
    BY <2>2, Sees
  <2> QED BY <1>4, <2>1, <2>2, <2>3 DEF SeenBlocks
<1>6. CancelOK(h)'
  BY <1>4 DEF CancelOK, Row
<1>7. x'[h] >= x[h]
  BY <1>2, <1>4
<1> QED BY <1>3, <1>4, <1>5, <1>6, <1>7 DEF HostGoes, PassGoes

\* A step that starts no thread and comes to no job takes up no work.
LEMMA NoNewWork ==
  ASSUME NEW h \in Hosts, UNCHANGED thread,
         \A g \in Hosts, i \in Ids : Starts(g, i)' => Starts(g, i)
  PROVE  WorkGoes(h)
BY DEF WorkGoes, IsAt, Owns, Has

\* Rows that do not change their host or status.
LEMMA SameOrder ==
  ASSUME NEW h \in Hosts, DOMAIN db' = DOMAIN db,
         \A i \in DOMAIN db : db'[i].host = db[i].host /\ db'[i].status = db[i].status
  PROVE  RowsGo(h)
BY DEF RowsGo

LEMMA RowClaimed ==
  ASSUME DbOK, NEW h \in Hosts, NEW i, Claim(i, h)
  PROVE  /\ RowsGo(h) /\ i \in DOMAIN db /\ DOMAIN db' = DOMAIN db /\ db[i].host = ""
         /\ db'[i].host = h /\ db'[i].status = db[i].status
<1>1. i \in DOMAIN db /\ db[i].host = "" /\ db' = [db EXCEPT ![i].host = h]
  BY DEF Claim, Unclaimed
<1>2. [db[i] EXCEPT !.host = h].host = h /\ [db[i] EXCEPT !.host = h].status = db[i].status
  BY <1>1 DEF DbOK, Rows
<1> QED BY <1>1, <1>2 DEF RowsGo

\* The queue thread at a row that it does not start.
LEMMA ScanOrder ==
  ASSUME TypeInv, TypeInv', OneOwner, JobsAreTheirs, JobsAreTheirs', OrderInv,
         NEW h \in Hosts, SameUse,
         \/ SkipElsewhere(h) \/ SkipBlocked(h) \/ SkipNotAllowed(h) \/ SkipStarted(h)
         \/ StopRunning(h) \/ StopQueued(h) \/ Cancel(h) \/ ResetCmds(h)
         \/ PauseRunning(h) \/ ResetStatus(h)
  PROVE  OrderInv'
<1>1. qpc[h] \in Pass
  BY DEF SkipElsewhere, SkipBlocked, SkipNotAllowed, SkipStarted, StopRunning, StopQueued,
         Cancel, ResetCmds, PauseRunning, ResetStatus, Mine, Here, Pass
<1>2. UNCHANGED <<thread, next, upc, dpc>>
  BY DEF SkipElsewhere, SkipBlocked, SkipNotAllowed, SkipStarted, StopRunning, StopQueued,
         Cancel, ResetCmds, PauseRunning, ResetStatus, SetFlag, jobs, user
<1>3. DbOK
  BY DEF TypeInv, TypeOK
<1>4. SUFFICES RowsGo(h) /\ HostGoes(h) /\ qpc'[h] \notin Starting
  <2>1. ASSUME HostGoes(h), qpc'[h] \notin Starting
        PROVE  \A g \in Hosts, i \in Ids : Starts(g, i)' => Starts(g, i)
    <3> SUFFICES ASSUME NEW g \in Hosts, NEW i \in Ids, Starts(g, i)' PROVE Starts(g, i)
      OBVIOUS
    <3>1. g # h
      BY <2>1 DEF Starts, Starting
    <3> QED BY <2>1, <3>1 DEF HostGoes, Stands, Starts
  <2> QED BY <1>2, <2>1, NoNewWork, OrderStays
<1>5. ASSUME NEW seen, NEW any, NextRow(h, seen, any),
             \/ seen = Seen(h)
             \/ seen = jobStatus[h] /\ (qpc[h] # "scan" \/ Blocked(h))
      PROVE  HostGoes(h) /\ qpc'[h] \notin Starting
  BY <1>1, <1>5, PassAdvances DEF Starting
<1>6. ASSUME UNCHANGED db PROVE RowsGo(h)
  BY <1>6, SameOrder
<1>7. CASE SkipElsewhere(h) \/ SkipNotAllowed(h) \/ SkipStarted(h) \/ StopRunning(h)
  <2>1. UNCHANGED db
    BY <1>7 DEF SkipElsewhere, SkipNotAllowed, SkipStarted, StopRunning
  <2>2. \E any : NextRow(h, Seen(h), any)
    BY <1>7 DEF SkipElsewhere, SkipNotAllowed, SkipStarted, StopRunning
  <2> QED BY <1>5, <1>6, <2>1, <2>2
<1>8. CASE SkipBlocked(h)
  <2>1. UNCHANGED db /\ Blocked(h) /\ NextRow(h, jobStatus[h], started[h])
    BY <1>8 DEF SkipBlocked
  <2> QED BY <1>5, <1>6, <2>1
<1>9. CASE StopQueued(h)
  <2>1. Row(h).status = "Queued"
    BY <1>9 DEF StopQueued, Queued
  <2>2. CASE /\ Claim(x[h], h) /\ Goto(h, "cancel")
             /\ jobStatus' = [jobStatus EXCEPT ![h] = Seen(h)]
    <3>1. RowsGo(h) /\ db'[x[h]].host = h
      BY <1>3, <2>2, RowClaimed
    <3>2. HostGoes(h) /\ qpc'[h] = "cancel"
      BY <1>1, <2>1, <2>2, <3>1, PassStays DEF Pass
    <3> QED BY <3>1, <3>2 DEF Starting
  <2>3. CASE ClaimFails(x[h]) /\ NextRow(h, Seen(h), started[h])
    BY <1>5, <1>6, <2>3 DEF ClaimFails
  <2> QED BY <1>9, <2>2, <2>3 DEF StopQueued
<1>10. CASE Cancel(h)
  <2>1. /\ qpc[h] = "cancel" /\ ChangeJobStatus(x[h], "Cancelled") /\ Goto(h, "run")
        /\ UNCHANGED jobStatus
    BY <1>10 DEF Cancel
  <2>2. RowsGo(h)
    <3>1. /\ DOMAIN db' = DOMAIN db
          /\ \A i \in DOMAIN db : /\ db'[i].host = db[i].host
                                  /\ db'[i].status = IF i = x[h] THEN "Cancelled"
                                                     ELSE db[i].status
      BY <1>3, <2>1, StatusChanges
    <3> QED BY <2>1, <3>1 DEF RowsGo
  <2>3. HostGoes(h) /\ qpc'[h] = "run"
    BY <1>1, <2>1, PassStays DEF Pass
  <2> QED BY <2>2, <2>3 DEF Starting
<1>11. CASE ResetCmds(h)
  <2>1. /\ qpc[h] = "run" /\ ChangeJobCmds(x[h], "Run")
        /\ NextRow(h, jobStatus[h], started[h])
    BY <1>11 DEF ResetCmds
  <2>2. RowsGo(h)
    BY <1>3, <2>1, CmdsChange, SameOrder
  <2> QED BY <1>5, <2>1, <2>2
<1>12. CASE PauseRunning(h)
  <2>1. /\ Goto(h, "run") /\ UNCHANGED db
        /\ jobStatus' = [jobStatus EXCEPT ![h] = Seen(h)]
    BY <1>12 DEF PauseRunning
  <2>2. HostGoes(h) /\ qpc'[h] = "run"
    BY <1>1, <2>1, PassStays DEF Pass
  <2> QED BY <1>6, <2>1, <2>2 DEF Starting
<1>13. CASE ResetStatus(h)
  <2>1. x[h] \in DOMAIN snap[h] /\ x[h] \in Ids /\ x[h] \in Nat
    BY <1>1, AtRowTyped, NumbersTyped DEF TypeInv, TypeOK
  <2>2. Ahead(h, x[h])
    BY <1>1, <2>1 DEF Ahead
  <2>3. Row(h).host # ""
    <3>1. ~Queued(h)
      BY <1>13 DEF ResetStatus
    <3>2. AheadUnclaimed
      BY DEF OneOwner
    <3> QED BY <2>1, <2>2, <3>1, <3>2, RowsTracked DEF AheadUnclaimed, Queued, Row
  <2>4. NextRow(h, Seen(h), started[h]) /\ UNCHANGED db
    BY <1>13, <2>3 DEF ResetStatus
  <2> QED BY <1>5, <1>6, <2>4
<1> QED BY <1>7, <1>8, <1>9, <1>10, <1>11, <1>12, <1>13

\* A pass begins with all rows that are not done.
LEMMA FetchOrder ==
  ASSUME TypeInv, TypeInv', OneOwner, JobsAreTheirs, JobsAreTheirs', OrderInv,
         NEW h \in Hosts, SameUse, GetJobsInQueue(h)
  PROVE  OrderInv'
<1>1. DbOK /\ RowsOK
  BY DEF TypeInv, TypeOK
<1>2. /\ NotDone # {} /\ UNCHANGED <<db, thread, next, upc, dpc, jobStatus>>
      /\ qpc'[h] = "scan" /\ snap'[h] = [i \in NotDone |-> db[i]] /\ x'[h] = Least(NotDone)
      /\ \A g \in Hosts \ {h} : qpc'[g] = qpc[g] /\ snap'[g] = snap[g] /\ x'[g] = x[g]
  BY <1>1 DEF GetJobsInQueue, RowsOK, jobs, user
<1>3. NotDone \subseteq Nat
  BY <1>1, IdsAreNumbers DEF NotDone, DbOK
<1>4. Least(NotDone) \in NotDone /\ \A i \in NotDone : Least(NotDone) <= i
  BY <1>2, <1>3, LeastIn
<1>5. PassBegins(h)
  <2>1. ASSUME NEW i \in NotDone PROVE ~(i < Least(NotDone))
    <3>1. i \in Nat /\ Least(NotDone) \in Nat /\ Least(NotDone) <= i
      BY <1>3, <1>4
    <3> QED BY <3>1
  <2>2. SeenBlocks(h)'
    BY <1>2, <2>1 DEF SeenBlocks
  <2> QED BY <1>2, <2>2 DEF PassBegins
<1>6. HostGoes(h)
  BY <1>2, <1>5 DEF HostGoes, Stands
<1>7. RowsGo(h)
  BY <1>2, SameOrder
<1>8. WorkGoes(h)
  <2>1. \A g \in Hosts, i \in Ids : Starts(g, i)' => Starts(g, i)
    BY <1>2 DEF Starts
  <2> QED BY <1>2, <2>1, NoNewWork
<1> QED BY <1>2, <1>6, <1>7, <1>8, OrderStays

\* A host goes down, and comes back.
LEMMA CrashOrder ==
  ASSUME TypeInv, TypeInv', OneOwner, JobsAreTheirs, JobsAreTheirs', OrderInv,
         NEW h \in Hosts, SameUse, Crash(h) \/ Restart(h)
  PROVE  OrderInv'
<1>1. RowsOK /\ JobsOK /\ SeenOK
  BY DEF TypeInv, TypeOK
<1>2. /\ UNCHANGED <<db, next, upc, dpc>> /\ qpc'[h] \in {"down", "recover"}
      /\ \A g \in Hosts \ {h} : Stands(g)
      /\ \A g \in Hosts, t \in Threads :
           thread'[g][t] = thread[g][t] \/ (g = h /\ thread'[g][t] = NULL)
  BY <1>1 DEF Crash, Restart, RowsOK, JobsOK, SeenOK, Stands, user, jobs
<1>3. HostGoes(h)
  BY <1>2 DEF HostGoes, Ends, Pass, Recovers
<1>4. RowsGo(h)
  BY <1>2, SameOrder
<1>5. WorkGoes(h)
  <2> SUFFICES ASSUME NEW g \in Hosts, NEW i \in Ids
               PROVE  (IsAt(g, i)' => IsAt(g, i)) /\ (Owns(g, i)' => Owns(g, i))
    BY DEF WorkGoes
  <2>1. Starts(g, i)' => Starts(g, i)
    BY <1>2 DEF Starts, Stands
  <2>2. \A t \in Threads : Has(g, t, i)' => Has(g, t, i) /\ thread'[g][t] = thread[g][t]
    BY <1>2 DEF Has
  <2> QED BY <2>1, <2>2 DEF IsAt, Owns, Unfinished
<1> QED BY <1>2, <1>3, <1>4, <1>5, OrderStays

\* What a host recovers has not ended, and is its own.
LEMMA RecoverOrder ==
  ASSUME TypeInv, TypeInv', OneOwner, JobsAreTheirs, JobsAreTheirs', OrderInv,
         NEW h \in Hosts, SameUse, RecoverStep(h)
  PROVE  OrderInv'
<1>1. DbOK /\ RowsOK /\ SeenOK
  BY DEF TypeInv, TypeOK
<1>2. /\ qpc[h] \in {"recover", "requeue", "uncommand", "disclaim"}
      /\ UNCHANGED <<thread, next, upc, dpc>>
      /\ \A g \in Hosts \ {h} : Stands(g)
  BY <1>1 DEF RecoverStep, RecoverQueue, RecoverStatus, RecoverCmds, RecoverHost, Goto, Advance,
         jobs, user, RowsOK, Stands
<1>3. Recovering(h) /\ x[h] \in Nat /\ DOMAIN snap[h] \subseteq Nat
  BY <1>1, <1>2, NumbersTyped DEF Recovering
<1>4. qpc[h] \in Recovers =>
        \A i \in DOMAIN snap[h] \cap DOMAIN db : i >= x[h] =>
          db[i].status \notin Done /\ db[i].host = h
  BY DEF OrderInv, RecoveryOK, OneOwner, RecoversOwn
<1>5. qpc[h] \in Recovers /\ x[h] \in DOMAIN db =>
        db[x[h]].status \notin Done /\ db[x[h]].host = h
  <2>1. qpc[h] \in Recovers => x[h] \in DOMAIN snap[h] /\ x[h] >= x[h]
    BY <1>3 DEF TypeInv, AtRow
  <2> QED BY <1>4, <2>1
<1>6. SUFFICES RowsGo(h) /\ (RecoveryGoes(h) \/ Ends(h))
  <2>1. ASSUME RecoveryGoes(h) \/ Ends(h)
        PROVE  HostGoes(h) /\ WorkGoes(h)
    <3>1. HostGoes(h)
      BY <1>2, <2>1 DEF HostGoes
    <3>2. qpc'[h] \notin Starting
      BY <2>1 DEF RecoveryGoes, Ends, Recovers, Pass, Starting
    <3>3. \A g \in Hosts, i \in Ids : Starts(g, i)' => Starts(g, i)
      BY <1>2, <3>2 DEF Stands, Starts, Starting
    <3> QED BY <1>2, <3>1, <3>3, NoNewWork
  <2> QED BY <1>2, <2>1, OrderStays
<1>7. ASSUME qpc[h] \in Recovers, Advance(h, "requeue"), DOMAIN db' = DOMAIN db,
             \A i \in DOMAIN db : db'[i].status \in Done => db[i].status \in Done
      PROVE  RecoveryGoes(h) \/ Ends(h)
  <2>1. CASE Later(h) # {}
    <3>1. Least(Later(h)) \in Later(h)
      BY <1>3, <2>1, LeastIn DEF Later
    <3>2. qpc'[h] = "requeue" /\ snap'[h] = snap[h] /\ x'[h] \in Nat /\ x'[h] > x[h]
      BY <1>1, <1>3, <1>7, <2>1, <3>1 DEF Advance, Later, RowsOK
    <3>3. \A i \in DOMAIN snap[h] : i >= x'[h] => i >= x[h]
      BY <1>3, <3>2
    <3>4. RecoveryOK(h)'
      BY <1>4, <1>7, <3>2, <3>3 DEF RecoveryOK
    <3> QED BY <1>3, <3>2, <3>4 DEF RecoveryGoes, Recovers
  <2>2. CASE Later(h) = {}
    <3>1. qpc'[h] = "fetch"
      BY <1>1, <1>7, <2>2 DEF Advance, RowsOK
    <3> QED BY <3>1 DEF Ends, Pass, Recovers
  <2> QED BY <2>1, <2>2
<1>8. ASSUME qpc[h] \in Recovers, NEW pc \in Recovers, Goto(h, pc), DOMAIN db' = DOMAIN db,
             \A i \in DOMAIN db : db'[i].status \in Done => db[i].status \in Done
      PROVE  RecoveryGoes(h)
  <2>1. qpc'[h] = pc /\ snap'[h] = snap[h] /\ x'[h] = x[h]
    BY <1>1, <1>8 DEF Goto, RowsOK
  <2>2. RecoveryOK(h)'
    BY <1>4, <1>8, <2>1 DEF RecoveryOK
  <2> QED BY <1>3, <2>1, <2>2, <1>8 DEF RecoveryGoes
<1>9. CASE RecoverQueue(h)
  <2> DEFINE left == {i \in NotDone : Recoverable(db[i], h)}
  <2>1. RowsGo(h)
    BY <1>9, SameOrder DEF RecoverQueue
  <2>2. CASE left = {}
    <3>1. qpc'[h] = "fetch"
      BY <1>1, <1>9, <2>2 DEF RecoverQueue, Goto, RowsOK
    <3> QED BY <2>1, <3>1 DEF Ends, Pass, Recovers
  <2>3. CASE left # {}
    <3>1. snap' = [snap EXCEPT ![h] = [i \in left |-> db[i]]] /\ qpc'[h] = "requeue"
      BY <1>1, <1>9, <2>3 DEF RecoverQueue, RowsOK
    <3>2. \A i \in left : db[i].status \notin Done
      BY DEF NotDone
    <3> HIDE DEF left
    <3>3. DOMAIN snap'[h] = left /\ db' = db
      BY <1>1, <1>9, <3>1 DEF RecoverQueue, RowsOK
    <3>4. RecoveryOK(h)'
      BY <3>2, <3>3 DEF RecoveryOK
    <3> QED BY <1>3, <2>1, <3>1, <3>4 DEF RecoveryGoes, Recovers
  <2> QED BY <2>2, <2>3
<1>10. CASE RecoverStatus(h)
  <2>1. qpc[h] = "requeue" /\ ChangeJobStatus(x[h], "Queued") /\ Goto(h, "uncommand")
    BY <1>10 DEF RecoverStatus
  <2>2. /\ DOMAIN db' = DOMAIN db
        /\ \A i \in DOMAIN db : /\ db'[i].host = db[i].host
                                /\ db'[i].status = IF i = x[h] THEN "Queued" ELSE db[i].status
    BY <1>1, <2>1, StatusChanges
  <2>3. RowsGo(h)
    BY <1>3, <1>5, <2>1, <2>2 DEF RowsGo, Recovers
  <2>4. \A i \in DOMAIN db : db'[i].status \in Done => db[i].status \in Done
    BY <2>2 DEF Done
  <2> QED BY <1>8, <2>1, <2>2, <2>3, <2>4 DEF Recovers
<1>11. CASE RecoverCmds(h)
  <2>1. /\ qpc[h] = "uncommand" /\ ChangeJobCmds(x[h], "Run")
        /\ Goto(h, "disclaim") \/ Advance(h, "requeue")
    BY <1>11 DEF RecoverCmds
  <2>2. /\ DOMAIN db' = DOMAIN db
        /\ \A i \in DOMAIN db : db'[i].host = db[i].host /\ db'[i].status = db[i].status
    BY <1>1, <2>1, CmdsChange
  <2> QED BY <1>7, <1>8, <2>1, <2>2, SameOrder DEF Recovers
<1>12. CASE RecoverHost(h)
  <2>1. qpc[h] = "disclaim" /\ Disclaim(x[h]) /\ Advance(h, "requeue")
    BY <1>12 DEF RecoverHost
  <2>2. /\ DOMAIN db' = DOMAIN db
        /\ \A i \in DOMAIN db : /\ db'[i].status = db[i].status
                                /\ db'[i].host = IF i = x[h] THEN "" ELSE db[i].host
    <3>1. \A r \in Rows : /\ [r EXCEPT !.host = ""].host = ""
                          /\ [r EXCEPT !.host = ""].status = r.status
      BY DEF Rows
    <3> QED BY <1>1, <2>1, <3>1 DEF Disclaim, DbOK
  <2>3. x[h] \in DOMAIN db => db[x[h]].status = "Queued"
    BY <1>5, <2>1, RowsTracked DEF OneOwner, RecoveredIsQueued, Recovers
  <2>4. RowsGo(h)
    BY <1>3, <1>5, <2>1, <2>2, <2>3 DEF RowsGo, Recovers
  <2> QED BY <1>7, <2>1, <2>2, <2>4 DEF Recovers
<1> QED BY <1>9, <1>10, <1>11, <1>12 DEF RecoverStep

\* A host takes up a job when those before it have ended, and it has not.
LEMMA StartOrder ==
  ASSUME TypeInv, TypeInv', OneOwner, JobsAreTheirs, JobsAreTheirs', OrderInv,
         NEW h \in Hosts, SameUse,
         \/ ClaimJob(h) \/ ProcessJob(h) \/ NoProgram(h) \/ StartJob(h)
         \/ StartChildJob(h) \/ ProgramDeleted(h)
  PROVE  OrderInv'
<1>1. DbOK /\ RowsOK /\ JobsOK
  BY DEF TypeInv, TypeOK
<1>2. qpc[h] \in Pass /\ UNCHANGED <<next, upc, dpc>>
  BY DEF ClaimJob, ProcessJob, NoProgram, StartJob, StartChildJob, ProgramDeleted, Mine,
         Here, Pass, user
<1>3. x[h] \in DOMAIN snap[h] /\ x[h] \in Ids /\ x[h] \in Nat
  BY <1>1, <1>2, AtRowTyped, NumbersTyped
<1>4. PICK k : k = x[h]
  OBVIOUS
<1>5. k \in Ids /\ k \in DOMAIN snap[h] /\ k \in Nat /\ Row(h) = snap[h][k] /\ Ahead(h, k)
  BY <1>2, <1>3, <1>4 DEF Row, Ahead
\* A pass that is at another row, or over.
<1>6. ASSUME UNCHANGED thread, HostGoes(h), RowsGo(h),
             \A i \in Ids : Starts(h, i)' => Starts(h, i)
      PROVE  OrderInv'
  <2>1. \A g \in Hosts, i \in Ids : Starts(g, i)' => Starts(g, i)
    BY <1>6 DEF HostGoes, Stands, Starts
  <2> QED BY <1>2, <1>6, <2>1, NoNewWork, OrderStays
\* The host's own job gets a status.
<1>7. ASSUME NEW s \in Statuses, ChangeJobStatus(x[h], s), qpc[h] \in Starting,
             s \in Done => ~Starts(h, k)' /\ UNCHANGED thread
      PROVE  RowsGo(h)
  <2>1. /\ DOMAIN db' = DOMAIN db
        /\ \A i \in DOMAIN db : /\ db'[i].host = db[i].host
                                /\ db'[i].status = IF i = k THEN s ELSE db[i].status
    BY <1>1, <1>4, <1>7, StatusChanges
  <2>2. Starts(h, k)
    BY <1>4, <1>7 DEF Starts, Starting
  <2>3. Owns(h, k) /\ IsAt(h, k) /\ \A t \in Threads : ~Has(h, t, k)
    BY <1>5, <2>2, RowsTracked DEF Owns, IsAt, OneOwner, Once
  <2>4. k \in DOMAIN db => db[k].status \notin Done
    BY <2>3 DEF OrderInv, WorkIsNotDone
  <2>5. s \in Done => ~IsAt(h, k)'
    BY <1>7, <2>3 DEF IsAt, Has
  <2> QED BY <2>1, <2>3, <2>4, <2>5 DEF RowsGo
<1>8. CASE ClaimJob(h)
  <2>1. /\ qpc[h] = "scan" /\ Row(h).status = "Queued" /\ Row(h).host \in {"", h}
        /\ ~Blocked(h) /\ UNCHANGED thread
    BY <1>8 DEF ClaimJob, Mine, Here, Queued, jobs
  <2>2. CASE /\ Row(h).host = "" /\ ClaimFails(x[h]) /\ NextRow(h, Seen(h), FALSE)
    <3>1. HostGoes(h) /\ qpc'[h] \notin Starting
      BY <1>2, <2>2, PassAdvances DEF Starting
    <3>2. RowsGo(h)
      BY <2>2, SameOrder DEF ClaimFails
    <3> QED BY <1>6, <2>1, <3>1, <3>2 DEF Starts, Starting
  <2>3. CASE /\ IF Row(h).host = "" THEN Claim(x[h], h) ELSE UNCHANGED db
             /\ Goto(h, "process")
             /\ jobStatus' = [jobStatus EXCEPT ![h] = Seen(h)]
    <3>1. HostGoes(h) /\ qpc'[h] = "process" /\ x'[h] = k
      BY <1>2, <1>4, <2>3, PassStays DEF Pass
    <3>2. RowsGo(h) /\ DOMAIN db' = DOMAIN db
      <4>1. CASE Row(h).host = ""
        BY <1>1, <2>3, <4>1, RowClaimed
      <4>2. CASE Row(h).host # ""
        BY <2>3, <4>2, SameOrder
      <4> QED BY <4>1, <4>2
    <3>3. k \in DOMAIN db' => db'[k].status \notin Done
      <4>1. CASE Row(h).host = ""
        <5>1. k \in DOMAIN db /\ db[k].host = "" /\ db'[k].status = db[k].status
          BY <1>1, <1>4, <2>3, <4>1, RowClaimed
        <5> QED BY <5>1 DEF OrderInv, UnclaimedWaits, Done
      <4>2. CASE Row(h).host = h
        <5>1. k \in DOMAIN db => db[k].status = "Queued"
          BY <1>4, <1>5, <2>1, <4>2 DEF OrderInv, AheadWaits
        <5>2. UNCHANGED db
          BY <2>3, <4>2, OwnersAreHosts
        <5> QED BY <5>1, <5>2 DEF Done
      <4> QED BY <2>1, <4>1, <4>2
    \* The jobs before it: those in the snapshot would block it, the others have ended.
    <3>4. k \in DOMAIN db => IsNext(k)
      <4> SUFFICES ASSUME k \in DOMAIN db, NEW j \in DOMAIN db, j < k,
                          db[j].rec = db[k].rec, db[j].status \notin Done
                   PROVE  FALSE
        BY DEF IsNext
      <4>1. j \in DOMAIN snap[h]
        BY <1>2, <1>5 DEF OrderInv, SnapHasAll
      <4>2. snap[h][j].rec = Row(h).rec
        <5>1. /\ snap[h][j].rec = use.jobs[j].rec /\ snap[h][k].rec = use.jobs[k].rec
              /\ db[j].rec = use.jobs[j].rec /\ db[k].rec = use.jobs[k].rec
          BY <1>5, <4>1 DEF JobsAreTheirs, JobIs
        <5> QED BY <1>5, <5>1
      <4>3. jobStatus[h][snap[h][j].rec] \notin Done \cup {NULL}
        BY <1>2, <1>4, <4>1 DEF OrderInv, SeenBlocks
      <4> QED BY <2>1, <4>2, <4>3 DEF Blocked
    <3>5. WorkGoes(h)
      <4> SUFFICES ASSUME NEW g \in Hosts, NEW i \in Ids
                   PROVE  /\ IsAt(g, i)' => IsAt(g, i) \/ (g = h /\ i = k)
                          /\ Owns(g, i)' => Owns(g, i) \/ (g = h /\ i = k)
        BY <3>3, <3>4 DEF WorkGoes
      <4>1. Starts(g, i)' => Starts(g, i) \/ (g = h /\ i = k)
        BY <3>1 DEF HostGoes, Stands, Starts
      <4>2. \A t \in Threads : Has(g, t, i)' => Has(g, t, i) /\ thread'[g][t] = thread[g][t]
        BY <2>1 DEF Has
      <4> QED BY <4>1, <4>2 DEF IsAt, Owns, Unfinished
    <3> QED BY <1>2, <3>1, <3>2, <3>5, OrderStays
  <2> QED BY <1>8, <2>2, <2>3 DEF ClaimJob
<1>9. CASE ProcessJob(h)
  <2>1. /\ qpc[h] = "process" /\ ChangeJobStatus(x[h], "Pending") /\ UNCHANGED <<thread, jobStatus>>
        /\ Goto(h, "start") \/ Goto(h, "missing")
    BY <1>9 DEF ProcessJob, jobs
  <2>2. RowsGo(h)
    BY <1>7, <2>1 DEF Statuses, Done, Starting
  <2>3. HostGoes(h) /\ x'[h] = x[h]
    BY <1>2, <2>1, PassStays DEF Pass
  <2> QED BY <1>6, <2>1, <2>2, <2>3 DEF Starts
<1>10. CASE StartJob(h)
  <2>1. /\ qpc[h] = "start" /\ ChangeJobStatus(x[h], "Starting") /\ UNCHANGED <<thread, jobStatus>>
        /\ Goto(h, "child")
    BY <1>10 DEF StartJob
  <2>2. RowsGo(h)
    BY <1>7, <2>1 DEF Statuses, Busy, Done, Starting
  <2>3. HostGoes(h) /\ x'[h] = x[h]
    BY <1>2, <2>1, PassStays DEF Pass
  <2> QED BY <1>6, <2>1, <2>2, <2>3 DEF Starts
<1>11. CASE NoProgram(h) \/ ProgramDeleted(h)
  <2>1. /\ qpc[h] \in {"missing", "child"} /\ UNCHANGED thread
        /\ NextRow(h, jobStatus[h], TRUE)
    BY <1>11 DEF NoProgram, ProgramDeleted, jobs
  <2>2. \E s \in {"Errored", "Cancelled"} : ChangeJobStatus(x[h], s)
    BY <1>11 DEF NoProgram, ProgramDeleted
  <2>3. HostGoes(h) /\ qpc'[h] \notin Starting
    BY <1>2, <2>1, PassAdvances DEF Starting
  <2>4. RowsGo(h)
    BY <1>7, <2>1, <2>2, <2>3 DEF Starts, Starting, Statuses, Done
  <2> QED BY <1>6, <2>1, <2>3, <2>4 DEF Starts, Starting
<1>12. CASE StartChildJob(h)
  <2>1. qpc[h] = "child" /\ UNCHANGED db /\ NextRow(h, jobStatus[h], TRUE)
    BY <1>12 DEF StartChildJob
  <2>2. HostGoes(h) /\ qpc'[h] \notin Starting
    BY <1>2, <2>1, PassAdvances DEF Starting
  <2>3. PICK t \in Threads : thread' = [thread EXCEPT ![h][t] = NewThread(Row(h), x[h])]
    BY <1>12 DEF StartChildJob
  <2>4. \A g \in Hosts, u \in Threads :
          \/ thread'[g][u] = thread[g][u]
          \/ g = h /\ thread'[g][u].id = k
    <3>1. NewThread(Row(h), x[h]).id = k
      BY <1>4 DEF NewThread
    <3>2. \A g \in Hosts, u \in Threads :
            thread'[g][u] = IF g = h /\ u = t THEN NewThread(Row(h), x[h]) ELSE thread[g][u]
      BY <1>1, <2>3 DEF JobsOK
    <3> QED BY <3>1, <3>2
  <2>5. IsAt(h, k) /\ Owns(h, k)
    BY <1>4, <2>1 DEF IsAt, Owns, Starts
  <2>6. WorkGoes(h)
    <3> SUFFICES ASSUME NEW g \in Hosts, NEW i \in Ids
                 PROVE  (IsAt(g, i)' => IsAt(g, i)) /\ (Owns(g, i)' => Owns(g, i))
      BY DEF WorkGoes
    <3>1. Starts(g, i)' => Starts(g, i)
      BY <2>2 DEF HostGoes, Stands, Starts, Starting
    <3>2. \A u \in Threads : Has(g, u, i)' =>
            \/ Has(g, u, i) /\ thread'[g][u] = thread[g][u]
            \/ g = h /\ i = k
      BY <2>4 DEF Has
    <3> QED BY <2>5, <3>1, <3>2 DEF IsAt, Owns, Unfinished
  <2> QED BY <1>2, <2>1, <2>2, <2>6, SameOrder, OrderStays
<1> QED BY <1>8, <1>9, <1>10, <1>11, <1>12

\* Nothing but the table changes, and there only commands.
LEMMA NothingMoves ==
  ASSUME TypeInv, TypeInv', OneOwner, JobsAreTheirs, JobsAreTheirs', OrderInv,
         UNCHANGED <<qpc, x, snap, jobStatus, thread, next, upc, dpc>>, SameUse,
         DOMAIN db' = DOMAIN db,
         \A i \in DOMAIN db : db'[i].host = db[i].host /\ db'[i].status = db[i].status
  PROVE  OrderInv'
<1>1. PICK h : h \in Hosts
  BY JobQueueAssumption
<1>2. RowsGo(h)
  BY <1>1, SameOrder
<1>3. HostGoes(h)
  BY <1>1 DEF HostGoes, Stands
<1>4. WorkGoes(h)
  <2>1. \A g \in Hosts, i \in Ids : Starts(g, i)' => Starts(g, i)
    BY DEF Starts
  <2> QED BY <1>1, <2>1, NoNewWork
<1> QED BY <1>1, <1>2, <1>3, <1>4, OrderStays

\* A new row is the last one, and nobody knows of it.
LEMMA InsertOrder ==
  ASSUME TypeInv, OneOwner, JobsAreTheirs, JobsAreTheirs', OrderInv,
         Insert(next), next' = next + 1, UNCHANGED <<queue, jobs, use, upc, dpc>>
  PROVE  OrderInv'
<1>1. next \in Nat /\ next >= 1 /\ UNCHANGED <<qpc, x, snap, jobStatus, thread>>
  BY DEF TypeInv, TypeOK, UserOK, queue, jobs
<1>2. DOMAIN db = 1..(next - 1) /\ \A i \in DOMAIN db : i \in Nat /\ i < next
  <2>1. DOMAIN db = 1..(next - 1)
    BY DEF OrderInv, AllAreThere
  <2> QED BY <1>1, <2>1
<1>3. /\ DOMAIN db' = DOMAIN db \cup {next} /\ db'[next].status = "Queued"
      /\ \A i \in DOMAIN db : db'[i] = db[i]
  BY <1>2 DEF Insert
<1>4. \A h \in Hosts : \A i \in DOMAIN snap[h] : i \in Nat /\ i < next /\ i # next
  <2>1. \A h \in Hosts : \A i \in DOMAIN snap[h] : i \in Nat
    BY NumbersTyped DEF TypeInv, TypeOK
  <2> QED BY <1>1, <2>1 DEF OneOwner, IdsAreNew
<1>5. \A h \in Hosts : qpc[h] \in Pass => x[h] \in DOMAIN snap[h]
  BY DEF TypeInv, AtRow
<1>6. \A h \in Hosts : \A i : Owns(h, i)' <=> Owns(h, i)
  BY <1>1 DEF Owns, Starts, Has
<1>7. \A h \in Hosts : \A i : IsAt(h, i)' <=> IsAt(h, i)
  BY <1>1 DEF IsAt, Starts, Has, Unfinished
<1>8. \A h \in Hosts : ~Owns(h, next)
  <2> SUFFICES ASSUME NEW h \in Hosts, Owns(h, next) PROVE FALSE
    OBVIOUS
  <2>1. ~Starts(h, next)
    BY <1>4, <1>5 DEF Starts, Pass
  <2>2. PICK t \in Threads : Has(h, t, next)
    BY <2>1 DEF Owns
  <2>3. next < next
    BY <2>2 DEF Has, OneOwner, IdsAreNew
  <2> QED BY <1>1, <2>3
<1>9. AllAreThere'
  <2>1. 1..(next - 1) \cup {next} = 1..((next + 1) - 1)
    BY <1>1
  <2>2. DOMAIN db' = 1..(next' - 1)
    BY <1>2, <1>3, <2>1
  <2> QED BY <2>2 DEF OrderInv, AllAreThere
<1>10. WorkIsNotDone' /\ UnclaimedWaits'
  <2>1. WorkIsNotDone'
    BY <1>3, <1>7 DEF OrderInv, WorkIsNotDone, Done
  <2>2. UnclaimedWaits'
    BY <1>3 DEF OrderInv, UnclaimedWaits
  <2> QED BY <2>1, <2>2
<1>11. InTurn'
  <2> SUFFICES ASSUME NEW h \in Hosts, NEW i \in DOMAIN db', Owns(h, i)',
                      NEW j \in DOMAIN db', j < i, db'[j].rec = db'[i].rec
               PROVE  db'[j].status \in Done
    BY DEF InTurn, IsNext
  <2>1. i \in DOMAIN db /\ Owns(h, i)
    BY <1>3, <1>6, <1>8
  <2>2. j # next
    BY <1>1, <1>2, <2>1
  <2>3. j \in DOMAIN db
    BY <1>3, <2>2
  <2>4. db[j].rec = db[i].rec
    BY <1>3, <2>1, <2>3
  <2>5. db[j].status \in Done
    BY <2>1, <2>3, <2>4 DEF OrderInv, InTurn, IsNext
  <2> QED BY <1>3, <2>3, <2>5
<1>12. ASSUME NEW h \in Hosts
       PROVE  CancelOK(h)' /\ RecoveryOK(h)' /\ AheadWaits(h)' /\ SnapHasAll(h)' /\ SeenBlocks(h)'
  <2>1. CancelOK(h)'
    <3>1. CancelOK(h) /\ (qpc[h] = "cancel" => x[h] # next)
      BY <1>4, <1>5 DEF OrderInv, Pass
    <3> QED BY <1>1, <1>3, <3>1 DEF CancelOK, Row
  <2>2. RecoveryOK(h)'
    BY <1>1, <1>3, <1>4 DEF OrderInv, RecoveryOK
  <2>3. AheadWaits(h)'
    BY <1>1, <1>3, <1>4 DEF OrderInv, AheadWaits, Ahead
  <2>4. SnapHasAll(h)'
    <3> SUFFICES ASSUME qpc[h] \in Pass, NEW i \in DOMAIN snap[h]
                 PROVE  /\ snap[h][i].status \notin Done
                        /\ \A j \in DOMAIN db' :
                             j < i => j \in DOMAIN snap[h] \/ db'[j].status \in Done
      BY <1>1 DEF SnapHasAll
    <3>1. SnapHasAll(h) /\ ~(next < i)
      BY <1>1, <1>4 DEF OrderInv
    <3> QED BY <1>3, <3>1 DEF SnapHasAll
  <2>5. SeenBlocks(h)'
    BY <1>1 DEF OrderInv, SeenBlocks
  <2> QED BY <2>1, <2>2, <2>3, <2>4, <2>5
<1>13. AllTracked'
  BY TrackedStays DEF OrderInv, AllTracked, SameUse
<1> QED BY <1>9, <1>10, <1>11, <1>12, <1>13 DEF OrderInv

\* What users do then: they queue, stop and pause jobs.
LEMMA UserOrder ==
  ASSUME TypeInv, TypeInv', DialogAsks, OneOwner, JobsAreTheirs, JobsAreTheirs', OrderInv,
         InOrder, SameUse, UserStep
  PROVE  OrderInv'
<1>1. /\ upc = "idle" /\ dpc = "idle" /\ DOMAIN db = 1..(next - 1)
      /\ "requeue" \notin use.does /\ "delete" \notin use.does /\ "deleteAll" \notin use.does
  BY DEF OrderInv, AllAreThere, InOrder
<1>2. DbOK /\ next \in Nat
  BY DEF TypeInv, TypeOK, UserOK
<1>3. UNCHANGED <<queue, jobs, use>>
  BY DEF UserStep, QueueJob, QueueDeletes, QueueInserts, StopJob, SelectJob, DialogStop,
         DialogPause, DialogRequeue, DialogDelete, Confirmed, DeleteAllJobs, StopAllJobs,
         WaitForJobs, WaitTimesOut, DeleteRows, Rest
<1>4. ASSUME UNCHANGED db \/ \E i, c : ChangeJobCmds(i, c), UNCHANGED <<next, upc, dpc>>
      PROVE  OrderInv'
  <2>1. /\ DOMAIN db' = DOMAIN db
        /\ \A i \in DOMAIN db : db'[i].host = db[i].host /\ db'[i].status = db[i].status
    BY <1>2, <1>4, CmdsChange
  <2> QED BY <1>3, <1>4, <2>1, NothingMoves DEF queue, jobs
<1>5. CASE QueueJob
  <2> DEFINE j == use.jobs[next]
  <2>1. next \in DOMAIN use.jobs /\ use.jobs \in Seq([rec : Recordings, type : Types])
    <3>1. use.jobs \in Seq([rec : Recordings, type : Types])
      BY UseIs DEF TypeInv, TypeOK
    <3>2. next >= 1
      BY DEF TypeInv, TypeOK, UserOK
    <3> QED BY <1>2, <1>5, <3>1, <3>2 DEF QueueJob
  <2>2. Same(j) = {}
    <3> SUFFICES ASSUME NEW i \in Same(j) PROVE FALSE
      OBVIOUS
    <3>1. i \in DOMAIN db /\ db[i].rec = j.rec /\ db[i].type = j.type
      BY DEF Same
    <3>2. i \in DOMAIN use.jobs /\ use.jobs[i].rec = j.rec /\ use.jobs[i].type = j.type
      BY <3>1 DEF JobsAreTheirs, JobIs
    <3>3. j \in [rec : Recordings, type : Types] /\ use.jobs[i] \in [rec : Recordings, type : Types]
      BY <2>1, <3>2, ElementOf
    <3>4. use.jobs[i] = j
      BY <3>2, <3>3
    <3>5. i = next
      BY <2>1, <3>2, <3>4 DEF InOrder
    <3> QED BY <1>1, <1>2, <3>1, <3>5
  <2>3. Insert(next) /\ next' = next + 1 /\ UNCHANGED <<upc, dpc>>
    BY <1>5, <2>2 DEF QueueJob
  <2> QED BY <1>3, <2>3, InsertOrder
<1>6. CASE QueueDeletes \/ QueueInserts
  BY <1>1, <1>6 DEF QueueDeletes, QueueInserts
<1>7. CASE \E i \in Ids : StopJob(i) \/ SelectJob(i)
  BY <1>4, <1>7 DEF StopJob, SelectJob, user
<1>8. CASE DialogStop \/ DialogPause
  BY <1>4, <1>8 DEF DialogStop, DialogPause, Confirmed
<1>9. CASE DialogRequeue \/ DialogDelete
  BY <1>1, <1>9 DEF DialogRequeue, DialogDelete, Confirmed, DialogAsks
<1>10. CASE (\E r \in Recordings : DeleteAllJobs(r)) \/ StopAllJobs \/ WaitForJobs
            \/ WaitTimesOut \/ DeleteRows
  BY <1>1, <1>10 DEF DeleteAllJobs, StopAllJobs, WaitForJobs, WaitTimesOut, DeleteRows
<1> QED BY <1>5, <1>6, <1>7, <1>8, <1>9, <1>10 DEF UserStep

\* Jobs that nobody queues again have rows of their own.
LEMMA AllAreTracked ==
  ASSUME UseOK, InOrder
  PROVE  AllTracked
<1> SUFFICES ASSUME NEW i \in DOMAIN use.jobs, NEW j \in DOMAIN use.jobs,
                    use.jobs[j] = use.jobs[i]
             PROVE  i <= j
  BY DEF AllTracked, Tracked, OwnRow, InOrder
<1>1. i = j /\ i \in Nat
  BY UseIs, IdsAreNumbers DEF InOrder
<1> QED BY <1>1

\* It holds at first, and every step keeps it.
LEMMA OrderInit == Init /\ InOrder => OrderInv
<1> SUFFICES ASSUME Init, InOrder PROVE OrderInv
  OBVIOUS
<1>1. DOMAIN db = {} /\ next = 1 /\ upc = "idle" /\ dpc = "idle"
  BY DEF Init
<1>2. \A h \in Hosts : qpc[h] = "recover"
  BY DEF Init
<1>3. AllAreThere
  <2>1. 1..(1 - 1) = {}
    OBVIOUS
  <2> QED BY <1>1, <2>1 DEF AllAreThere
<1>4. WorkIsNotDone /\ UnclaimedWaits /\ InTurn
  BY <1>1 DEF WorkIsNotDone, UnclaimedWaits, InTurn
<1>5. \A h \in Hosts : /\ CancelOK(h) /\ RecoveryOK(h) /\ AheadWaits(h) /\ SnapHasAll(h)
                       /\ SeenBlocks(h)
  BY <1>2 DEF CancelOK, RecoveryOK, AheadWaits, Ahead, SnapHasAll, SeenBlocks, Pass, Recovers
<1>6. AllTracked
  BY TypeInit, AllAreTracked DEF TypeInv, TypeOK
<1> QED BY <1>3, <1>4, <1>5, <1>6 DEF OrderInv

LEMMA OrderStep ==
  TypeInv /\ TypeInv' /\ DialogAsks /\ OneOwner /\ RowInv /\ RowInv'
    /\ EndsAreTranscodes /\ OrderInv /\ InOrder /\ [Next]_vars => OrderInv'
<1> SUFFICES ASSUME TypeInv, TypeInv', DialogAsks, OneOwner, RowInv, RowInv',
                    EndsAreTranscodes, OrderInv, InOrder, [Next]_vars
             PROVE  OrderInv'
  OBVIOUS
<1>1. SameUse /\ JobsAreTheirs /\ JobsAreTheirs'
  BY UsersJobs DEF TypeInv, TypeOK, SameUse, RowInv
<1>2. ASSUME NEW h \in Hosts, QueueStep(h) PROVE OrderInv'
  BY <1>1, <1>2, RecoverOrder, FetchOrder, ScanOrder, StartOrder DEF QueueStep
<1>3. ASSUME NEW h \in Hosts, Crash(h) \/ Restart(h) PROVE OrderInv'
  BY <1>1, <1>3, CrashOrder
<1>4. ASSUME NEW h \in Hosts, NEW t \in Threads, Acts(h, t) PROVE OrderInv'
  BY <1>1, <1>4, ThreadOrder
<1>5. CASE UserStep
  BY <1>1, <1>5, UserOrder
<1>6. CASE UNCHANGED vars
  BY <1>1, <1>6, NothingMoves DEF vars, queue, jobs, user
<1> QED BY <1>2, <1>3, <1>4, <1>5, <1>6 DEF Next, Acts

-----------------------------------------------------------------------------
(* Every step keeps the entries                                            *)

\* When a job is started the thread of the job before it is gone: its flagger has let
\* go of the lock.
LEMMA NobodyElse ==
  ASSUME TypeInv, OneOwner, JobsAreTheirs, EndsAreTranscodes, LockOK, OrderInv, FlagsFirst,
         NEW h \in Hosts, qpc[h] = "child", NEW u \in Threads, thread[h][u] # NULL,
         thread[h][u].rec = Row(h).rec
  PROVE  FALSE
<1>1. x[h] \in DOMAIN snap[h] /\ x[h] \in Ids
  BY AtRowTyped DEF Pass
<1>2. PICK k : k = x[h]
  OBVIOUS
<1>3. PICK i : i = thread[h][u].id
  OBVIOUS
<1>4. thread[h][u] \in ThreadStates
  BY DEF TypeInv, TypeOK, JobsOK
<1>5. thread[h][u].pc \in ThreadPcs /\ i \in Ids
  BY <1>3, <1>4 DEF ThreadStates
<1>6. k \in DOMAIN db /\ i \in DOMAIN db /\ k \in Nat /\ i \in Nat
  <2>1. k \in Nat \ {0} /\ i \in Nat \ {0}
    BY <1>1, <1>2, <1>5, IdsAreNumbers
  <2>2. k < next /\ i < next
    BY <1>1, <1>2, <1>3 DEF OneOwner, IdsAreNew
  <2>3. DOMAIN db = 1..(next - 1) /\ next \in Nat
    BY DEF OrderInv, AllAreThere, TypeInv, TypeOK, UserOK
  <2> QED BY <2>1, <2>2, <2>3
<1>7. Starts(h, k) /\ Has(h, u, i)
  BY <1>2, <1>3 DEF Starts, Has
<1>8. i # k
  BY <1>1, <1>2, <1>7, RowsTracked DEF OneOwner, Once
<1>9. Owns(h, k) /\ Owns(h, i) /\ IsAt(h, k)
  BY <1>7 DEF Owns, IsAt
<1>10. /\ i \in DOMAIN use.jobs /\ k \in DOMAIN use.jobs
       /\ db[i].rec = use.jobs[i].rec /\ db[k].rec = use.jobs[k].rec
       /\ thread[h][u].rec = use.jobs[i].rec /\ thread[h][u].type = use.jobs[i].type
       /\ Row(h).rec = use.jobs[k].rec
  BY <1>1, <1>2, <1>3, <1>6 DEF JobsAreTheirs, JobIs, Row
<1>11. db[k].status \notin Done
  BY <1>6, <1>9 DEF OrderInv, WorkIsNotDone
<1>12. ~(k < i)
  BY <1>6, <1>9, <1>10, <1>11 DEF OrderInv, InTurn, IsNext
<1>13. i < k
  BY <1>6, <1>8, <1>12
<1>14. db[i].status \in Done
  BY <1>6, <1>9, <1>10, <1>13 DEF OrderInv, InTurn, IsNext
<1>15. ~Unfinished(thread[h][u])
  BY <1>6, <1>7, <1>14 DEF OrderInv, WorkIsNotDone, IsAt
<1>16. thread[h][u].type = "commflag"
  BY <1>10, <1>13 DEF FlagsFirst
<1>17. thread[h][u].pc = "remove"
  <2>1. thread[h][u].pc \notin {"complete", "completed", "judge", "limit"}
    BY <1>16 DEF EndsAreTranscodes, Is
  <2> QED BY <1>5, <1>15, <1>16, <2>1 DEF ThreadPcs, Unfinished, Works
<1>18. lock[h] = u /\ lock[h] = QueueThread
  BY <1>16, <1>17 DEF LockOK, At, Is
<1> QED BY <1>18, JobQueueAssumption

LEMMA EntriesStep ==
  ASSUME TypeInv, OneOwner, RowInv, EndsAreTranscodes, LockOK, OrderInv, FlagsFirst,
         EntriesAreOwn, [Next]_vars
  PROVE  EntriesAreOwn'
<1>1. JobsOK /\ RowsOK
  BY DEF TypeInv, TypeOK
<1>2. \A h \in Hosts, t \in Threads : thread[h][t] # NULL =>
        /\ runningJobs[h][thread[h][t].rec] # NULL
        /\ runningJobs[h][thread[h][t].rec].thread = t
        /\ thread[h][t].rec \in Recordings
  BY <1>1 DEF EntriesAreOwn, Entry, JobsOK, ThreadStates
<1>3. SUFFICES \A h \in Hosts, t \in Threads : thread'[h][t] # NULL =>
        /\ runningJobs'[h][thread'[h][t].rec] # NULL
        /\ runningJobs'[h][thread'[h][t].rec].thread = t
  BY DEF EntriesAreOwn, Entry
<1>4. CASE UNCHANGED <<runningJobs, thread>>
  BY <1>2, <1>4
<1>5. ASSUME NEW h \in Hosts, StopRunning(h) \/ PauseRunning(h)
      PROVE  \A g \in Hosts, t \in Threads : thread'[g][t] # NULL =>
               /\ runningJobs'[g][thread'[g][t].rec] # NULL
               /\ runningJobs'[g][thread'[g][t].rec].thread = t
  <2>1. PICK flag \in {"Stop", "Pause"} : SetFlag(h, flag)
    BY <1>5 DEF StopRunning, PauseRunning
  <2>2. \A e \in Entries : /\ [e EXCEPT !.flag = flag] # NULL
                           /\ [e EXCEPT !.flag = flag].thread = e.thread
    <3>1. \A e \in Entries : /\ [e EXCEPT !.flag = flag] \in Entries
                             /\ [e EXCEPT !.flag = flag].thread = e.thread
      BY DEF Entries
    <3> QED BY <3>1, NullAssumption
  <2>3. thread' = thread
    BY <2>1 DEF SetFlag
  <2>4. \A g \in Hosts : \A r \in Recordings : runningJobs[g][r] # NULL =>
          runningJobs'[g][r] # NULL /\ runningJobs'[g][r].thread = runningJobs[g][r].thread
    <3> SUFFICES ASSUME NEW g \in Hosts, NEW r \in Recordings, runningJobs[g][r] # NULL
                 PROVE  /\ runningJobs'[g][r] # NULL
                        /\ runningJobs'[g][r].thread = runningJobs[g][r].thread
      OBVIOUS
    <3>1. runningJobs[g][r] \in Entries
      BY <1>1 DEF JobsOK
    <3>2. \/ runningJobs'[g][r] = runningJobs[g][r]
          \/ runningJobs'[g][r] = [runningJobs[g][r] EXCEPT !.flag = flag]
      BY <1>1, <2>1 DEF SetFlag, JobsOK
    <3> QED BY <2>2, <3>1, <3>2
  <2> QED BY <1>2, <2>3, <2>4
<1>6. ASSUME NEW h \in Hosts, StartChildJob(h)
      PROVE  \A g \in Hosts, t \in Threads : thread'[g][t] # NULL =>
               /\ runningJobs'[g][thread'[g][t].rec] # NULL
               /\ runningJobs'[g][thread'[g][t].rec].thread = t
  <2>1. qpc[h] = "child"
    BY <1>6 DEF StartChildJob
  <2>2. Row(h) \in Rows /\ x[h] \in Ids
    BY <2>1, AtRowTyped DEF Pass
  <2>3. PICK t \in Threads :
          /\ thread' = [thread EXCEPT ![h][t] = NewThread(Row(h), x[h])]
          /\ runningJobs' = [runningJobs EXCEPT ![h][Row(h).rec] =
               [id |-> x[h], type |-> Row(h).type, flag |-> "Run", thread |-> t]]
    BY <1>6 DEF StartChildJob
  <2> DEFINE e == [id |-> x[h], type |-> Row(h).type, flag |-> "Run", thread |-> t]
  <2>4. e # NULL /\ e.thread = t
    <3>1. e \in Entries
      BY <2>2 DEF Entries, Rows
    <3> QED BY <3>1, NullAssumption
  <2>5. NewThread(Row(h), x[h]).rec = Row(h).rec /\ Row(h).rec \in Recordings
    BY <2>2 DEF NewThread, Rows
  <2>6. \A g \in Hosts, r \in Recordings :
          runningJobs'[g][r] = IF g = h /\ r = Row(h).rec THEN e ELSE runningJobs[g][r]
    BY <1>1, <2>3 DEF JobsOK
  <2>7. \A g \in Hosts, u \in Threads :
          thread'[g][u] = IF g = h /\ u = t THEN NewThread(Row(h), x[h]) ELSE thread[g][u]
    BY <1>1, <2>3 DEF JobsOK
  <2> HIDE DEF e
  <2> SUFFICES ASSUME NEW g \in Hosts, NEW u \in Threads, thread'[g][u] # NULL
               PROVE  /\ runningJobs'[g][thread'[g][u].rec] # NULL
                      /\ runningJobs'[g][thread'[g][u].rec].thread = u
    OBVIOUS
  <2>8. CASE g = h /\ u = t
    BY <2>4, <2>5, <2>6, <2>7, <2>8
  <2>9. CASE ~(g = h /\ u = t)
    <3>1. thread'[g][u] = thread[g][u] /\ thread[g][u] # NULL
      BY <2>7, <2>9
    <3>2. ~(g = h /\ thread[g][u].rec = Row(h).rec)
      BY <2>1, <3>1, NobodyElse DEF RowInv
    <3> QED BY <1>2, <2>6, <3>1, <3>2
  <2> QED BY <2>8, <2>9
<1>7. ASSUME NEW h \in Hosts, ProgramDeleted(h)
      PROVE  \A g \in Hosts, t \in Threads : thread'[g][t] # NULL =>
               /\ runningJobs'[g][thread'[g][t].rec] # NULL
               /\ runningJobs'[g][thread'[g][t].rec].thread = t
  <2>1. /\ qpc[h] = "child" /\ thread' = thread
        /\ runningJobs' = [runningJobs EXCEPT ![h][Row(h).rec] = NULL]
    BY <1>7 DEF ProgramDeleted
  <2>2. \A g \in Hosts, r \in Recordings :
          g # h \/ r # Row(h).rec => runningJobs'[g][r] = runningJobs[g][r]
    BY <1>1, <2>1 DEF JobsOK
  <2> SUFFICES ASSUME NEW g \in Hosts, NEW u \in Threads, thread[g][u] # NULL
               PROVE  /\ runningJobs'[g][thread[g][u].rec] # NULL
                      /\ runningJobs'[g][thread[g][u].rec].thread = u
    BY <2>1
  <2>3. ~(g = h /\ thread[g][u].rec = Row(h).rec)
    BY <2>1, NobodyElse DEF RowInv
  <2> QED BY <1>2, <2>2, <2>3
<1>8. ASSUME NEW h \in Hosts, Crash(h)
      PROVE  \A g \in Hosts, t \in Threads : thread'[g][t] # NULL =>
               /\ runningJobs'[g][thread'[g][t].rec] # NULL
               /\ runningJobs'[g][thread'[g][t].rec].thread = t
  <2>1. /\ \A t \in Threads : thread'[h][t] = NULL
        /\ \A g \in Hosts \ {h} : thread'[g] = thread[g] /\ runningJobs'[g] = runningJobs[g]
    BY <1>1, <1>8 DEF Crash, JobsOK
  <2> QED BY <1>2, <2>1
<1>9. ASSUME NEW h \in Hosts, NEW t \in Threads, Acts(h, t)
      PROVE  \A g \in Hosts, u \in Threads : thread'[g][u] # NULL =>
               /\ runningJobs'[g][thread'[g][u].rec] # NULL
               /\ runningJobs'[g][thread'[g][u].rec].thread = u
  <2>1. PICK r : Becomes(h, t, r) /\ Locks(h, t, r) /\ thread[h][t] # NULL
    BY <1>9, ThreadDoes
  <2>2. \A g \in Hosts, u \in Threads :
          thread'[g][u] = IF g = h /\ u = t THEN r ELSE thread[g][u]
    BY <1>1, <2>1 DEF Becomes, JobsOK
  <2>3. \A g \in Hosts, u \in Threads : thread'[g][u] # NULL =>
          thread[g][u] # NULL /\ thread'[g][u].rec = thread[g][u].rec
    BY <2>1, <2>2 DEF Becomes
  <2>4. CASE UNCHANGED runningJobs
    BY <1>2, <2>3, <2>4
  <2>5. CASE r = NULL /\ runningJobs' = [runningJobs EXCEPT ![h][thread[h][t].rec] = NULL]
    <3> SUFFICES ASSUME NEW g \in Hosts, NEW u \in Threads, thread'[g][u] # NULL
                 PROVE  /\ runningJobs'[g][thread'[g][u].rec] # NULL
                        /\ runningJobs'[g][thread'[g][u].rec].thread = u
      OBVIOUS
    <3>1. thread[g][u] # NULL /\ thread'[g][u].rec = thread[g][u].rec /\ ~(g = h /\ u = t)
      BY <2>2, <2>3, <2>5
    <3>2. ~(g = h /\ thread[g][u].rec = thread[h][t].rec)
      BY <1>2, <2>1, <3>1
    <3>3. \A q \in Recordings :
            g # h \/ q # thread[h][t].rec => runningJobs'[g][q] = runningJobs[g][q]
      BY <1>1, <2>5 DEF JobsOK
    <3> QED BY <1>2, <3>1, <3>2, <3>3
  <2> QED BY <2>1, <2>4, <2>5 DEF Locks
<1>10. ASSUME NEW h \in Hosts, QueueStep(h), ~StopRunning(h), ~PauseRunning(h),
              ~StartChildJob(h), ~ProgramDeleted(h)
       PROVE  UNCHANGED <<runningJobs, thread>>
  BY <1>10
     DEF QueueStep, RecoverStep, RecoverQueue, RecoverStatus, RecoverCmds, RecoverHost,
         GetJobsInQueue, SkipElsewhere, SkipBlocked, SkipNotAllowed,
         StopQueued, Cancel, ResetCmds, ResetStatus, SkipStarted, ClaimJob,
         ProcessJob, NoProgram, StartJob, jobs
<1>11. ASSUME NEW h \in Hosts, Restart(h)
       PROVE  UNCHANGED <<runningJobs, thread>>
  BY <1>11 DEF Restart, jobs
<1>12. UserStep => UNCHANGED <<runningJobs, thread>>
  BY DEF UserStep, QueueJob, QueueDeletes, QueueInserts, StopJob, SelectJob, DialogStop,
         DialogPause, DialogRequeue, DialogDelete, Confirmed, DeleteAllJobs, StopAllJobs,
         WaitForJobs, WaitTimesOut, DeleteRows, Rest, jobs
<1>13. UNCHANGED vars => UNCHANGED <<runningJobs, thread>>
  BY DEF vars, jobs
<1> QED BY <1>4, <1>5, <1>6, <1>7, <1>8, <1>9, <1>10, <1>11, <1>12, <1>13 DEF Next, Acts

-----------------------------------------------------------------------------
(* The theorems                                                            *)

LEMMA OInit == Init => OInv
<1> SUFFICES ASSUME Init PROVE OInv
  OBVIOUS
<1>1. IInv
  BY TypeInit, RowInvInit, OneOwnerInit DEF IInv
<1>2. \A h \in Hosts : qpc[h] = "recover" /\ \A t \in Threads : thread[h][t] = NULL
  BY DEF Init
<1>3. EndsAreTranscodes /\ LockOK /\ EntriesAreOwn
  BY <1>2 DEF EndsAreTranscodes, LockOK, At, EntriesAreOwn
<1> QED BY <1>1, <1>3, OrderInit DEF OInv

LEMMA OInvStep == OInv /\ [Next]_vars => OInv'
<1> SUFFICES ASSUME OInv, [Next]_vars PROVE OInv'
  OBVIOUS
<1>1. IInv /\ IInv' /\ TypeInv /\ TypeInv' /\ DialogAsks /\ OneOwner /\ RowInv /\ RowInv'
  BY OwnerStep DEF OInv, IInv
<1>2. /\ JobsAreTheirs /\ EndsAreTranscodes /\ EndsAreTranscodes' /\ LockOK /\ LockOK'
  BY <1>1, LockStep DEF OInv, RowInv
<1>3. use'.jobs = use.jobs /\ use'.does = use.does
  BY <1>1, UsersJobs DEF TypeInv, TypeOK
<1>4. (InOrder' => InOrder) /\ (FlagsFirst' => FlagsFirst)
  BY <1>3 DEF InOrder, FlagsFirst
<1>5. ASSUME InOrder PROVE OrderInv
  BY <1>5 DEF OInv
<1>6. ASSUME InOrder' PROVE OrderInv'
  BY <1>1, <1>2, <1>4, <1>5, <1>6, OrderStep
<1>7. ASSUME InOrder', FlagsFirst' PROVE EntriesAreOwn'
  <2>1. EntriesAreOwn
    BY <1>4, <1>7 DEF OInv
  <2> QED BY <1>1, <1>2, <1>4, <1>5, <1>7, <2>1, EntriesStep
<1> QED BY <1>1, <1>2, <1>6, <1>7 DEF OInv

\* The inductive invariant: what the hosts are at, what they know of the table, and what
\* it says of the recordings' jobs agree.
THEOREM OrderInvariance == Spec => []OInv
BY OInit, OInvStep, PTL DEF Spec

\* As long as nobody deletes or requeues a job, or queues one again, no two programs work
\* on a recording's file at a time, whichever hosts run them, and wherever hosts crash
\* and users stop and pause jobs.
THEOREM OneJobPerRecordingHolds == Spec => []OneJobPerRecording
<1>1. OInv => OneJobPerRecording
  <2> SUFFICES ASSUME OInv, InOrder, NEW a \in Working, NEW b \in Working, T(a).rec = T(b).rec
               PROVE  a = b
    BY DEF OneJobPerRecording
  <2>1. TypeInv /\ OneOwner /\ JobsAreTheirs /\ OrderInv
    BY DEF OInv, IInv, RowInv
  <2>2. PICK h \in Hosts, t \in Threads : a = <<h, t>>
    BY DEF Working, Live
  <2>3. PICK g \in Hosts, u \in Threads : b = <<g, u>>
    BY DEF Working, Live
  <2>4. /\ thread[h][t] # NULL /\ thread[h][t].pc \in Works
        /\ thread[g][u] # NULL /\ thread[g][u].pc \in Works
        /\ thread[h][t].rec = thread[g][u].rec
    BY <2>2, <2>3 DEF Working, Live, T
  <2>5. PICK i, k : i = thread[h][t].id /\ k = thread[g][u].id
    OBVIOUS
  <2>6. Has(h, t, i) /\ Has(g, u, k) /\ IsAt(h, i) /\ IsAt(g, k) /\ Owns(h, i) /\ Owns(g, k)
    BY <2>4, <2>5 DEF Has, IsAt, Owns, Unfinished
  <2>7. i \in Ids /\ k \in Ids
    BY <2>1, <2>4, <2>5 DEF TypeInv, TypeOK, JobsOK, ThreadStates
  <2>8. i \in DOMAIN db /\ k \in DOMAIN db /\ i \in Nat /\ k \in Nat
    <3>1. i \in Nat \ {0} /\ k \in Nat \ {0}
      BY <2>7, IdsAreNumbers
    <3>2. i < next /\ k < next
      BY <2>1, <2>4, <2>5 DEF OneOwner, IdsAreNew
    <3>3. DOMAIN db = 1..(next - 1) /\ next \in Nat
      BY <2>1 DEF OrderInv, AllAreThere, TypeInv, TypeOK, UserOK
    <3> QED BY <3>1, <3>2, <3>3
  <2>9. db[i].rec = db[k].rec
    <3>1. /\ thread[h][t].rec = use.jobs[i].rec /\ thread[g][u].rec = use.jobs[k].rec
          /\ db[i].rec = use.jobs[i].rec /\ db[k].rec = use.jobs[k].rec
      BY <2>1, <2>4, <2>5, <2>8 DEF JobsAreTheirs, JobIs
    <3> QED BY <2>4, <3>1
  <2>10. db[i].status \notin Done /\ db[k].status \notin Done
    BY <2>1, <2>6, <2>8 DEF OrderInv, WorkIsNotDone
  <2>11. ~(i < k) /\ ~(k < i)
    BY <2>1, <2>6, <2>8, <2>9, <2>10 DEF OrderInv, InTurn, IsNext
  <2>12. i = k
    BY <2>8, <2>11
  <2>13. h = g
    BY <2>1, <2>6, <2>7, <2>12 DEF OneOwner, OnOneHost
  <2>14. t = u
    <3>1. Tracked(i)
      BY <2>1, <2>8, RowsTracked
    <3> QED BY <2>1, <2>6, <2>7, <2>12, <2>13, <3>1 DEF OneOwner, Once
  <2> QED BY <2>2, <2>3, <2>13, <2>14
<1> QED BY <1>1, OrderInvariance, PTL

\* When, besides, only flaggers come before other jobs of their recording, no thread
\* takes away another's entry in runningJobs, and its program with it.
THEOREM EntryIsOwnHolds == Spec => []EntryIsOwn
<1>1. OInv => EntryIsOwn
  <2> SUFFICES ASSUME OInv, InOrder, FlagsFirst, NEW a \in Live
               PROVE  /\ runningJobs[a[1]][T(a).rec] # NULL
                      /\ runningJobs[a[1]][T(a).rec].thread = a[2]
    BY DEF EntryIsOwn
  <2>1. PICK h \in Hosts, t \in Threads : a = <<h, t>>
    BY DEF Live
  <2>2. a[1] = h /\ a[2] = t /\ thread[h][t] # NULL /\ T(a) = thread[h][t]
    BY <2>1 DEF Live, T
  <2>3. Entry(h, t) # NULL /\ Entry(h, t).thread = t
    BY <2>2 DEF OInv, EntriesAreOwn
  <2> QED BY <2>2, <2>3 DEF Entry
<1> QED BY <1>1, OrderInvariance, PTL

-----------------------------------------------------------------------------
(* The inductive invariant: an end is final                                *)

\* The jobs whose end is final.
Final(i) == OwnRow(i) /\ (use.jobs[i].type = "transcode" => "requeue" \notin use.does)

\* A thread that may still write its job's status.
Writer(h, t, i) == Has(h, t, i) /\ thread[h][t].pc # "remove"

\* It has no queued job, no ended one before it has seen the end, and is alone.
WritersOK(h) ==
  \A i \in DOMAIN db, t \in Threads : Final(i) /\ Writer(h, t, i) =>
    /\ db[i].status # "Queued"
    /\ Unfinished(thread[h][t]) => db[i].status \notin Done
    /\ \A u \in Threads : Writer(h, u, i) => u = t

\* A job that a host is about to start has not ended, and nobody else writes its status.
StartFits(h, i) ==
  Final(i) =>
    /\ db[i].status \notin Done
    /\ qpc[h] # "process" => db[i].status # "Queued"
    /\ \A t \in Threads : ~Writer(h, t, i)
StartsOK(h) == \A i \in DOMAIN db : Starts(h, i) => StartFits(h, i)

\* The rows of the snapshot that the host has, or that it may claim, are still queued.
MineWait(h) ==
  \A i \in DOMAIN db :
    /\ Final(i) /\ Ahead(h, i) /\ (i = x[h] => qpc[h] = "scan")
    /\ snap[h][i].host = h /\ snap[h][i].status = "Queued"
    => db[i].status = "Queued"
UnclaimedWaited(h) ==
  qpc[h] \in Pass =>
    \A i \in DOMAIN snap[h] :
      OwnRow(i) /\ snap[h][i].host = "" => snap[h][i].status = "Queued"

\* A host cancels what it has claimed, and what is queued.
CancelFits(h) ==
  qpc[h] = "cancel" /\ x[h] \in DOMAIN db =>
    db[x[h]].host = h /\ (Final(x[h]) => db[x[h]].status = "Queued")

\* It recovers what has not ended, and disclaims it when it is queued.
RecoveryFits(h) ==
  qpc[h] \in Recovers =>
    \A i \in DOMAIN snap[h] \cap DOMAIN db : OwnRow(i) /\ i >= x[h] =>
      /\ db[i].status \notin Done
      /\ i = x[h] /\ qpc[h] # "requeue" => db[i].status = "Queued"

HostEnds(h) ==
  /\ WritersOK(h) /\ StartsOK(h) /\ MineWait(h) /\ UnclaimedWaited(h)
  /\ CancelFits(h) /\ RecoveryFits(h)

\* A dialog that offers to requeue a job does so as long as that has ended.
RequeuesEnded ==
  dialog # NULL /\ dialog.asks = "requeue" =>
    (dialog.id \in DOMAIN db /\ Final(dialog.id) => db[dialog.id].status \in Done)
DialogIsOld == dialog # NULL => dialog.id < next

\* A row without a host is queued.
OwnRowsWait ==
  \A i \in DOMAIN db : OwnRow(i) /\ db[i].host = "" => db[i].status = "Queued"

EndsAreFinal == OwnRowsWait /\ RequeuesEnded /\ \A h \in Hosts : HostEnds(h)
EndsInv == DialogIsOld /\ ("deleteAll" \notin use.does => EndsAreFinal)

\* What all steps below assume, and keep.
Before == /\ TypeInv /\ TypeInv' /\ RowsInv /\ RowsInv'
          /\ RowInv /\ JobsAreTheirs /\ EndsAreTranscodes /\ EndsAreFinal
          /\ use'.jobs = use.jobs /\ use'.does = use.does
StaysDone ==
  \A i \in DOMAIN db \cap DOMAIN db' :
    Final(i) /\ db[i].status \in Done => db'[i].status \in Done

\* Which ends are final does not change, once it is known what users do.
LEMMA FinalStays ==
  ASSUME use'.jobs = use.jobs, use'.does = use.does, NEW i
  PROVE  (Final(i)' <=> Final(i)) /\ (OwnRow(i)' <=> OwnRow(i)) /\ (Final(i) => OwnRow(i))
BY DEF Final, OwnRow

\* Nobody is at work on a job that has ended and can be requeued.
LEMMA EndedIsFree ==
  ASSUME TypeInv, JobsAreTheirs, EndsAreTranscodes, NEW h \in Hosts, HostEnds(h),
         NEW i \in DOMAIN db, Final(i), db[i].status \in Done, "requeue" \in use.does
  PROVE  ~Starts(h, i) /\ \A t \in Threads : ~Writer(h, t, i)
<1>1. ~Starts(h, i)
  BY DEF HostEnds, StartsOK, StartFits
<1>2. ASSUME NEW t \in Threads, Writer(h, t, i) PROVE FALSE
  <2> DEFINE q == thread[h][t]
  <2>1. q # NULL /\ q.id = i /\ q.pc # "remove"
    BY <1>2 DEF Writer, Has
  <2>2. q.type # "transcode"
    BY <2>1 DEF Final, JobsAreTheirs, JobIs
  <2>3. q.pc \notin {"complete", "completed", "judge", "limit"}
    BY <2>1, <2>2 DEF EndsAreTranscodes, Is
  <2>4. q.pc \in ThreadPcs
    BY <2>1 DEF TypeInv, TypeOK, JobsOK, ThreadStates
  <2>5. Unfinished(q)
    BY <2>1, <2>2, <2>3, <2>4 DEF Unfinished, Works, ThreadPcs
  <2> QED BY <1>2, <2>5 DEF HostEnds, WritersOK
<1> QED BY <1>1, <1>2

\* A host that does nothing, while its rows keep its name: they may be requeued, and a
\* new one may be queued.
LEMMA HostKept ==
  ASSUME Before, NEW g \in Hosts, Halts(g), thread'[g] = thread[g],
         \A i \in DOMAIN db' :
           \/ /\ i \in DOMAIN db
              /\ db[i].host = g <=> db'[i].host = g
              /\ OwnRow(i) /\ db[i].host = g =>
                   \/ db'[i].status = db[i].status
                   \/ /\ db'[i].status = "Queued"
                      /\ Final(i) => ~Starts(g, i) /\ \A t \in Threads : ~Writer(g, t, i)
           \/ i = next /\ db'[i].status = "Queued"
  PROVE  HostEnds(g)'
<1>1. HostEnds(g) /\ qpc'[g] = qpc[g] /\ x'[g] = x[g] /\ snap'[g] = snap[g]
  BY DEF Before, EndsAreFinal, Halts
<1>2. \A i : /\ Final(i)' <=> Final(i)
             /\ OwnRow(i)' <=> OwnRow(i)
             /\ Final(i) => OwnRow(i)
  BY FinalStays DEF Before
<1>3. \A i : \A t \in Threads : /\ Writer(g, t, i)' <=> Writer(g, t, i)
                                /\ Has(g, t, i)' <=> Has(g, t, i)
  BY DEF Writer, Has
<1>4. \A i : (Starts(g, i)' <=> Starts(g, i)) /\ (Ahead(g, i)' <=> Ahead(g, i))
  BY <1>1 DEF Starts, Ahead
<1>5. next \notin DOMAIN snap[g] /\ ~Starts(g, next) /\ \A t \in Threads : ~Writer(g, t, next)
  <2>1. next \in Nat
    BY DEF Before, TypeInv, TypeOK, UserOK
  <2>2. next \notin DOMAIN snap[g]
    BY <2>1 DEF Before, RowsInv, IInv, OneOwner, IdsAreNew
  <2>3. ~Starts(g, next)
    BY <2>2 DEF Before, Starts, TypeInv, AtRow, Pass
  <2>4. \A t \in Threads : ~Writer(g, t, next)
    BY <2>1 DEF Before, Writer, Has, RowsInv, IInv, OneOwner, IdsAreNew
  <2> QED BY <2>2, <2>3, <2>4
<1>6. ASSUME NEW i \in DOMAIN db', OwnRow(i), db'[i].host = g
      PROVE  \/ i \in DOMAIN db /\ db[i].host = g /\ db'[i].status = db[i].status
             \/ /\ db'[i].status = "Queued"
                /\ Final(i) => ~Starts(g, i) /\ \A t \in Threads : ~Writer(g, t, i)
  BY <1>5, <1>6
<1>7. \A i \in DOMAIN db' : Owns(g, i)' => db'[i].host = g
  BY DEF Before, RowsInv, IInv, OneOwner, RowNamesOwner
<1>8. WritersOK(g)'
  <2> SUFFICES ASSUME NEW i \in DOMAIN db', NEW t \in Threads, Final(i)', Writer(g, t, i)'
               PROVE  /\ db'[i].status # "Queued"
                      /\ Unfinished(thread'[g][t]) => db'[i].status \notin Done
                      /\ \A u \in Threads : Writer(g, u, i)' => u = t
    BY DEF WritersOK, Unfinished
  <2>1. Final(i) /\ Writer(g, t, i) /\ db'[i].host = g
    BY <1>2, <1>3, <1>7 DEF Owns, Writer
  <2>2. i \in DOMAIN db /\ db'[i].status = db[i].status
    BY <1>2, <1>6, <2>1
  <2> QED BY <1>1, <1>3, <2>1, <2>2 DEF HostEnds, WritersOK
<1>9. StartsOK(g)'
  <2> SUFFICES ASSUME NEW i \in DOMAIN db', Starts(g, i)', Final(i)'
               PROVE  /\ db'[i].status \notin Done
                      /\ qpc'[g] # "process" => db'[i].status # "Queued"
                      /\ \A t \in Threads : ~Writer(g, t, i)'
    BY DEF StartsOK, StartFits
  <2>1. Final(i) /\ Starts(g, i) /\ db'[i].host = g
    BY <1>2, <1>4, <1>7 DEF Owns
  <2>2. i \in DOMAIN db /\ db'[i].status = db[i].status
    BY <1>2, <1>6, <2>1
  <2> QED BY <1>1, <1>3, <2>1, <2>2 DEF HostEnds, StartsOK, StartFits
<1>10. MineWait(g)'
  <2> SUFFICES ASSUME NEW i \in DOMAIN db', Final(i)', Ahead(g, i)', i = x'[g] => qpc'[g] = "scan",
                      snap'[g][i].host = g, snap'[g][i].status = "Queued"
               PROVE  db'[i].status = "Queued"
    BY DEF MineWait
  <2>1. db'[i].host = g
    BY DEF Before, RowsInv, IInv, OneOwner, AheadIsMine, TypeInv, TypeOK, DbOK
  <2> QED BY <1>1, <1>2, <1>4, <1>6, <2>1 DEF HostEnds, MineWait
<1>11. UnclaimedWaited(g)'
  BY <1>1, <1>2 DEF HostEnds, UnclaimedWaited
<1>12. CancelFits(g)'
  <2> SUFFICES ASSUME qpc'[g] = "cancel", NEW i \in DOMAIN db', i = x'[g]
               PROVE  db'[i].host = g /\ (Final(i) => db'[i].status = "Queued")
    BY <1>2 DEF CancelFits
  <2>1. i \in DOMAIN snap[g]
    BY <1>1 DEF Before, TypeInv, AtRow, Pass
  <2>2. i \in DOMAIN db
    BY <1>5, <2>1
  <2>3. db[i].host = g /\ (Final(i) => db[i].status = "Queued")
    BY <1>1, <2>2 DEF HostEnds, CancelFits
  <2> QED BY <1>2, <1>5, <2>1, <2>2, <2>3
<1>13. RecoveryFits(g)'
  <2> SUFFICES ASSUME qpc'[g] \in Recovers, NEW i \in DOMAIN snap'[g] \cap DOMAIN db',
                      OwnRow(i)', i >= x'[g]
               PROVE  /\ db'[i].status \notin Done
                      /\ i = x'[g] /\ qpc'[g] # "requeue" => db'[i].status = "Queued"
    BY DEF RecoveryFits
  <2>1. db'[i].host = g
    BY DEF Before, RowsInv, IInv, OneOwner, RecoversOwn
  <2>2. OwnRow(i)
    BY <1>2
  <2> QED BY <1>1, <1>6, <2>1, <2>2 DEF HostEnds, RecoveryFits, Done
<1> QED BY <1>8, <1>9, <1>10, <1>11, <1>12, <1>13 DEF HostEnds

-----------------------------------------------------------------------------
(* Steps of one host                                                       *)

\* Host h claims a row that is queued, disclaims one of its own when it is queued, and
\* changes the status of its own, or of one that is not its job's own.
HostsRows(h) ==
  \A i \in DOMAIN db' :
    /\ i \in DOMAIN db
    /\ \/ db'[i].host = db[i].host
       \/ db[i].host = "" /\ db'[i].host = h /\ db'[i].status = db[i].status
       \/ db[i].host = h /\ db'[i].host = "" /\ (OwnRow(i) => db'[i].status = "Queued")
    /\ db'[i].status = db[i].status \/ db[i].host = h \/ ~OwnRow(i)

\* A step of one host that changes rows so, keeps its own part of the invariant and undoes
\* no end keeps the whole.
LEMMA EndsStay ==
  ASSUME Before, NEW h \in Hosts, HostsRows(h), StaysDone, HostEnds(h)', UNCHANGED dialog,
         \A g \in Hosts \ {h} : Halts(g) /\ thread'[g] = thread[g]
  PROVE  EndsAreFinal'
<1>1. \A i : /\ Final(i)' <=> Final(i)
             /\ OwnRow(i)' <=> OwnRow(i)
             /\ Final(i) => OwnRow(i)
  BY FinalStays DEF Before
<1>2. ASSUME NEW g \in Hosts, g # h PROVE HostEnds(g)'
  BY <1>2, HostKept, OwnersAreHosts DEF HostsRows
<1>3. OwnRowsWait'
  BY <1>1, OwnersAreHosts DEF Before, EndsAreFinal, HostsRows, OwnRowsWait
<1>4. RequeuesEnded'
  BY <1>1 DEF Before, EndsAreFinal, HostsRows, RequeuesEnded, StaysDone
<1> QED BY <1>2, <1>3, <1>4 DEF EndsAreFinal

\* In its pass a host claims the row it looks at, and changes its status when it starts
\* or cancels the job, or finds it without a host.
PassRow(h) ==
  \A i \in DOMAIN db' :
    /\ i \in DOMAIN db
    /\ \/ db'[i].host = db[i].host /\ db'[i].status = db[i].status
       \/ /\ i = x[h] /\ db[i].host = "" /\ db'[i].host = h
          /\ db'[i].status = db[i].status
       \/ i = x[h] /\ qpc[h] \in Starting /\ db'[i].host = db[i].host
       \/ /\ i = x[h] /\ qpc[h] = "cancel" /\ db'[i].host = db[i].host
          /\ db'[i].status = "Cancelled"
       \/ ~OwnRow(i) /\ db'[i].host = db[i].host

\* It stays at the row, goes on to a later one, or comes to the end.
PassMove(h) ==
  \/ snap'[h] = snap[h] /\ x'[h] = x[h] /\ qpc'[h] \in Pass \ {"scan"}
  \/ snap'[h] = snap[h] /\ x'[h] > x[h] /\ qpc'[h] = "scan"
  \/ qpc'[h] = "fetch"

\* Such a step keeps the invariant when a job that it starts may be started.
LEMMA PassEnds ==
  ASSUME Before, NEW h \in Hosts, qpc[h] \in Pass, PassRow(h), PassMove(h),
         \A g \in Hosts \ {h} : Halts(g), UNCHANGED <<thread, dialog>>,
         \A i \in DOMAIN db : i = x[h] /\ qpc'[h] \in Starting => StartFits(h, i)',
         qpc'[h] = "cancel" => CancelFits(h)'
  PROVE  EndsAreFinal' /\ StaysDone
<1>1. HostEnds(h) /\ x[h] \in DOMAIN snap[h] /\ x[h] \in Nat
  BY AtRowTyped, NumbersTyped DEF Before, EndsAreFinal, TypeInv, TypeOK
<1>2. \A i : /\ Final(i)' <=> Final(i)
             /\ OwnRow(i)' <=> OwnRow(i)
             /\ Final(i) => OwnRow(i)
  BY FinalStays DEF Before
<1>3. \A i : \A t \in Threads : /\ Writer(h, t, i)' <=> Writer(h, t, i)
                                /\ Has(h, t, i)' <=> Has(h, t, i)
  BY DEF Writer, Has
\* The row whose status changes is the host's own, and no thread has it.
<1>4. ASSUME NEW i \in DOMAIN db', OwnRow(i), db'[i].status # db[i].status
      PROVE  /\ i = x[h] /\ i \in DOMAIN db /\ db[i].host = h
             /\ Final(i) => /\ db[i].status \notin Done
                            /\ \A t \in Threads : ~Writer(h, t, i)
  <2>1. i = x[h] /\ i \in DOMAIN db
    BY <1>4 DEF PassRow
  <2>2. CASE qpc[h] \in Starting
    <3>1. Starts(h, i)
      BY <2>1, <2>2 DEF Starts, Starting
    <3>2. db[i].host = h
      BY <2>1, <3>1 DEF Owns, Before, RowsInv, IInv, OneOwner, RowNamesOwner
    <3>3. StartFits(h, i)
      BY <1>1, <2>1, <3>1 DEF HostEnds, StartsOK
    <3> QED BY <2>1, <3>2, <3>3 DEF StartFits
  <2>3. CASE qpc[h] = "cancel"
    BY <1>1, <2>1, <2>3 DEF HostEnds, CancelFits, WritersOK, Done
  <2> QED BY <1>4, <2>2, <2>3 DEF PassRow
<1>5. StaysDone
  BY <1>2, <1>4 DEF StaysDone
<1>6. HostsRows(h)
  BY <1>4 DEF HostsRows, PassRow
<1>7. WritersOK(h)'
  <2> SUFFICES ASSUME NEW i \in DOMAIN db', NEW t \in Threads, Final(i)', Writer(h, t, i)'
               PROVE  /\ db'[i].status # "Queued"
                      /\ Unfinished(thread'[h][t]) => db'[i].status \notin Done
                      /\ \A u \in Threads : Writer(h, u, i)' => u = t
    BY DEF WritersOK, Unfinished
  <2>1. Final(i) /\ Writer(h, t, i)
    BY <1>2, <1>3
  <2>2. i \in DOMAIN db /\ db'[i].status = db[i].status
    BY <1>2, <1>4, <2>1 DEF PassRow
  <2> QED BY <1>1, <1>3, <2>1, <2>2 DEF HostEnds, WritersOK
<1>8. StartsOK(h)'
  <2> SUFFICES ASSUME NEW i \in DOMAIN db', Starts(h, i)' PROVE StartFits(h, i)'
    BY DEF StartsOK
  <2>1. qpc'[h] \in Starting /\ i = x'[h]
    BY DEF Starts, Starting
  <2>2. i = x[h]
    BY <2>1 DEF PassMove, Starting
  <2>3. i \in DOMAIN db
    BY DEF PassRow
  <2> QED BY <2>1, <2>2, <2>3
<1>9. MineWait(h)'
  <2> SUFFICES ASSUME NEW i \in DOMAIN db', Final(i)', Ahead(h, i)', i = x'[h] => qpc'[h] = "scan",
                      snap'[h][i].host = h, snap'[h][i].status = "Queued"
               PROVE  db'[i].status = "Queued"
    BY DEF MineWait
  <2>1. i \in Nat /\ x'[h] \in Nat /\ i \in DOMAIN snap'[h] /\ i >= x'[h] /\ qpc'[h] \in Pass
    <3>1. Ids \cup {0} \subseteq Nat
      BY IdsAreNumbers
    <3>2. x'[h] \in Ids \cup {0} /\ i \in Ids
      BY DEF Before, TypeInv, TypeOK, RowsOK, DbOK
    <3> QED BY <3>1, <3>2 DEF Ahead
  <2>2. snap'[h] = snap[h] /\ i >= x[h] /\ i # x[h]
    BY <1>1, <2>1 DEF PassMove, Pass
  <2>3. i \in DOMAIN db /\ db'[i].status = db[i].status
    BY <1>2, <1>4, <2>2 DEF PassRow
  <2>4. Ahead(h, i)
    BY <2>1, <2>2 DEF Ahead
  <2> QED BY <1>1, <1>2, <2>2, <2>3, <2>4 DEF HostEnds, MineWait
<1>10. UnclaimedWaited(h)'
  BY <1>1, <1>2 DEF HostEnds, UnclaimedWaited, PassMove, Pass
<1>11. CancelFits(h)'
  BY DEF CancelFits
<1>12. RecoveryFits(h)'
  BY PcsApart DEF RecoveryFits, PassMove, Pass, Recovers
<1> QED BY <1>5, <1>6, <1>7, <1>8, <1>9, <1>10, <1>11, <1>12, EndsStay DEF HostEnds

\* What the queue thread does in its pass is such a step.
LEMMA AdvanceInPass ==
  ASSUME TypeInv, NEW h \in Hosts, qpc[h] \in Pass, Advance(h, "scan")
  PROVE  PassMove(h) /\ qpc'[h] \in {"scan", "fetch"} /\ \A g \in Hosts \ {h} : Halts(g)
<1>1. Later(h) \subseteq Nat
  BY NumbersTyped DEF Later, TypeInv, TypeOK
<1>2. CASE Later(h) # {}
  <2>1. Least(Later(h)) \in Later(h)
    BY <1>1, <1>2, LeastIn
  <2>2. Least(Later(h)) > x[h]
    BY <2>1 DEF Later
  <2> QED BY <1>2, <2>2 DEF Advance, PassMove, Halts, TypeInv, TypeOK, RowsOK
<1>3. CASE Later(h) = {}
  BY <1>3 DEF Advance, PassMove, Halts, TypeInv, TypeOK, RowsOK
<1> QED BY <1>2, <1>3

\* The same, at the row.
LEMMA GotoInPass ==
  ASSUME TypeInv, NEW h \in Hosts, qpc[h] \in Pass, NEW pc \in Pass \ {"scan"}, Goto(h, pc)
  PROVE  /\ PassMove(h) /\ qpc'[h] = pc /\ x'[h] = x[h]
         /\ \A g \in Hosts \ {h} : Halts(g)
BY DEF Goto, PassMove, Halts, TypeInv, TypeOK, RowsOK

\* A command changes neither hosts nor statuses.
LEMMA SamePassRow ==
  ASSUME NEW h \in Hosts, UNCHANGED db \/ \E i, c : DbOK /\ ChangeJobCmds(i, c)
  PROVE  PassRow(h)
BY CmdsChange DEF PassRow

\* A claim.
LEMMA ClaimedPassRow ==
  ASSUME DbOK, NEW h \in Hosts, Claim(x[h], h)
  PROVE  /\ PassRow(h) /\ x[h] \in DOMAIN db /\ db[x[h]].host = ""
         /\ db'[x[h]].host = h /\ db'[x[h]].status = db[x[h]].status
<1>1. x[h] \in DOMAIN db /\ db[x[h]].host = "" /\ db' = [db EXCEPT ![x[h]].host = h]
  BY DEF Claim, Unclaimed
<1>2. /\ [db[x[h]] EXCEPT !.host = h].host = h
      /\ [db[x[h]] EXCEPT !.host = h].status = db[x[h]].status
  BY <1>1 DEF DbOK, Rows
<1> QED BY <1>1, <1>2 DEF PassRow

\* A status that the queue thread writes.
LEMMA StatusPassRow ==
  ASSUME DbOK, NEW h \in Hosts, NEW s, ChangeJobStatus(x[h], s),
         qpc[h] \in Starting \/ (qpc[h] = "cancel" /\ s = "Cancelled")
  PROVE  PassRow(h)
<1>1. /\ DOMAIN db' = DOMAIN db
      /\ \A i \in DOMAIN db : /\ db'[i].host = db[i].host
                              /\ db'[i].status = IF i = x[h] THEN s ELSE db[i].status
  BY StatusChanges
<1> QED BY <1>1 DEF PassRow

\* The queue thread at a row.
LEMMA ScanEnds ==
  ASSUME Before, NEW h \in Hosts,
         \/ SkipElsewhere(h) \/ SkipBlocked(h) \/ SkipNotAllowed(h) \/ SkipStarted(h)
         \/ StopRunning(h) \/ StopQueued(h) \/ Cancel(h) \/ ResetCmds(h)
         \/ PauseRunning(h) \/ ResetStatus(h)
  PROVE  EndsAreFinal' /\ StaysDone
<1>1. qpc[h] \in Pass /\ UNCHANGED <<thread, dialog>>
  BY DEF SkipElsewhere, SkipBlocked, SkipNotAllowed, SkipStarted, StopRunning, StopQueued,
         Cancel, ResetCmds, PauseRunning, ResetStatus, Mine, Here, Pass, SetFlag, jobs, user
<1>2. TypeInv /\ DbOK /\ HostEnds(h) /\ OwnRowsWait
  BY DEF Before, TypeInv, TypeOK, EndsAreFinal
<1>3. ASSUME Advance(h, "scan"), PassRow(h) PROVE EndsAreFinal' /\ StaysDone
  BY <1>1, <1>2, <1>3, AdvanceInPass, PassEnds DEF Starting
<1>4. ASSUME Goto(h, "run"), PassRow(h) PROVE EndsAreFinal' /\ StaysDone
  BY <1>1, <1>2, <1>4, GotoInPass, PassEnds DEF Starting, Pass
<1>5. CASE \/ SkipElsewhere(h) \/ SkipBlocked(h) \/ SkipNotAllowed(h) \/ SkipStarted(h)
           \/ StopRunning(h)
  <2>1. Advance(h, "scan") /\ UNCHANGED db
    BY <1>5 DEF SkipElsewhere, SkipBlocked, SkipNotAllowed, SkipStarted, StopRunning, NextRow
  <2> QED BY <1>3, <2>1, SamePassRow
<1>6. CASE StopQueued(h)
  <2>1. CASE Claim(x[h], h) /\ Goto(h, "cancel")
    <3>1. /\ PassRow(h) /\ x[h] \in DOMAIN db /\ db[x[h]].host = ""
          /\ db'[x[h]].host = h /\ db'[x[h]].status = db[x[h]].status
      BY <1>2, <2>1, ClaimedPassRow
    <3>2. PassMove(h) /\ qpc'[h] = "cancel" /\ x'[h] = x[h] /\ \A g \in Hosts \ {h} : Halts(g)
      BY <1>1, <1>2, <2>1, GotoInPass DEF Pass
    <3>3. Final(x[h]) => db[x[h]].status = "Queued"
      BY <1>2, <3>1 DEF OwnRowsWait, Final
    <3>4. CancelFits(h)'
      BY <3>1, <3>2, <3>3 DEF CancelFits, Final, OwnRow, Before
    <3> QED BY <1>1, <3>1, <3>2, <3>4, PassEnds DEF Starting
  <2>2. CASE ClaimFails(x[h]) /\ Advance(h, "scan")
    BY <1>3, <2>2, SamePassRow DEF ClaimFails
  <2> QED BY <1>6, <2>1, <2>2 DEF StopQueued, NextRow
<1>7. CASE Cancel(h)
  <2>1. qpc[h] = "cancel" /\ ChangeJobStatus(x[h], "Cancelled") /\ Goto(h, "run")
    BY <1>7 DEF Cancel
  <2> QED BY <1>2, <1>4, <2>1, StatusPassRow
<1>8. CASE ResetCmds(h)
  BY <1>2, <1>3, <1>8, SamePassRow DEF ResetCmds, NextRow
<1>9. CASE PauseRunning(h)
  BY <1>4, <1>9, SamePassRow DEF PauseRunning
\* A row of the snapshot without a host is queued, or not its job's own.
<1>10. CASE ResetStatus(h)
  <2>1. x[h] \in DOMAIN snap[h] /\ ~Queued(h)
    BY <1>1, <1>2, <1>10, AtRowTyped DEF ResetStatus
  <2>2. CASE Row(h).host # ""
    <3>1. Advance(h, "scan") /\ UNCHANGED db
      BY <1>10, <2>2 DEF ResetStatus, NextRow
    <3> QED BY <1>3, <3>1, SamePassRow
  <2>3. CASE Row(h).host = ""
    <3>1. ~OwnRow(x[h])
      BY <1>1, <1>2, <2>1, <2>3 DEF HostEnds, UnclaimedWaited, Queued, Row
    <3>2. Goto(h, "run") /\ ChangeJobStatus(x[h], "Queued")
      BY <1>10, <2>3 DEF ResetStatus
    <3>3. PassRow(h)
      BY <1>2, <3>1, <3>2, StatusChanges DEF PassRow
    <3> QED BY <1>4, <3>2, <3>3
  <2> QED BY <2>2, <2>3
<1> QED BY <1>5, <1>6, <1>7, <1>8, <1>9, <1>10

\* A host takes up a job, and gives it a status.
LEMMA StartEnds ==
  ASSUME Before, NEW h \in Hosts,
         ClaimJob(h) \/ ProcessJob(h) \/ NoProgram(h) \/ StartJob(h) \/ ProgramDeleted(h)
  PROVE  EndsAreFinal' /\ StaysDone
<1>1. qpc[h] \in Pass /\ UNCHANGED <<thread, dialog>>
  BY DEF ClaimJob, ProcessJob, NoProgram, StartJob, ProgramDeleted, Mine, Here, Pass, jobs, user
<1>2. TypeInv /\ DbOK /\ HostEnds(h) /\ OwnRowsWait
  BY DEF Before, TypeInv, TypeOK, EndsAreFinal
<1>3. ASSUME Advance(h, "scan"), PassRow(h) PROVE EndsAreFinal' /\ StaysDone
  BY <1>1, <1>2, <1>3, AdvanceInPass, PassEnds DEF Starting
<1>4. PICK k : k = x[h]
  OBVIOUS
<1>5. k \in DOMAIN snap[h] /\ k \in Nat /\ Ahead(h, k) /\ Row(h) = snap[h][k]
  <2>1. k \in DOMAIN snap[h] /\ k \in Nat
    BY <1>1, <1>2, <1>4, AtRowTyped, NumbersTyped DEF TypeInv, TypeOK
  <2> QED BY <1>1, <1>4, <2>1 DEF Ahead, Row
<1>6. /\ \A i : /\ Final(i)' <=> Final(i)
                /\ OwnRow(i)' <=> OwnRow(i)
                /\ Final(i) => OwnRow(i)
      /\ \A i : \A t \in Threads : Writer(h, t, i)' <=> Writer(h, t, i)
  BY <1>1, FinalStays DEF Before, Writer, Has
\* The status that it gives to its own job is not an end, or the pass goes on.
<1>7. ASSUME qpc[h] \in Starting, NEW pc \in Starting \ {"process"}, Goto(h, pc),
             NEW s \in Statuses \ (Done \cup {"Queued"}), ChangeJobStatus(x[h], s)
      PROVE  EndsAreFinal' /\ StaysDone
  <2>1. PassRow(h)
    BY <1>2, <1>7, StatusPassRow
  <2>2. PassMove(h) /\ qpc'[h] = pc /\ x'[h] = k /\ \A g \in Hosts \ {h} : Halts(g)
    BY <1>1, <1>2, <1>4, <1>7, GotoInPass DEF Starting, Pass
  <2>3. Starts(h, k)
    BY <1>4, <1>7 DEF Starts, Starting
  <2>4. k \in DOMAIN db => db'[k].status = s /\ StartFits(h, k)
    BY <1>2, <1>4, <1>7, <2>3, StatusChanges DEF HostEnds, StartsOK
  <2>5. k \in DOMAIN db => StartFits(h, k)'
    BY <1>6, <1>7, <2>4 DEF StartFits
  <2> QED BY <1>1, <1>4, <1>7, <2>1, <2>2, <2>5, PassEnds DEF Starting
<1>8. CASE ClaimJob(h)
  <2>1. qpc[h] = "scan" /\ Queued(h) /\ Row(h).host \in {"", h}
    BY <1>8 DEF ClaimJob, Mine, Here
  <2>2. CASE ClaimFails(x[h]) /\ Advance(h, "scan")
    BY <1>3, <2>2, SamePassRow DEF ClaimFails
  <2>3. CASE /\ IF Row(h).host = "" THEN Claim(x[h], h) ELSE UNCHANGED db
             /\ Goto(h, "process")
    <3>1. PassMove(h) /\ qpc'[h] = "process" /\ x'[h] = k /\ \A g \in Hosts \ {h} : Halts(g)
      BY <1>1, <1>2, <1>4, <2>3, GotoInPass DEF Pass
    <3>2. /\ PassRow(h)
          /\ k \in DOMAIN db => /\ db'[k].status = db[k].status
                                /\ Final(k) => db[k].status = "Queued"
                                /\ \A t \in Threads : Final(k) => ~Writer(h, t, k)
      <4>1. CASE Row(h).host = ""
        <5>1. /\ PassRow(h) /\ k \in DOMAIN db /\ db[k].host = ""
              /\ db'[k].status = db[k].status
          BY <1>2, <1>4, <2>3, <4>1, ClaimedPassRow
        <5>2. Final(k) => db[k].status = "Queued"
          BY <1>2, <5>1 DEF OwnRowsWait, Final
        <5> QED BY <1>2, <5>1, <5>2 DEF HostEnds, WritersOK
      <4>2. CASE Row(h).host = h
        <5>1. UNCHANGED db /\ PassRow(h)
          BY <2>3, <4>2, OwnersAreHosts, SamePassRow
        <5>2. k \in DOMAIN db /\ Final(k) => db[k].status = "Queued"
          BY <1>2, <1>5, <2>1, <4>2 DEF HostEnds, MineWait, Queued
        <5> QED BY <1>2, <5>1, <5>2 DEF HostEnds, WritersOK
      <4> QED BY <2>1, <4>1, <4>2
    <3>3. k \in DOMAIN db => StartFits(h, k)'
      BY <1>6, <3>1, <3>2 DEF StartFits, Done
    <3> QED BY <1>1, <1>4, <3>1, <3>2, <3>3, PassEnds
  <2> QED BY <1>8, <2>2, <2>3 DEF ClaimJob, NextRow
<1>9. CASE ProcessJob(h)
  BY <1>7, <1>9 DEF ProcessJob, Starting, Statuses, Done
<1>10. CASE StartJob(h)
  BY <1>7, <1>10 DEF StartJob, Starting, Statuses, Busy, Done
<1>11. CASE NoProgram(h) \/ ProgramDeleted(h)
  <2>1. qpc[h] \in Starting /\ Advance(h, "scan") /\ \E s : ChangeJobStatus(x[h], s)
    BY <1>11 DEF NoProgram, ProgramDeleted, NextRow, Starting
  <2> QED BY <1>2, <1>3, <2>1, StatusPassRow
<1> QED BY <1>8, <1>9, <1>10, <1>11

\* A host that has no threads, and is not in its pass.
LEMMA IdleEnds ==
  ASSUME NEW h \in Hosts, \A t \in Threads : thread'[h][t] = NULL, qpc'[h] \notin Pass,
         RecoveryFits(h)'
  PROVE  HostEnds(h)'
BY DEF HostEnds, WritersOK, Writer, Has, StartsOK, Starts, MineWait, Ahead, UnclaimedWaited,
       CancelFits, Pass

\* A host goes down, and comes back.
LEMMA CrashEnds ==
  ASSUME Before, NEW h \in Hosts, Crash(h) \/ Restart(h)
  PROVE  EndsAreFinal' /\ StaysDone
<1>1. /\ UNCHANGED <<db, dialog>> /\ qpc'[h] \in {"down", "recover"}
      /\ \A g \in Hosts \ {h} : Halts(g) /\ thread'[g] = thread[g]
  BY DEF Before, TypeInv, TypeOK, RowsOK, JobsOK, Crash, Restart, Halts, user, jobs
<1>2. HostsRows(h) /\ StaysDone
  BY <1>1 DEF HostsRows, StaysDone
<1>3. \A t \in Threads : thread'[h][t] = NULL
  BY <1>1 DEF Before, RowsInv, IInv, OneOwner, RecoveringIsIdle, Recovering
<1>4. HostEnds(h)'
  BY <1>1, <1>3, IdleEnds DEF RecoveryFits, Pass, Recovers
<1> QED BY <1>1, <1>2, <1>4, EndsStay

\* A pass begins.
LEMMA FetchEnds ==
  ASSUME Before, NEW h \in Hosts, GetJobsInQueue(h)
  PROVE  EndsAreFinal' /\ StaysDone
<1>1. /\ UNCHANGED <<db, dialog, thread>> /\ qpc'[h] = "scan"
      /\ DOMAIN snap'[h] = NotDone /\ \A i \in NotDone : snap'[h][i] = db[i]
      /\ \A g \in Hosts \ {h} : Halts(g)
  BY DEF Before, TypeInv, TypeOK, RowsOK, GetJobsInQueue, Halts, user, jobs
<1>2. HostsRows(h) /\ StaysDone
  BY <1>1 DEF HostsRows, StaysDone
<1>3. \A i : /\ Final(i)' <=> Final(i)
             /\ OwnRow(i)' <=> OwnRow(i)
             /\ Final(i) => OwnRow(i)
  BY FinalStays DEF Before
<1>4. \A i : \A t \in Threads : Writer(h, t, i)' <=> Writer(h, t, i)
  BY <1>1 DEF Writer, Has
<1>5. HostEnds(h) /\ OwnRowsWait
  BY DEF Before, EndsAreFinal
<1>6. WritersOK(h)'
  <2> SUFFICES ASSUME NEW i \in DOMAIN db', NEW t \in Threads, Final(i)', Writer(h, t, i)'
               PROVE  /\ db'[i].status # "Queued"
                      /\ Unfinished(thread'[h][t]) => db'[i].status \notin Done
                      /\ \A u \in Threads : Writer(h, u, i)' => u = t
    BY DEF WritersOK, Unfinished
  <2> QED BY <1>1, <1>3, <1>4, <1>5 DEF HostEnds, WritersOK
<1>7. StartsOK(h)' /\ CancelFits(h)' /\ RecoveryFits(h)'
  BY <1>1 DEF StartsOK, Starts, CancelFits, RecoveryFits, Recovers
<1>8. MineWait(h)'
  BY <1>1 DEF MineWait, Ahead
<1>9. UnclaimedWaited(h)'
  BY <1>1, <1>3, <1>5 DEF UnclaimedWaited, OwnRowsWait, NotDone
<1> QED BY <1>1, <1>2, <1>6, <1>7, <1>8, <1>9, EndsStay DEF HostEnds

\* A host recovers.
LEMMA RecoverEnds ==
  ASSUME Before, NEW h \in Hosts, RecoverStep(h)
  PROVE  EndsAreFinal' /\ StaysDone
<1>1. DbOK /\ RowsOK /\ HostEnds(h)
  BY DEF Before, TypeInv, TypeOK, EndsAreFinal
<1>2. /\ qpc[h] \in {"recover", "requeue", "uncommand", "disclaim"}
      /\ qpc'[h] \in {"fetch", "requeue", "uncommand", "disclaim"}
      /\ UNCHANGED <<thread, dialog>>
      /\ \A g \in Hosts \ {h} : Halts(g)
  BY <1>1 DEF RecoverStep, RecoverQueue, RecoverStatus, RecoverCmds, RecoverHost, Goto, Advance,
         jobs, user, RowsOK, Halts
<1>3. \A t \in Threads : thread'[h][t] = NULL
  BY <1>2 DEF Before, RowsInv, IInv, OneOwner, RecoveringIsIdle, Recovering
<1>4. /\ x[h] \in Nat /\ DOMAIN snap[h] \subseteq Nat
      /\ qpc[h] \in Recovers => x[h] \in DOMAIN snap[h] /\ x[h] >= x[h]
  BY <1>1, NumbersTyped DEF Before, TypeInv, AtRow
<1>5. qpc[h] \in Recovers /\ x[h] \in DOMAIN db =>
        /\ db[x[h]].host = h
        /\ OwnRow(x[h]) => /\ db[x[h]].status \notin Done
                           /\ qpc[h] # "requeue" => db[x[h]].status = "Queued"
  BY <1>1, <1>4 DEF Before, RowsInv, IInv, OneOwner, RecoversOwn, HostEnds, RecoveryFits
<1>6. ASSUME HostsRows(h), RecoveryFits(h)',
             \A i \in DOMAIN db \cap DOMAIN db' :
               OwnRow(i) /\ db[i].status \in Done => db'[i].status \in Done
      PROVE  EndsAreFinal' /\ StaysDone
  <2>1. StaysDone
    BY <1>6 DEF StaysDone, Final
  <2>2. HostEnds(h)'
    BY <1>2, <1>3, <1>6, IdleEnds DEF Pass
  <2> QED BY <1>2, <1>6, <2>1, <2>2, EndsStay
\* Other rows stay; this one stays, or becomes queued, or loses its host.
<1>7. ASSUME qpc[h] \in Recovers,
             \A i \in DOMAIN db' :
               /\ i \in DOMAIN db
               /\ db'[i].host = db[i].host \/ (qpc[h] = "disclaim" /\ i = x[h] /\ db'[i].host = "")
               /\ \/ db'[i].status = db[i].status
                  \/ i = x[h] /\ db'[i].status = "Queued",
             \/ qpc'[h] = "fetch"
             \/ qpc'[h] = "requeue" /\ snap'[h] = snap[h] /\ x'[h] > x[h]
             \/ /\ qpc'[h] \in {"uncommand", "disclaim"} /\ snap'[h] = snap[h] /\ x'[h] = x[h]
                /\ x[h] \in DOMAIN db' /\ OwnRow(x[h]) => db'[x[h]].status = "Queued"
      PROVE  EndsAreFinal' /\ StaysDone
  <2>1. "Queued" \notin Done
    BY DEF Done
  <2>2. HostsRows(h)
    BY <1>5, <1>7 DEF HostsRows
  <2>3. \A i \in DOMAIN db \cap DOMAIN db' :
          OwnRow(i) /\ db[i].status \in Done => db'[i].status \in Done
    BY <1>5, <1>7
  <2>4. RecoveryFits(h)'
    <3> SUFFICES ASSUME qpc'[h] \in Recovers, NEW i \in DOMAIN snap'[h] \cap DOMAIN db',
                        OwnRow(i)', i >= x'[h]
                 PROVE  /\ db'[i].status \notin Done
                        /\ i = x'[h] /\ qpc'[h] # "requeue" => db'[i].status = "Queued"
      BY DEF RecoveryFits
    <3>1. /\ snap'[h] = snap[h] /\ i \in DOMAIN snap[h] /\ i \in DOMAIN db /\ i \in Nat
          /\ i >= x[h]
      <4>1. snap'[h] = snap[h] /\ (x'[h] > x[h] \/ x'[h] = x[h])
        BY <1>7 DEF Recovers
      <4>2. i \in Nat /\ x'[h] \in Nat
        <5>1. x'[h] \in Ids \cup {0}
          BY DEF Before, TypeInv, TypeOK, RowsOK
        <5>2. Ids \cup {0} \subseteq Nat
          BY IdsAreNumbers
        <5>3. i \in DOMAIN snap[h]
          BY <4>1
        <5> QED BY <1>4, <5>1, <5>2, <5>3
      <4>3. i >= x[h]
        BY <1>4, <4>1, <4>2
      <4> QED BY <1>7, <4>1, <4>2, <4>3
    <3>3. OwnRow(i)
      BY FinalStays DEF Before
    <3>2. db[i].status \notin Done
      BY <1>1, <1>7, <3>1, <3>3 DEF HostEnds, RecoveryFits
    <3> QED BY <1>7, <2>1, <3>1, <3>2, <3>3 DEF Recovers
  <2> QED BY <1>6, <2>2, <2>3, <2>4
<1>8. ASSUME qpc[h] \in Recovers, Advance(h, "requeue")
      PROVE  \/ qpc'[h] = "fetch"
             \/ qpc'[h] = "requeue" /\ snap'[h] = snap[h] /\ x'[h] > x[h]
  <2>1. CASE Later(h) # {}
    <3>1. Least(Later(h)) \in Later(h)
      BY <1>4, <2>1, LeastIn DEF Later
    <3>2. Least(Later(h)) > x[h]
      BY <3>1 DEF Later
    <3> QED BY <1>1, <1>8, <2>1, <3>2 DEF Advance, RowsOK
  <2>2. CASE Later(h) = {}
    BY <1>1, <1>8, <2>2 DEF Advance, RowsOK
  <2> QED BY <2>1, <2>2
<1>9. CASE RecoverQueue(h)
  <2> DEFINE left == {i \in NotDone : Recoverable(db[i], h)}
  <2>1. UNCHANGED db /\ HostsRows(h)
    BY <1>9 DEF RecoverQueue, HostsRows
  <2>2. CASE left = {}
    <3>1. RecoveryFits(h)'
      BY <1>1, <1>9, <2>2 DEF RecoverQueue, Goto, RowsOK, RecoveryFits, Recovers
    <3> QED BY <1>6, <2>1, <3>1
  <2>3. CASE left # {}
    <3>1. snap' = [snap EXCEPT ![h] = [i \in left |-> db[i]]] /\ qpc'[h] = "requeue"
      BY <1>1, <1>9, <2>3 DEF RecoverQueue, RowsOK
    <3>2. \A i \in left : db[i].status \notin Done
      BY DEF NotDone
    <3> HIDE DEF left
    <3>3. DOMAIN snap'[h] = left
      BY <1>1, <3>1 DEF RowsOK
    <3>4. RecoveryFits(h)'
      BY <2>1, <3>1, <3>2, <3>3 DEF RecoveryFits
    <3> QED BY <1>6, <2>1, <3>4
  <2> QED BY <2>2, <2>3
<1>10. CASE RecoverStatus(h)
  <2>1. /\ qpc[h] = "requeue" /\ ChangeJobStatus(x[h], "Queued")
        /\ qpc'[h] = "uncommand" /\ snap'[h] = snap[h] /\ x'[h] = x[h]
    BY <1>1, <1>10 DEF RecoverStatus, Goto, RowsOK
  <2>2. /\ DOMAIN db' = DOMAIN db
        /\ \A i \in DOMAIN db : /\ db'[i].host = db[i].host
                                /\ db'[i].status = IF i = x[h] THEN "Queued" ELSE db[i].status
    BY <1>1, <2>1, StatusChanges
  <2> QED BY <1>7, <2>1, <2>2 DEF Recovers
<1>11. CASE RecoverCmds(h)
  <2>1. /\ qpc[h] = "uncommand" /\ ChangeJobCmds(x[h], "Run")
        /\ Goto(h, "disclaim") \/ Advance(h, "requeue")
    BY <1>11 DEF RecoverCmds
  <2>2. /\ DOMAIN db' = DOMAIN db
        /\ \A i \in DOMAIN db : db'[i].host = db[i].host /\ db'[i].status = db[i].status
    BY <1>1, <2>1, CmdsChange
  <2>3. Goto(h, "disclaim") => qpc'[h] = "disclaim" /\ snap'[h] = snap[h] /\ x'[h] = x[h]
    BY <1>1 DEF Goto, RowsOK
  <2> QED BY <1>5, <1>7, <1>8, <2>1, <2>2, <2>3 DEF Recovers
<1>12. CASE RecoverHost(h)
  <2>1. qpc[h] = "disclaim" /\ Disclaim(x[h]) /\ Advance(h, "requeue")
    BY <1>12 DEF RecoverHost
  <2>2. /\ DOMAIN db' = DOMAIN db
        /\ \A i \in DOMAIN db : /\ db'[i].status = db[i].status
                                /\ db'[i].host = IF i = x[h] THEN "" ELSE db[i].host
    <3>1. \A r \in Rows : /\ [r EXCEPT !.host = ""].host = ""
                          /\ [r EXCEPT !.host = ""].status = r.status
      BY DEF Rows
    <3> QED BY <1>1, <2>1, <3>1 DEF Disclaim, DbOK
  <2> QED BY <1>7, <1>8, <2>1, <2>2 DEF Recovers
<1> QED BY <1>9, <1>10, <1>11, <1>12 DEF RecoverStep

\* The queue thread leaves a job to the thread that it has started.
LEMMA ChildEnds ==
  ASSUME Before, NEW h \in Hosts, StartChildJob(h)
  PROVE  EndsAreFinal' /\ StaysDone
<1>1. /\ qpc[h] = "child" /\ Advance(h, "scan") /\ UNCHANGED <<db, dialog>>
      /\ HostEnds(h) /\ TypeInv /\ JobsOK
  BY DEF StartChildJob, NextRow, user, Before, EndsAreFinal, TypeInv, TypeOK
<1>2. PICK k : k = x[h]
  OBVIOUS
<1>3. k \in Nat /\ qpc[h] \in Pass /\ Starts(h, k)
  BY <1>1, <1>2, NumbersTyped DEF TypeInv, TypeOK, Starts, Pass
<1>4. /\ PassMove(h) /\ qpc'[h] \in {"scan", "fetch"}
      /\ \A g \in Hosts \ {h} : Halts(g)
  BY <1>1, <1>3, AdvanceInPass
<1>5. PICK t \in Threads : thread' = [thread EXCEPT ![h][t] = NewThread(Row(h), x[h])]
  BY DEF StartChildJob
<1>6. /\ \A u \in Threads :
           thread'[h][u] = IF u = t THEN NewThread(Row(h), x[h]) ELSE thread[h][u]
      /\ \A g \in Hosts \ {h} : thread'[g] = thread[g]
  BY <1>1, <1>5 DEF JobsOK
<1>7. NewThread(Row(h), x[h]).id = k
  BY <1>2 DEF NewThread
<1>8. \A i : /\ Final(i)' <=> Final(i)
             /\ OwnRow(i)' <=> OwnRow(i)
             /\ Final(i) => OwnRow(i)
  BY FinalStays DEF Before
<1>9. HostsRows(h) /\ StaysDone
  BY <1>1 DEF HostsRows, StaysDone
\* The thread is new, or has its job and state from before.
<1>10. ASSUME NEW i, NEW u \in Threads, Writer(h, u, i)'
       PROVE  \/ u = t /\ i = k
              \/ u # t /\ Writer(h, u, i) /\ thread'[h][u] = thread[h][u]
  BY <1>6, <1>7, <1>10 DEF Writer, Has
<1>11. WritersOK(h)'
  <2> SUFFICES ASSUME NEW i \in DOMAIN db', NEW u \in Threads, Final(i)', Writer(h, u, i)'
               PROVE  /\ db'[i].status # "Queued"
                      /\ Unfinished(thread'[h][u]) => db'[i].status \notin Done
                      /\ \A v \in Threads : Writer(h, v, i)' => v = u
    BY DEF WritersOK, Unfinished
  <2>1. CASE i = k
    <3>1. /\ db[i].status \notin Done /\ db[i].status # "Queued"
          /\ \A v \in Threads : ~Writer(h, v, i)
      BY <1>1, <1>3, <1>8, <2>1 DEF HostEnds, StartsOK, StartFits
    <3> QED BY <1>1, <1>10, <3>1
  <2>2. CASE i # k
    <3>1. Writer(h, u, i) /\ thread'[h][u] = thread[h][u]
      BY <1>10, <2>2
    <3>2. \A v \in Threads : Writer(h, v, i)' => Writer(h, v, i)
      BY <1>10, <2>2
    <3> QED BY <1>1, <1>8, <3>1, <3>2 DEF HostEnds, WritersOK
  <2> QED BY <2>1, <2>2
<1>12. StartsOK(h)' /\ CancelFits(h)' /\ RecoveryFits(h)' /\ UnclaimedWaited(h)'
  BY <1>1, <1>4, <1>8
     DEF StartsOK, Starts, CancelFits, RecoveryFits, Recovers, HostEnds, UnclaimedWaited,
         PassMove, Pass
<1>13. MineWait(h)'
  <2> SUFFICES ASSUME NEW i \in DOMAIN db', Final(i)', Ahead(h, i)',
                      snap'[h][i].host = h, snap'[h][i].status = "Queued"
               PROVE  db'[i].status = "Queued"
    BY DEF MineWait
  <2>1. snap'[h] = snap[h] /\ x'[h] > x[h] /\ i \in DOMAIN snap[h] /\ i >= x'[h]
    BY <1>4 DEF Ahead, PassMove, Pass
  <2>2. i \in Nat /\ x'[h] \in Nat
    <3>1. x'[h] \in Ids \cup {0} /\ i \in Ids
      BY <1>1 DEF Before, TypeInv, TypeOK, RowsOK, DbOK
    <3>2. Ids \cup {0} \subseteq Nat
      BY IdsAreNumbers
    <3> QED BY <3>1, <3>2
  <2>3. i >= x[h] /\ i # x[h]
    BY <1>2, <1>3, <2>1, <2>2
  <2>4. Ahead(h, i)
    BY <1>3, <2>1, <2>3 DEF Ahead
  <2> QED BY <1>1, <1>8, <2>1, <2>3, <2>4 DEF HostEnds, MineWait
<1> QED BY <1>1, <1>4, <1>6, <1>9, <1>11, <1>12, <1>13, EndsStay DEF HostEnds

\* A thread that has written its job's last status only ends.
LEMMA RemoveEnds ==
  ASSUME NEW h \in Hosts, NEW t \in Threads, Acts(h, t), At(h, t, "remove")
  PROVE  UNCHANGED db /\ thread' = [thread EXCEPT ![h][t] = NULL]
BY DEF Acts, ThreadStep, ThreadRuns, Try, CommandFails, CommandRuns, CommFlagStarts,
         CommFlagFinds, TranscodeEnds,
       CompleteJob, CompletedJob, CommFlagPauses, CommFlagResumes, CommFlagReports,
       CommandEnds, TranscodeExited, TranscodeRetries, TranscodeOver, TranscodeLimit,
       UserJobExited, CommFlagExited, RemoveRunningJob, At

\* What a thread that becomes r writes to its job's row: nothing that says that it is
\* queued, no end before it has seen one, and once the job has ended another end.  A
\* flagger also writes to rows that are not their job's own.
WritesRow(h, t, k, r) ==
  /\ DOMAIN db' = DOMAIN db
  /\ \A i \in DOMAIN db :
       /\ db'[i].host = db[i].host
       /\ \/ db'[i].status = db[i].status
          \/ /\ i = k /\ Writer(h, t, k) /\ r # NULL /\ db'[i].status # "Queued"
             /\ db'[i].status \in Done => ~Unfinished(r)
             /\ Final(k) /\ db[i].status \in Done => db'[i].status \in Done
          \/ ~OwnRow(i)

\* Threads and their children.
LEMMA ThreadEnds ==
  ASSUME Before, NEW h \in Hosts, NEW t \in Threads, Acts(h, t)
  PROVE  EndsAreFinal' /\ StaysDone
<1>1. /\ TypeInv /\ RowInv /\ DbOK /\ JobsOK /\ EndsAreTranscodes /\ HostEnds(h)
  BY DEF Before, TypeInv, TypeOK, EndsAreFinal
<1>2. /\ thread[h][t] # NULL /\ UNCHANGED <<qpc, x, snap, dialog>>
      /\ \E r : Becomes(h, t, r) /\ Writes(h, t, r)
  BY <1>1, ThreadDoes DEF queue, user
<1>3. \E r : /\ Becomes(h, t, r) /\ Writes(h, t, r)
             /\ thread[h][t].pc = "remove" => UNCHANGED db /\ r = NULL
  <2>1. CASE thread[h][t].pc = "remove"
    <3>1. UNCHANGED db /\ thread' = [thread EXCEPT ![h][t] = NULL]
      BY <1>2, <2>1, RemoveEnds DEF At
    <3> QED BY <3>1 DEF Becomes, Writes
  <2> QED BY <1>2, <2>1
<1>4. PICK r : /\ Becomes(h, t, r) /\ Writes(h, t, r)
               /\ thread[h][t].pc = "remove" => UNCHANGED db /\ r = NULL
  BY <1>3
<1>5. /\ \A u \in Threads : thread'[h][u] = IF u = t THEN r ELSE thread[h][u]
      /\ \A g \in Hosts \ {h} : thread'[g] = thread[g]
  BY <1>1, <1>4 DEF Becomes, JobsOK
<1>6. \A g \in Hosts : Halts(g)
  BY <1>2 DEF Halts
<1>7. PICK k : k = thread[h][t].id
  OBVIOUS
<1>8. ASSUME NEW i, NEW u \in Threads, Writer(h, u, i)'
      PROVE  /\ Writer(h, u, i)
             /\ Unfinished(thread'[h][u]) => Unfinished(thread[h][u])
             /\ u = t => i = k /\ thread'[h][u] = r
  BY <1>2, <1>4, <1>5, <1>7, <1>8 DEF Writer, Has, Becomes
<1>9. Has(h, t, k) /\ Owns(h, k)
  BY <1>2, <1>7 DEF Has, Owns
<1>10. \A i : /\ Final(i)' <=> Final(i)
              /\ OwnRow(i)' <=> OwnRow(i)
              /\ Final(i) => OwnRow(i)
  BY FinalStays DEF Before
<1>11. k \in DOMAIN db => db[k].host = h
  BY <1>9 DEF Before, RowsInv, IInv, OneOwner, RowNamesOwner
<1>12. WritesRow(h, t, k, r)
  <2>1. CASE UNCHANGED db
    BY <2>1 DEF WritesRow
  <2>2. ASSUME NEW s \in Statuses \ {"Queued"}, ChangeJobStatus(k, s), r # NULL,
               s \in Done => ~Unfinished(r), s \notin Done => Unfinished(thread[h][t])
        PROVE  WritesRow(h, t, k, r)
    <3>1. /\ DOMAIN db' = DOMAIN db
          /\ \A i \in DOMAIN db : /\ db'[i].host = db[i].host
                                  /\ db'[i].status = IF i = k THEN s ELSE db[i].status
      BY <1>1, <2>2, StatusChanges
    <3>2. Writer(h, t, k)
      BY <1>4, <1>9, <2>2 DEF Writer
    <3>3. k \in DOMAIN db /\ Final(k) /\ db[k].status \in Done => s \in Done
      BY <1>1, <2>2, <3>2 DEF HostEnds, WritersOK
    <3> QED BY <2>2, <3>1, <3>2, <3>3 DEF WritesRow
  <2>3. ASSUME NEW i, NEW s, ChangeJobStatus(i, s), i \in DOMAIN db => ~OwnRow(i)
        PROVE  WritesRow(h, t, k, r)
    <3>1. /\ DOMAIN db' = DOMAIN db
          /\ \A j \in DOMAIN db : /\ db'[j].host = db[j].host
                                  /\ db'[j].status = IF j = i THEN s ELSE db[j].status
      BY <1>1, <2>3, StatusChanges
    <3> QED BY <2>3, <3>1 DEF WritesRow
  <2> QED BY <1>4, <1>7, <2>1, <2>2, <2>3 DEF Writes, Id
<1>13. HostsRows(h) /\ StaysDone
  BY <1>10, <1>11, <1>12 DEF HostsRows, StaysDone, WritesRow
<1>14. WritersOK(h)'
  <2> SUFFICES ASSUME NEW i \in DOMAIN db', NEW u \in Threads, Final(i)', Writer(h, u, i)'
               PROVE  /\ db'[i].status # "Queued"
                      /\ Unfinished(thread'[h][u]) => db'[i].status \notin Done
                      /\ \A v \in Threads : Writer(h, v, i)' => v = u
    BY DEF WritersOK, Unfinished
  <2>1. i \in DOMAIN db /\ Final(i) /\ Writer(h, u, i)
    BY <1>8, <1>10, <1>12 DEF WritesRow
  <2>2. /\ db[i].status # "Queued"
        /\ Unfinished(thread[h][u]) => db[i].status \notin Done
        /\ \A v \in Threads : Writer(h, v, i) => v = u
    BY <1>1, <2>1 DEF HostEnds, WritersOK
  <2>3. CASE db'[i].status = db[i].status
    BY <1>8, <2>2, <2>3
  <2>4. CASE db'[i].status # db[i].status
    <3>1. i = k /\ Writer(h, t, i) /\ db'[i].status # "Queued"
      BY <1>10, <1>12, <2>1, <2>4 DEF WritesRow
    <3>2. u = t
      BY <2>2, <3>1
    <3> QED BY <1>5, <1>8, <1>10, <1>12, <2>1, <2>2, <2>4, <3>1, <3>2 DEF WritesRow
  <2> QED BY <2>3, <2>4
\* The job of its thread is not one that the host starts, or waits for in its pass.
<1>15. ASSUME NEW i \in DOMAIN db, db'[i].status # db[i].status, Final(i)
       PROVE  /\ db[i].status # "Queued" /\ ~Starts(h, i)
  BY <1>1, <1>10, <1>12, <1>15 DEF WritesRow, HostEnds, WritersOK, StartsOK, StartFits
<1>16. StartsOK(h)'
  <2> SUFFICES ASSUME NEW i \in DOMAIN db', Starts(h, i)', Final(i)'
               PROVE  /\ db'[i].status \notin Done
                      /\ qpc'[h] # "process" => db'[i].status # "Queued"
                      /\ \A u \in Threads : ~Writer(h, u, i)'
    BY DEF StartsOK, StartFits
  <2>1. i \in DOMAIN db /\ Starts(h, i) /\ Final(i)
    BY <1>2, <1>10, <1>12 DEF Starts, WritesRow
  <2>2. db'[i].status = db[i].status
    BY <1>15, <2>1
  <2> QED BY <1>1, <1>2, <1>8, <2>1, <2>2 DEF HostEnds, StartsOK, StartFits
<1>17. MineWait(h)'
  <2> SUFFICES ASSUME NEW i \in DOMAIN db', Final(i)', Ahead(h, i)', i = x'[h] => qpc'[h] = "scan",
                      snap'[h][i].host = h, snap'[h][i].status = "Queued"
               PROVE  db'[i].status = "Queued"
    BY DEF MineWait
  <2>1. i \in DOMAIN db /\ Final(i) /\ db[i].status = "Queued"
    BY <1>1, <1>2, <1>10, <1>12 DEF WritesRow, HostEnds, MineWait, Ahead
  <2> QED BY <1>12, <1>15, <2>1 DEF WritesRow
<1>18. UnclaimedWaited(h)'
  BY <1>1, <1>2, <1>10 DEF HostEnds, UnclaimedWaited
<1>19. CancelFits(h)'
  <2> SUFFICES ASSUME qpc'[h] = "cancel", NEW i \in DOMAIN db', i = x'[h]
               PROVE  db'[i].host = h /\ (Final(i) => db'[i].status = "Queued")
    BY <1>10 DEF CancelFits
  <2>1. i \in DOMAIN db /\ db[i].host = h /\ (Final(i) => db[i].status = "Queued")
    BY <1>1, <1>2, <1>12 DEF WritesRow, HostEnds, CancelFits
  <2> QED BY <1>12, <1>15, <2>1 DEF WritesRow
\* A host that recovers has no thread.
<1>20. RecoveryFits(h)'
  <2>1. qpc[h] \notin Recovers
    BY <1>2, PcsApart DEF Before, RowsInv, IInv, OneOwner, RecoveringIsIdle
  <2> QED BY <1>2, <2>1 DEF RecoveryFits
<1> QED BY <1>2, <1>5, <1>6, <1>13, <1>14, <1>16, <1>17, <1>18, <1>19, <1>20, EndsStay
        DEF HostEnds

\* Users queue and delete jobs, stop and pause them, and select one.
LEMMA SameEnds ==
  ASSUME Before, DialogIsOld, UNCHANGED <<qpc, x, snap, thread>>,
         \A i \in DOMAIN db' :
           \/ i \in DOMAIN db /\ db'[i].host = db[i].host /\ db'[i].status = db[i].status
           \/ i = next /\ db'[i].status = "Queued",
         dialog' \in {dialog, NULL} \/ RequeuesEnded'
  PROVE  EndsAreFinal' /\ StaysDone
<1>1. \A i : /\ Final(i)' <=> Final(i)
             /\ OwnRow(i)' <=> OwnRow(i)
             /\ Final(i) => OwnRow(i)
  BY FinalStays DEF Before
<1>2. next \notin DOMAIN db /\ next \in Nat
  <2>1. next \in Nat
    BY DEF Before, TypeInv, TypeOK, UserOK
  <2> QED BY <2>1 DEF Before, RowsInv, IInv, OneOwner, IdsAreNew
<1>3. \A g \in Hosts : HostEnds(g)'
  BY HostKept DEF Halts
<1>4. OwnRowsWait'
  BY <1>1 DEF Before, EndsAreFinal, OwnRowsWait
<1>5. RequeuesEnded'
  <2>1. CASE dialog' = dialog
    <3> SUFFICES ASSUME dialog # NULL, dialog.asks = "requeue", NEW i \in DOMAIN db',
                        i = dialog.id, Final(i)
                 PROVE  db'[i].status \in Done
      BY <1>1, <2>1 DEF RequeuesEnded
    <3>1. i # next
      BY <1>2 DEF DialogIsOld
    <3> QED BY <3>1 DEF Before, EndsAreFinal, RequeuesEnded
  <2>2. CASE dialog' = NULL
    BY <2>2 DEF RequeuesEnded
  <2> QED BY <2>1, <2>2
<1>6. StaysDone
  BY <1>2 DEF StaysDone
<1> QED BY <1>3, <1>4, <1>5, <1>6 DEF EndsAreFinal

\* A job that is requeued has ended, and nobody is at work on it.
LEMMA RequeueEnds ==
  ASSUME Before, DialogAsks, UNCHANGED <<qpc, x, snap, thread>>, DialogRequeue
  PROVE  EndsAreFinal'
<1>1. /\ dialog # NULL /\ dialog.asks = "requeue" /\ dialog' = NULL
      /\ ChangeJobStatus(dialog.id, "Queued") /\ "requeue" \in use.does
  BY DEF DialogRequeue, Confirmed, DialogAsks
<1>2. PICK k : k = dialog.id
  OBVIOUS
<1>3. /\ DOMAIN db' = DOMAIN db
      /\ \A i \in DOMAIN db : /\ db'[i].host = db[i].host
                              /\ db'[i].status = IF i = k THEN "Queued" ELSE db[i].status
  BY <1>1, <1>2, StatusChanges DEF Before, TypeInv, TypeOK
<1>4. k \in DOMAIN db /\ Final(k) =>
        \A g \in Hosts : ~Starts(g, k) /\ \A t \in Threads : ~Writer(g, t, k)
  BY <1>1, <1>2, EndedIsFree DEF Before, EndsAreFinal, RequeuesEnded
<1>5. ASSUME NEW g \in Hosts PROVE HostEnds(g)'
  <2>1. Halts(g) /\ thread'[g] = thread[g]
    BY DEF Halts
  <2>2. ASSUME NEW i \in DOMAIN db'
        PROVE  /\ i \in DOMAIN db
               /\ db[i].host = g <=> db'[i].host = g
               /\ db[i].host = g =>
                    \/ db'[i].status = db[i].status
                    \/ /\ db'[i].status = "Queued"
                       /\ Final(i) => ~Starts(g, i) /\ \A t \in Threads : ~Writer(g, t, i)
    <3>1. CASE i = k
      BY <1>3, <1>4, <3>1
    <3>2. CASE i # k
      BY <1>3, <3>2
    <3> QED BY <3>1, <3>2
  <2> QED BY <2>1, <2>2, HostKept
<1>6. OwnRowsWait'
  BY <1>3, FinalStays DEF Before, EndsAreFinal, OwnRowsWait
<1>7. RequeuesEnded'
  BY <1>1 DEF RequeuesEnded
<1> QED BY <1>5, <1>6, <1>7 DEF EndsAreFinal

\* What users do keeps the invariant; only a requeue undoes an end.
LEMMA UserEnds ==
  ASSUME Before, DialogAsks, DialogIsOld, "deleteAll" \notin use.does, UserStep
  PROVE  EndsAreFinal' /\ (StaysDone \/ DialogRequeue)
<1>1. UNCHANGED <<qpc, x, snap, thread>>
  BY DEF UserStep, QueueJob, QueueDeletes, QueueInserts, StopJob, SelectJob, DialogStop,
         DialogPause, DialogRequeue, DialogDelete, Confirmed, DeleteAllJobs, StopAllJobs,
         WaitForJobs, WaitTimesOut, DeleteRows, Rest, queue, jobs
<1>2. DbOK
  BY DEF Before, TypeInv, TypeOK
<1>3. ASSUME \/ UNCHANGED db \/ Insert(next)
             \/ \E ids : Delete(ids)
             \/ \E i, c : ChangeJobCmds(i, c),
             dialog' \in {dialog, NULL} \/ RequeuesEnded'
      PROVE  EndsAreFinal' /\ StaysDone
  <2>1. \A i \in DOMAIN db' :
          \/ i \in DOMAIN db /\ db'[i].host = db[i].host /\ db'[i].status = db[i].status
          \/ i = next /\ db'[i].status = "Queued"
    <3>1. CASE UNCHANGED db
      BY <3>1
    <3>2. CASE Insert(next)
      BY <3>2 DEF Insert
    <3>3. CASE \E ids : Delete(ids)
      BY <3>3 DEF Delete
    <3>4. CASE \E i, c : ChangeJobCmds(i, c)
      BY <1>2, <3>4, CmdsChange
    <3> QED BY <1>3, <3>1, <3>2, <3>3, <3>4
  <2> QED BY <1>1, <1>3, <2>1, SameEnds
<1>4. CASE QueueJob
  BY <1>3, <1>4 DEF QueueJob
<1>5. CASE QueueDeletes \/ QueueInserts \/ DeleteRows
  BY <1>3, <1>5 DEF QueueDeletes, QueueInserts, DeleteRows
<1>6. CASE (\E i \in Ids : StopJob(i)) \/ WaitForJobs \/ WaitTimesOut
  BY <1>3, <1>6 DEF StopJob, WaitForJobs, WaitTimesOut, user
<1>7. CASE DialogStop \/ DialogPause \/ DialogDelete
  BY <1>3, <1>7 DEF DialogStop, DialogPause, DialogDelete, Confirmed
\* StatusBox offers to requeue what has ended.
<1>8. CASE \E i \in Ids : SelectJob(i)
  <2>1. PICK i \in Ids : SelectJob(i)
    BY <1>8
  <2>2. /\ i \in DOMAIN db /\ UNCHANGED db
        /\ dialog' = [id |-> i, asks |-> Asks(db[i].status)]
    BY <2>1 DEF SelectJob
  <2>3. \A s : Asks(s) = "requeue" => s \in Done
    BY JobQueueAssumption DEF Asks, Commands
  <2>4. RequeuesEnded'
    BY <2>2, <2>3 DEF RequeuesEnded
  <2> QED BY <1>3, <2>2, <2>4
<1>9. CASE DialogRequeue
  BY <1>1, <1>9, RequeueEnds
<1>10. CASE \E r \in Recordings : DeleteAllJobs(r)
  BY <1>10 DEF DeleteAllJobs
<1>11. CASE StopAllJobs
  <2>1. \A j \in Rows : /\ [j EXCEPT !.cmds = "Stop"].host = j.host
                        /\ [j EXCEPT !.cmds = "Stop"].status = j.status
    BY DEF Rows
  <2>2. \A i \in DOMAIN db' :
          i \in DOMAIN db /\ db'[i].host = db[i].host /\ db'[i].status = db[i].status
    BY <1>2, <1>11, <2>1 DEF StopAllJobs, DbOK
  <2>3. dialog' = dialog
    BY <1>11 DEF StopAllJobs
  <2> QED BY <1>1, <2>2, <2>3, SameEnds
<1> QED BY <1>4, <1>5, <1>6, <1>7, <1>8, <1>9, <1>10, <1>11 DEF UserStep

\* A dialog is about a job that has been queued.
LEMMA DialogOld ==
  ASSUME TypeInv, TypeInv', RowsInv, DialogIsOld, [Next]_vars
  PROVE  DialogIsOld'
<1>1. next \in Nat /\ next' \in {next, next + 1}
  <2>1. next \in Nat
    BY DEF TypeInv, TypeOK, UserOK
  <2>2. ASSUME NEW h \in Hosts, QueueStep(h) \/ Restart(h) \/ Crash(h) PROVE next' = next
    BY <2>2 DEF QueueStep, RecoverStep, RecoverQueue, RecoverStatus, RecoverCmds, RecoverHost,
              GetJobsInQueue, SkipElsewhere, SkipBlocked, SkipNotAllowed, StopRunning,
              StopQueued, Cancel, ResetCmds, PauseRunning, ResetStatus, SkipStarted, ClaimJob,
              ProcessJob, NoProgram, StartJob, StartChildJob, ProgramDeleted, Restart, Crash, user
  <2>3. ASSUME NEW h \in Hosts, NEW t \in Threads, Acts(h, t) PROVE next' = next
    BY <2>3 DEF Acts, ThreadStep, ThreadRuns, Try, CommandFails, CommandRuns, CommFlagStarts,
         CommFlagFinds, TranscodeEnds,
              CompleteJob, CompletedJob, CommFlagPauses, CommFlagResumes, CommFlagReports,
              CommandEnds, TranscodeExited, TranscodeRetries, TranscodeOver, TranscodeLimit,
              UserJobExited, CommFlagExited, RemoveRunningJob, Keep, user
  <2>4. UserStep => next' \in {next, next + 1}
    BY DEF UserStep, QueueJob, QueueDeletes, QueueInserts, StopJob, SelectJob, DialogStop,
           DialogPause, DialogRequeue, DialogDelete, Confirmed, DeleteAllJobs, StopAllJobs,
           WaitForJobs, WaitTimesOut, DeleteRows, user
  <2>5. UNCHANGED vars => next' = next
    BY DEF vars, user
  <2> QED BY <2>1, <2>2, <2>3, <2>4, <2>5 DEF Next, Acts
<1>2. dialog # NULL => dialog.id \in Nat
  BY IdsAreNumbers DEF TypeInv, TypeOK, UserOK
<1>3. CASE dialog' \in {dialog, NULL}
  BY <1>1, <1>2, <1>3 DEF DialogIsOld
<1>4. CASE \E i \in Ids : SelectJob(i)
  <2>1. PICK i \in Ids : SelectJob(i)
    BY <1>4
  <2>2. i \in DOMAIN db /\ dialog'.id = i /\ next' = next
    BY <2>1 DEF SelectJob
  <2> QED BY <2>2 DEF DialogIsOld, RowsInv, IInv, OneOwner, IdsAreNew
<1>5. dialog' \in {dialog, NULL} \/ \E i \in Ids : SelectJob(i)
  <2>1. ASSUME NEW h \in Hosts, QueueStep(h) \/ Restart(h) \/ Crash(h) PROVE dialog' = dialog
    BY <2>1 DEF QueueStep, RecoverStep, RecoverQueue, RecoverStatus, RecoverCmds, RecoverHost,
              GetJobsInQueue, SkipElsewhere, SkipBlocked, SkipNotAllowed, StopRunning,
              StopQueued, Cancel, ResetCmds, PauseRunning, ResetStatus, SkipStarted, ClaimJob,
              ProcessJob, NoProgram, StartJob, StartChildJob, ProgramDeleted, Restart, Crash, user
  <2>2. ASSUME NEW h \in Hosts, NEW t \in Threads, Acts(h, t) PROVE dialog' = dialog
    BY <2>2 DEF Acts, ThreadStep, ThreadRuns, Try, CommandFails, CommandRuns, CommFlagStarts,
         CommFlagFinds, TranscodeEnds,
              CompleteJob, CompletedJob, CommFlagPauses, CommFlagResumes, CommFlagReports,
              CommandEnds, TranscodeExited, TranscodeRetries, TranscodeOver, TranscodeLimit,
              UserJobExited, CommFlagExited, RemoveRunningJob, Keep, user
  <2>3. UserStep => dialog' \in {dialog, NULL} \/ \E i \in Ids : SelectJob(i)
    BY DEF UserStep, QueueJob, QueueDeletes, QueueInserts, StopJob, DialogStop,
           DialogPause, DialogRequeue, DialogDelete, Confirmed, DeleteAllJobs, StopAllJobs,
           WaitForJobs, WaitTimesOut, DeleteRows, user
  <2>4. UNCHANGED vars => dialog' = dialog
    BY DEF vars, user
  <2> QED BY <2>1, <2>2, <2>3, <2>4 DEF Next, Acts
<1> QED BY <1>3, <1>4, <1>5

\* Every step keeps the invariant, and undoes no end that is final but by a user's requeue.
LEMMA EndsStep ==
  ASSUME OInv, RowsInv, EndsInv, [Next]_vars
  PROVE  EndsInv' /\ ("deleteAll" \notin use.does => StaysDone \/ DialogRequeue)
<1>1. /\ TypeInv /\ TypeInv' /\ RowsInv' /\ DialogAsks /\ RowInv /\ JobsAreTheirs
      /\ EndsAreTranscodes
      /\ use'.jobs = use.jobs /\ use'.does = use.does
  <2>1. TypeInv /\ DialogAsks /\ RowInv /\ JobsAreTheirs /\ EndsAreTranscodes
    BY DEF OInv, IInv, RowInv
  <2>2. TypeInv'
    BY <2>1, TypeStep
  <2>3. RowsInv'
    BY <2>1, RowsInvStep
  <2>4. use'.jobs = use.jobs /\ use'.does = use.does
    BY <2>1, UsersJobs DEF TypeInv, TypeOK
  <2> QED BY <2>1, <2>2, <2>3, <2>4
<1>2. DialogIsOld'
  BY <1>1, DialogOld DEF EndsInv
<1>3. SUFFICES ASSUME "deleteAll" \notin use.does
               PROVE  EndsAreFinal' /\ (StaysDone \/ DialogRequeue)
  BY <1>1, <1>2 DEF EndsInv
<1>4. Before /\ DialogIsOld
  BY <1>1, <1>3 DEF Before, EndsInv
<1>5. ASSUME NEW h \in Hosts, QueueStep(h) PROVE EndsAreFinal' /\ StaysDone
  BY <1>4, <1>5, RecoverEnds, FetchEnds, ScanEnds, StartEnds, ChildEnds DEF QueueStep
<1>6. ASSUME NEW h \in Hosts, Crash(h) \/ Restart(h) PROVE EndsAreFinal' /\ StaysDone
  BY <1>4, <1>6, CrashEnds
<1>7. ASSUME NEW h \in Hosts, NEW t \in Threads, Acts(h, t) PROVE EndsAreFinal' /\ StaysDone
  BY <1>4, <1>7, ThreadEnds
<1>8. CASE UserStep
  BY <1>1, <1>3, <1>4, <1>8, UserEnds
<1>9. CASE UNCHANGED vars
  <2>1. UNCHANGED <<db, qpc, x, snap, thread, dialog>>
    BY <1>9 DEF vars, queue, jobs, user
  <2> QED BY <1>4, <2>1, SameEnds
<1> QED BY <1>5, <1>6, <1>7, <1>8, <1>9 DEF Next, Acts

\* At first there is no job.
LEMMA EndsInit == Init => EndsInv
<1> SUFFICES ASSUME Init PROVE EndsInv
  OBVIOUS
<1>1. /\ DOMAIN db = {} /\ dialog = NULL
      /\ \A h \in Hosts : /\ qpc[h] = "recover"
                          /\ \A t \in Threads : thread[h][t] = NULL
  BY DEF Init
<1>2. \A h \in Hosts : HostEnds(h)
  BY <1>1 DEF HostEnds, WritersOK, StartsOK, MineWait, UnclaimedWaited, CancelFits, RecoveryFits,
              Pass, Recovers
<1> QED BY <1>1, <1>2 DEF EndsInv, DialogIsOld, EndsAreFinal, OwnRowsWait, RequeuesEnded

\* The inductive invariant: who may still write a job's status agrees with what the
\* table says of it, with what the hosts have read of it, and with what users are offered.
THEOREM EndsInvariance == Spec => [](OInv /\ RowsInv /\ EndsInv)
<1>1. Init => OInv /\ RowsInv /\ EndsInv
  BY OInit, RowsInit, EndsInit
<1>2. OInv /\ RowsInv /\ EndsInv /\ [Next]_vars => (OInv /\ RowsInv /\ EndsInv)'
  <2> SUFFICES ASSUME OInv, RowsInv, EndsInv, [Next]_vars PROVE (OInv /\ RowsInv /\ EndsInv)'
    OBVIOUS
  <2>1. TypeInv
    BY DEF OInv, IInv
  <2> QED BY <2>1, OInvStep, RowsInvStep, EndsStep
<1> QED BY <1>1, <1>2, PTL DEF Spec

\* A job that has ended is not run again, or said to be at work, by any host that goes by
\* an old snapshot, through any crash and recovery: only a user's requeue does that, or a
\* flagger of an earlier job which has taken the row for its own (OwnRow).
THEOREM DoneStaysDoneHolds == Spec => DoneStaysDone
<1>1. OInv /\ RowsInv /\ EndsInv /\ [Next]_vars =>
        [\A i \in DOMAIN db \cap DOMAIN db' :
           /\ db[i].status \in Done /\ OwnRow(i) /\ "deleteAll" \notin use.does
           /\ db[i].type = "transcode" => "requeue" \notin use.does
           => db'[i].status \in Done \/ DialogRequeue]_vars
  <2> SUFFICES ASSUME OInv, RowsInv, EndsInv, [Next]_vars, NEW i \in DOMAIN db \cap DOMAIN db',
                      db[i].status \in Done, OwnRow(i), "deleteAll" \notin use.does,
                      db[i].type = "transcode" => "requeue" \notin use.does, ~DialogRequeue
               PROVE  db'[i].status \in Done
    OBVIOUS
  <2>1. StaysDone
    BY EndsStep
  <2>2. Final(i)
    BY DEF OInv, IInv, RowInv, JobsAreTheirs, JobIs, Final
  <2> QED BY <2>1, <2>2 DEF StaysDone
<1> QED BY <1>1, EndsInvariance, PTL DEF Spec, DoneStaysDone
=============================================================================
