------------------------------ MODULE JobQueue ------------------------------
(***************************************************************************)
(* libmythtv/JobQueue: transcoding, commercial flagging and user jobs, kept *)
(* in the database table jobqueue, which every backend's queue thread looks *)
(* through.  A backend claims a job by writing its name into the row, and   *)
(* runs it: a thread of its own, which starts a child process, which writes *)
(* the job's status too.  Frontends queue, stop, pause and delete jobs by   *)
(* changing rows; a recording that is deleted takes its jobs with it.       *)
(*                                                                         *)
(* Each statement of SQL is one action, and so is each section of code that *)
(* holds runningJobsLock.  (Three actions are more: StopJob and DialogPause *)
(* read a row and write it, and StartChildJob starts a thread and waits     *)
(* until that has found its entry.)  A host that crashes takes the children *)
(* of its threads along.  A queue thread works on a snapshot of the table,  *)
(* taken once per pass.  Jobs are due when they are queued, so that the     *)
(* table's order (schedruntime, id) is that of the ids, and every pass is   *)
(* in the time window in which jobs may run.                               *)
(***************************************************************************)
EXTENDS Integers, Sequences, FiniteSets

CONSTANTS
  Hosts,      \* the backends
  Allowed,    \* for each host the types it may run (JobAllowTranscode, ...)
  MaxJobs,    \* JobQueueMaxSimultaneousJobs
  RetryLimit, \* retrylimit of DoTranscodeThread (3)
  Threads,    \* bound: names for the threads of a host
  Uses,       \* what is queued in which order, what users and hosts do, and on
              \*   which host jobs are put (JobsRunOnRecordHost)
  NULL

Types == {"transcode", "commflag", "user"}
Commands == {"stop", "modify", "requeue", "delete", "deleteAll"}
QueueThread == 0   \* as a holder of runningJobsLock
NoJob == 0         \* jobID of mythcommflag, -1 in the code: the number of no row
Recordings == UNION {{u.jobs[i].rec : i \in DOMAIN u.jobs} : u \in Uses}
Ids == UNION {DOMAIN u.jobs : u \in Uses}

ASSUME JobQueueAssumption ==
  /\ Hosts # {} /\ "" \notin Hosts /\ NULL \notin Commands
  /\ Allowed \in [Hosts -> SUBSET Types]
  /\ MaxJobs \in Nat \ {0} /\ RetryLimit \in Nat
  /\ Threads \subseteq Nat \ {QueueThread}
  /\ \A u \in Uses :
       u \in [jobs : Seq([rec : Recordings, type : Types]), does : SUBSET Commands,
             crashes : Nat, host : Hosts \cup {""}]

VARIABLES
  db,            \* the table: for each id a row
  next,          \* the job that is queued next
  qpc,           \* for each host, its queue thread:
  snap, x,       \*   jobs, and the id of the row it looks at
  jobStatus,     \*   the status of each recording's last job in the snapshot
  started,       \*   startedJobAlready
  runningJobs,   \* for each host and recording, what is running
  lock,          \* who holds runningJobsLock
  thread,        \* for each host, the threads of its jobs and their children
  upc, old,      \* a frontend in QueueJob
  dpc, drec,     \* the master backend in DeleteAllJobs
  dialog,        \* a dialog of StatusBox: what it offers to do to which job
  use            \* one of Uses, and the crashes that are left

queue == <<qpc, snap, x, jobStatus, started>>
jobs  == <<runningJobs, lock, thread>>
user  == <<next, upc, old, dpc, drec, dialog>>
vars  == <<db, queue, jobs, user, use>>

Done == {"Finished", "Aborted", "Errored", "Cancelled"}   \* JOB_DONE
None == [h \in Hosts |-> NULL]

Init ==
  /\ db = <<>> /\ next = 1
  /\ qpc = [h \in Hosts |-> "recover"]
  /\ snap = [h \in Hosts |-> <<>>] /\ x = [h \in Hosts |-> 0]
  /\ jobStatus = [h \in Hosts |-> [r \in Recordings |-> NULL]]
  /\ started = [h \in Hosts |-> FALSE]
  /\ runningJobs = [h \in Hosts |-> [r \in Recordings |-> NULL]]
  /\ lock = None
  /\ thread = [h \in Hosts |-> [t \in Threads |-> NULL]]
  /\ upc = "idle" /\ old = 0 /\ dpc = "idle" /\ drec = NULL /\ dialog = NULL
  /\ use \in Uses

-----------------------------------------------------------------------------
(* The table.  UPDATE ... WHERE id changes nothing when the row is gone.    *)

ChangeJobStatus(id, s) ==
  db' = [i \in DOMAIN db |-> IF i = id THEN [db[i] EXCEPT !.status = s] ELSE db[i]]

ChangeJobCmds(id, c) ==
  db' = [i \in DOMAIN db |-> IF i = id THEN [db[i] EXCEPT !.cmds = c] ELSE db[i]]

\* Mutant: a host claims a row whoever has it.
Claim_any(id, h) ==
  /\ id \in DOMAIN db
  /\ db' = [db EXCEPT ![id].host = h]

\* ChangeJobHost(id, h) has an effect only WHERE hostname = ''.
Unclaimed(id) == id \in DOMAIN db /\ db[id].host = ""

Claim(id, h) == Unclaimed(id) /\ db' = [db EXCEPT ![id].host = h]

ClaimFails(id) == ~Unclaimed(id) /\ UNCHANGED db

Disclaim(id) ==
  db' = [i \in DOMAIN db |-> IF i = id THEN [db[i] EXCEPT !.host = ""] ELSE db[i]]

Delete(ids) == db' = [i \in DOMAIN db \ ids |-> db[i]]

\* JOB_LIST_NOT_DONE
NotDone == {i \in DOMAIN db : db[i].status \notin Done}

GetJobStatus(id) == IF id \in DOMAIN db THEN db[id].status ELSE "Unknown"
GetJobCmd(id) == IF id \in DOMAIN db THEN db[id].cmds ELSE "Run"

-----------------------------------------------------------------------------
(* The queue thread of host h                                              *)

Row(h) == snap[h][x[h]]
Later(h) == {i \in DOMAIN snap[h] : i > x[h]}
Least(S) == CHOOSE i \in S : \A j \in S : i <= j

\* It goes on to the next row of the snapshot; at the end the pass is over.
Advance(h, again) ==
  IF Later(h) # {}
  THEN /\ x' = [x EXCEPT ![h] = Least(Later(h))]
       /\ qpc' = [qpc EXCEPT ![h] = again]
       /\ UNCHANGED snap
  ELSE /\ x' = [x EXCEPT ![h] = 0] /\ snap' = [snap EXCEPT ![h] = <<>>]
       /\ qpc' = [qpc EXCEPT ![h] = "fetch"]

\* The same in ProcessQueue: what the pass has seen and whether it has started a
\* job count until its end.
NextRow(h, seen, any) ==
  /\ Advance(h, "scan")
  /\ jobStatus' = [jobStatus EXCEPT ![h] =
       IF Later(h) # {} THEN seen ELSE [r \in Recordings |-> NULL]]
  /\ started' = [started EXCEPT ![h] = any /\ Later(h) # {}]

Goto(h, pc) == qpc' = [qpc EXCEPT ![h] = pc] /\ UNCHANGED <<snap, x>>

\* Mutant: a job that was running is overlooked.
Recoverable_starting(j, h) ==
  j.host = h /\ (j.status \in {"Starting", "Paused", "Stopping"} \/ j.cmds = "Stop")

\* RecoverQueue: what is left over from an earlier life of the host.
Recoverable(j, h) ==
  /\ j.host = h
  /\ j.status \in {"Starting", "Running", "Paused", "Stopping"} \/ j.cmds = "Stop"

RecoverQueue(h) ==
  /\ qpc[h] = "recover"
  /\ LET left == {i \in NotDone : Recoverable(db[i], h)}
     IN  IF left = {} THEN Goto(h, "fetch")
         ELSE /\ snap' = [snap EXCEPT ![h] = [i \in left |-> db[i]]]
              /\ x' = [x EXCEPT ![h] = Least(left)]
              /\ qpc' = [qpc EXCEPT ![h] = "requeue"]
  /\ UNCHANGED <<db, jobStatus, started, jobs, user, use>>

RecoverStatus(h) ==
  /\ qpc[h] = "requeue"
  /\ ChangeJobStatus(x[h], "Queued")
  /\ Goto(h, "uncommand")
  /\ UNCHANGED <<jobStatus, started, jobs, user, use>>

\* With JobsRunOnRecordHost the job stays on its host.
RecoverCmds(h) ==
  /\ qpc[h] = "uncommand"
  /\ ChangeJobCmds(x[h], "Run")
  /\ IF use.host = "" THEN Goto(h, "disclaim") ELSE Advance(h, "requeue")
  /\ UNCHANGED <<jobStatus, started, jobs, user, use>>

RecoverHost(h) ==
  /\ qpc[h] = "disclaim"
  /\ Disclaim(x[h])
  /\ Advance(h, "requeue")
  /\ UNCHANGED <<jobStatus, started, jobs, user, use>>

\* jobsRunning
Running(h) ==
  Cardinality({i \in DOMAIN db :
    db[i].host = h /\ db[i].status \in {"Running", "Starting", "Paused"}})

\* A pass: nothing is looked at while MaxJobs jobs run here.
GetJobsInQueue(h) ==
  /\ qpc[h] = "fetch"
  /\ NotDone # {} /\ Running(h) < MaxJobs
  /\ snap' = [snap EXCEPT ![h] = [i \in NotDone |-> db[i]]]
  /\ x' = [x EXCEPT ![h] = Least(NotDone)]
  /\ qpc' = [qpc EXCEPT ![h] = "scan"]
  /\ UNCHANGED <<db, jobStatus, started, jobs, user, use>>

Seen(h) == [jobStatus[h] EXCEPT ![Row(h).rec] = Row(h).status]

\* Mutant: a job on another host does not hold up the recording's other jobs.
SkipElsewhere_forget(h) ==
  /\ qpc[h] = "scan" /\ Row(h).host \notin {"", h}
  /\ NextRow(h, jobStatus[h], started[h])
  /\ UNCHANGED <<db, jobs, user, use>>

\* "Should we even be looking at this job?"
SkipElsewhere(h) ==
  /\ qpc[h] = "scan" /\ Row(h).host \notin {"", h}
  /\ NextRow(h, Seen(h), started[h])
  /\ UNCHANGED <<db, jobs, user, use>>

Here(h) == qpc[h] = "scan" /\ Row(h).host \in {"", h}
Blocked(h) == jobStatus[h][Row(h).rec] \notin Done \cup {NULL}
MayRun(h) == Row(h).type \in Allowed[h]

\* "Check to see if there was a previous job that is not done"
SkipBlocked(h) ==
  /\ Here(h) /\ Blocked(h)
  /\ NextRow(h, jobStatus[h], started[h])
  /\ UNCHANGED <<db, jobs, user, use>>

SkipNotAllowed(h) ==
  /\ Here(h) /\ ~Blocked(h) /\ ~MayRun(h)
  /\ NextRow(h, Seen(h), started[h])
  /\ UNCHANGED <<db, jobs, user, use>>

Mine(h) == Here(h) /\ ~Blocked(h) /\ MayRun(h)
Queued(h) == Row(h).status = "Queued"

\* runningJobs[key].flag, set under the lock when there is such an entry
SetFlag(h, flag) ==
  /\ lock[h] = NULL
  /\ runningJobs' = [runningJobs EXCEPT ![h][Row(h).rec] =
       IF @ = NULL THEN NULL ELSE [@ EXCEPT !.flag = flag]]
  /\ UNCHANGED <<lock, thread>>

StopRunning(h) ==
  /\ Mine(h) /\ Row(h).cmds = "Stop" /\ ~Queued(h)
  /\ SetFlag(h, "Stop")
  /\ NextRow(h, Seen(h), started[h])
  /\ UNCHANGED <<db, user, use>>

\* A queued job must be claimed before it can be cancelled.
StopQueued(h) ==
  /\ Mine(h) /\ Row(h).cmds = "Stop" /\ Queued(h)
  /\ \/ /\ Claim(x[h], h)
        /\ Goto(h, "cancel")
        /\ jobStatus' = [jobStatus EXCEPT ![h] = Seen(h)]
        /\ UNCHANGED started
     \/ ClaimFails(x[h]) /\ NextRow(h, Seen(h), started[h])
  /\ UNCHANGED <<jobs, user, use>>

Cancel(h) ==
  /\ qpc[h] = "cancel"
  /\ ChangeJobStatus(x[h], "Cancelled")
  /\ Goto(h, "run")
  /\ UNCHANGED <<jobStatus, started, jobs, user, use>>

\* ChangeJobCmds(id, JOB_RUN), the last step of several branches
ResetCmds(h) ==
  /\ qpc[h] = "run"
  /\ ChangeJobCmds(x[h], "Run")
  /\ NextRow(h, jobStatus[h], started[h])
  /\ UNCHANGED <<jobs, user, use>>

PauseRunning(h) ==
  /\ Mine(h) /\ Row(h).cmds = "Pause" /\ ~Queued(h)
  /\ SetFlag(h, "Pause")
  /\ Goto(h, "run")
  /\ jobStatus' = [jobStatus EXCEPT ![h] = Seen(h)]
  /\ UNCHANGED <<db, started, user, use>>

\* "because no hostname is set"
ResetStatus(h) ==
  /\ Mine(h) /\ Row(h).cmds \notin {"Stop", "Pause"} /\ ~Queued(h)
  /\ IF Row(h).host = ""
     THEN /\ ChangeJobStatus(x[h], "Queued") /\ Goto(h, "run")
          /\ jobStatus' = [jobStatus EXCEPT ![h] = Seen(h)]
          /\ UNCHANGED started
     ELSE NextRow(h, Seen(h), started[h]) /\ UNCHANGED db
  /\ UNCHANGED <<jobs, user, use>>

\* "never start or claim more than one job in a single run"
SkipStarted(h) ==
  /\ Mine(h) /\ Row(h).cmds # "Stop" /\ Queued(h) /\ started[h]
  /\ NextRow(h, Seen(h), TRUE)
  /\ UNCHANGED <<db, jobs, user, use>>

ClaimJob(h) ==
  /\ Mine(h) /\ Row(h).cmds # "Stop" /\ Queued(h) /\ ~started[h]
  /\ \/ /\ IF Row(h).host = "" THEN Claim(x[h], h) ELSE UNCHANGED db
        /\ Goto(h, "process")
        /\ jobStatus' = [jobStatus EXCEPT ![h] = Seen(h)]
        /\ UNCHANGED started
     \/ /\ Row(h).host = "" /\ ClaimFails(x[h])
        /\ NextRow(h, Seen(h), FALSE)
  /\ UNCHANGED <<jobs, user, use>>

\* ProcessJob; the recording may have gone meanwhile.
ProcessJob(h) ==
  /\ qpc[h] = "process"
  /\ ChangeJobStatus(x[h], "Pending")
  /\ \/ Goto(h, "start") \/ Goto(h, "missing")
  /\ UNCHANGED <<jobStatus, started, jobs, user, use>>

NoProgram(h) ==
  /\ qpc[h] = "missing"
  /\ ChangeJobStatus(x[h], "Errored")
  /\ NextRow(h, jobStatus[h], TRUE)
  /\ UNCHANGED <<jobs, user, use>>

StartJob(h) ==
  /\ qpc[h] = "start" /\ lock[h] = NULL
  /\ lock' = [lock EXCEPT ![h] = QueueThread]
  /\ ChangeJobStatus(x[h], "Starting")
  /\ Goto(h, "child")
  /\ UNCHANGED <<jobStatus, started, runningJobs, thread, user, use>>

\* What runs: where its thread is, how often it may retry, how its child ended,
\* a status that it has read, and the job that a flagger takes for its own.
NewThread(j, id) ==
  [id |-> id, rec |-> j.rec, type |-> j.type, retrylimit |-> RetryLimit,
   pc |-> IF j.type = "commflag" THEN "command" ELSE "run",
   exit |-> NULL, status |-> NULL, jobID |-> NoJob]

\* StartChildJob waits until the thread has looked up its entry.
StartChildJob(h) ==
  /\ qpc[h] = "child"
  /\ \E t \in Threads :
       /\ thread[h][t] = NULL
       /\ \A u \in Threads : thread[h][u] = NULL => t <= u
       /\ thread' = [thread EXCEPT ![h][t] = NewThread(Row(h), x[h])]
       /\ runningJobs' = [runningJobs EXCEPT ![h][Row(h).rec] =
            [id |-> x[h], type |-> Row(h).type, flag |-> "Run", thread |-> t]]
  /\ lock' = [lock EXCEPT ![h] = NULL]
  /\ NextRow(h, jobStatus[h], TRUE)
  /\ UNCHANGED <<db, user, use>>

\* recgroup is "Deleted": the entry that was just made is removed again.
ProgramDeleted(h) ==
  /\ qpc[h] = "child"
  /\ ChangeJobStatus(x[h], "Cancelled")
  /\ runningJobs' = [runningJobs EXCEPT ![h][Row(h).rec] = NULL]
  /\ lock' = [lock EXCEPT ![h] = NULL]
  /\ NextRow(h, jobStatus[h], TRUE)
  /\ UNCHANGED <<thread, user, use>>

-----------------------------------------------------------------------------
(* Thread t of host h, and its child process                               *)

At(h, t, pc) == thread[h][t] # NULL /\ thread[h][t].pc = pc
Is(h, t, type) == thread[h][t].type = type
Id(h, t) == thread[h][t].id
Step(h, t, pc) == thread' = [thread EXCEPT ![h][t].pc = pc]
Exit(h, t, e) == thread' = [thread EXCEPT ![h][t].pc = "exited", ![h][t].exit = e]
Keep == UNCHANGED <<queue, user, use>>

\* DoTranscodeThread and DoUserJobThread begin.
ThreadRuns(h, t) ==
  /\ At(h, t, "run")
  /\ ChangeJobStatus(Id(h, t), "Running")
  /\ Step(h, t, IF Is(h, t, "transcode") THEN "try" ELSE "command")
  /\ UNCHANGED <<runningJobs, lock>> /\ Keep

\* The head of the retry loop.
Try(h, t) ==
  /\ At(h, t, "try")
  /\ ChangeJobStatus(Id(h, t), "Starting")
  /\ Step(h, t, "command")
  /\ UNCHANGED <<runningJobs, lock>> /\ Keep

\* The child cannot be run, or gives up before its first change of the status.
CommandFails(h, t, e) ==
  /\ \/ At(h, t, "command") /\ e \in {"notFound", "error"}
     \/ At(h, t, "lookup") /\ e = "error"
  /\ Exit(h, t, e)
  /\ UNCHANGED <<db, runningJobs, lock>> /\ Keep

\* mythtranscode says that it runs; a user's command does not.
CommandRuns(h, t) ==
  /\ At(h, t, "command") /\ ~Is(h, t, "commflag")
  /\ IF Is(h, t, "user") THEN UNCHANGED db ELSE ChangeJobStatus(Id(h, t), "Running")
  /\ Step(h, t, "work")
  /\ UNCHANGED <<runningJobs, lock>> /\ Keep

\* mythcommflag -j finds its recording by the row of the job that it is started for,
CommFlagStarts(h, t) ==
  /\ At(h, t, "command") /\ Is(h, t, "commflag") /\ Id(h, t) \in DOMAIN db
  /\ Step(h, t, "lookup")
  /\ UNCHANGED <<db, runningJobs, lock>> /\ Keep

\* Mutant: it works on any row of the recording.
GetJobID_any(r) ==
  LET found == {i \in DOMAIN db : db[i].rec = r.rec}
  IN  IF found = {} THEN {NoJob} ELSE found

\* and its own row by the recording and the type: GetJobID.  When users have deleted its
\* job meanwhile, and queued another, it takes that for its own.
GetJobID(r) ==
  LET found == {i \in DOMAIN db : db[i].rec = r.rec /\ db[i].type = r.type}
  IN  IF found = {} THEN {NoJob} ELSE found

CommFlagFinds(h, t) ==
  /\ At(h, t, "lookup")
  /\ \E i \in GetJobID(thread[h][t]) :
       thread' = [thread EXCEPT ![h][t].pc = "work", ![h][t].jobID = i]
  /\ UNCHANGED <<db, runningJobs, lock>> /\ Keep

\* mythtranscode ends its work: done, cut list changed, failed, or stopped when it
\* has seen the command.  It then looks at the status again (CompleteJob).
TranscodeEnds(h, t, s) ==
  /\ At(h, t, "work") /\ Is(h, t, "transcode")
  /\ s \in {"Stopping", "Retry", "Erroring", "Aborting"}
  /\ s = "Aborting" => GetJobCmd(Id(h, t)) = "Stop"
  /\ ChangeJobStatus(Id(h, t), s)
  /\ Step(h, t, "complete")
  /\ UNCHANGED <<runningJobs, lock>> /\ Keep

CompleteJob(h, t) ==
  /\ At(h, t, "complete")
  /\ LET s == GetJobStatus(Id(h, t))
     IN  IF s \in {"Stopping", "Aborting", "Erroring"}
         THEN thread' = [thread EXCEPT ![h][t].pc = "completed", ![h][t].status = s]
         ELSE Exit(h, t, "restart")
  /\ UNCHANGED <<db, runningJobs, lock>> /\ Keep

CompletedJob(h, t) ==
  /\ At(h, t, "completed")
  /\ LET s == thread[h][t].status
     IN  /\ ChangeJobStatus(Id(h, t), CASE s = "Stopping" -> "Finished"
                                        [] s = "Aborting" -> "Aborted"
                                        [] s = "Erroring" -> "Errored")
         /\ Exit(h, t, IF s = "Stopping" THEN "ok" ELSE "error")
  /\ UNCHANGED <<runningJobs, lock>> /\ Keep

\* mythcommflag breathes: it looks at the command, of which it obeys each but a
\* stop while it is paused, when it only notes it.
JobID(h, t) == thread[h][t].jobID
CommFlagPauses(h, t) ==
  /\ At(h, t, "work") \/ At(h, t, "paused")
  /\ Is(h, t, "commflag") /\ GetJobCmd(JobID(h, t)) = "Pause"
  /\ ChangeJobStatus(JobID(h, t), "Paused")
  /\ Step(h, t, "paused")
  /\ UNCHANGED <<runningJobs, lock>> /\ Keep

CommFlagResumes(h, t) ==
  /\ At(h, t, "paused") /\ GetJobCmd(JobID(h, t)) = "Resume"
  /\ ChangeJobStatus(JobID(h, t), "Running")
  /\ Step(h, t, "work")
  /\ UNCHANGED <<runningJobs, lock>> /\ Keep

\* Its progress reports say that it runs, and so does a command to resume that stands.
CommFlagReports(h, t) ==
  /\ At(h, t, "work") /\ Is(h, t, "commflag")
  /\ ChangeJobStatus(JobID(h, t), "Running")
  /\ UNCHANGED jobs /\ Keep

\* mythcommflag (stopped or done) and a user's command end.
CommandEnds(h, t, e) ==
  /\ At(h, t, "work") /\ ~Is(h, t, "transcode")
  /\ e \in {"ok", "error"}
  /\ Exit(h, t, e)
  /\ UNCHANGED <<db, runningJobs, lock>> /\ Keep

\* DoTranscodeThread reads the status the child has left, and goes by it.
TranscodeExited(h, t) ==
  /\ At(h, t, "exited") /\ Is(h, t, "transcode")
  /\ thread' = [thread EXCEPT ![h][t].pc = "judge",
                              ![h][t].status = GetJobStatus(Id(h, t))]
  /\ UNCHANGED <<db, runningJobs, lock>> /\ Keep

\* Mutant: the limit is not looked at.
Restarts_always(h, t) == thread[h][t].exit = "restart"

Restarts(h, t) == thread[h][t].exit = "restart" /\ thread[h][t].retrylimit > 0

TranscodeRetries(h, t) ==
  /\ At(h, t, "judge") /\ Restarts(h, t)
  /\ thread' = [thread EXCEPT ![h][t].pc = "try", ![h][t].retrylimit = @ - 1]
  /\ UNCHANGED <<db, runningJobs, lock>> /\ Keep

TranscodeOver(h, t) ==
  /\ At(h, t, "judge") /\ ~Restarts(h, t)
  /\ ChangeJobStatus(Id(h, t),
       IF thread[h][t].status = "Finished" /\ thread[h][t].exit # "notFound"
       THEN "Finished" ELSE "Errored")
  /\ Step(h, t, IF thread[h][t].retrylimit = 0 THEN "limit" ELSE "remove")
  /\ UNCHANGED <<runningJobs, lock>> /\ Keep

\* "Retry limit exceeded", also when the last try did it
TranscodeLimit(h, t) ==
  /\ At(h, t, "limit")
  /\ ChangeJobStatus(Id(h, t), "Errored")
  /\ Step(h, t, "remove")
  /\ UNCHANGED <<runningJobs, lock>> /\ Keep

UserJobExited(h, t) ==
  /\ At(h, t, "exited") /\ Is(h, t, "user")
  /\ ChangeJobStatus(Id(h, t),
       IF thread[h][t].exit = "notFound" THEN "Errored" ELSE "Finished")
  /\ Step(h, t, "remove")
  /\ UNCHANGED <<runningJobs, lock>> /\ Keep

Entry(h, t) == runningJobs[h][thread[h][t].rec]
Flagged(h, t) == Entry(h, t) # NULL /\ Entry(h, t).flag = "Stop"

\* Mutant: the lock is only taken in RemoveRunningJob, as the other two do.
CommFlagExited_unlocked(h, t) ==
  /\ At(h, t, "exited") /\ Is(h, t, "commflag")
  /\ ChangeJobStatus(Id(h, t), IF thread[h][t].exit = "ok" THEN "Finished" ELSE "Errored")
  /\ Step(h, t, "remove")
  /\ UNCHANGED <<runningJobs, lock>> /\ Keep

\* DoFlagCommercialsThread keeps the lock from here to the end.
CommFlagExited(h, t) ==
  /\ At(h, t, "exited") /\ Is(h, t, "commflag") /\ lock[h] = NULL
  /\ lock' = [lock EXCEPT ![h] = t]
  /\ ChangeJobStatus(Id(h, t),
       CASE thread[h][t].exit = "notFound" -> "Errored"
         [] thread[h][t].exit # "notFound" /\ Flagged(h, t) -> "Aborted"
         [] thread[h][t].exit = "ok" -> "Finished"
         [] OTHER -> "Errored")
  /\ Step(h, t, "remove")
  /\ UNCHANGED <<runningJobs, queue, user, use>>

\* Mutant: the lock is not released.
RemoveRunningJob_locked(h, t) ==
  /\ At(h, t, "remove") /\ lock[h] \in {NULL, t}
  /\ runningJobs' = [runningJobs EXCEPT ![h][thread[h][t].rec] = NULL]
  /\ thread' = [thread EXCEPT ![h][t] = NULL]
  /\ UNCHANGED <<db, lock, queue, user, use>>

\* RemoveRunningJob deletes the program of the recording's entry, whoever made it.
RemoveRunningJob(h, t) ==
  /\ At(h, t, "remove") /\ lock[h] \in {NULL, t}
  /\ runningJobs' = [runningJobs EXCEPT ![h][thread[h][t].rec] = NULL]
  /\ thread' = [thread EXCEPT ![h][t] = NULL]
  /\ lock' = [lock EXCEPT ![h] = NULL]
  /\ UNCHANGED <<db, queue, user, use>>

-----------------------------------------------------------------------------
(* Crashes                                                                 *)

Crash(h) ==
  /\ use.crashes > 0 /\ qpc[h] # "down"
  /\ use' = [use EXCEPT !.crashes = @ - 1]
  /\ qpc' = [qpc EXCEPT ![h] = "down"]
  /\ snap' = [snap EXCEPT ![h] = <<>>] /\ x' = [x EXCEPT ![h] = 0]
  /\ jobStatus' = [jobStatus EXCEPT ![h] = [r \in Recordings |-> NULL]]
  /\ started' = [started EXCEPT ![h] = FALSE]
  /\ runningJobs' = [runningJobs EXCEPT ![h] = [r \in Recordings |-> NULL]]
  /\ lock' = [lock EXCEPT ![h] = NULL]
  /\ thread' = [thread EXCEPT ![h] = [t \in Threads |-> NULL]]
  /\ UNCHANGED <<db, user>>

Restart(h) ==
  /\ qpc[h] = "down"
  /\ qpc' = [qpc EXCEPT ![h] = "recover"]
  /\ UNCHANGED <<db, snap, x, jobStatus, started, jobs, user, use>>

-----------------------------------------------------------------------------
(* Users                                                                   *)

Busy == {"Starting", "Running", "Paused", "Stopping", "Erroring", "Aborting"}
Same(j) == {i \in DOMAIN db : db[i].rec = j.rec /\ db[i].type = j.type}
Rest == UNCHANGED <<queue, jobs, use>>

Insert(id) ==
  db' = [i \in DOMAIN db \cup {id} |->
          IF i = id THEN [rec |-> use.jobs[id].rec, type |-> use.jobs[id].type,
                          status |-> "Queued", cmds |-> "Run", host |-> use.host]
          ELSE db[i]]

\* QueueJob looks for the same job of the same recording.
QueueJob ==
  /\ upc = "idle" /\ next <= Len(use.jobs)
  /\ LET same == Same(use.jobs[next])
     IN  \/ /\ same = {}
            /\ Insert(next) /\ next' = next + 1 /\ UNCHANGED <<upc, old>>
         \/ /\ \E i \in same : db[i].status \in Busy
            /\ next' = next + 1 /\ UNCHANGED <<db, upc, old>>
         \/ /\ \E i \in same : /\ db[i].status \notin Busy
                               /\ old' = i
                               /\ upc' = IF db[i].status \notin Done /\ db[i].cmds = "Stop"
                                         THEN "delete" ELSE "replace"
            /\ UNCHANGED <<db, next>>
  /\ UNCHANGED <<dpc, drec, dialog>> /\ Rest

\* DeleteJob, then the new row, unless the old one was queued and stopped.
QueueDeletes ==
  /\ upc \in {"delete", "replace"}
  /\ Delete({old})
  /\ upc' = IF upc = "replace" THEN "insert" ELSE "idle"
  /\ next' = IF upc = "replace" THEN next ELSE next + 1
  /\ old' = 0
  /\ UNCHANGED <<dpc, drec, dialog>> /\ Rest

QueueInserts ==
  /\ upc = "insert"
  /\ Insert(next) /\ next' = next + 1
  /\ upc' = "idle"
  /\ UNCHANGED <<old, dpc, drec, dialog>> /\ Rest

\* PlaybackBox stops what IsJobQueuedOrRunning.
StopJob(i) ==
  /\ "stop" \in use.does /\ i \in NotDone
  /\ ChangeJobCmds(i, "Stop")
  /\ UNCHANGED user /\ Rest

\* StatusBox offers what the job's status allows when it is selected,
Asks(s) == CASE s = "Queued" -> "delete"
             [] s \in {"Pending", "Starting", "Running", "Paused"} -> "modify"
             [] s \in Done -> "requeue"
             [] OTHER -> NULL

SelectJob(i) ==
  /\ dialog = NULL /\ i \in DOMAIN db
  /\ Asks(db[i].status) \in use.does
  /\ dialog' = [id |-> i, asks |-> Asks(db[i].status)]
  /\ UNCHANGED <<db, next, upc, old, dpc, drec>> /\ Rest

\* and does it when the user says so, whatever has become of the job.
Confirmed(asks) ==
  /\ dialog # NULL /\ dialog.asks = asks
  /\ dialog' = NULL
  /\ UNCHANGED <<next, upc, old, dpc, drec>> /\ Rest

DialogStop == Confirmed("modify") /\ ChangeJobCmds(dialog.id, "Stop")

DialogPause ==
  /\ Confirmed("modify")
  /\ ChangeJobCmds(dialog.id,
       IF GetJobStatus(dialog.id) = "Paused" THEN "Resume" ELSE "Pause")

\* The row keeps its host.
DialogRequeue == Confirmed("requeue") /\ ChangeJobStatus(dialog.id, "Queued")

DialogDelete == Confirmed("delete") /\ Delete({dialog.id})

\* DeleteAllJobs of a recording: its queued jobs are cancelled,
DeleteAllJobs(r) ==
  /\ "deleteAll" \in use.does /\ dpc = "idle"
  /\ dpc' = "stop" /\ drec' = r
  /\ db' = [i \in DOMAIN db |->
              IF db[i].rec = r /\ db[i].status = "Queued"
              THEN [db[i] EXCEPT !.status = "Cancelled"] ELSE db[i]]
  /\ UNCHANGED <<next, upc, old, dialog>> /\ Rest

\* the others stopped,
StopAllJobs ==
  /\ dpc = "stop"
  /\ dpc' = "wait"
  /\ db' = [i \in DOMAIN db |->
              IF db[i].rec = drec /\ db[i].status # "Cancelled"
              THEN [db[i] EXCEPT !.cmds = "Stop"] ELSE db[i]]
  /\ UNCHANGED <<next, upc, old, drec, dialog>> /\ Rest

\* waited for,
JobsAreRunning == \E i \in DOMAIN db : db[i].rec = drec /\ db[i].status \notin Done

WaitForJobs ==
  /\ dpc = "wait" /\ ~JobsAreRunning
  /\ dpc' = "delete"
  /\ UNCHANGED <<db, next, upc, old, drec, dialog>> /\ Rest

\* for 90 seconds at most (totalSlept <= maxSleep holds then, too),
WaitTimesOut ==
  /\ dpc = "wait" /\ JobsAreRunning
  /\ dpc' = "delete"
  /\ UNCHANGED <<db, next, upc, old, drec, dialog>> /\ Rest

\* and deleted.  The file goes next.
DeleteRows ==
  /\ dpc = "delete"
  /\ Delete({i \in DOMAIN db : db[i].rec = drec})
  /\ dpc' = "idle" /\ drec' = NULL
  /\ UNCHANGED <<next, upc, old, dialog>> /\ Rest

-----------------------------------------------------------------------------

RecoverStep(h) == RecoverQueue(h) \/ RecoverStatus(h) \/ RecoverCmds(h) \/ RecoverHost(h)

QueueStep(h) ==
  \/ RecoverStep(h) \/ GetJobsInQueue(h)
  \/ SkipElsewhere(h) \/ SkipBlocked(h) \/ SkipNotAllowed(h)
  \/ StopRunning(h) \/ StopQueued(h) \/ Cancel(h) \/ ResetCmds(h)
  \/ PauseRunning(h) \/ ResetStatus(h) \/ SkipStarted(h) \/ ClaimJob(h)
  \/ ProcessJob(h) \/ NoProgram(h) \/ StartJob(h) \/ StartChildJob(h)
  \/ ProgramDeleted(h)

ThreadStep(h, t) ==
  \/ ThreadRuns(h, t) \/ Try(h, t) \/ CommandRuns(h, t)
  \/ CommFlagStarts(h, t) \/ CommFlagFinds(h, t)
  \/ \E e \in {"notFound", "error"} : CommandFails(h, t, e)
  \/ \E s \in {"Stopping", "Retry", "Erroring", "Aborting"} : TranscodeEnds(h, t, s)
  \/ CompleteJob(h, t) \/ CompletedJob(h, t)
  \/ CommFlagResumes(h, t)
  \/ \E e \in {"ok", "error"} : CommandEnds(h, t, e)
  \/ TranscodeExited(h, t) \/ TranscodeRetries(h, t) \/ TranscodeOver(h, t)
  \/ TranscodeLimit(h, t) \/ UserJobExited(h, t) \/ CommFlagExited(h, t)
  \/ RemoveRunningJob(h, t)

UserStep ==
  \/ QueueJob \/ QueueDeletes \/ QueueInserts
  \/ \E i \in Ids : StopJob(i) \/ SelectJob(i)
  \/ DialogStop \/ DialogPause \/ DialogRequeue \/ DialogDelete
  \/ \E r \in Recordings : DeleteAllJobs(r)
  \/ StopAllJobs \/ WaitForJobs \/ WaitTimesOut \/ DeleteRows

Next ==
  \/ \E h \in Hosts : QueueStep(h) \/ Crash(h) \/ Restart(h)
  \/ \E h \in Hosts, t \in Threads :
       ThreadStep(h, t) \/ CommFlagPauses(h, t) \/ CommFlagReports(h, t)
  \/ UserStep

Spec == Init /\ [][Next]_vars

\* Every thread runs and every child ends; a host that crashes is started again.
Fairness ==
  /\ \A h \in Hosts : WF_vars(QueueStep(h)) /\ WF_vars(Restart(h))
  /\ \A h \in Hosts, t \in Threads : WF_vars(ThreadStep(h, t))

FairSpec == Spec /\ Fairness

-----------------------------------------------------------------------------
(* Properties                                                              *)

Statuses == Done \cup Busy \cup {"Queued", "Pending", "Retry"}
Rows == [rec : Recordings, type : Types, status : Statuses,
         cmds : {"Run", "Stop", "Pause", "Resume"}, host : Hosts \cup {""}]
Entries == [id : Ids, type : Types, flag : {"Run", "Stop", "Pause"}, thread : Threads]
ThreadPcs == {"run", "try", "command", "lookup", "work", "paused", "complete",
              "completed", "exited", "judge", "limit", "remove"}
ThreadStates ==
  [id : Ids, rec : Recordings, type : Types, retrylimit : 0..RetryLimit, pc : ThreadPcs,
   exit : {NULL, "ok", "error", "notFound", "restart"}, status : Statuses \cup {NULL, "Unknown"},
   jobID : Ids \cup {NoJob}]
QueuePcs == {"down", "recover", "requeue", "uncommand", "disclaim", "fetch", "scan",
             "cancel", "run", "process", "missing", "start", "child"}

ASSUME NullAssumption ==
  /\ NULL \notin Statuses /\ NULL \notin Threads \cup {QueueThread}
  /\ NULL \notin Entries /\ NULL \notin ThreadStates

DbOK == DOMAIN db \subseteq Ids /\ \A i \in DOMAIN db : db[i] \in Rows

RowsOK ==
  /\ qpc \in [Hosts -> QueuePcs] /\ x \in [Hosts -> Ids \cup {0}]
  /\ DOMAIN snap = Hosts
  /\ \A h \in Hosts : /\ DOMAIN snap[h] \subseteq Ids
                      /\ \A i \in DOMAIN snap[h] : snap[h][i] \in Rows
                      /\ x[h] \in DOMAIN snap[h] \cup {0}

SeenOK ==
  /\ jobStatus \in [Hosts -> [Recordings -> Statuses \cup {NULL}]]
  /\ started \in [Hosts -> BOOLEAN]

JobsOK ==
  /\ runningJobs \in [Hosts -> [Recordings -> Entries \cup {NULL}]]
  /\ lock \in [Hosts -> Threads \cup {NULL, QueueThread}]
  /\ thread \in [Hosts -> [Threads -> ThreadStates \cup {NULL}]]

UserOK ==
  /\ next \in 1..(Len(use.jobs) + 1) /\ (upc # "idle" => next <= Len(use.jobs))
  /\ upc \in {"idle", "delete", "replace", "insert"} /\ old \in Ids \cup {0}
  /\ dpc \in {"idle", "stop", "wait", "delete"} /\ drec \in Recordings \cup {NULL}
  /\ dialog \in [id : Ids, asks : {"modify", "requeue", "delete"}] \cup {NULL}

UseOK == \E u \in Uses : \E n \in 0..u.crashes : use = [u EXCEPT !.crashes = n]

TypeOK == DbOK /\ RowsOK /\ SeenOK /\ JobsOK /\ UserOK /\ UseOK

\* Thread t of host h has job i; ProcessJob of host h is at work on it.
Has(h, t, i) == thread[h][t] # NULL /\ thread[h][t].id = i
Starts(h, i) == x[h] = i /\ qpc[h] \in {"process", "missing", "start", "child"}
Owns(h, i) == Starts(h, i) \/ \E t \in Threads : Has(h, t, i)

\* The row of job i is only worked on for job i: it is not that of a flagger which was
\* queued when its recording had been queued for flagging before.  The child of the earlier
\* job may be at work still, its row deleted, and takes the new row for its own.
OwnRow(i) ==
  use.jobs[i].type = "commflag" =>
    \A j \in DOMAIN use.jobs : use.jobs[j] = use.jobs[i] => i <= j

\* A job is run by one host, whatever snapshots the hosts go by and users or flaggers do;
\* and once at a time there: claiming and recovering a row never put two threads on it.
\* (A user who requeues a job requeues it while its thread is still at it.  A flagger of an
\* earlier job may say of a row that it runs, and hosts that see it without a host requeue
\* it: OwnRow.  That a host which starts also recovers what is a day old, whoever has it
\* (jobqueue.cpp:1585), is left out, as time is: such a job may run twice, too.)
RunOnce ==
  \A i \in Ids, h, g \in Hosts :
    /\ Owns(h, i) /\ Owns(g, i) => h = g
    /\ "requeue" \notin use.does /\ i \in DOMAIN use.jobs /\ OwnRow(i) =>
         /\ \A t, u \in Threads : Has(h, t, i) /\ Has(h, u, i) => t = u
         /\ \A t \in Threads : Has(h, t, i) => ~Starts(h, i)

\* The threads that work on their recording's file, or will.
Works == {"run", "try", "command", "lookup", "work", "paused", "complete", "completed"}
Live == {ht \in Hosts \X Threads : thread[ht[1]][ht[2]] # NULL}
T(ht) == thread[ht[1]][ht[2]]
Working == {a \in Live : T(a).pc \in Works}

\* Nobody deletes or requeues a job, or queues one again: rows come and go in order.
InOrder ==
  /\ use.does \cap {"requeue", "delete", "deleteAll"} = {}
  /\ \A i, j \in DOMAIN use.jobs : use.jobs[i] = use.jobs[j] => i = j

\* "prevent us from processing any other jobs for this recording until this one is
\* completed on the remote host" (jobqueue.cpp:278), here and elsewhere: no two
\* programs work on a recording's file at a time.
OneJobPerRecording ==
  InOrder => \A a, b \in Working : T(a).rec = T(b).rec => a = b

\* A recording's jobs but the last are those of a flagger, whose thread keeps the lock
\* from its last status to RemoveRunningJob.
FlagsFirst ==
  \A i, j \in DOMAIN use.jobs :
    i < j /\ use.jobs[i].rec = use.jobs[j].rec => use.jobs[i].type = "commflag"

\* The entry of a recording in runningJobs belongs to the thread that works on it:
\* its program is not deleted by the end of the thread before.  This needs FlagsFirst:
\* DoUserJobThread writes its last status at 2317 and removes the entry at 2323, and the
\* recording's next job may be started, and overwrite the entry, in between.
EntryIsOwn ==
  InOrder /\ FlagsFirst =>
    \A a \in Live : /\ runningJobs[a[1]][T(a).rec] # NULL
                     /\ runningJobs[a[1]][T(a).rec].thread = a[2]

\* A row that says its job runs on a host has a thread there, or the host is down or
\* still recovering: no crash leaves such a row behind for good.
Recovering(h) == qpc[h] \in {"down", "recover", "requeue", "uncommand", "disclaim"}
RowsHaveThreads ==
  \A i \in DOMAIN db :
    OwnRow(i) /\ db[i].status \in {"Starting", "Running", "Paused", "Stopping"} =>
      /\ db[i].host \in Hosts
      /\ \/ Recovering(db[i].host) \/ Starts(db[i].host, i)
         \/ \E t \in Threads : Has(db[i].host, t, i)

\* A job that nobody is at work on, in a state in which no host takes it up: one of those
\* that RecoverQueue does not look for, or what a flagger has written into another's row.
Abandoned(i) ==
  /\ db[i].host \in Hosts /\ ~Recovering(db[i].host) /\ ~Starts(db[i].host, i)
  /\ \A h \in Hosts, t \in Threads : ~Has(h, t, i)
  /\ \/ db[i].status \in {"Pending", "Retry", "Erroring", "Aborting"}
     \/ ~OwnRow(i) /\ db[i].status \in {"Running", "Paused"}

\* A stopped job that a host has claimed cannot be cancelled by it (StopQueued).
Unstoppable(i) == db[i].status = "Queued" /\ db[i].cmds = "Stop" /\ db[i].host # ""

\* A queued job is run to its end unless a user pauses it, or its recording waits
\* for one of those jobs.
EveryJobEnds ==
  \A i \in Ids : (i \in DOMAIN db /\ "modify" \notin use.does) ~>
    \/ i \notin DOMAIN db
    \/ db[i].status \in Done
    \/ \E j \in DOMAIN db : db[j].rec = db[i].rec /\ (Abandoned(j) \/ Unstoppable(j))

\* A job that has ended is not run again by a host that goes by an old snapshot.
\* (DeleteAllJobs cancels queued jobs without claiming them. A transcode's last
\* status is written twice, by mythtranscode and then by its thread: the second
\* write also ends a job that was requeued between the two, and that is run again.)
DoneStaysDone ==
  [][\A i \in DOMAIN db \cap DOMAIN db' :
        /\ db[i].status \in Done /\ OwnRow(i) /\ "deleteAll" \notin use.does
        /\ db[i].type = "transcode" => "requeue" \notin use.does
        => db'[i].status \in Done \/ DialogRequeue]_vars

\* "if we're trying to stop a job and it's still queued then let's just change the
\* status to cancelled so we don't try to run it from the queue"
\* (jobqueue.cpp:353).
StoppedIsCancelled ==
  \A i \in Ids :
    (i \in DOMAIN db /\ db[i].status = "Queued" /\ db[i].cmds = "Stop") ~>
      (i \notin DOMAIN db \/ db[i].status # "Queued")
=============================================================================
