-------------------------------- MODULE Jobs --------------------------------
(***************************************************************************)
(* The scheduled jobs of one user: the `jobs` and `job_runs` tables of the *)
(* UserCell, their reconciliation with a package manifest, and the         *)
(* dispatchers that claim due jobs and run them (a cron tick, an           *)
(* administrator's POST /admin/jobs, or a manual jobRunNow).               *)
(*                                                                         *)
(* Each method of the cell is atomic; a dispatcher awaits between them, so *)
(* several may be at work at once, each with the clock value it started    *)
(* with.  executeRun is the subject of module Runs: here it returns a      *)
(* success or an error, or it throws, as StartRefused and internal_error   *)
(* do there.                                                               *)
(***************************************************************************)
EXTENDS Integers, Sequences, FiniteSets

CONSTANTS JobIds,       \* <package>#<job name>, all of one package
          Manifests,    \* the manifests its author may save
          Dispatchers,  \* concurrent dispatch activities
          Failures,     \* which failures this model includes: "throw", "crash"
          JobRunKeep,   \* job_runs kept per job (50 in the code)
          CronScan,     \* how far nextCronOccurrence looks ahead (400 days in the code), in minutes
          MaxTime,      \* bound: last clock value, in minutes
          MaxJobRuns    \* bound: job_runs of one job, abandoned ones included

Schedules == [type : {"cron", "interval", "once"}, n : Nat \ {0}]
EnabledFlags == {"yes", "no", "unset"}

\* A manifest maps the jobs it declares to a schedule and an enabled flag.
Declarations == [declared : BOOLEAN, schedule : Schedules, enabled : EnabledFlags]

ASSUME JobsAssumption ==
    /\ IsFiniteSet(JobIds)
    /\ Manifests \subseteq [JobIds -> Declarations]
    /\ Failures \subseteq {"throw", "crash"}
    /\ MaxTime \in Nat /\ MaxJobRuns \in Nat /\ JobRunKeep \in Nat \ {0} /\ CronScan \in Nat

Never == -1

VARIABLES now,      \* the clock
          jobs,     \* the jobs table
          jobRuns,  \* the job_runs of each job, oldest first
          disp,     \* the dispatchers
          left      \* history: the jobs a dispatcher had claimed or was to run when it failed

vars == <<now, jobs, jobRuns, disp, left>>

JobRows == [present : BOOLEAN, schedule : Schedules, enabled : BOOLEAN,
            nextRun : Nat \cup {Never}, lastRun : Nat \cup {Never},
            lastStatus : {"none", "running", "success", "error"}]
NoJob == [present |-> FALSE, schedule |-> [type |-> "once", n |-> 1], enabled |-> FALSE,
          nextRun |-> Never, lastRun |-> Never, lastStatus |-> "none"]

JobRow(schedule, enabled, nextRun, lastRun, lastStatus) ==
    [present |-> TRUE, schedule |-> schedule, enabled |-> enabled,
     nextRun |-> nextRun, lastRun |-> lastRun, lastStatus |-> lastStatus]

\* A row of job_runs and the dispatcher that inserted it.
JobRunRows == [by : Dispatchers, status : {"running", "success", "error"}]

\* A dispatcher: what it does next, the clock value it read, the jobs it has left to run.
Disp(pc, at, queue) == [pc |-> pc, at |-> at, queue |-> queue]
IdleDisp == Disp("idle", 0, <<>>)

----------------------------------------------------------------------------
(* Schedules *)

\* The run after t.  A cron expression matches every n-th minute; an interval counts
\* from the last run and skips the turns that have passed.
computeNextRun(s, t, lastRun) ==
    LET anchor == IF lastRun = Never THEN t ELSE lastRun
    IN  CASE s.type = "cron"     -> t + s.n - (t % s.n)
          [] s.type = "interval" -> IF t < anchor + s.n THEN anchor + s.n
                                    ELSE t + s.n - ((t - anchor) % s.n)
          [] s.type = "once"     -> IF lastRun # Never THEN Never ELSE IF s.n <= t THEN t ELSE s.n

\* nextCronOccurrence throws when nothing matches within its scan: a rare expression may be
\* accepted when its next match is near, and fail once that has passed.
Found(s, t) == s.type = "cron" => s.n - (t % s.n) <= CronScan

----------------------------------------------------------------------------
(* The package's author and the user *)

\* reconcileJobs: the manifest may enable an existing job, never disable it.
Reconciled(j, decl) ==
    LET old == jobs[j]
    IN  IF ~decl.declared THEN NoJob
        ELSE JobRow(decl.schedule,
                    IF old.present THEN old.enabled \/ decl.enabled = "yes" ELSE decl.enabled # "no",
                    computeNextRun(decl.schedule, now, old.lastRun),
                    old.lastRun, old.lastStatus)

\* validateSchedule refuses a package before anything is written.
Validated(m) == \A j \in JobIds : m[j].declared => Found(m[j].schedule, now)

packageSave(m) ==
    /\ Validated(m)
    /\ jobs' = [j \in JobIds |-> Reconciled(j, m[j])]
    /\ UNCHANGED <<now, jobRuns, disp, left>>

packageDelete ==
    /\ \E j \in JobIds : jobs[j].present
    /\ jobs' = [j \in JobIds |-> NoJob]
    /\ UNCHANGED <<now, jobRuns, disp, left>>

jobUpdate(j, enabled) ==
    /\ jobs[j].present
    /\ enabled => Found(jobs[j].schedule, now)
    /\ jobs' = [jobs EXCEPT ![j] = JobRow(@.schedule, enabled,
                                          IF enabled THEN computeNextRun(@.schedule, now, @.lastRun) ELSE Never,
                                          @.lastRun, @.lastStatus)]
    /\ UNCHANGED <<now, jobRuns, disp, left>>

----------------------------------------------------------------------------
(* Dispatching *)

Due(j, t) == jobs[j].present /\ jobs[j].enabled /\ jobs[j].nextRun # Never /\ jobs[j].nextRun <= t

\* The due jobs in the order of next_run_at.
Orders(S) ==
    {q \in [1..Cardinality(S) -> S] :
        \A a, b \in 1..Cardinality(S) : a < b => q[a] # q[b] /\ jobs[q[a]].nextRun <= jobs[q[b]].nextRun}

\* dispatchDueJobs reads the clock, then asks the registry for the users.
DispatchBegin(d) ==
    /\ disp[d].pc = "idle"
    /\ disp' = [disp EXCEPT ![d] = Disp("claiming", now, <<>>)]
    /\ UNCHANGED <<now, jobs, jobRuns, left>>

\* Mutant: the schedule is advanced when the run ends, not when it is claimed.
AdvancedLate(S, t) ==
    [j \in JobIds |-> IF j \in S THEN JobRow(jobs[j].schedule, jobs[j].enabled, jobs[j].nextRun, t, "running") ELSE jobs[j]]

\* The claimed jobs S take their next turn.
Advanced(S, t) ==
    [j \in JobIds |->
        IF j \in S
        THEN JobRow(jobs[j].schedule, jobs[j].enabled, computeNextRun(jobs[j].schedule, t, t), t, "running")
        ELSE jobs[j]]

DueJobs(d) == {j \in JobIds : Due(j, disp[d].at)}

jobsClaimDue(d) ==
    LET due == DueJobs(d)
    IN  /\ disp[d].pc = "claiming"
        /\ \A j \in due : Found(jobs[j].schedule, disp[d].at)
        /\ \E q \in Orders(due) : disp' = [disp EXCEPT ![d] = Disp("next", @.at, q)]
        /\ jobs' = Advanced(due, disp[d].at)
        /\ UNCHANGED <<now, jobRuns, left>>

\* computeNextRun throws for one of the due jobs: those before it have been advanced, nothing is
\* rolled back, and the dispatcher gets the rejection instead of the jobs.
ClaimThrows(d) ==
    LET due == DueJobs(d)
    IN  /\ disp[d].pc = "claiming"
        /\ \E q \in Orders(due) : \E n \in 1..Cardinality(due) :
              /\ ~Found(jobs[q[n]].schedule, disp[d].at)
              /\ \A i \in 1..(n - 1) : Found(jobs[q[i]].schedule, disp[d].at)
              /\ jobs' = Advanced({q[i] : i \in 1..(n - 1)}, disp[d].at)
              /\ left' = left \cup {q[i] : i \in 1..(n - 1)}
        /\ disp' = [disp EXCEPT ![d] = IdleDisp]
        /\ UNCHANGED <<now, jobRuns>>

\* jobRunNow: the job is looked up, its schedule is not touched.
jobRunNow(d, j) ==
    /\ disp[d].pc = "idle"
    /\ jobs[j].present
    /\ disp' = [disp EXCEPT ![d] = Disp("next", 0, <<j>>)]
    /\ UNCHANGED <<now, jobs, jobRuns, left>>

\* The loop over the claimed jobs ends.
DispatchEnd(d) ==
    /\ disp[d].pc = "next" /\ disp[d].queue = <<>>
    /\ disp' = [disp EXCEPT ![d] = IdleDisp]
    /\ UNCHANGED <<now, jobs, jobRuns, left>>

\* The head of the queue is the job being run.
Job(d) == Head(disp[d].queue)
Queued(d, j) == \E i \in 1..Len(disp[d].queue) : disp[d].queue[i] = j
InQueue(d) == {j \in JobIds : Queued(d, j)}

jobRunStart(d) ==
    /\ disp[d].pc = "next" /\ disp[d].queue # <<>>
    /\ Len(jobRuns[Job(d)]) < MaxJobRuns
    /\ jobRuns' = [jobRuns EXCEPT ![Job(d)] = Append(@, [by |-> d, status |-> "running"])]
    /\ disp' = [disp EXCEPT ![d] = Disp("executing", @.at, @.queue)]
    /\ UNCHANGED <<now, jobs, left>>

\* executeRun throws (a quota is reached, the run's row is gone): the rejection
\* leaves runJobNow and the loop over the claimed jobs.
ExecuteThrows(d) ==
    /\ "throw" \in Failures
    /\ disp[d].pc = "executing"
    /\ disp' = [disp EXCEPT ![d] = IdleDisp]
    /\ left' = left \cup InQueue(d)
    /\ UNCHANGED <<now, jobs, jobRuns>>

Settle(rows, d, outcome) ==
    LET mine == {i \in 1..Len(rows) : rows[i].by = d}
    IN  [i \in 1..Len(rows) |->
            IF i \in mine /\ (\A k \in mine : k <= i) THEN [by |-> d, status |-> outcome] ELSE rows[i]]
Newest(rows) == SubSeq(rows, IF Len(rows) > JobRunKeep THEN Len(rows) - JobRunKeep + 1 ELSE 1, Len(rows))

\* Mutant: an error is recorded on the job_runs row only.
jobRunFinishRowOnly(d, outcome) ==
    LET j == Job(d)
    IN  /\ disp[d].pc = "executing"
        /\ jobRuns' = [jobRuns EXCEPT ![j] = Newest(Settle(@, d, outcome))]
        /\ jobs' = IF jobs[j].present /\ outcome = "success" THEN [jobs EXCEPT ![j].lastStatus = outcome] ELSE jobs
        /\ disp' = [disp EXCEPT ![d] = Disp("next", @.at, Tail(@.queue))]
        /\ UNCHANGED <<now, left>>

\* executeRun returns; the dispatcher's row and the job record the outcome (the row may
\* have been deleted meanwhile), and the oldest rows of the job go.
jobRunFinish(d, outcome) ==
    LET j == Job(d)
    IN  /\ disp[d].pc = "executing"
        /\ jobRuns' = [jobRuns EXCEPT ![j] = Newest(Settle(@, d, outcome))]
        /\ jobs' = IF jobs[j].present
                   THEN [jobs EXCEPT ![j] = JobRow(@.schedule, @.enabled, @.nextRun, @.lastRun, outcome)]
                   ELSE jobs
        /\ disp' = [disp EXCEPT ![d] = Disp("next", @.at, Tail(@.queue))]
        /\ UNCHANGED <<now, left>>

Crash(d) ==
    /\ "crash" \in Failures
    /\ disp[d].pc # "idle"
    /\ disp' = [disp EXCEPT ![d] = IdleDisp]
    /\ left' = left \cup InQueue(d)
    /\ UNCHANGED <<now, jobs, jobRuns>>

Tick ==
    /\ now < MaxTime
    /\ now' = now + 1
    /\ UNCHANGED <<jobs, jobRuns, disp, left>>

----------------------------------------------------------------------------
Init ==
    /\ now = 0
    /\ jobs = [j \in JobIds |-> NoJob]
    /\ jobRuns = [j \in JobIds |-> <<>>]
    /\ disp = [d \in Dispatchers |-> IdleDisp]
    /\ left = {}

Dispatch(d) ==
    \/ DispatchBegin(d) \/ jobsClaimDue(d) \/ ClaimThrows(d) \/ DispatchEnd(d)
    \/ \E j \in JobIds : jobRunNow(d, j)
    \/ jobRunStart(d)
    \/ \E o \in {"success", "error"} : jobRunFinish(d, o)
    \/ ExecuteThrows(d) \/ Crash(d)

Next ==
    \/ \E m \in Manifests : packageSave(m)
    \/ packageDelete
    \/ \E j \in JobIds, enabled \in BOOLEAN : jobUpdate(j, enabled)
    \/ \E d \in Dispatchers : Dispatch(d)
    \/ Tick

(***************************************************************************)
(* Fairness: the cron trigger keeps firing, also when manual runs keep     *)
(* taking the model's dispatchers (hence SF), calls to the cell return,    *)
(* and executeRun ends (RunSettles in module Runs).  A manual run, the     *)
(* clock and the users owe nothing.                                        *)
(***************************************************************************)
Fairness ==
    \A d \in Dispatchers :
        /\ SF_vars(DispatchBegin(d)) /\ WF_vars(jobsClaimDue(d) \/ ClaimThrows(d)) /\ WF_vars(DispatchEnd(d))
        /\ WF_vars(jobRunStart(d))
        /\ WF_vars(\E o \in {"success", "error"} : jobRunFinish(d, o))

Spec == Init /\ [][Next]_vars
FairSpec == Spec /\ Fairness

----------------------------------------------------------------------------
(* Every variable keeps its shape; a dispatcher's clock value is never ahead of time. *)
TypeOK ==
    /\ now \in Nat
    /\ jobs \in [JobIds -> JobRows]
    /\ jobRuns \in [JobIds -> Seq(JobRunRows)]
    /\ disp \in [Dispatchers -> [pc : {"idle", "claiming", "next", "executing"}, at : Nat, queue : Seq(JobIds)]]
    /\ \A d \in Dispatchers : disp[d].at <= now
    /\ \A d \in Dispatchers : disp[d].pc = "executing" => disp[d].queue # <<>>
    /\ left \subseteq JobIds

(***************************************************************************)
(* dispatcher.ts:10, "a crashed run never re-fires the same slot", and     *)
(* docs/jobs.md:38, "A crash mid-run therefore skips, never duplicates, a  *)
(* slot": a slot that a dispatcher claims lies after every earlier claim   *)
(* of the job, whatever overlapping dispatchers with older clock values,   *)
(* re-saves, toggles and crashes happen.                                   *)
(***************************************************************************)
Claims(j) == jobs[j].present /\ jobs'[j].present /\ jobs'[j].lastRun # jobs[j].lastRun
SlotStep ==
    \A j \in JobIds : Claims(j) =>
        /\ jobs[j].nextRun > jobs[j].lastRun
        /\ jobs'[j].lastRun > jobs[j].lastRun
SlotsClaimedOnce == [][SlotStep]_vars

(***************************************************************************)
(* The invariant behind it: a job is never scheduled at or before its last *)
(* run, and its last run is not in the future.                             *)
(***************************************************************************)
NextAfterLast ==
    \A j \in JobIds :
        /\ jobs[j].lastRun <= now
        /\ jobs[j].nextRun # Never /\ jobs[j].lastRun # Never => jobs[j].nextRun > jobs[j].lastRun

(***************************************************************************)
(* docs/jobs.md:43 and :67, "A job_run row records status" and "A job      *)
(* whose run errors is recorded as status: 'error'": a job or a job_run    *)
(* that says `running` is being run or waiting in the queue of a           *)
(* dispatcher, unless a dispatcher failed that had the job to run.         *)
(***************************************************************************)
RunningIsRunning(j) ==
    /\ jobs[j].lastStatus = "running" => \E d \in Dispatchers : Queued(d, j)
    /\ \A i \in 1..Len(jobRuns[j]) : jobRuns[j][i].status = "running" =>
          disp[jobRuns[j][i].by].pc = "executing" /\ Job(jobRuns[j][i].by) = j
MarkedIsRunning == \A j \in JobIds \ left : RunningIsRunning(j)

(***************************************************************************)
(* A due job is claimed, or stops being due because its schedule, its      *)
(* switch or its package changed: no crowd of dispatchers starves it.      *)
(* It takes that the schedules of all jobs have another turn within the    *)
(* scan: a due job without one ends every claim of the user with an error. *)
(***************************************************************************)
DueJobIsClaimed == \A j \in JobIds : Due(j, now) ~> ~Due(j, now)

(***************************************************************************)
(* docs/jobs.md:40, "Each claimed job runs": its schedule is advanced, so  *)
(* a claimed job must be in a dispatcher's queue, and not leave it before  *)
(* its turn.                                                               *)
(***************************************************************************)
ClaimedJobsRun ==
    [][/\ \A d \in Dispatchers : Len(disp[d].queue) > 1 => Len(disp'[d].queue) >= Len(disp[d].queue) - 1
       /\ \A j \in JobIds : Claims(j) => \E d \in Dispatchers : Queued(d, j)']_vars
=============================================================================
