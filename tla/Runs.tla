-------------------------------- MODULE Runs --------------------------------
(***************************************************************************)
(* The run history of one user: the `runs` and `usage_daily` tables of the *)
(* UserCell, the engine that starts a run, executes it in an isolate and   *)
(* records how it ended, retention, and the triage of failed runs.         *)
(*                                                                         *)
(* Each member of Execs is a call of executeRun somewhere in the Worker.   *)
(* runStart and runFinish are calls of the cell and atomic; building the   *)
(* module graph, running the isolate and reading what it answers happen    *)
(* between them.                                                           *)
(*                                                                         *)
(* A run's id is its place in the order of creation (created_at).  The     *)
(* columns kept are the ones control depends on: status, idempotency key,  *)
(* job and triage.                                                         *)
(***************************************************************************)
EXTENDS Integers, FiniteSets

CONSTANTS Execs,           \* concurrent calls of executeRun
          Keys, NoKey,     \* idempotency keys
          Jobs, NoJob,     \* jobs that runs may belong to
          RetentionCount,  \* KODY_RUN_RETENTION_COUNT
          AgeRetention,    \* KODY_RUN_RETENTION_DAYS > 0
          RunsPerDay, ExecuteMsPerDay,  \* daily quotas, 0 for none
          BulkLimit,       \* runs one runUpdateBulk call may change
          Crashes,         \* whether a Worker may stop in the middle of a run
          MaxRuns          \* bound: runs created in a behaviour

ASSUME RunsAssumption ==
    /\ MaxRuns \in Nat /\ RetentionCount \in Nat \ {0} /\ BulkLimit \in Nat \ {0}
    /\ RunsPerDay \in Nat /\ ExecuteMsPerDay \in Nat
    /\ AgeRetention \in BOOLEAN /\ Crashes \in BOOLEAN
    /\ NoKey \notin Keys /\ NoJob \notin Jobs

Ids == 1..MaxRuns

VARIABLES runs,     \* the runs table; an absent row was never inserted or was deleted
          lastId,   \* runs created so far
          horizon,  \* runs below it are older than the retention period
          usage,    \* today's row of usage_daily
          exec      \* the calls of executeRun

vars == <<runs, lastId, horizon, usage, exec>>

Statuses == {"absent", "running", "success", "error"}
Triages == {"open", "ignored", "resolved"}   \* open: error_triage IS NULL
RunRows == [status : Statuses, key : Keys \cup {NoKey}, job : Jobs \cup {NoJob}, triage : Triages]
Absent == [status |-> "absent", key |-> NoKey, job |-> NoJob, triage |-> "open"]

Replies == {"none", "ok", "failed", "quota_exceeded", "internal_error"}
ExecStates == [pc : {"idle", "building", "running", "reading", "finishing"}, id : 0..MaxRuns,
               outcome : {"success", "error"}, reply : Replies]
Answered(reply) == [pc |-> "idle", id |-> 0, outcome |-> "error", reply |-> reply]

NoUsage == [runs |-> 0, errors |-> 0, executeMs |-> 0]

Exists(rs, i) == rs[i].status # "absent"
withinQuota(limit, used) == limit = 0 \/ used < limit

----------------------------------------------------------------------------
(* Retention *)

\* Mutant: unfinished rows are pruned like the others.
pruneRunsAll(rs) ==
    [i \in Ids |->
        IF \/ Cardinality({j \in Ids : j > i /\ Exists(rs, j)}) >= RetentionCount
           \/ AgeRetention /\ i < horizon
        THEN Absent ELSE rs[i]]

\* Mutant: one row too many is kept, and the age does not count.
pruneRunsOffByOne(rs) ==
    [i \in Ids |->
        IF /\ rs[i].status # "running"
           /\ Cardinality({j \in Ids : j > i /\ Exists(rs, j)}) > RetentionCount
        THEN Absent ELSE rs[i]]

\* Deletes the finished rows that are not among the newest RetentionCount or are too old.
pruneRuns(rs) ==
    [i \in Ids |->
        IF /\ rs[i].status # "running"
           /\ \/ Cardinality({j \in Ids : j > i /\ Exists(rs, j)}) >= RetentionCount
              \/ AgeRetention /\ i < horizon
        THEN Absent ELSE rs[i]]

\* Mutant: any other open error of the job is resolved, started before or after.
autoResolveJobAny(rs, s) ==
    [i \in Ids |->
        IF rs[i].status = "error" /\ rs[i].triage = "open" /\ rs[i].job = rs[s].job
        THEN [rs[i] EXCEPT !.triage = "resolved"] ELSE rs[i]]

\* A success of a job resolves the job's open errors created before it.
autoResolveJob(rs, s) ==
    [i \in Ids |->
        IF i < s /\ rs[i].status = "error" /\ rs[i].triage = "open" /\ rs[i].job = rs[s].job
        THEN [rs[i] EXCEPT !.triage = "resolved"] ELSE rs[i]]

----------------------------------------------------------------------------
(* executeRun: starting *)

WithKey(key) == {i \in Ids : Exists(runs, i) /\ runs[i].key = key}
Replays(key) == key # NoKey /\ WithKey(key) # {}
QuotaLeft ==
    /\ withinQuota(RunsPerDay, usage.runs)
    /\ withinQuota(ExecuteMsPerDay, usage.executeMs)

\* runStart finds the idempotency key: the recorded run is the answer, even unfinished.
StartReplays(e, key) ==
    /\ exec[e].pc = "idle"
    /\ Replays(key)
    /\ \E i \in WithKey(key) :
          exec' = [exec EXCEPT ![e] = Answered(IF runs[i].status = "success" THEN "ok" ELSE "failed")]
    /\ UNCHANGED <<runs, lastId, horizon, usage>>

StartRefused(e, key) ==
    /\ exec[e].pc = "idle"
    /\ ~Replays(key) /\ ~QuotaLeft
    /\ exec' = [exec EXCEPT ![e] = Answered("quota_exceeded")]
    /\ UNCHANGED <<runs, lastId, horizon, usage>>

\* Mutant: runStart looks for a finished run of the key only.
StartRunIgnoresRunning(e, key, job) ==
    /\ exec[e].pc = "idle"
    /\ lastId < MaxRuns
    /\ key # NoKey => \A i \in WithKey(key) : runs[i].status = "running"
    /\ QuotaLeft
    /\ lastId' = lastId + 1
    /\ runs' = pruneRuns([runs EXCEPT
         ![lastId + 1] = [status |-> "running", key |-> key, job |-> job, triage |-> "open"]])
    /\ usage' = [usage EXCEPT !.runs = @ + 1]
    /\ exec' = [exec EXCEPT ![e] =
         [pc |-> "building", id |-> lastId + 1, outcome |-> "error", reply |-> "none"]]
    /\ UNCHANGED horizon

StartRun(e, key, job) ==
    /\ exec[e].pc = "idle"
    /\ lastId < MaxRuns
    /\ ~Replays(key) /\ QuotaLeft
    /\ lastId' = lastId + 1
    /\ runs' = pruneRuns([runs EXCEPT
         ![lastId + 1] = [status |-> "running", key |-> key, job |-> job, triage |-> "open"]])
    /\ usage' = [usage EXCEPT !.runs = @ + 1]
    /\ exec' = [exec EXCEPT ![e] =
         [pc |-> "building", id |-> lastId + 1, outcome |-> "error", reply |-> "none"]]
    /\ UNCHANGED horizon

(* executeRun: building the graph, running the isolate *)

FinishAs(e, outcome) ==
    /\ exec' = [exec EXCEPT ![e].pc = "finishing", ![e].outcome = outcome]
    /\ UNCHANGED <<runs, lastId, horizon, usage>>

GraphBuilt(e) ==
    /\ exec[e].pc = "building"
    /\ exec' = [exec EXCEPT ![e].pc = "running"]
    /\ UNCHANGED <<runs, lastId, horizon, usage>>

\* Mutant: the race has no timer.
NoTimeout(e) == exec[e].pc = "timeout" /\ FinishAs(e, "error")

GraphFails(e) == exec[e].pc = "building" /\ FinishAs(e, "error")

\* graphHash or LOADER.get throws, between the two try blocks: the call throws and nobody records the end of the run.
LoadThrows(e) ==
    /\ exec[e].pc = "building"
    /\ exec' = [exec EXCEPT ![e] = Answered("internal_error")]
    /\ UNCHANGED <<runs, lastId, horizon, usage>>

\* The fetch of the isolate, raced with the timer, is answered: the timer no longer counts.
IsolateResponds(e) ==
    /\ exec[e].pc = "running"
    /\ exec' = [exec EXCEPT ![e].pc = "reading"]
    /\ UNCHANGED <<runs, lastId, horizon, usage>>

IsolateFails(e) == exec[e].pc = "running" /\ FinishAs(e, "error")

\* response.json() returns what the run answered, or throws.
BodyEnds(e) == exec[e].pc = "reading" /\ \E o \in {"success", "error"} : FinishAs(e, o)

Timeout(e) == exec[e].pc = "running" /\ FinishAs(e, "error")

(* executeRun: recording the end *)

\* What runFinish makes of the table; the update of a row that is gone changes nothing.
Finished(i, outcome) ==
    LET rs == IF Exists(runs, i) THEN [runs EXCEPT ![i].status = outcome] ELSE runs
    IN  pruneRuns(IF outcome = "success" /\ rs[i].job # NoJob THEN autoResolveJob(rs, i) ELSE rs)

\* runFinish throws when its row has been pruned; only the success path awaits it inside
\* the try, so a success is then reported once more, as an error.
runFinish(e) ==
    LET i == exec[e].id
        outcome == exec[e].outcome
    IN  /\ exec[e].pc = "finishing"
        /\ runs' = Finished(i, outcome)
        /\ usage' = [runs |-> usage.runs,
                     errors |-> usage.errors + (IF outcome = "error" THEN 1 ELSE 0),
                     executeMs |-> usage.executeMs + 1]
        /\ exec' = [exec EXCEPT ![e] =
             CASE Exists(Finished(i, outcome), i) -> Answered(IF outcome = "success" THEN "ok" ELSE "failed")
               [] ~Exists(Finished(i, outcome), i) /\ outcome = "success" -> [exec[e] EXCEPT !.outcome = "error"]
               [] OTHER -> Answered("internal_error")]
        /\ UNCHANGED <<lastId, horizon>>

----------------------------------------------------------------------------
(* Triage *)

Triage(i, t) ==
    /\ Exists(runs, i)
    /\ t # "open" => runs[i].status = "error"
    /\ runs' = [runs EXCEPT ![i].triage = t]
    /\ UNCHANGED <<lastId, horizon, usage, exec>>

\* The newest BulkLimit error runs of a selection that are not in the target state yet.
BulkMatch(S, t) ==
    LET M == {i \in S : runs[i].status = "error" /\ runs[i].triage # t}
    IN  {i \in M : Cardinality({j \in M : j > i}) < BulkLimit}

TriageBulk(S, t) ==
    /\ BulkMatch(S, t) # {}
    /\ runs' = [i \in Ids |-> IF i \in BulkMatch(S, t) THEN [runs[i] EXCEPT !.triage = t] ELSE runs[i]]
    /\ UNCHANGED <<lastId, horizon, usage, exec>>

----------------------------------------------------------------------------
(* Time and failures *)

\* utcDay changes: usage is counted from zero.
NewDay ==
    /\ usage # NoUsage
    /\ usage' = NoUsage
    /\ UNCHANGED <<runs, lastId, horizon, exec>>

\* A run becomes older than the retention period, days after its call has ended.
Age ==
    /\ AgeRetention /\ horizon <= lastId
    /\ \A e \in Execs : exec[e].id # horizon
    /\ horizon' = horizon + 1
    /\ UNCHANGED <<runs, lastId, usage, exec>>

\* The Worker stops: nobody will record the end of the run.
Crash(e) ==
    /\ Crashes /\ exec[e].pc # "idle"
    /\ exec' = [exec EXCEPT ![e] = Answered("none")]
    /\ UNCHANGED <<runs, lastId, horizon, usage>>

----------------------------------------------------------------------------
Init ==
    /\ runs = [i \in Ids |-> Absent]
    /\ lastId = 0
    /\ horizon = 1
    /\ usage = NoUsage
    /\ exec = [e \in Execs |-> Answered("none")]

executeRun(e) ==
    \/ \E key \in Keys \cup {NoKey} :
          \/ StartReplays(e, key)
          \/ StartRefused(e, key)
          \/ \E job \in Jobs \cup {NoJob} : StartRun(e, key, job)
    \/ GraphBuilt(e) \/ GraphFails(e) \/ LoadThrows(e)
    \/ IsolateResponds(e) \/ IsolateFails(e) \/ Timeout(e) \/ BodyEnds(e)
    \/ runFinish(e)

Next ==
    \/ \E e \in Execs : executeRun(e) \/ Crash(e)
    \/ \E i \in Ids, t \in Triages : Triage(i, t)
    \/ \E S \in SUBSET Ids, t \in Triages : TriageBulk(S, t)
    \/ NewDay
    \/ Age

(***************************************************************************)
(* Fairness: calls to the cell return, the files and npm packages a graph  *)
(* needs arrive or fail, and the timer of the race fires.  Nothing makes   *)
(* the code in the isolate answer, or finish the body of its answer.       *)
(***************************************************************************)
Fairness ==
    \A e \in Execs :
        /\ WF_vars(GraphBuilt(e) \/ GraphFails(e) \/ LoadThrows(e))
        /\ WF_vars(Timeout(e))
        /\ WF_vars(runFinish(e))

Spec == Init /\ [][Next]_vars
FairSpec == Spec /\ Fairness

----------------------------------------------------------------------------
(* Every variable keeps its shape, and rows and calls exist only for created runs. *)
TypeOK ==
    /\ runs \in [Ids -> RunRows]
    /\ lastId \in 0..MaxRuns
    /\ horizon \in 1..(MaxRuns + 1)
    /\ usage \in [runs : Nat, errors : Nat, executeMs : Nat]
    /\ exec \in [Execs -> ExecStates]
    /\ \A i \in Ids : i > lastId => runs[i] = Absent
    /\ \A e \in Execs : exec[e].pc # "idle" => exec[e].id \in 1..lastId

(***************************************************************************)
(* The table implements the life cycle of runs (module RunLifecycle):      *)
(* created in order, settled once, the status final, and dropped only      *)
(* after settling, whatever starts, finishes and crashes in between.       *)
(***************************************************************************)
lifecycle == [i \in Ids |->
    IF Exists(runs, i) THEN runs[i].status ELSE IF i <= lastId THEN "gone" ELSE "absent"]
Lifecycle == INSTANCE RunLifecycle WITH state <- lifecycle
ImplementsLifecycle == Lifecycle!Spec

(***************************************************************************)
(* Idempotency: two calls never build or execute code for the same         *)
(* idempotency key at the same time, although retention deletes rows, and  *)
(* with them their keys, while calls are in flight.                        *)
(***************************************************************************)
Executing(e) == exec[e].pc \in {"building", "running", "reading"}
OneExecutionPerKey ==
    \A e, f \in Execs :
        /\ e # f /\ Executing(e) /\ Executing(f)
        /\ runs[exec[e].id].key = runs[exec[f].id].key
        => runs[exec[e].id].key = NoKey

(***************************************************************************)
(* The inductive strengthening of OneExecutionPerKey and of the life       *)
(* cycle: a call in flight owns a row nobody else works on, which is still *)
(* running until the call has recorded its end, and no two rows share a    *)
(* key.                                                                    *)
(***************************************************************************)
OwnRows ==
    /\ \A e \in Execs : Executing(e) => runs[exec[e].id].status = "running"
    /\ \A e \in Execs : exec[e].pc # "idle" => runs[exec[e].id].status \in {"running", "absent"}
    /\ \A e, f \in Execs : exec[e].pc # "idle" /\ exec[f].pc # "idle" /\ exec[e].id = exec[f].id => e = f
UniqueKeys ==
    \A i, j \in Ids :
        Exists(runs, i) /\ Exists(runs, j) /\ runs[i].key = runs[j].key /\ i # j => runs[i].key = NoKey

(***************************************************************************)
(* docs/operations.md:50, "Newest runs kept per user; older finished rows  *)
(* are pruned as runs start and finish": at most RetentionCount finished   *)
(* rows remain after every step, and a run is only ever missing when that  *)
(* many newer ones were created or its age is past the period.             *)
(***************************************************************************)
RetentionExact ==
    /\ Cardinality({i \in Ids : runs[i].status \in {"success", "error"}}) <= RetentionCount
    /\ \A i \in 1..lastId :
          ~Exists(runs, i) => (lastId - i >= RetentionCount) \/ (AgeRetention /\ i < horizon)

(***************************************************************************)
(* docs/jobs.md:92, "earlier open errors of the same job ... are marked    *)
(* resolved; runs you ignored are left as they are ... a later overlapping *)
(* failure stays open": when a run of a job becomes a success, its older   *)
(* errors are no longer open, and nothing but open errors of the job older *)
(* than it changes its triage.                                             *)
(***************************************************************************)
BecomesSuccess(s) == runs[s].status = "running" /\ runs'[s].status = "success" /\ runs[s].job # NoJob
AutoResolveExact ==
    [][\A s \in Ids : BecomesSuccess(s) =>
         \A i \in Ids : Exists(runs', i) /\ i # s =>
            IF i < s /\ runs[i].status = "error" /\ runs[i].job = runs[s].job
            THEN runs'[i].triage = (IF runs[i].triage = "open" THEN "resolved" ELSE runs[i].triage)
            ELSE runs'[i].triage = runs[i].triage]_vars

(***************************************************************************)
(* Only runs recorded as errors are ever ignored or resolved: neither a    *)
(* bulk update, nor auto-resolution, nor a row that settles after it was   *)
(* looked at, leaves a mark on a running or successful run.                *)
(***************************************************************************)
TriagedRunsFailed == \A i \in Ids : runs[i].triage # "open" => runs[i].status = "error"

(***************************************************************************)
(* A run does not wait for ever, except for the body of an answer: it is   *)
(* settled, also when the isolate never answers, or its call has thrown    *)
(* before there was anything to wait for.  Once the isolate was asked and  *)
(* its Worker does not stop, only that body can keep it unsettled.         *)
(***************************************************************************)
WorkedOn(i, pcs) == \E e \in Execs : exec[e].id = i /\ exec[e].pc \in pcs
RunSettles ==
    \A i \in Ids :
        /\ runs[i].status = "running" ~>
              \/ runs[i].status # "running" \/ WorkedOn(i, {"reading"})
              \/ ~WorkedOn(i, {"building", "running", "finishing"})
        /\ WorkedOn(i, {"running", "finishing"}) ~>
              runs[i].status # "running" \/ WorkedOn(i, {"reading"})
=============================================================================
