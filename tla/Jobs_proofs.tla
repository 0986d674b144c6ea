---------------------------- MODULE Jobs_proofs ----------------------------
(***************************************************************************)
(* Proofs about module Jobs, for any jobs, manifests, numbers of           *)
(* dispatchers, bounds and failures.                                       *)
(***************************************************************************)
EXTENDS Jobs, FiniteSetTheorems, SequenceTheorems, TLAPS

(***************************************************************************)
(* computeNextRun returns Never or a time; it lies after t, except for a   *)
(* one-time schedule that has not run, and after the last run when that is *)
(* not in the future.                                                      *)
(***************************************************************************)
LEMMA NextRunEffect ==
    ASSUME NEW s \in Schedules, NEW t \in Nat, NEW last \in Nat \cup {Never}, last <= t
    PROVE  /\ computeNextRun(s, t, last) \in Nat \cup {Never}
           /\ computeNextRun(s, t, last) # Never /\ last # Never => computeNextRun(s, t, last) > t
<1> DEFINE anchor == IF last = Never THEN t ELSE last
<1>1. s.n \in Nat \ {0} /\ s.type \in {"cron", "interval", "once"}
  BY DEF Schedules
<1>2. t % s.n \in 0..(s.n - 1)
  BY <1>1
<1>3. anchor \in Nat /\ anchor <= t /\ (t - anchor) \in Nat
  BY DEF Never
<1>4. (t - anchor) % s.n \in 0..(s.n - 1)
  BY <1>1, <1>3
<1>5. CASE s.type = "cron"
  BY <1>1, <1>2, <1>5 DEF computeNextRun, Never
<1>6. CASE s.type = "interval"
  <2> HIDE DEF anchor
  <2>1. computeNextRun(s, t, last) = IF t < anchor + s.n THEN anchor + s.n
                                     ELSE t + s.n - ((t - anchor) % s.n)
    BY <1>6 DEF computeNextRun, anchor
  <2> QED BY <1>1, <1>3, <1>4, <2>1 DEF Never
<1>7. CASE s.type = "once"
  BY <1>1, <1>7 DEF computeNextRun, Never
<1> QED BY <1>1, <1>5, <1>6, <1>7

\* A row that a save leaves behind is a row of the table, scheduled after its last run.
LEMMA ReconciledEffect ==
    ASSUME TypeOK, NextAfterLast, NEW j \in JobIds, NEW decl \in Declarations
    PROVE  /\ Reconciled(j, decl) \in JobRows
           /\ Reconciled(j, decl).lastRun <= now
           /\ Reconciled(j, decl).nextRun # Never /\ Reconciled(j, decl).lastRun # Never
                => Reconciled(j, decl).nextRun > Reconciled(j, decl).lastRun
           /\ Reconciled(j, decl).present => Reconciled(j, decl).lastRun = jobs[j].lastRun
<1> DEFINE next == computeNextRun(decl.schedule, now, jobs[j].lastRun)
<1>1. jobs[j] \in JobRows /\ now \in Nat /\ jobs[j].lastRun <= now
  BY DEF TypeOK, NextAfterLast
<1>2. decl.schedule \in Schedules /\ decl.enabled \in EnabledFlags /\ decl.declared \in BOOLEAN
  BY DEF Declarations
<1>3. jobs[j].lastRun \in Nat \cup {Never}
  BY <1>1 DEF JobRows
<1>4. next \in Nat \cup {Never} /\ (next # Never /\ jobs[j].lastRun # Never => next > now)
  <2> HIDE DEF next
  <2> QED BY <1>1, <1>2, <1>3, NextRunEffect DEF next
<1> HIDE DEF next
<1>5. CASE ~decl.declared
  <2>1. NoJob \in JobRows
    BY DEF NoJob, JobRows, Schedules, Never
  <2> QED BY <1>1, <1>5, <2>1 DEF Reconciled, NoJob, Never
<1>6. CASE decl.declared
  <2> DEFINE on == IF jobs[j].present THEN jobs[j].enabled \/ decl.enabled = "yes" ELSE decl.enabled # "no"
  <2>1. Reconciled(j, decl) =
          JobRow(decl.schedule, on, next, jobs[j].lastRun, jobs[j].lastStatus)
    BY <1>6 DEF Reconciled, next
  <2>2. on \in BOOLEAN
    BY <1>1 DEF JobRows
  <2> HIDE DEF on
  <2>3. Reconciled(j, decl) \in JobRows
    BY <1>1, <1>2, <1>4, <2>1, <2>2 DEF JobRows, JobRow
  <2> QED BY <1>1, <1>3, <1>4, <2>1, <2>3 DEF Never, JobRow
<1> QED BY <1>2, <1>5, <1>6

\* An order of the due jobs is a sequence of jobs.
LEMMA OrdersType ==
    ASSUME NEW S \in SUBSET JobIds, NEW q \in Orders(S)
    PROVE  q \in Seq(JobIds)
<1>1. IsFiniteSet(S)
  BY FS_Subset, JobsAssumption
<1>2. Cardinality(S) \in Nat
  BY <1>1, FS_CardinalityType
<1>3. q \in [1..Cardinality(S) -> S]
  BY DEF Orders
<1>4. q \in [1..Cardinality(S) -> JobIds]
  BY <1>3
<1> QED BY <1>2, <1>4

\* Settling a job_run and dropping the oldest ones leaves a table of job_runs.
LEMMA SettleType ==
    ASSUME NEW rows \in Seq(JobRunRows), NEW d \in Dispatchers, NEW outcome \in {"success", "error"}
    PROVE  Newest(Settle(rows, d, outcome)) \in Seq(JobRunRows)
<1> DEFINE out == Settle(rows, d, outcome)
<1>1. \A i \in 1..Len(rows) : rows[i] \in JobRunRows /\ [by |-> d, status |-> outcome] \in JobRunRows
  <2>1. [by |-> d, status |-> outcome] \in JobRunRows
    BY DEF JobRunRows
  <2> QED BY <2>1
<1>2. out \in [1..Len(rows) -> JobRunRows]
  BY <1>1 DEF Settle
<1>3. Len(rows) \in Nat
  OBVIOUS
<1>4. out \in Seq(JobRunRows) /\ Len(out) = Len(rows)
  <2> HIDE DEF out
  <2> QED BY <1>2, <1>3
<1> HIDE DEF out
<1> DEFINE first == IF Len(out) > JobRunKeep THEN Len(out) - JobRunKeep + 1 ELSE 1
<1>5. first \in Nat \ {0}
  BY <1>3, <1>4, JobsAssumption
<1>6. Newest(out) = SubSeq(out, first, Len(out))
  BY DEF Newest
<1> HIDE DEF first
<1>7. SubSeq(out, first, Len(out)) \in Seq(JobRunRows)
  BY <1>3, <1>4, <1>5, SubSeqProperties
<1> QED BY <1>6, <1>7 DEF out

\* A claim that throws has advanced some of the due jobs.
LEMMA ClaimedSome ==
    ASSUME NEW d \in Dispatchers, NEW q \in Orders(DueJobs(d)), NEW n \in 1..Cardinality(DueJobs(d))
    PROVE  {q[i] : i \in 1..(n - 1)} \in SUBSET DueJobs(d)
<1>1. Cardinality(DueJobs(d)) \in Nat
  BY FS_Subset, FS_CardinalityType, JobsAssumption DEF DueJobs
<1> QED BY <1>1 DEF Orders

\* Only a failure leaves jobs behind, and only jobs.
LEMMA LeftStep ==
    ASSUME [Next]_vars
    PROVE  /\ left \subseteq JobIds => left' \subseteq JobIds
           /\ left' # left => \E d \in Dispatchers : ClaimThrows(d) \/ ExecuteThrows(d) \/ Crash(d)
<1>1. ASSUME NEW d \in Dispatchers, ClaimThrows(d) PROVE left \subseteq JobIds => left' \subseteq JobIds
  <2>1. PICK q \in Orders(DueJobs(d)), n \in 1..Cardinality(DueJobs(d)) : left' = left \cup {q[i] : i \in 1..(n - 1)}
    BY <1>1 DEF ClaimThrows
  <2>2. {q[i] : i \in 1..(n - 1)} \in SUBSET DueJobs(d)
    BY ClaimedSome
  <2> QED BY <2>1, <2>2 DEF DueJobs
<1>2. ASSUME NEW d \in Dispatchers, ExecuteThrows(d) \/ Crash(d) PROVE left \subseteq JobIds => left' \subseteq JobIds
  BY <1>2 DEF ExecuteThrows, Crash, InQueue
<1>3. CASE ~\E d \in Dispatchers : ClaimThrows(d) \/ ExecuteThrows(d) \/ Crash(d)
  <2>1. left' = left
    BY <1>3 DEF Next, Dispatch, packageSave, packageDelete, jobUpdate, DispatchBegin, jobsClaimDue, DispatchEnd, jobRunNow,
                jobRunStart, jobRunFinish, Tick, vars
  <2> QED BY <2>1
<1> QED BY <1>1, <1>2, <1>3

-----------------------------------------------------------------------------
(* The inductive invariant: types, and no schedule at or before the last run. *)
IInv == TypeOK /\ NextAfterLast

LEMMA InitIInv == Init => IInv
<1> SUFFICES ASSUME Init PROVE IInv
  OBVIOUS
<1>1. NoJob \in JobRows
  BY DEF NoJob, JobRows, Schedules, Never
<1>2. <<>> \in Seq(JobRunRows)
  OBVIOUS
<1>3. TypeOK
  BY <1>1, <1>2 DEF Init, TypeOK, IdleDisp, Disp
<1>4. NextAfterLast
  BY DEF Init, NextAfterLast, NoJob, Never
<1> QED BY <1>3, <1>4 DEF IInv

\* A step that leaves the clock and the jobs alone keeps NextAfterLast; so does a tick.
LEMMA QuietStep ==
    ASSUME TypeOK, NextAfterLast, UNCHANGED jobs, now' \in Nat, now' >= now
    PROVE  NextAfterLast'
<1>1. \A j \in JobIds : jobs[j].lastRun \in Nat \cup {Never}
  BY DEF TypeOK, JobRows
<1> QED BY <1>1 DEF TypeOK, NextAfterLast, Never

(***************************************************************************)
(* Advancing any of the jobs a dispatcher finds due leaves rows of the     *)
(* table that are scheduled after their last run, and takes slots after    *)
(* every earlier one.                                                      *)
(***************************************************************************)
LEMMA AdvancedEffect ==
    ASSUME TypeOK, NextAfterLast, NEW d \in Dispatchers, NEW S \in SUBSET DueJobs(d),
           jobs' = Advanced(S, disp[d].at), UNCHANGED now
    PROVE  jobs' \in [JobIds -> JobRows] /\ NextAfterLast' /\ SlotStep
<1> DEFINE t == disp[d].at
           next(j) == computeNextRun(jobs[j].schedule, t, t)
           claimed(j) == JobRow(jobs[j].schedule, jobs[j].enabled, next(j), t, "running")
<1>1. t \in Nat /\ t <= now /\ now \in Nat
  BY DEF TypeOK
<1>2. \A j \in JobIds :
         /\ jobs[j] \in JobRows /\ jobs[j].schedule \in Schedules
         /\ jobs[j].nextRun \in Nat \cup {Never} /\ jobs[j].lastRun \in Nat \cup {Never}
         /\ jobs[j].lastRun <= now
  BY DEF TypeOK, JobRows, NextAfterLast
<1>3. \A j \in JobIds : next(j) \in Nat \cup {Never} /\ (next(j) # Never => next(j) > t)
  <2> TAKE j \in JobIds
  <2>1. t <= t /\ t # Never /\ t \in Nat \cup {Never}
    BY <1>1 DEF Never
  <2> HIDE DEF t
  <2> QED BY <1>1, <1>2, <2>1, NextRunEffect
<1>4. \A j \in JobIds : claimed(j) \in JobRows
  BY <1>1, <1>2, <1>3 DEF JobRows, JobRow
<1>5. jobs' = [j \in JobIds |-> IF j \in S THEN claimed(j) ELSE jobs[j]]
  BY DEF Advanced
<1>6. \A j \in S : /\ j \in JobIds /\ jobs[j].nextRun \in Nat /\ jobs[j].nextRun <= t
                   /\ jobs[j].nextRun > jobs[j].lastRun
  BY <1>1, <1>2 DEF DueJobs, Due, NextAfterLast, Never
<1>7. \A j \in JobIds : claimed(j).lastRun = t /\ claimed(j).nextRun = next(j)
  BY DEF JobRow
<1> HIDE DEF claimed, next, t
<1>8. \A j \in JobIds : jobs'[j] = IF j \in S THEN claimed(j) ELSE jobs[j]
  BY <1>5
<1>9. jobs' \in [JobIds -> JobRows]
  BY <1>2, <1>4, <1>5
<1>10. NextAfterLast'
  BY <1>1, <1>2, <1>3, <1>7, <1>8 DEF NextAfterLast, Never
<1>11. SlotStep
  BY <1>1, <1>2, <1>6, <1>7, <1>8 DEF SlotStep, Claims, Never
<1> QED BY <1>9, <1>10, <1>11

(***************************************************************************)
(* Every step keeps IInv, and a step that claims a job claims a slot after *)
(* every earlier one.                                                      *)
(***************************************************************************)
LEMMA StepIInv == IInv /\ [Next]_vars => IInv' /\ SlotStep
<1> SUFFICES ASSUME TypeOK, NextAfterLast, [Next]_vars
             PROVE  TypeOK' /\ NextAfterLast' /\ SlotStep
  BY DEF IInv
<1> DEFINE DispRows == [pc : {"idle", "claiming", "next", "executing"}, at : Nat, queue : Seq(JobIds)]
<1>a. /\ now \in Nat /\ jobs \in [JobIds -> JobRows] /\ jobRuns \in [JobIds -> Seq(JobRunRows)]
      /\ disp \in [Dispatchers -> DispRows]
      /\ \A d \in Dispatchers : disp[d].at <= now
      /\ \A d \in Dispatchers : disp[d].pc = "executing" => disp[d].queue # <<>>
      /\ left' \subseteq JobIds
  BY LeftStep DEF TypeOK
<1>b. UNCHANGED jobs => SlotStep
  BY DEF SlotStep, Claims
\* A dispatcher's row may be replaced by any row that is not ahead of time.
<1>c. ASSUME NEW d \in Dispatchers, NEW r \in DispRows, r.at <= now,
             r.pc = "executing" => r.queue # <<>>,
             disp' = [disp EXCEPT ![d] = r], UNCHANGED now
      PROVE  /\ disp' \in [Dispatchers -> DispRows]
             /\ \A e \in Dispatchers : disp'[e].at <= now'
             /\ \A e \in Dispatchers : disp'[e].pc = "executing" => disp'[e].queue # <<>>
  BY <1>a, <1>c
<1>1. ASSUME NEW m \in Manifests, packageSave(m)
      PROVE  TypeOK' /\ NextAfterLast' /\ SlotStep
  <2>1. \A j \in JobIds : m[j] \in Declarations
    BY <1>1, JobsAssumption
  <2>2. \A j \in JobIds :
           /\ Reconciled(j, m[j]) \in JobRows
           /\ Reconciled(j, m[j]).lastRun <= now
           /\ Reconciled(j, m[j]).nextRun # Never /\ Reconciled(j, m[j]).lastRun # Never
                => Reconciled(j, m[j]).nextRun > Reconciled(j, m[j]).lastRun
           /\ Reconciled(j, m[j]).present => Reconciled(j, m[j]).lastRun = jobs[j].lastRun
    BY <2>1, ReconciledEffect
  <2>3. \A j \in JobIds : jobs'[j] = Reconciled(j, m[j])
    BY <1>1 DEF packageSave
  <2>4. jobs' \in [JobIds -> JobRows]
    BY <1>1, <2>2 DEF packageSave
  <2>5. UNCHANGED <<now, jobRuns, disp>>
    BY <1>1 DEF packageSave
  <2>6. TypeOK'
    BY <1>a, <2>4, <2>5 DEF TypeOK
  <2>7. NextAfterLast'
    BY <2>2, <2>3, <2>5 DEF NextAfterLast
  <2>8. SlotStep
    BY <2>2, <2>3 DEF SlotStep, Claims
  <2> QED BY <2>6, <2>7, <2>8
<1>2. ASSUME packageDelete
      PROVE  TypeOK' /\ NextAfterLast' /\ SlotStep
  <2>1. NoJob \in JobRows
    BY DEF NoJob, JobRows, Schedules, Never
  <2>2. TypeOK'
    BY <1>a, <1>2, <2>1 DEF packageDelete, TypeOK
  <2>3. NextAfterLast' /\ SlotStep
    BY <1>a, <1>2 DEF packageDelete, NextAfterLast, SlotStep, Claims, NoJob, Never
  <2> QED BY <2>2, <2>3
<1>3. ASSUME NEW j \in JobIds, NEW enabled \in BOOLEAN, jobUpdate(j, enabled)
      PROVE  TypeOK' /\ NextAfterLast' /\ SlotStep
  <2> DEFINE next == IF enabled THEN computeNextRun(jobs[j].schedule, now, jobs[j].lastRun) ELSE Never
             row == JobRow(jobs[j].schedule, enabled, next, jobs[j].lastRun, jobs[j].lastStatus)
  <2>1. jobs[j] \in JobRows /\ jobs[j].schedule \in Schedules /\ jobs[j].lastRun \in Nat \cup {Never}
        /\ jobs[j].lastRun <= now
    BY <1>a DEF JobRows, NextAfterLast
  <2>2. next \in Nat \cup {Never} /\ (next # Never /\ jobs[j].lastRun # Never => next > now)
    BY <1>a, <2>1, NextRunEffect
  <2> HIDE DEF next
  <2>3. jobs' = [jobs EXCEPT ![j] = row]
    BY <1>3 DEF jobUpdate, next
  <2>4. row \in JobRows
    BY <2>1, <2>2 DEF JobRows, JobRow
  <2>5. row.lastRun = jobs[j].lastRun /\ row.nextRun = next
    BY DEF JobRow
  <2> HIDE DEF row
  <2>6. UNCHANGED <<now, jobRuns, disp>>
    BY <1>3 DEF jobUpdate
  <2>7. TypeOK'
    BY <1>a, <2>3, <2>4, <2>6 DEF TypeOK
  <2>8. NextAfterLast'
    BY <1>a, <2>1, <2>2, <2>3, <2>5, <2>6 DEF NextAfterLast, Never
  <2>9. SlotStep
    BY <1>a, <2>3, <2>5 DEF SlotStep, Claims
  <2> QED BY <2>7, <2>8, <2>9
<1>4. ASSUME NEW d \in Dispatchers, DispatchBegin(d)
      PROVE  TypeOK' /\ NextAfterLast' /\ SlotStep
  <2> DEFINE r == Disp("claiming", now, <<>>)
  <2>1. disp' = [disp EXCEPT ![d] = r] /\ UNCHANGED <<now, jobs, jobRuns>>
    BY <1>4 DEF DispatchBegin
  <2>2. r \in DispRows /\ r.at <= now /\ r.pc # "executing"
    BY <1>a DEF Disp
  <2> HIDE DEF r
  <2> QED BY <1>a, <1>b, <1>c, <2>1, <2>2, QuietStep DEF TypeOK
\* A claim advances some of the due jobs, all of them unless it throws.
<1>5. ASSUME NEW d \in Dispatchers, jobsClaimDue(d) \/ ClaimThrows(d)
      PROVE  TypeOK' /\ NextAfterLast' /\ SlotStep
  <2>1. UNCHANGED <<now, jobRuns>>
    BY <1>5 DEF jobsClaimDue, ClaimThrows
  <2>2. PICK S \in SUBSET DueJobs(d) : jobs' = Advanced(S, disp[d].at)
    <3>1. CASE jobsClaimDue(d)
      BY <3>1 DEF jobsClaimDue
    <3>2. CASE ClaimThrows(d)
      <4>1. PICK q \in Orders(DueJobs(d)), n \in 1..Cardinality(DueJobs(d)) :
                 jobs' = Advanced({q[i] : i \in 1..(n - 1)}, disp[d].at)
        BY <3>2 DEF ClaimThrows
      <4>2. {q[i] : i \in 1..(n - 1)} \in SUBSET DueJobs(d)
        BY ClaimedSome
      <4> QED BY <4>1, <4>2
    <3> QED BY <1>5, <3>1, <3>2
  <2>3. jobs' \in [JobIds -> JobRows] /\ NextAfterLast' /\ SlotStep
    BY <2>1, <2>2, AdvancedEffect
  <2>4. disp[d] \in DispRows
    BY <1>a
  <2>5. CASE jobsClaimDue(d)
    <3>1. PICK q \in Orders(DueJobs(d)) : disp' = [disp EXCEPT ![d] = Disp("next", disp[d].at, q)]
      BY <2>5 DEF jobsClaimDue
    <3>2. q \in Seq(JobIds)
      BY OrdersType DEF DueJobs
    <3> DEFINE r == Disp("next", disp[d].at, q)
    <3>3. r \in DispRows /\ r.at <= now /\ r.pc # "executing"
      BY <1>a, <2>4, <3>2 DEF Disp
    <3>4. disp' = [disp EXCEPT ![d] = r]
      BY <3>1
    <3> HIDE DEF r
    <3> QED BY <1>a, <1>c, <2>1, <2>3, <3>3, <3>4 DEF TypeOK
  <2>6. CASE ClaimThrows(d)
    <3>1. disp' = [disp EXCEPT ![d] = IdleDisp]
      BY <2>6 DEF ClaimThrows
    <3>2. IdleDisp \in DispRows /\ IdleDisp.at <= now /\ IdleDisp.pc # "executing"
      BY <1>a DEF IdleDisp, Disp
    <3> QED BY <1>a, <1>c, <2>1, <2>3, <3>1, <3>2 DEF TypeOK
  <2> QED BY <1>5, <2>5, <2>6
<1>6. ASSUME NEW d \in Dispatchers, NEW j \in JobIds, jobRunNow(d, j)
      PROVE  TypeOK' /\ NextAfterLast' /\ SlotStep
  <2> DEFINE r == Disp("next", 0, <<j>>)
  <2>1. disp' = [disp EXCEPT ![d] = r] /\ UNCHANGED <<now, jobs, jobRuns>>
    BY <1>6 DEF jobRunNow
  <2>2. r \in DispRows /\ r.at <= now /\ r.pc # "executing"
    BY <1>a DEF Disp
  <2> HIDE DEF r
  <2> QED BY <1>a, <1>b, <1>c, <2>1, <2>2, QuietStep DEF TypeOK
\* The end of a cycle, a rejection and a crash all leave an idle dispatcher.
<1>7. ASSUME NEW d \in Dispatchers, DispatchEnd(d) \/ ExecuteThrows(d) \/ Crash(d)
      PROVE  TypeOK' /\ NextAfterLast' /\ SlotStep
  <2>1. disp' = [disp EXCEPT ![d] = IdleDisp] /\ UNCHANGED <<now, jobs, jobRuns>>
    BY <1>7 DEF DispatchEnd, ExecuteThrows, Crash
  <2>2. IdleDisp \in DispRows /\ IdleDisp.at <= now /\ IdleDisp.pc # "executing"
    BY <1>a DEF IdleDisp, Disp
  <2> QED BY <1>a, <1>b, <1>c, <2>1, <2>2, QuietStep DEF TypeOK
<1>8. ASSUME NEW d \in Dispatchers, jobRunStart(d)
      PROVE  TypeOK' /\ NextAfterLast' /\ SlotStep
  <2> DEFINE r == Disp("executing", disp[d].at, disp[d].queue)
             new == [by |-> d, status |-> "running"]
  <2>1. disp' = [disp EXCEPT ![d] = r] /\ UNCHANGED <<now, jobs>>
    BY <1>8 DEF jobRunStart
  <2>2. r \in DispRows /\ r.at <= now /\ r.queue # <<>>
    BY <1>a, <1>8 DEF jobRunStart, Disp
  <2>3. disp[d].queue \in Seq(JobIds) /\ disp[d].queue # <<>>
    BY <1>a, <1>8 DEF jobRunStart
  <2>4. Job(d) \in JobIds
    BY <2>3 DEF Job
  <2>5. new \in JobRunRows
    BY DEF JobRunRows
  <2>6. jobRuns' = [jobRuns EXCEPT ![Job(d)] = Append(jobRuns[Job(d)], new)]
    BY <1>8 DEF jobRunStart
  <2> HIDE DEF r, new
  <2>7. jobRuns' \in [JobIds -> Seq(JobRunRows)]
    BY <1>a, <2>4, <2>5, <2>6
  <2>8. TypeOK'
    BY <1>a, <1>c, <2>1, <2>2, <2>7 DEF TypeOK
  <2> QED BY <1>a, <1>b, <2>1, <2>8, QuietStep
<1>9. ASSUME NEW d \in Dispatchers, NEW o \in {"success", "error"}, jobRunFinish(d, o)
      PROVE  TypeOK' /\ NextAfterLast' /\ SlotStep
  <2> DEFINE j == Job(d)
             r == Disp("next", disp[d].at, Tail(disp[d].queue))
             row == JobRow(jobs[j].schedule, jobs[j].enabled, jobs[j].nextRun, jobs[j].lastRun, o)
  <2>1. disp[d].queue \in Seq(JobIds) /\ disp[d].queue # <<>>
    BY <1>a, <1>9 DEF jobRunFinish
  <2>2. j \in JobIds /\ Tail(disp[d].queue) \in Seq(JobIds)
    BY <2>1 DEF Job
  <2>3. disp' = [disp EXCEPT ![d] = r] /\ UNCHANGED now
    BY <1>9 DEF jobRunFinish
  <2>4. r \in DispRows /\ r.at <= now /\ r.pc # "executing"
    BY <1>a, <2>2 DEF Disp
  <2>5. jobRuns' = [jobRuns EXCEPT ![j] = Newest(Settle(jobRuns[j], d, o))]
    BY <1>9 DEF jobRunFinish
  <2>6. jobs[j] \in JobRows
    BY <1>a, <2>2
  <2>7. jobs' = [jobs EXCEPT ![j] = row] \/ jobs' = jobs
    BY <1>9 DEF jobRunFinish
  <2>8. row \in JobRows
    BY <2>6 DEF JobRows, JobRow
  <2>9. row.lastRun = jobs[j].lastRun /\ row.nextRun = jobs[j].nextRun
    BY DEF JobRow
  <2> HIDE DEF j, r, row
  <2>10. jobRuns' \in [JobIds -> Seq(JobRunRows)]
    BY <1>a, <2>2, <2>5, SettleType
  <2>11. jobs' \in [JobIds -> JobRows]
    BY <1>a, <2>2, <2>7, <2>8
  <2>12. \A k \in JobIds : jobs'[k].lastRun = jobs[k].lastRun /\ jobs'[k].nextRun = jobs[k].nextRun
    BY <1>a, <2>2, <2>7, <2>9
  <2>13. TypeOK'
    BY <1>a, <1>c, <2>3, <2>4, <2>10, <2>11 DEF TypeOK
  <2>14. NextAfterLast' /\ SlotStep
    BY <2>3, <2>12 DEF NextAfterLast, SlotStep, Claims
  <2> QED BY <2>13, <2>14
<1>10. ASSUME Tick
       PROVE  TypeOK' /\ NextAfterLast' /\ SlotStep
  <2>1. now' \in Nat /\ now' >= now /\ UNCHANGED <<jobs, jobRuns, disp>>
    BY <1>a, <1>10 DEF Tick
  <2>2. \A d \in Dispatchers : disp[d].at \in Nat
    BY <1>a
  <2>3. TypeOK'
    BY <1>a, <2>1, <2>2 DEF TypeOK
  <2> QED BY <1>b, <2>1, <2>3, QuietStep
<1>11. ASSUME UNCHANGED vars
       PROVE  TypeOK' /\ NextAfterLast' /\ SlotStep
  BY <1>a, <1>b, <1>11, QuietStep DEF vars, TypeOK
<1> QED
  BY <1>1, <1>2, <1>3, <1>4, <1>5, <1>6, <1>7, <1>8, <1>9, <1>10, <1>11 DEF Next, Dispatch

(***************************************************************************)
(* Every variable of the job tables and the dispatchers keeps its shape.   *)
(***************************************************************************)
THEOREM TypeCorrect == Spec => []TypeOK
<1>1. IInv => TypeOK
  BY DEF IInv
<1> QED BY <1>1, InitIInv, StepIInv, PTL DEF Spec

(***************************************************************************)
(* A job is never scheduled at or before its last run.                     *)
(***************************************************************************)
THEOREM NextRunLater == Spec => []NextAfterLast
<1>1. IInv => NextAfterLast
  BY DEF IInv
<1> QED BY <1>1, InitIInv, StepIInv, PTL DEF Spec

(***************************************************************************)
(* No slot of a job is claimed twice: for any number of overlapping        *)
(* dispatchers with clock values of any age, any re-saves and toggles,     *)
(* crashes and failed runs.                                                *)
(***************************************************************************)
THEOREM ClaimedOnce == Spec => SlotsClaimedOnce
<1>1. IInv /\ [Next]_vars => [SlotStep]_vars
  BY StepIInv
<1> QED BY <1>1, InitIInv, StepIInv, PTL DEF Spec, SlotsClaimedOnce
-----------------------------------------------------------------------------
(* What is marked as running is being run *)

\* A job_run that says running is the newest of its dispatcher, which is executing the job.
Executes(ds, d, j) == ds[d].pc = "executing" /\ Head(ds[d].queue) = j
RowsInv ==
    \A j \in JobIds \ left : \A i \in 1..Len(jobRuns[j]) : jobRuns[j][i].status = "running" =>
        /\ Executes(disp, jobRuns[j][i].by, j)
        /\ \A k \in (i + 1)..Len(jobRuns[j]) : jobRuns[j][k].by # jobRuns[j][i].by
MarkInv ==
    \A j \in JobIds \ left : jobs[j].lastStatus = "running" => jobs[j].present /\ \E d \in Dispatchers : Queued(d, j)
QueueInv == \A d \in Dispatchers : disp[d].pc \in {"idle", "claiming"} => disp[d].queue = <<>>
RunningInv == QueueInv /\ MarkInv /\ RowsInv

\* Every due job is in an order of them.
LEMMA OrdersComplete ==
    ASSUME NEW S \in SUBSET JobIds, NEW q \in Orders(S), NEW j \in S
    PROVE  q \in Seq(JobIds) /\ \E i \in 1..Len(q) : q[i] = j
<1> DEFINE n == Cardinality(S)
<1>1. IsFiniteSet(S) /\ n \in Nat
  BY FS_Subset, FS_CardinalityType, JobsAssumption
<1>2. q \in [1..n -> S] /\ \A a, b \in 1..n : a < b => q[a] # q[b]
  BY DEF Orders
<1>3. IsFiniteSet(1..n) /\ Cardinality(1..n) = n
  BY <1>1, FS_Interval
<1>4. q \in Seq(JobIds)
  BY OrdersType
<1> HIDE DEF n
<1>5. q \in Injection(1..n, S)
  <2>1. ASSUME NEW a \in 1..n, NEW b \in 1..n, q[a] = q[b] PROVE a = b
    BY <1>1, <1>2, <2>1
  <2> QED BY <1>2, <2>1 DEF Injection, IsInjective
<1>6. q \in Surjection(1..n, S)
  BY <1>1, <1>3, <1>5, FS_Injection DEF n
<1>7. PICK i \in 1..n : q[i] = j
  BY <1>6 DEF Surjection
<1>8. Len(q) = n
  BY <1>1, <1>2, <1>4
<1> QED BY <1>4, <1>7, <1>8

(***************************************************************************)
(* The rows out are the last ones of rows, in order, with the newest row   *)
(* of d closed.                                                            *)
(***************************************************************************)
Settled(rows, d, out) ==
    \E h \in Nat :
      /\ Len(out) + h = Len(rows) /\ Len(out) \in Nat
      /\ \A k \in 1..Len(out) :
           /\ out[k].by = rows[k + h].by
           /\ out[k].status = "running" =>
                /\ rows[k + h].status = "running"
                /\ rows[k + h].by = d => \E l \in (k + h + 1)..Len(rows) : rows[l].by = d

\* Settling closes the newest row of the dispatcher and keeps the last rows.
LEMMA SettleEffect ==
    ASSUME NEW rows \in Seq(JobRunRows), NEW d \in Dispatchers, NEW outcome \in {"success", "error"}
    PROVE  Settled(rows, d, Newest(Settle(rows, d, outcome)))
<1> DEFINE set == Settle(rows, d, outcome)
           out == Newest(set)
           first == IF Len(set) > JobRunKeep THEN Len(set) - JobRunKeep + 1 ELSE 1
<1>1. Len(rows) \in Nat /\ \A i \in 1..Len(rows) : rows[i] \in JobRunRows
  OBVIOUS
<1>2. set = [i \in 1..Len(rows) |-> IF rows[i].by = d /\ (\A k \in 1..Len(rows) : rows[k].by = d => k <= i)
                                   THEN [by |-> d, status |-> outcome] ELSE rows[i]]
  BY DEF Settle
<1>3. ASSUME NEW i \in 1..Len(rows)
      PROVE  /\ set[i] \in JobRunRows /\ set[i].by = rows[i].by
             /\ set[i].status = "running" =>
                  /\ rows[i].status = "running"
                  /\ rows[i].by = d => \E k \in (i + 1)..Len(rows) : rows[k].by = d
  <2>1. CASE rows[i].by = d /\ (\A k \in 1..Len(rows) : rows[k].by = d => k <= i)
    BY <1>2, <2>1 DEF JobRunRows
  <2>2. CASE ~(rows[i].by = d /\ (\A k \in 1..Len(rows) : rows[k].by = d => k <= i))
    <3>1. set[i] = rows[i]
      BY <1>2, <2>2
    <3>2. rows[i].by = d => \E k \in (i + 1)..Len(rows) : rows[k].by = d
      BY <1>1, <2>2
    <3> QED BY <1>1, <3>1, <3>2
  <2> QED BY <2>1, <2>2
<1>4. set \in [1..Len(rows) -> JobRunRows]
  BY <1>2, <1>3
<1> HIDE DEF set
<1>5. set \in Seq(JobRunRows) /\ Len(set) = Len(rows)
  BY <1>1, <1>4
<1>6. first \in Nat \ {0} /\ first <= Len(rows) + 1
  BY <1>1, <1>5, JobsAssumption
<1>7. out = SubSeq(set, first, Len(set))
  BY DEF Newest
<1> HIDE DEF first, out
<1>8. /\ Len(out) = IF first <= Len(rows) THEN Len(rows) - first + 1 ELSE 0
      /\ \A i \in 1..(Len(rows) - first + 1) : out[i] = set[first + i - 1]
  <2>1. \A i \in first..Len(set) : set[i] \in JobRunRows
    BY <1>1, <1>5, <1>6
  <2> QED BY <1>1, <1>5, <1>6, <1>7, <2>1, SubSeqProperties
<1>9. Len(out) = Len(rows) - first + 1
  BY <1>1, <1>6, <1>8
<1> DEFINE h == first - 1
<1>10. h \in Nat /\ Len(out) + h = Len(rows) /\ Len(out) \in Nat
  BY <1>1, <1>6, <1>9
<1>11. ASSUME NEW i \in 1..Len(out)
       PROVE  out[i] = set[i + h] /\ i + h \in 1..Len(rows)
  BY <1>1, <1>6, <1>8, <1>9
<1> HIDE DEF h
<1>12. ASSUME NEW i \in 1..Len(out)
       PROVE  /\ out[i].by = rows[i + h].by
              /\ out[i].status = "running" =>
                   /\ rows[i + h].status = "running"
                   /\ rows[i + h].by = d => \E k \in (i + h + 1)..Len(rows) : rows[k].by = d
  BY <1>3, <1>11
<1>13. Settled(rows, d, out)
  BY <1>10, <1>12 DEF Settled
<1> QED BY <1>13 DEF out, set

\* Steps that leave the job_runs alone, the jobs in their queues and the executing dispatchers at work.
LEMMA KeepsRows ==
    ASSUME TypeOK, RowsInv, UNCHANGED jobRuns, left \subseteq left',
           \A d \in Dispatchers, j \in JobIds \ left' : Executes(disp, d, j) => Executes(disp', d, j)
    PROVE  RowsInv'
<1>1. ASSUME NEW j \in JobIds, NEW i \in 1..Len(jobRuns[j]) PROVE jobRuns[j][i].by \in Dispatchers
  <2>1. jobRuns[j] \in Seq(JobRunRows)
    BY DEF TypeOK
  <2>2. jobRuns[j][i] \in JobRunRows
    BY <2>1, ElementOfSeq
  <2> QED BY <2>2 DEF JobRunRows
<1> QED BY <1>1 DEF RowsInv

LEMMA KeepsMarks ==
    ASSUME MarkInv, left \subseteq left',
           \A j \in JobIds \ left' : jobs'[j].lastStatus = "running" => jobs[j].lastStatus = "running" /\ jobs'[j].present,
           \A d \in Dispatchers, j \in JobIds \ left' : Queued(d, j) => Queued(d, j)'
    PROVE  MarkInv'
BY DEF MarkInv

\* The dispatchers not at work on a step stay as they are.
LEMMA OthersStay ==
    ASSUME TypeOK, NEW d \in Dispatchers, NEW r, disp' = [disp EXCEPT ![d] = r],
           NEW e \in Dispatchers, e # d, NEW j \in JobIds
    PROVE  (Queued(e, j)' <=> Queued(e, j)) /\ (Executes(disp', e, j) <=> Executes(disp, e, j))
<1>1. disp'[e] = disp[e]
  BY DEF TypeOK
<1> QED BY <1>1 DEF Queued, Executes, Job

LEMMA RunningStep == TypeOK /\ TypeOK' /\ RunningInv /\ [Next]_vars => RunningInv'
<1> SUFFICES ASSUME TypeOK, TypeOK', QueueInv, MarkInv, RowsInv, [Next]_vars
             PROVE  QueueInv' /\ MarkInv' /\ RowsInv'
  BY DEF RunningInv
<1>1. /\ now \in Nat /\ jobs \in [JobIds -> JobRows] /\ jobRuns \in [JobIds -> Seq(JobRunRows)]
      /\ disp \in [Dispatchers -> [pc : {"idle", "claiming", "next", "executing"}, at : Nat, queue : Seq(JobIds)]]
  BY DEF TypeOK
\* Steps of the author and the user, who change no queue.
<1>2. ASSUME UNCHANGED <<jobRuns, disp, left>>,
             \A j \in JobIds : jobs'[j].lastStatus = "running" => jobs[j].lastStatus = "running" /\ jobs'[j].present
      PROVE  QueueInv' /\ MarkInv' /\ RowsInv'
  <2>1. QueueInv'
    BY <1>2 DEF QueueInv
  <2>2. \A d \in Dispatchers, j \in JobIds : (Queued(d, j) => Queued(d, j)') /\ (Executes(disp, d, j) => Executes(disp', d, j))
    BY <1>2 DEF Queued, Executes, Job
  <2>3. MarkInv'
    BY <1>2, <2>2, KeepsMarks
  <2> QED BY <1>2, <2>1, <2>2, <2>3, KeepsRows
<1>3. ASSUME NEW m \in Manifests, packageSave(m)
      PROVE  QueueInv' /\ MarkInv' /\ RowsInv'
  <2>1. \A j \in JobIds : jobs'[j] = Reconciled(j, m[j])
    BY <1>3 DEF packageSave
  <2>2. ASSUME NEW j \in JobIds
        PROVE  jobs'[j].lastStatus = "running" => jobs[j].lastStatus = "running" /\ jobs'[j].present
    <3>1. CASE ~m[j].declared
      BY <2>1, <3>1 DEF Reconciled, NoJob
    <3>2. CASE m[j].declared
      <4> DEFINE on == IF jobs[j].present THEN jobs[j].enabled \/ m[j].enabled = "yes" ELSE m[j].enabled # "no"
                 next == computeNextRun(m[j].schedule, now, jobs[j].lastRun)
      <4>1. jobs'[j] = JobRow(m[j].schedule, on, next, jobs[j].lastRun, jobs[j].lastStatus)
        BY <2>1, <3>2 DEF Reconciled
      <4> HIDE DEF on, next
      <4> QED BY <4>1 DEF JobRow
    <3> QED BY <3>1, <3>2
  <2> QED BY <1>2, <1>3, <2>2 DEF packageSave
<1>4. ASSUME packageDelete
      PROVE  QueueInv' /\ MarkInv' /\ RowsInv'
  <2>1. \A j \in JobIds : ~jobs'[j].present /\ jobs'[j].lastStatus = "none"
    BY <1>4 DEF packageDelete, NoJob
  <2> QED BY <1>2, <1>4, <2>1 DEF packageDelete
<1>5. ASSUME NEW j \in JobIds, NEW enabled \in BOOLEAN, jobUpdate(j, enabled)
      PROVE  QueueInv' /\ MarkInv' /\ RowsInv'
  <2>1. \A k \in JobIds : jobs'[k].lastStatus = jobs[k].lastStatus /\ (jobs'[k].present <=> jobs[k].present)
    BY <1>1, <1>5 DEF jobUpdate, JobRow
  <2>2. \A k \in JobIds \ left : jobs'[k].lastStatus = "running" => jobs[k].lastStatus = "running" /\ jobs'[k].present
    BY <2>1 DEF MarkInv
  <2>3. UNCHANGED <<jobRuns, disp, left>>
    BY <1>5 DEF jobUpdate
  <2>4. \A d \in Dispatchers, k \in JobIds : (Queued(d, k) => Queued(d, k)') /\ (Executes(disp, d, k) => Executes(disp', d, k))
    BY <2>3 DEF Queued, Executes, Job
  <2>5. MarkInv'
    BY <2>2, <2>3, <2>4, KeepsMarks
  <2> QED BY <2>3, <2>4, <2>5, KeepsRows DEF QueueInv
\* A dispatcher whose queue was empty and that executed nothing.
<1>6. ASSUME NEW d \in Dispatchers, NEW r, disp[d].pc # "executing", disp[d].queue = <<>>,
             disp' = [disp EXCEPT ![d] = r]
      PROVE  \A e \in Dispatchers, j \in JobIds : (Queued(e, j) => Queued(e, j)') /\ (Executes(disp, e, j) => Executes(disp', e, j))
  <2>1. \A j \in JobIds : ~Queued(d, j) /\ ~Executes(disp, d, j)
    BY <1>6 DEF Queued, Executes
  <2> QED BY <1>6, <2>1, OthersStay
<1>7. ASSUME NEW d \in Dispatchers, NEW r, disp[d].pc # "executing", disp[d].queue = <<>>,
             disp' = [disp EXCEPT ![d] = r], r.pc \in {"idle", "claiming"} => r.queue = <<>>,
             UNCHANGED <<jobs, jobRuns, left>>
      PROVE  QueueInv' /\ MarkInv' /\ RowsInv'
  <2>1. QueueInv'
    BY <1>1, <1>7 DEF QueueInv
  <2>2. \A e \in Dispatchers, j \in JobIds : (Queued(e, j) => Queued(e, j)') /\ (Executes(disp, e, j) => Executes(disp', e, j))
    BY <1>6, <1>7
  <2>3. MarkInv'
    BY <1>7, <2>2 DEF MarkInv
  <2> QED BY <1>7, <2>1, <2>2, <2>3, KeepsRows
<1>8. ASSUME NEW d \in Dispatchers, DispatchBegin(d) \/ DispatchEnd(d) \/ (\E j \in JobIds : jobRunNow(d, j))
      PROVE  QueueInv' /\ MarkInv' /\ RowsInv'
  <2>1. disp[d].pc # "executing" /\ disp[d].queue = <<>>
    BY <1>8 DEF DispatchBegin, DispatchEnd, jobRunNow, QueueInv
  <2>2. PICK r \in {Disp("claiming", now, <<>>), IdleDisp} \cup {Disp("next", 0, <<j>>) : j \in JobIds} :
            disp' = [disp EXCEPT ![d] = r]
    BY <1>8 DEF DispatchBegin, DispatchEnd, jobRunNow
  <2>3. r.pc \in {"idle", "claiming"} => r.queue = <<>>
    BY <2>2 DEF Disp, IdleDisp
  <2>4. UNCHANGED <<jobs, jobRuns, left>>
    BY <1>8 DEF DispatchBegin, DispatchEnd, jobRunNow
  <2> QED BY <1>7, <2>1, <2>2, <2>3, <2>4
<1>9. ASSUME NEW d \in Dispatchers, jobsClaimDue(d)
      PROVE  QueueInv' /\ MarkInv' /\ RowsInv'
  <2> DEFINE due == DueJobs(d)
  <2>1. PICK q \in Orders(due) : disp' = [disp EXCEPT ![d] = Disp("next", disp[d].at, q)]
    BY <1>9 DEF jobsClaimDue
  <2> DEFINE r == Disp("next", disp[d].at, q)
  <2>2. r.pc = "next" /\ r.queue = q
    BY DEF Disp
  <2>3. disp[d].pc # "executing" /\ disp[d].queue = <<>>
    BY <1>9 DEF jobsClaimDue, QueueInv
  <2>4. jobs' = Advanced(due, disp[d].at) /\ UNCHANGED <<jobRuns, left>> /\ due \in SUBSET JobIds
    BY <1>9 DEF jobsClaimDue, DueJobs
  <2>5. disp' = [disp EXCEPT ![d] = r]
    BY <2>1
  <2> HIDE DEF due, r
  <2>6. \A e \in Dispatchers, j \in JobIds : (Queued(e, j) => Queued(e, j)') /\ (Executes(disp, e, j) => Executes(disp', e, j))
    BY <1>6, <2>3, <2>5
  <2>7. \A j \in due : jobs[j].present
    BY DEF due, DueJobs, Due
  <2>8. \A j \in JobIds : (jobs'[j].present <=> jobs[j].present) /\ (j \notin due => jobs'[j] = jobs[j])
    BY <1>1, <2>4, <2>7 DEF Advanced, JobRow
  <2>9. QueueInv'
    BY <1>1, <2>2, <2>5, <2>8 DEF QueueInv
  <2>10. ASSUME NEW j \in due PROVE Queued(d, j)'
    <3>1. q \in Seq(JobIds) /\ \E i \in 1..Len(q) : q[i] = j
      BY <2>1, <2>4, OrdersComplete
    <3>2. disp'[d].queue = q
      BY <1>1, <2>2, <2>5
    <3> QED BY <3>1, <3>2 DEF Queued
  <2>11. MarkInv'
    <3> SUFFICES ASSUME NEW j \in JobIds \ left, jobs'[j].lastStatus = "running"
                 PROVE  jobs'[j].present /\ \E e \in Dispatchers : Queued(e, j)'
      BY <2>4 DEF MarkInv
    <3>1. CASE j \in due
      BY <2>7, <2>8, <2>10, <3>1
    <3>2. CASE j \notin due
      BY <2>6, <2>8, <3>2 DEF MarkInv
    <3> QED BY <3>1, <3>2
  <2> QED BY <2>4, <2>6, <2>9, <2>11, KeepsRows
\* A failure leaves the jobs in the queue of its dispatcher behind, or those it has advanced.
<1>10. ASSUME NEW d \in Dispatchers, ClaimThrows(d) \/ ExecuteThrows(d) \/ Crash(d)
       PROVE  QueueInv' /\ MarkInv' /\ RowsInv'
  <2>1. disp' = [disp EXCEPT ![d] = IdleDisp] /\ UNCHANGED jobRuns /\ left \subseteq left'
    BY <1>10 DEF ClaimThrows, ExecuteThrows, Crash
  <2>2. QueueInv'
    BY <1>1, <2>1 DEF QueueInv, IdleDisp, Disp
  <2>3. ASSUME NEW j \in JobIds \ left' PROVE ~Queued(d, j) /\ ~Executes(disp, d, j)
    <3>1. CASE ClaimThrows(d)
      BY <3>1 DEF ClaimThrows, QueueInv, Queued, Executes
    <3>2. CASE ExecuteThrows(d) \/ Crash(d)
      <4>1. ~Queued(d, j)
        BY <2>3, <3>2 DEF ExecuteThrows, Crash, InQueue
      <4>2. Executes(disp, d, j) => Queued(d, j)
        <5>1. SUFFICES ASSUME Executes(disp, d, j) PROVE Queued(d, j)
          OBVIOUS
        <5>2. disp[d].queue \in Seq(JobIds) /\ disp[d].queue # <<>> /\ Head(disp[d].queue) = j
          BY <1>1, <5>1 DEF Executes, TypeOK
        <5>3. 1 \in 1..Len(disp[d].queue) /\ disp[d].queue[1] = j
          BY <5>2, HeadTailProperties
        <5> QED BY <5>3 DEF Queued
      <4> QED BY <4>1, <4>2
    <3> QED BY <1>10, <3>1, <3>2
  <2>4. ASSUME NEW e \in Dispatchers, NEW j \in JobIds \ left'
        PROVE  (Queued(e, j) => Queued(e, j)') /\ (Executes(disp, e, j) => Executes(disp', e, j))
    <3>1. CASE e = d
      BY <2>3, <3>1
    <3>2. CASE e # d
      BY <2>1, <3>2, OthersStay
    <3> QED BY <3>1, <3>2
  <2>5. \A j \in JobIds \ left' : jobs'[j] = jobs[j]
    <3>1. CASE ClaimThrows(d)
      <4>1. PICK q \in Orders(DueJobs(d)), n \in 1..Cardinality(DueJobs(d)) :
                 /\ jobs' = Advanced({q[i] : i \in 1..(n - 1)}, disp[d].at)
                 /\ left' = left \cup {q[i] : i \in 1..(n - 1)}
        BY <3>1 DEF ClaimThrows
      <4> DEFINE some == {q[i] : i \in 1..(n - 1)}
      <4>2. jobs' = Advanced(some, disp[d].at) /\ left' = left \cup some
        BY <4>1
      <4> HIDE DEF some
      <4> QED BY <4>2 DEF Advanced
    <3>2. CASE ExecuteThrows(d) \/ Crash(d)
      BY <3>2 DEF ExecuteThrows, Crash
    <3> QED BY <1>10, <3>1, <3>2
  <2>6. MarkInv'
    <3>1. \A j \in JobIds \ left' : jobs'[j].lastStatus = "running" => jobs[j].lastStatus = "running" /\ jobs'[j].present
      BY <2>1, <2>5 DEF MarkInv
    <3> QED BY <2>1, <2>4, <3>1, KeepsMarks
  <2> QED BY <2>1, <2>2, <2>4, <2>6, KeepsRows
<1>11. ASSUME NEW d \in Dispatchers, jobRunStart(d)
       PROVE  QueueInv' /\ MarkInv' /\ RowsInv'
  <2> DEFINE n == Job(d)
             row == [by |-> d, status |-> "running"]
             r == Disp("executing", disp[d].at, disp[d].queue)
  <2>1. /\ disp[d].pc = "next" /\ disp' = [disp EXCEPT ![d] = r]
        /\ jobRuns' = [jobRuns EXCEPT ![n] = Append(jobRuns[n], row)] /\ UNCHANGED <<jobs, left>>
    BY <1>11 DEF jobRunStart
  <2>2. n \in JobIds
    BY <1>1, <1>11 DEF jobRunStart, Job
  <2>3. row \in JobRunRows /\ row.by = d /\ r.pc = "executing" /\ r.queue = disp[d].queue
    BY DEF JobRunRows, Disp
  <2> HIDE DEF row, r
  <2>4. disp'[d] = r
    BY <1>1, <2>1
  <2>5. Executes(disp', d, n) /\ \A j \in JobIds : ~Executes(disp, d, j) /\ (Queued(d, j) <=> Queued(d, j)')
    BY <2>1, <2>3, <2>4 DEF Executes, Job, Queued
  <2> HIDE DEF n
  <2>6. \A e \in Dispatchers, j \in JobIds : (Queued(e, j) => Queued(e, j)') /\ (Executes(disp, e, j) => Executes(disp', e, j))
    BY <2>1, <2>5, OthersStay
  <2>7. QueueInv' /\ MarkInv'
    BY <1>1, <2>1, <2>3, <2>6 DEF QueueInv, MarkInv
  <2>8. ASSUME NEW j \in JobIds \ left, NEW i \in 1..Len(jobRuns'[j]), jobRuns'[j][i].status = "running"
        PROVE  /\ Executes(disp', jobRuns'[j][i].by, j)
               /\ \A k \in (i + 1)..Len(jobRuns'[j]) : jobRuns'[j][k].by # jobRuns'[j][i].by
    <3>1. CASE j # n
      <4>1. jobRuns'[j] = jobRuns[j] /\ jobRuns[j][i] \in JobRunRows
        BY <1>1, <2>1, <2>8, <3>1
      <4>2. jobRuns[j][i].by \in Dispatchers
        BY <4>1 DEF JobRunRows
      <4> QED BY <2>6, <2>8, <4>1, <4>2 DEF RowsInv
    <3>2. CASE j = n
      <4> DEFINE rows == jobRuns[n]
      <4>1. rows \in Seq(JobRunRows) /\ Len(rows) \in Nat /\ jobRuns'[n] = Append(rows, row)
        BY <1>1, <2>1, <2>2
      <4>2. /\ Len(jobRuns'[n]) = Len(rows) + 1 /\ jobRuns'[n][Len(rows) + 1] = row
            /\ \A k \in 1..Len(rows) : jobRuns'[n][k] = rows[k]
        BY <2>3, <4>1, AppendProperties
      <4>3. CASE i = Len(rows) + 1
        BY <2>3, <2>5, <3>2, <4>1, <4>2, <4>3
      <4>4. CASE i \in 1..Len(rows)
        <5>1. /\ rows[i].status = "running" /\ jobRuns'[n][i] = rows[i] /\ rows[i] \in JobRunRows
          BY <2>8, <3>2, <4>1, <4>2, <4>4
        <5>2. /\ rows[i].by \in Dispatchers /\ Executes(disp, rows[i].by, n)
              /\ \A k \in (i + 1)..Len(rows) : rows[k].by # rows[i].by
          BY <2>2, <2>8, <3>2, <4>4, <5>1 DEF RowsInv, JobRunRows
        <5>3. rows[i].by # d /\ Executes(disp', rows[i].by, n)
          BY <2>2, <2>5, <2>6, <5>2
        <5>4. ASSUME NEW k \in (i + 1)..(Len(rows) + 1) PROVE jobRuns'[n][k].by # rows[i].by
          <6>1. CASE k = Len(rows) + 1
            BY <2>3, <4>2, <5>3, <6>1
          <6>2. CASE k # Len(rows) + 1
            BY <4>1, <4>2, <4>4, <5>2, <6>2
          <6> QED BY <6>1, <6>2
        <5> QED BY <3>2, <4>2, <5>1, <5>3, <5>4
      <4>5. i = Len(rows) + 1 \/ i \in 1..Len(rows)
        BY <3>2, <4>1, <4>2
      <4> QED BY <4>3, <4>4, <4>5
    <3> QED BY <3>1, <3>2
  <2> QED BY <2>1, <2>7, <2>8 DEF RowsInv
<1>12. ASSUME NEW d \in Dispatchers, NEW o \in {"success", "error"}, jobRunFinish(d, o)
       PROVE  QueueInv' /\ MarkInv' /\ RowsInv'
  <2> DEFINE n == Job(d)
             queue == disp[d].queue
             r == Disp("next", disp[d].at, Tail(queue))
             row == JobRow(jobs[n].schedule, jobs[n].enabled, jobs[n].nextRun, jobs[n].lastRun, o)
             out == Newest(Settle(jobRuns[n], d, o))
  <2>1. /\ disp[d].pc = "executing" /\ disp' = [disp EXCEPT ![d] = r] /\ jobRuns' = [jobRuns EXCEPT ![n] = out]
        /\ jobs' = IF jobs[n].present THEN [jobs EXCEPT ![n] = row] ELSE jobs
        /\ UNCHANGED left
    BY <1>12 DEF jobRunFinish
  <2>2. queue \in Seq(JobIds) /\ queue # <<>> /\ n = Head(queue) /\ n \in JobIds
    BY <1>1, <2>1 DEF TypeOK, Job
  <2>3. /\ Len(queue) \in Nat \ {0} /\ queue[1] = n /\ Len(Tail(queue)) = Len(queue) - 1
        /\ \A i \in 1..Len(Tail(queue)) : Tail(queue)[i] = queue[i + 1]
    BY <2>2, HeadTailProperties
  <2>4. /\ r.pc = "next" /\ r.queue = Tail(queue)
        /\ row.present /\ row.schedule = jobs[n].schedule /\ row.lastStatus = o
    BY DEF Disp, JobRow
  <2>5. disp'[d] = r
    BY <1>1, <2>1
  <2> HIDE DEF r, row
  <2>6. \A j \in JobIds : Executes(disp, d, j) => j = n
    BY DEF Executes, Job
  <2>7. ASSUME NEW j \in JobIds, j # n, Queued(d, j) PROVE Queued(d, j)'
    <3>1. PICK i \in 1..Len(queue) : queue[i] = j
      BY <2>7 DEF Queued
    <3>2. i - 1 \in 1..Len(Tail(queue)) /\ Tail(queue)[i - 1] = j
      BY <2>3, <2>7, <3>1
    <3>3. disp'[d].queue = Tail(queue)
      BY <2>4, <2>5
    <3> QED BY <3>2, <3>3 DEF Queued
  <2> HIDE DEF n, queue
  <2>8. \A j \in JobIds : /\ jobs'[j].present <=> jobs[j].present
                          /\ j # n => jobs'[j] = jobs[j]
                          /\ j = n => ~jobs'[j].present \/ jobs'[j].lastStatus = o
    BY <1>1, <2>1, <2>2, <2>4
  <2>9. QueueInv'
    BY <1>1, <2>1, <2>4, <2>8 DEF QueueInv
  <2>10. MarkInv'
    <3> SUFFICES ASSUME NEW j \in JobIds \ left, jobs'[j].lastStatus = "running"
                 PROVE  jobs'[j].present /\ \E e \in Dispatchers : Queued(e, j)'
      BY <2>1 DEF MarkInv
    <3>1. j # n
      <4>1. CASE jobs[n].present
        BY <1>1, <2>1, <2>2, <2>4, <4>1
      <4>2. CASE ~jobs[n].present
        BY <2>1, <2>2, <4>2 DEF MarkInv
      <4> QED BY <4>1, <4>2
    <3>2. jobs[j].present /\ \E e \in Dispatchers : Queued(e, j)
      BY <2>8, <3>1 DEF MarkInv
    <3> QED BY <2>1, <2>7, <2>8, <3>1, <3>2, OthersStay
  <2>11. ASSUME NEW j \in JobIds \ left, NEW i \in 1..Len(jobRuns'[j]), jobRuns'[j][i].status = "running"
         PROVE  /\ Executes(disp', jobRuns'[j][i].by, j)
                /\ \A k \in (i + 1)..Len(jobRuns'[j]) : jobRuns'[j][k].by # jobRuns'[j][i].by
    <3>1. CASE j # n
      <4>1. jobRuns'[j] = jobRuns[j] /\ jobRuns[j][i] \in JobRunRows
        BY <1>1, <2>1, <2>11, <3>1
      <4>2. jobRuns[j][i].by \in Dispatchers /\ Executes(disp, jobRuns[j][i].by, j)
        BY <2>11, <4>1 DEF JobRunRows, RowsInv
      <4>3. Executes(disp', jobRuns[j][i].by, j)
        BY <2>1, <2>6, <3>1, <4>2, OthersStay
      <4> QED BY <2>11, <4>1, <4>3 DEF RowsInv
    <3>2. CASE j = n
      <4> DEFINE rows == jobRuns[n]
      <4>1. rows \in Seq(JobRunRows) /\ Len(rows) \in Nat /\ jobRuns'[n] = out
        BY <1>1, <2>1, <2>2
      <4>2a. Settled(rows, d, out)
        BY <4>1, SettleEffect
      <4> HIDE DEF out
      <4>2. PICK h \in Nat :
                /\ Len(out) + h = Len(rows) /\ Len(out) \in Nat
                /\ \A k \in 1..Len(out) :
                     /\ out[k].by = rows[k + h].by
                     /\ out[k].status = "running" =>
                          /\ rows[k + h].status = "running"
                          /\ rows[k + h].by = d => \E l \in (k + h + 1)..Len(rows) : rows[l].by = d
        BY <4>2a DEF Settled
      <4>3. /\ i \in 1..Len(out) /\ i + h \in 1..Len(rows) /\ rows[i + h].status = "running"
            /\ rows[i + h] \in JobRunRows /\ out[i].by = rows[i + h].by
        BY <2>11, <3>2, <4>1, <4>2
      <4>4. /\ rows[i + h].by \in Dispatchers /\ Executes(disp, rows[i + h].by, n)
            /\ \A k \in (i + h + 1)..Len(rows) : rows[k].by # rows[i + h].by
        BY <2>2, <2>11, <3>2, <4>3 DEF RowsInv, JobRunRows
      <4>5. rows[i + h].by # d
        BY <2>11, <3>2, <4>1, <4>2, <4>3, <4>4
      <4>6. Executes(disp', rows[i + h].by, n)
        BY <2>1, <2>2, <4>4, <4>5, OthersStay
      <4>7. ASSUME NEW k \in (i + 1)..Len(out) PROVE out[k].by # out[i].by
        <5>1. k \in 1..Len(out) /\ k + h \in (i + h + 1)..Len(rows)
          BY <4>1, <4>2, <4>3
        <5> QED BY <4>2, <4>3, <4>4, <5>1
      <4> QED BY <3>2, <4>1, <4>3, <4>6, <4>7
    <3> QED BY <3>1, <3>2
  <2> QED BY <2>1, <2>9, <2>10, <2>11 DEF RowsInv
<1>13. CASE UNCHANGED <<jobs, jobRuns, disp, left>>
  <2>1. \A d \in Dispatchers, j \in JobIds : (Queued(d, j) => Queued(d, j)') /\ (Executes(disp, d, j) => Executes(disp', d, j))
    BY <1>13 DEF Queued, Executes, Job
  <2>2. MarkInv'
    BY <1>13, <2>1 DEF MarkInv
  <2> QED BY <1>13, <2>1, <2>2, KeepsRows DEF QueueInv
<1> QED
  BY <1>3, <1>4, <1>5, <1>8, <1>9, <1>10, <1>11, <1>12, <1>13 DEF Next, Dispatch, Tick, vars

(***************************************************************************)
(* A job or a job_run that says running is being run or waits in a queue   *)
(* (cells/user-cell.ts jobsClaimDue, jobRunStart, jobRunFinish), for any   *)
(* number of overlapping dispatchers, manual runs, re-saves and deletions, *)
(* unless a dispatcher failed that had the job to run.                     *)
(***************************************************************************)
THEOREM MarkedJobsRun == Spec => []MarkedIsRunning
<1>1. Init => RunningInv
  BY DEF Init, RunningInv, QueueInv, MarkInv, RowsInv, NoJob, IdleDisp, Disp
<1>2. TypeOK /\ TypeOK' /\ RunningInv /\ [Next]_vars => RunningInv'
  BY RunningStep
<1>3. RunningInv => MarkedIsRunning
  BY DEF RunningInv, MarkInv, RowsInv, Executes, Job, RunningIsRunning, MarkedIsRunning
<1> QED BY <1>1, <1>2, <1>3, TypeCorrect, PTL DEF Spec

\* No dispatcher fails: no crash, no run that throws, and every schedule has another turn within the scan.
Regular(s) == s.type = "cron" => s.n <= CronScan
Reliable ==
    /\ Failures = {}
    /\ \A m \in Manifests, j \in JobIds : m[j].declared => Regular(m[j].schedule)

\* A regular schedule has another turn within the scan.
LEMMA RegularFound ==
    ASSUME NEW s \in Schedules, NEW t \in Nat, Regular(s)
    PROVE  Found(s, t)
<1>1. s.n \in Nat \ {0} /\ CronScan \in Nat
  BY JobsAssumption DEF Schedules
<1>2. t % s.n \in 0..(s.n - 1)
  BY <1>1
<1> QED BY <1>1, <1>2 DEF Regular, Found

\* The schedules in the table are those of manifests.
SchedulesInv == left = {} /\ \A j \in JobIds : jobs[j].present => Regular(jobs[j].schedule)

LEMMA SchedulesStep == Reliable /\ TypeOK /\ SchedulesInv /\ [Next]_vars => SchedulesInv'
<1> SUFFICES ASSUME Reliable, TypeOK, SchedulesInv, [Next]_vars PROVE SchedulesInv'
  OBVIOUS
<1>1. jobs \in [JobIds -> JobRows] /\ disp \in [Dispatchers -> [pc : {"idle", "claiming", "next", "executing"}, at : Nat, queue : Seq(JobIds)]]
  BY DEF TypeOK
<1>2. ASSUME NEW d \in Dispatchers, ClaimThrows(d) \/ ExecuteThrows(d) \/ Crash(d) PROVE FALSE
  <2>1. CASE ClaimThrows(d)
    <3>1. PICK q \in Orders(DueJobs(d)), n \in 1..Cardinality(DueJobs(d)) : ~Found(jobs[q[n]].schedule, disp[d].at)
      BY <2>1 DEF ClaimThrows
    <3>2. q[n] \in DueJobs(d)
      BY <3>1 DEF Orders
    <3>3. q[n] \in JobIds /\ Regular(jobs[q[n]].schedule)
      BY <3>2 DEF DueJobs, Due, SchedulesInv
    <3>4. jobs[q[n]].schedule \in Schedules /\ disp[d].at \in Nat
      BY <1>1, <3>3 DEF JobRows
    <3> QED BY <3>1, <3>3, <3>4, RegularFound
  <2>2. CASE ExecuteThrows(d) \/ Crash(d)
    BY <2>2 DEF ExecuteThrows, Crash, Reliable
  <2> QED BY <1>2, <2>1, <2>2
<1>3. left' = {}
  BY <1>2, LeftStep DEF SchedulesInv
<1>4. ASSUME NEW j \in JobIds, jobs'[j].present
      PROVE  (jobs[j].present /\ jobs'[j].schedule = jobs[j].schedule) \/ Regular(jobs'[j].schedule)
  <2>1. CASE UNCHANGED jobs
    BY <1>4, <2>1
  <2>2. ASSUME NEW m \in Manifests, packageSave(m) PROVE Regular(jobs'[j].schedule)
    <3>1. jobs'[j] = Reconciled(j, m[j])
      BY <2>2 DEF packageSave
    <3>2. m[j].declared
      BY <1>4, <3>1 DEF Reconciled, NoJob
    <3> DEFINE on == IF jobs[j].present THEN jobs[j].enabled \/ m[j].enabled = "yes" ELSE m[j].enabled # "no"
               next == computeNextRun(m[j].schedule, now, jobs[j].lastRun)
    <3>3. jobs'[j] = JobRow(m[j].schedule, on, next, jobs[j].lastRun, jobs[j].lastStatus)
      BY <3>1, <3>2 DEF Reconciled
    <3> HIDE DEF on, next
    <3>4. jobs'[j].schedule = m[j].schedule
      BY <3>3 DEF JobRow
    <3> QED BY <3>2, <3>4 DEF Reliable
  <2>3. CASE packageDelete
    BY <1>4, <2>3 DEF packageDelete, NoJob
  <2>4. CASE \E k \in JobIds, enabled \in BOOLEAN : jobUpdate(k, enabled)
    BY <1>1, <1>4, <2>4 DEF jobUpdate, JobRow
  <2>5. ASSUME NEW d \in Dispatchers, jobsClaimDue(d) PROVE jobs[j].present /\ jobs'[j].schedule = jobs[j].schedule
    BY <1>4, <2>5 DEF jobsClaimDue, Advanced, DueJobs, Due, JobRow
  <2>6. ASSUME NEW d \in Dispatchers, NEW o \in {"success", "error"}, jobRunFinish(d, o)
        PROVE  jobs[j].present /\ jobs'[j].schedule = jobs[j].schedule
    BY <1>1, <1>4, <2>6 DEF jobRunFinish, JobRow
  <2> QED BY <1>2, <2>1, <2>2, <2>3, <2>4, <2>5, <2>6
          DEF Next, Dispatch, DispatchBegin, DispatchEnd, jobRunNow, jobRunStart, Tick, vars
<1> QED BY <1>3, <1>4 DEF SchedulesInv

(***************************************************************************)
(* As long as no dispatcher fails, a job or a job_run that says running is *)
(* being run or waits in a queue: what stays running is the trace of a     *)
(* failure (docs/jobs.md:67).                                              *)
(***************************************************************************)
THEOREM RunningJobsRun == Reliable => (Spec => [](\A j \in JobIds : RunningIsRunning(j)))
<1> SUFFICES ASSUME Reliable PROVE Spec => [](\A j \in JobIds : RunningIsRunning(j))
  OBVIOUS
<1>1. Init => SchedulesInv
  BY DEF Init, SchedulesInv, NoJob
<1>2. TypeOK /\ SchedulesInv /\ [Next]_vars => SchedulesInv'
  BY SchedulesStep
<1>3. SchedulesInv /\ MarkedIsRunning => \A j \in JobIds : RunningIsRunning(j)
  BY DEF SchedulesInv, MarkedIsRunning
<1> QED BY <1>1, <1>2, <1>3, TypeCorrect, MarkedJobsRun, PTL DEF Spec
=============================================================================
