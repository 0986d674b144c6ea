---------------------------- MODULE Runs_proofs ----------------------------
(* Proofs about module Runs, for any number of calls, keys, jobs and runs, and about AppGraph, ModuleGraph and Packages
   as module Execution puts them beside it, for any requests, packages, sources and users. *)
EXTENDS Execution, Sequences, FiniteSetTheorems, SequenceTheorems, WellFoundedInduction, TLAPS

(* Retention deletes whole rows, and never one that is still running. *)
LEMMA PruneEffect ==
  ASSUME NEW rs \in [Ids -> RunRows]
  PROVE  /\ pruneRuns(rs) \in [Ids -> RunRows]
         /\ \A i \in Ids : \/ pruneRuns(rs)[i] = rs[i]
                           \/ pruneRuns(rs)[i] = Absent /\ rs[i].status # "running"
<1>1. Absent \in RunRows
  BY DEF Absent, RunRows, Statuses, Triages
<1> QED
  BY <1>1 DEF pruneRuns

(* Auto-resolution changes the triage of errors and nothing else. *)
LEMMA AutoResolveEffect ==
  ASSUME NEW rs \in [Ids -> RunRows], NEW s \in Ids
  PROVE  /\ autoResolveJob(rs, s) \in [Ids -> RunRows]
         /\ \A i \in Ids :
              \/ autoResolveJob(rs, s)[i] = rs[i]
              \/ rs[i].status = "error" /\ autoResolveJob(rs, s)[i] = [rs[i] EXCEPT !.triage = "resolved"]
  BY DEF autoResolveJob, RunRows, Triages

(* What runFinish may do to a row: settle its own, resolve an error, delete a settled one. *)
LEMMA FinishedEffect ==
  ASSUME TypeOK, NEW i \in Ids, NEW o \in {"success", "error"}
  PROVE  /\ Finished(i, o) \in [Ids -> RunRows]
         /\ \A j \in Ids \ {i} :
              \/ Finished(i, o)[j] = runs[j]
              \/ Finished(i, o)[j] = Absent /\ runs[j].status # "running"
              \/ /\ runs[j].status = "error" /\ Finished(i, o)[j].status = "error"
                 /\ Finished(i, o)[j].key = runs[j].key
         /\ \/ Finished(i, o)[i] = Absent
            \/ ~Exists(runs, i) /\ Finished(i, o)[i] = runs[i]
            \/ /\ Exists(runs, i) /\ Finished(i, o)[i].status = o
               /\ Finished(i, o)[i].key = runs[i].key /\ Finished(i, o)[i].triage = runs[i].triage
<1> DEFINE rs == IF Exists(runs, i) THEN [runs EXCEPT ![i].status = o] ELSE runs
           rt == IF o = "success" /\ rs[i].job # NoJob THEN autoResolveJob(rs, i) ELSE rs
<1>1. rs \in [Ids -> RunRows]
  BY DEF TypeOK, RunRows, Statuses
<1>2. /\ \A j \in Ids : j # i => rs[j] = runs[j]
      /\ rs[i] = IF Exists(runs, i) THEN [runs[i] EXCEPT !.status = o] ELSE runs[i]
  BY DEF TypeOK
<1> HIDE DEF rs
<1>3. /\ rt \in [Ids -> RunRows]
      /\ \A j \in Ids :
           \/ rt[j] = rs[j]
           \/ o = "success" /\ rs[j].status = "error" /\ rt[j] = [rs[j] EXCEPT !.triage = "resolved"]
  BY <1>1, AutoResolveEffect
<1> HIDE DEF rt
<1>4. /\ pruneRuns(rt) \in [Ids -> RunRows]
      /\ \A j \in Ids : \/ pruneRuns(rt)[j] = rt[j]
                        \/ pruneRuns(rt)[j] = Absent /\ rt[j].status # "running"
  BY <1>3, PruneEffect
<1>5. Finished(i, o) = pruneRuns(rt)
  BY DEF Finished, rs, rt
<1>6. \A j \in Ids \ {i} :
        \/ rt[j] = runs[j]
        \/ runs[j].status = "error" /\ rt[j].status = "error" /\ rt[j].key = runs[j].key
  BY <1>1, <1>2, <1>3 DEF RunRows
<1>7. o = "success" => rs[i].status # "error"
  BY <1>2 DEF Exists, TypeOK, RunRows
<1>8. rt[i] = rs[i]
  BY <1>3, <1>7
<1>9. \/ ~Exists(runs, i) /\ rs[i] = runs[i]
      \/ Exists(runs, i) /\ rs[i].status = o /\ rs[i].key = runs[i].key /\ rs[i].triage = runs[i].triage
  BY <1>2 DEF TypeOK, RunRows
<1> QED
  BY <1>4, <1>5, <1>6, <1>8, <1>9

----------------------------------------------------------------------------
(* The row a new run is inserted with, and the other rows, after runStart. *)
LEMMA StartEffect ==
  ASSUME TypeOK, NEW e \in Execs, NEW key \in Keys \cup {NoKey}, NEW job \in Jobs \cup {NoJob},
         StartRun(e, key, job)
  PROVE  /\ lastId + 1 \in Ids /\ lastId' = lastId + 1
         /\ runs' \in [Ids -> RunRows]
         /\ runs'[lastId + 1] = [status |-> "running", key |-> key, job |-> job, triage |-> "open"]
         /\ \A j \in Ids : j # lastId + 1 =>
               (runs'[j] = runs[j]) \/ (runs'[j] = Absent /\ runs[j].status # "running")
<1> DEFINE row == [status |-> "running", key |-> key, job |-> job, triage |-> "open"]
           rs == [runs EXCEPT ![lastId + 1] = row]
<1>1. lastId + 1 \in Ids /\ lastId' = lastId + 1
  BY RunsAssumption DEF TypeOK, StartRun, Ids
<1>2. row \in RunRows
  BY DEF RunRows, Statuses, Triages
<1>3. rs \in [Ids -> RunRows] /\ rs[lastId + 1] = row /\ \A j \in Ids : j # lastId + 1 => rs[j] = runs[j]
  BY <1>1, <1>2 DEF TypeOK
<1>4. runs' = pruneRuns(rs)
  BY DEF StartRun
<1>5. row.status = "running"
  OBVIOUS
<1> HIDE DEF rs, row
<1>6. /\ runs' \in [Ids -> RunRows]
      /\ \A j \in Ids : (runs'[j] = rs[j]) \/ (runs'[j] = Absent /\ rs[j].status # "running")
  BY <1>3, <1>4, PruneEffect
<1>7. runs'[lastId + 1] = row
  BY <1>1, <1>3, <1>5, <1>6
<1> QED
  BY <1>1, <1>3, <1>6, <1>7 DEF row

(* The record of a call that has answered. *)
LEMMA AnsweredType ==
  ASSUME NEW reply \in Replies
  PROVE  Answered(reply) \in ExecStates
  BY RunsAssumption DEF Answered, ExecStates

(* Every variable of the run history keeps its type, and no row appears unannounced. *)
THEOREM TypeCorrect == Spec => []TypeOK
<1>1. Init => TypeOK
  <2> SUFFICES ASSUME Init PROVE TypeOK
    OBVIOUS
  <2>1. Absent \in RunRows
    BY DEF Absent, RunRows, Statuses, Triages
  <2>2. Answered("none") \in ExecStates /\ Answered("none").pc = "idle"
    BY AnsweredType DEF Replies, Answered
  <2> QED
    BY <2>1, <2>2, RunsAssumption DEF Init, TypeOK, NoUsage
<1>2. TypeOK /\ [Next]_vars => TypeOK'
  <2> SUFFICES ASSUME TypeOK, [Next]_vars PROVE TypeOK'
    OBVIOUS
  <2>0. MaxRuns \in Nat /\ lastId \in 0..MaxRuns
    BY RunsAssumption DEF TypeOK
  <2>1. ASSUME NEW e \in Execs, executeRun(e) PROVE TypeOK'
    <3>1. ASSUME NEW key \in Keys \cup {NoKey}, StartReplays(e, key) \/ StartRefused(e, key)
          PROVE  TypeOK'
      <4>1. \A reply \in Replies : Answered(reply) \in ExecStates /\ Answered(reply).pc = "idle"
        BY AnsweredType DEF Answered
      <4>2. PICK reply \in Replies : exec' = [exec EXCEPT ![e] = Answered(reply)]
        BY <3>1 DEF StartReplays, StartRefused, Replies
      <4> QED
        BY <3>1, <4>1, <4>2 DEF TypeOK, StartReplays, StartRefused
    <3>2. ASSUME NEW key \in Keys \cup {NoKey}, NEW job \in Jobs \cup {NoJob}, StartRun(e, key, job)
          PROVE  TypeOK'
      <4>1. /\ lastId + 1 \in Ids /\ lastId' = lastId + 1
            /\ runs' \in [Ids -> RunRows]
            /\ \A j \in Ids : j # lastId + 1 =>
                  (runs'[j] = runs[j]) \/ (runs'[j] = Absent /\ runs[j].status # "running")
        BY <3>2, StartEffect
      <4> DEFINE started == [pc |-> "building", id |-> lastId + 1, outcome |-> "error", reply |-> "none"]
      <4>2. started \in ExecStates /\ started.id = lastId + 1
        BY <2>0, <4>1 DEF ExecStates, Replies, Ids
      <4>3. exec' = [exec EXCEPT ![e] = started]
        BY <3>2 DEF StartRun
      <4> HIDE DEF started
      <4>4. exec' \in [Execs -> ExecStates]
        BY <4>2, <4>3 DEF TypeOK
      <4>5. usage' \in [runs : Nat, errors : Nat, executeMs : Nat]
        BY <3>2 DEF StartRun, TypeOK
      <4>6. horizon' = horizon
        BY <3>2 DEF StartRun
      <4>7. \A i \in Ids : i > lastId' => runs'[i] = Absent
        BY <2>0, <4>1 DEF TypeOK, Ids
      <4>8. lastId' \in 0..MaxRuns
        BY <2>0, <4>1 DEF Ids
      <4>9. \A f \in Execs : exec'[f].pc # "idle" => exec'[f].id \in 1..lastId'
        BY <2>0, <4>1, <4>2, <4>3 DEF TypeOK
      <4> QED
        BY <4>1, <4>4, <4>5, <4>6, <4>7, <4>8, <4>9 DEF TypeOK
    <3>3. CASE GraphBuilt(e) \/ GraphFails(e) \/ IsolateResponds(e) \/ IsolateFails(e) \/ BodyEnds(e) \/ Timeout(e)
      BY <3>3 DEF GraphBuilt, GraphFails, IsolateResponds, IsolateFails, BodyEnds, Timeout, FinishAs, TypeOK, ExecStates
    <3>5. CASE LoadThrows(e)
      <4>1. Answered("internal_error") \in ExecStates /\ Answered("internal_error").pc = "idle"
        BY AnsweredType DEF Replies, Answered
      <4> QED
        BY <3>5, <4>1 DEF TypeOK, LoadThrows
    <3>4. CASE runFinish(e)
      <4> DEFINE i == exec[e].id
                 o == exec[e].outcome
      <4>0. o \in {"success", "error"} /\ i \in 1..lastId /\ i \in Ids /\ exec[e] \in ExecStates
        BY <2>0, <3>4 DEF TypeOK, ExecStates, runFinish, Ids
      <4>1. exec' \in [Execs -> ExecStates] /\ \A f \in Execs : exec'[f].pc # "idle" => exec'[f].id \in 1..lastId
        <5>1. \A r \in {"ok", "failed", "internal_error"} : Answered(r) \in ExecStates /\ Answered(r).pc = "idle"
          BY AnsweredType DEF Replies, Answered
        <5>2. [exec[e] EXCEPT !.outcome = "error"] \in ExecStates /\ [exec[e] EXCEPT !.outcome = "error"].id = i
          BY <4>0 DEF ExecStates
        <5>3. \E x \in {Answered("ok"), Answered("failed"), Answered("internal_error"), [exec[e] EXCEPT !.outcome = "error"]} :
                exec' = [exec EXCEPT ![e] = x]
          BY <3>4 DEF runFinish
        <5>4. PICK x \in ExecStates : exec' = [exec EXCEPT ![e] = x] /\ (x.pc # "idle" => x.id = i)
          BY <5>1, <5>2, <5>3
        <5>5. exec' \in [Execs -> ExecStates]
          BY <5>4 DEF TypeOK
        <5>6. ASSUME NEW f \in Execs, exec'[f].pc # "idle" PROVE exec'[f].id \in 1..lastId
          <6>1. CASE f = e
            BY <4>0, <5>4, <5>6, <6>1 DEF TypeOK
          <6>2. CASE f # e
            BY <5>4, <5>6, <6>2 DEF TypeOK
          <6> QED
            BY <6>1, <6>2
        <5> QED
          BY <5>5, <5>6
      <4>2. usage' \in [runs : Nat, errors : Nat, executeMs : Nat]
        <5> DEFINE d == IF o = "error" THEN 1 ELSE 0
        <5>1. usage' = [runs |-> usage.runs, errors |-> usage.errors + d, executeMs |-> usage.executeMs + 1]
          BY <3>4 DEF runFinish
        <5>2. d \in Nat
          OBVIOUS
        <5> HIDE DEF d
        <5> QED
          BY <5>1, <5>2 DEF TypeOK
      <4>3. runs' = Finished(i, o) /\ lastId' = lastId /\ horizon' = horizon
        BY <3>4 DEF runFinish
      <4>4. runs' \in [Ids -> RunRows] /\ \A j \in Ids : j > lastId => runs'[j] = Absent
        <5>1. \A j \in Ids : j > lastId => j # i /\ runs[j] = Absent /\ runs[j].status = "absent"
          BY <2>0, <4>0 DEF TypeOK, Ids, Absent
        <5> HIDE DEF i, o
        <5>2. /\ Finished(i, o) \in [Ids -> RunRows]
              /\ \A j \in Ids \ {i} :
                    \/ Finished(i, o)[j] = runs[j]
                    \/ Finished(i, o)[j] = Absent /\ runs[j].status # "running"
                    \/ /\ runs[j].status = "error" /\ Finished(i, o)[j].status = "error"
                       /\ Finished(i, o)[j].key = runs[j].key
          BY <4>0, FinishedEffect
        <5> QED
          BY <4>3, <5>1, <5>2
      <4> QED
        BY <4>1, <4>2, <4>3, <4>4 DEF TypeOK
    <3> QED
      BY <2>1, <3>1, <3>2, <3>3, <3>4, <3>5 DEF executeRun
  <2>2. ASSUME NEW e \in Execs, Crash(e) PROVE TypeOK'
    <3>1. Answered("none") \in ExecStates /\ Answered("none").pc = "idle"
      BY AnsweredType DEF Replies, Answered
    <3> QED
      BY <2>2, <3>1 DEF Crash, TypeOK
  <2>3. ASSUME NEW i \in Ids, NEW t \in Triages, Triage(i, t) PROVE TypeOK'
    <3>1. runs' \in [Ids -> RunRows]
      BY <2>3 DEF Triage, TypeOK, RunRows
    <3>2. \A j \in Ids : j > lastId => runs'[j] = Absent
      BY <2>3 DEF Triage, TypeOK, Exists, Absent
    <3> QED
      BY <2>3, <3>1, <3>2 DEF Triage, TypeOK
  <2>4. ASSUME NEW S \in SUBSET Ids, NEW t \in Triages, TriageBulk(S, t) PROVE TypeOK'
    <3>1. \A j \in BulkMatch(S, t) : runs[j].status = "error"
      BY DEF BulkMatch
    <3>2. \A j \in Ids : [runs[j] EXCEPT !.triage = t] \in RunRows
      BY DEF TypeOK, RunRows
    <3>3. runs' = [j \in Ids |-> IF j \in BulkMatch(S, t) THEN [runs[j] EXCEPT !.triage = t] ELSE runs[j]]
      BY <2>4 DEF TriageBulk
    <3>4. runs' \in [Ids -> RunRows]
      BY <3>2, <3>3 DEF TypeOK
    <3>5. \A j \in Ids : j > lastId => runs'[j] = Absent
      BY <3>1, <3>3 DEF TypeOK, Absent
    <3> QED
      BY <2>4, <3>4, <3>5 DEF TriageBulk, TypeOK
  <2>5. CASE NewDay
    BY <2>5 DEF NewDay, TypeOK, NoUsage
  <2>6. CASE Age
    BY <2>0, <2>6 DEF Age, TypeOK
  <2>7. CASE UNCHANGED vars
    BY <2>7 DEF vars, TypeOK
  <2> QED
    BY <2>1, <2>2, <2>3, <2>4, <2>5, <2>6, <2>7 DEF Next
<1> QED
  BY <1>1, <1>2, PTL DEF Spec

----------------------------------------------------------------------------
(* What one step of any call, triage or clock does to the rows. *)
RowStep ==
    \A j \in Ids :
        \/ runs'[j] = runs[j]
        \/ runs'[j] = Absent /\ runs[j].status # "running"
        \/ /\ runs[j].status # "absent" /\ runs'[j].status = runs[j].status /\ runs'[j].key = runs[j].key
           /\ runs'[j].triage # "open" => runs[j].status = "error"

(* The calls own their rows, and idempotency keys are unique. *)
THEOREM Ownership == Spec => [](OwnRows /\ UniqueKeys /\ TriagedRunsFailed)
<1> DEFINE Inv == OwnRows /\ UniqueKeys /\ TriagedRunsFailed
<1>1. Init => Inv
  BY DEF Init, OwnRows, UniqueKeys, TriagedRunsFailed, Executing, Answered, Absent, Exists
<1>2. TypeOK /\ TypeOK' /\ Inv /\ [Next]_vars => Inv'
  <2> SUFFICES ASSUME TypeOK, TypeOK', Inv, [Next]_vars PROVE Inv'
    OBVIOUS
  <2>0. MaxRuns \in Nat /\ lastId \in 0..MaxRuns /\ lastId' \in 0..MaxRuns /\ Ids = 1..MaxRuns
    BY RunsAssumption DEF TypeOK, Ids
  <2>a. \A e \in Execs : exec[e].pc # "idle" => exec[e].id \in Ids
    BY <2>0 DEF TypeOK
  <2>b. Absent.status = "absent" /\ Absent.key = NoKey /\ Absent.triage = "open"
    BY DEF Absent
  \* Rows that only change as RowStep says keep keys unique and triage on errors.
  <2>c. ASSUME RowStep PROVE UniqueKeys' /\ TriagedRunsFailed'
    BY <2>b, <2>c DEF RowStep, UniqueKeys, TriagedRunsFailed, Exists
  \* Calls that move without creating or finishing a row keep owning theirs.
  <2>d. ASSUME RowStep,
               \A e \in Execs : exec'[e].pc = "idle" \/ (exec'[e].id = exec[e].id /\ exec[e].pc # "idle"),
               \A e \in Execs : exec'[e].pc \in {"building", "running", "reading"} => Executing(e)
        PROVE  OwnRows'
    BY <2>a, <2>b, <2>d DEF RowStep, OwnRows, Executing
  <2>1. ASSUME NEW e \in Execs, executeRun(e) PROVE Inv'
    <3>1. ASSUME NEW key \in Keys \cup {NoKey}, StartReplays(e, key) \/ StartRefused(e, key)
          PROVE  Inv'
      <4>1. RowStep
        BY <3>1 DEF StartReplays, StartRefused, RowStep
      <4>2. \E reply \in Replies : exec' = [exec EXCEPT ![e] = Answered(reply)]
        BY <3>1 DEF StartReplays, StartRefused, Replies
      <4>3. \A f \in Execs : exec'[f].pc = "idle" \/ exec'[f] = exec[f]
        BY <4>2 DEF Answered, TypeOK
      <4> QED
        BY <4>1, <4>3, <2>c, <2>d DEF Executing
    <3>2. ASSUME NEW key \in Keys \cup {NoKey}, NEW job \in Jobs \cup {NoJob}, StartRun(e, key, job)
          PROVE  Inv'
      <4> DEFINE n == lastId + 1
      <4>1. /\ n \in Ids
            /\ runs'[n] = [status |-> "running", key |-> key, job |-> job, triage |-> "open"]
            /\ \A j \in Ids : j # n =>
                  (runs'[j] = runs[j]) \/ (runs'[j] = Absent /\ runs[j].status # "running")
        BY <3>2, StartEffect
      <4>2. /\ exec'[e].pc = "building" /\ exec'[e].id = n
            /\ \A f \in Execs : f # e => exec'[f] = exec[f]
        BY <3>2 DEF StartRun, TypeOK
      <4>3. \A f \in Execs : exec[f].pc # "idle" => exec[f].id # n
        BY <2>0 DEF TypeOK
      <4>4. key = NoKey \/ \A j \in Ids : Exists(runs, j) => runs[j].key # key
        BY <3>2 DEF StartRun, Replays, WithKey
      <4> HIDE DEF n
      <4>5. runs'[n].status = "running" /\ runs'[n].key = key /\ runs'[n].triage = "open"
        BY <4>1
      <4>6. OwnRows'
        BY <2>a, <2>b, <4>1, <4>2, <4>3, <4>5 DEF OwnRows, Executing
      <4>7. UniqueKeys'
        BY <2>b, <4>1, <4>4, <4>5 DEF UniqueKeys, Exists
      <4>8. TriagedRunsFailed'
        BY <2>b, <4>1, <4>5 DEF TriagedRunsFailed
      <4> QED
        BY <4>6, <4>7, <4>8
    <3>3. CASE GraphBuilt(e) \/ GraphFails(e) \/ IsolateResponds(e) \/ IsolateFails(e) \/ BodyEnds(e) \/ Timeout(e)
      <4>1. RowStep
        BY <3>3 DEF GraphBuilt, GraphFails, IsolateResponds, IsolateFails, BodyEnds, Timeout, FinishAs, RowStep
      <4>2. \A f \in Execs : exec'[f].id = exec[f].id /\ (exec'[f].pc # "idle" => exec[f].pc # "idle")
        BY <3>3 DEF GraphBuilt, GraphFails, IsolateResponds, IsolateFails, BodyEnds, Timeout, FinishAs, TypeOK, ExecStates
      <4>3. \A f \in Execs : exec'[f].pc \in {"building", "running", "reading"} => Executing(f)
        BY <3>3 DEF GraphBuilt, GraphFails, IsolateResponds, IsolateFails, BodyEnds, Timeout, FinishAs, TypeOK, ExecStates, Executing
      <4> QED
        BY <4>1, <4>2, <4>3, <2>c, <2>d
    <3>5. CASE LoadThrows(e)
      <4>1. RowStep
        BY <3>5 DEF LoadThrows, RowStep
      <4>2. \A f \in Execs : exec'[f].pc = "idle" \/ exec'[f] = exec[f]
        BY <3>5 DEF LoadThrows, Answered, TypeOK
      <4> QED
        BY <4>1, <4>2, <2>c, <2>d DEF Executing
    <3>4. CASE runFinish(e)
      <4> DEFINE i == exec[e].id
                 o == exec[e].outcome
      <4>0. o \in {"success", "error"} /\ i \in Ids /\ exec[e].pc = "finishing"
        BY <3>4, <2>a DEF TypeOK, ExecStates, runFinish
      <4>1. runs' = Finished(i, o)
        BY <3>4 DEF runFinish
      <4>2. runs[i].status \in {"running", "absent"} /\ runs[i].triage = "open"
        BY <4>0 DEF OwnRows, TriagedRunsFailed, TypeOK, RunRows
      <4>3. \A f \in Execs : f # e => exec'[f] = exec[f]
        BY <3>4 DEF runFinish, TypeOK
      <4>4. \A f \in Execs : f # e /\ exec[f].pc # "idle" => exec[f].id # i
        BY <4>0 DEF OwnRows
      <4> HIDE DEF i, o
      <4>5. /\ \A j \in Ids \ {i} :
                 \/ runs'[j] = runs[j]
                 \/ runs'[j] = Absent /\ runs[j].status # "running"
                 \/ runs[j].status = "error" /\ runs'[j].status = "error" /\ runs'[j].key = runs[j].key
            /\ \/ runs'[i] = Absent
               \/ ~Exists(runs, i) /\ runs'[i] = runs[i]
               \/ Exists(runs, i) /\ runs'[i].status = o /\ runs'[i].key = runs[i].key /\ runs'[i].triage = "open"
        BY <4>0, <4>1, <4>2, FinishedEffect
      <4>6. UniqueKeys' /\ TriagedRunsFailed'
        BY <2>b, <4>0, <4>2, <4>5 DEF UniqueKeys, TriagedRunsFailed, Exists
      <4>6a. exec'[e] = CASE Exists(runs', i) -> Answered(IF o = "success" THEN "ok" ELSE "failed")
                         [] ~Exists(runs', i) /\ o = "success" -> [exec[e] EXCEPT !.outcome = "error"]
                         [] OTHER -> Answered("internal_error")
        BY <3>4, <4>1 DEF runFinish, TypeOK, i, o
      <4>7. exec'[e].pc = "idle" \/ (exec'[e].pc = "finishing" /\ exec'[e].id = i /\ runs'[i].status = "absent")
        <5>1. \A reply \in {"ok", "failed", "internal_error"} : Answered(reply).pc = "idle"
          BY DEF Answered
        <5>2. exec[e] \in ExecStates /\ exec[e].id = i
          BY DEF TypeOK, i
        <5>3. [exec[e] EXCEPT !.outcome = "error"].pc = "finishing" /\ [exec[e] EXCEPT !.outcome = "error"].id = i
          BY <4>0, <5>2 DEF ExecStates
        <5> QED
          BY <4>6a, <5>1, <5>3 DEF Exists
      <4>8. OwnRows'
        BY <2>a, <2>b, <4>3, <4>4, <4>5, <4>7 DEF OwnRows, Executing
      <4> QED
        BY <4>6, <4>8
    <3> QED
      BY <2>1, <3>1, <3>2, <3>3, <3>4, <3>5 DEF executeRun
  <2>2. ASSUME NEW e \in Execs, Crash(e) PROVE Inv'
    <3>1. RowStep
      BY <2>2 DEF Crash, RowStep
    <3>2. \A f \in Execs : exec'[f].pc = "idle" \/ exec'[f] = exec[f]
      BY <2>2 DEF Crash, Answered, TypeOK
    <3> QED
      BY <3>1, <3>2, <2>c, <2>d DEF Executing
  <2>3. ASSUME RowStep, UNCHANGED exec PROVE Inv'
    BY <2>3, <2>c, <2>d DEF Executing
  <2>4. ASSUME NEW i \in Ids, NEW t \in Triages, Triage(i, t) PROVE Inv'
    <3>1. /\ \A j \in Ids : j # i => runs'[j] = runs[j]
          /\ runs'[i].status = runs[i].status /\ runs'[i].key = runs[i].key /\ runs'[i].triage = t
          /\ runs[i].status # "absent" /\ (t # "open" => runs[i].status = "error")
      BY <2>4 DEF Triage, TypeOK, RunRows, Exists
    <3>2. RowStep
      BY <3>1 DEF RowStep
    <3> QED
      BY <2>3, <2>4, <3>2 DEF Triage
  <2>5. ASSUME NEW S \in SUBSET Ids, NEW t \in Triages, TriageBulk(S, t) PROVE Inv'
    <3>1. \A j \in BulkMatch(S, t) : runs[j].status = "error"
      BY DEF BulkMatch
    <3>2. runs' = [j \in Ids |-> IF j \in BulkMatch(S, t) THEN [runs[j] EXCEPT !.triage = t] ELSE runs[j]]
      BY <2>5 DEF TriageBulk
    <3>3. \A j \in Ids : /\ j \notin BulkMatch(S, t) => runs'[j] = runs[j]
                         /\ runs'[j].status = runs[j].status /\ runs'[j].key = runs[j].key
      BY <3>2 DEF TypeOK, RunRows
    <3>4. RowStep
      BY <3>1, <3>3 DEF RowStep
    <3> QED
      BY <2>3, <2>5, <3>4 DEF TriageBulk
  <2>6. CASE NewDay \/ Age \/ UNCHANGED vars
    <3>1. RowStep /\ UNCHANGED exec
      BY <2>6 DEF NewDay, Age, vars, RowStep
    <3> QED
      BY <2>3, <3>1
  <2> QED
    BY <2>1, <2>2, <2>4, <2>5, <2>6 DEF Next
<1> QED
  BY <1>1, <1>2, TypeCorrect, PTL DEF Spec

(* Two calls never execute code for the same idempotency key at the same time. *)
THEOREM Idempotency == Spec => []OneExecutionPerKey
<1>1. TypeOK /\ OwnRows /\ UniqueKeys => OneExecutionPerKey
  <2> SUFFICES ASSUME TypeOK, OwnRows, UniqueKeys,
                      NEW e \in Execs, NEW f \in Execs, e # f, Executing(e), Executing(f),
                      runs[exec[e].id].key = runs[exec[f].id].key
               PROVE  runs[exec[e].id].key = NoKey
    BY DEF OneExecutionPerKey
  <2>1. exec[e].id \in Ids /\ exec[f].id \in Ids
    BY RunsAssumption DEF TypeOK, Executing, Ids
  <2>2. exec[e].id # exec[f].id
    BY DEF OwnRows, Executing
  <2>3. Exists(runs, exec[e].id) /\ Exists(runs, exec[f].id)
    BY DEF OwnRows, Exists
  <2> QED
    BY <2>1, <2>2, <2>3 DEF UniqueKeys
<1> QED
  BY <1>1, TypeCorrect, Ownership, PTL

(* Only failed runs carry a triage. *)
THEOREM TriageOnErrors == Spec => []TriagedRunsFailed
  BY Ownership, PTL

----------------------------------------------------------------------------
(* A step that keeps every state of st or drops settled runs is a purge of st. *)
LEMMA PurgeWitness ==
  ASSUME NEW st \in [Ids -> Lifecycle!States],
         \A i \in Ids : \/ lifecycle'[i] = st[i]
                        \/ Lifecycle!Settled(st[i]) /\ lifecycle'[i] = "gone"
  PROVE  Lifecycle!WithPurge(st)
<1> DEFINE Purged == {i \in Ids : Lifecycle!Settled(st[i]) /\ lifecycle'[i] = "gone"}
<1>1. Purged \in SUBSET {i \in Ids : Lifecycle!Settled(st[i])}
  OBVIOUS
<1>2. \A i \in Ids : lifecycle'[i] = IF i \in Purged THEN "gone" ELSE st[i]
  OBVIOUS
<1>3. lifecycle' = [i \in Ids |-> lifecycle'[i]]
  BY DEF lifecycle
<1>4. lifecycle' = [i \in Ids |-> IF i \in Purged THEN "gone" ELSE st[i]]
  BY <1>2, <1>3
<1> QED
  BY <1>1, <1>4 DEF Lifecycle!WithPurge

(* The runs table implements the life cycle of runs. *)
THEOREM Refinement == Spec => ImplementsLifecycle
<1>1. Init => Lifecycle!Init
  <2> SUFFICES ASSUME Init PROVE lifecycle = [i \in Ids |-> "absent"]
    BY DEF Lifecycle!Init
  <2>1. \A i \in Ids : ~Exists(runs, i) /\ ~(i <= lastId)
    BY RunsAssumption DEF Init, Exists, Absent, Ids
  <2> QED
    BY <2>1 DEF lifecycle
<1>2. TypeOK /\ TypeOK' /\ OwnRows /\ [Next]_vars => [Lifecycle!Next]_lifecycle
  <2> SUFFICES ASSUME TypeOK, TypeOK', OwnRows, [Next]_vars PROVE [Lifecycle!Next]_lifecycle
    OBVIOUS
  <2>0. MaxRuns \in Nat /\ lastId \in 0..MaxRuns /\ Ids = 1..MaxRuns
    BY RunsAssumption DEF TypeOK, Ids
  <2>a. lifecycle \in [Ids -> Lifecycle!States]
    BY DEF TypeOK, lifecycle, RunRows, Statuses, Lifecycle!States, Exists
  <2>b. \A i \in Ids : /\ i > lastId => runs[i].status = "absent" /\ lifecycle[i] = "absent"
                       /\ i <= lastId => lifecycle[i] = IF runs[i].status = "absent" THEN "gone" ELSE runs[i].status
    BY <2>0 DEF TypeOK, lifecycle, Exists, Absent
  <2>c. Absent.status = "absent"
    BY DEF Absent
  <2>e. \A i \in Ids : lifecycle'[i] = IF runs'[i].status # "absent" THEN runs'[i].status
                                      ELSE IF i <= lastId' THEN "gone" ELSE "absent"
    BY DEF lifecycle, Exists
  <2>f. \A i \in Ids : /\ runs[i].status \in {"absent", "running", "success", "error"}
                       /\ i <= lastId \/ i > lastId
    BY <2>0 DEF TypeOK, RunRows, Statuses
  \* Rows that stay or lose settled entries, without a new run: a purge.
  <2>d. ASSUME lastId' = lastId,
               \A j \in Ids : \/ runs'[j].status = runs[j].status
                              \/ runs'[j].status = "absent" /\ runs[j].status # "running"
        PROVE  [Lifecycle!Next]_lifecycle
    <3>1. \A i \in Ids : \/ lifecycle'[i] = lifecycle[i]
                         \/ Lifecycle!Settled(lifecycle[i]) /\ lifecycle'[i] = "gone"
      BY <2>b, <2>d, <2>e, <2>f DEF Lifecycle!Settled
    <3>2. Lifecycle!WithPurge(lifecycle)
      BY <2>a, <3>1, PurgeWitness
    <3> QED
      BY <3>2 DEF Lifecycle!Next, Lifecycle!Purge
  <2>1. ASSUME NEW e \in Execs, NEW key \in Keys \cup {NoKey}, NEW job \in Jobs \cup {NoJob},
               StartRun(e, key, job)
        PROVE  [Lifecycle!Next]_lifecycle
    <3> DEFINE n == lastId + 1
               st == [lifecycle EXCEPT ![n] = "running"]
    <3>1. /\ n \in Ids /\ lastId' = n
          /\ runs'[n].status = "running"
          /\ \A j \in Ids : j # n =>
                (runs'[j] = runs[j]) \/ (runs'[j] = Absent /\ runs[j].status # "running")
      <4>1. /\ n \in Ids /\ lastId' = n
            /\ runs'[n] = [status |-> "running", key |-> key, job |-> job, triage |-> "open"]
            /\ \A j \in Ids : j # n =>
                  (runs'[j] = runs[j]) \/ (runs'[j] = Absent /\ runs[j].status # "running")
        BY <2>1, StartEffect
      <4> HIDE DEF n
      <4> QED
        BY <4>1
    <3>2. st \in [Ids -> Lifecycle!States]
      BY <2>a, <3>1 DEF Lifecycle!States
    <3>3. ASSUME NEW i \in Ids
          PROVE  \/ lifecycle'[i] = st[i]
                 \/ Lifecycle!Settled(st[i]) /\ lifecycle'[i] = "gone"
      <4>1. CASE i = n
        BY <2>a, <3>1, <4>1 DEF lifecycle, Exists
      <4>2. CASE i # n
        <5>1. st[i] = lifecycle[i]
          BY <2>a, <4>2
        <5>2. i <= lastId <=> i <= lastId'
          BY <2>0, <3>1, <4>2
        <5> HIDE DEF st, n
        <5> QED
          BY <2>b, <2>c, <3>1, <4>2, <5>1, <5>2 DEF lifecycle, Exists, Lifecycle!Settled, TypeOK, RunRows, Statuses
      <4> QED
        BY <4>1, <4>2
    <3>4. Lifecycle!WithPurge(st)
      BY <3>2, <3>3, PurgeWitness
    <3>5. lifecycle[n] = "absent"
      BY <2>0, <2>b, <3>1
    <3>6. \A j \in Ids : j < n => lifecycle[j] # "absent"
      BY <2>0, <2>b DEF TypeOK, RunRows, Statuses
    <3> QED
      BY <3>1, <3>4, <3>5, <3>6 DEF Lifecycle!Next, Lifecycle!Create
  <2>2. ASSUME NEW e \in Execs, runFinish(e) PROVE [Lifecycle!Next]_lifecycle
    <3> DEFINE i == exec[e].id
               o == exec[e].outcome
               st == [lifecycle EXCEPT ![i] = o]
    <3>1. /\ o \in {"success", "error"} /\ i \in Ids /\ i <= lastId
          /\ runs[i].status \in {"running", "absent"}
          /\ runs' = Finished(i, o) /\ lastId' = lastId
      BY <2>0, <2>2 DEF TypeOK, ExecStates, OwnRows, runFinish
    <3> HIDE DEF i, o
    <3>2. /\ \A j \in Ids \ {i} :
               \/ runs'[j].status = runs[j].status
               \/ runs'[j].status = "absent" /\ runs[j].status # "running"
          /\ \/ runs'[i].status = "absent"
             \/ ~Exists(runs, i) /\ runs'[i] = runs[i]
             \/ Exists(runs, i) /\ runs'[i].status = o
      BY <2>c, <3>1, FinishedEffect
    <3>3. CASE runs[i].status = "absent"
      BY <2>d, <3>1, <3>2, <3>3 DEF Exists
    <3>4. CASE runs[i].status = "running"
      <4>1. st \in [Ids -> Lifecycle!States]
        BY <2>a, <3>1 DEF Lifecycle!States
      <4>2. ASSUME NEW j \in Ids
            PROVE  \/ lifecycle'[j] = st[j]
                   \/ Lifecycle!Settled(st[j]) /\ lifecycle'[j] = "gone"
        <5>1. CASE j = i
          <6>1. st[i] = o
            BY <2>a, <3>1
          <6>2. lifecycle'[i] = IF runs'[i].status = "absent" THEN "gone" ELSE runs'[i].status
            BY <3>1 DEF lifecycle, Exists
          <6> QED
            BY <3>1, <3>2, <3>4, <5>1, <6>1, <6>2 DEF Exists, Lifecycle!Settled
        <5>2. CASE j # i
          <6>1. st[j] = lifecycle[j]
            BY <2>a, <5>2
          <6> HIDE DEF st
          <6> QED
            BY <2>b, <2>e, <2>f, <3>1, <3>2, <5>2, <6>1 DEF Lifecycle!Settled
        <5> QED
          BY <5>1, <5>2
      <4>3. Lifecycle!WithPurge(st)
        BY <4>1, <4>2, PurgeWitness
      <4>4. lifecycle[i] = "running"
        BY <2>b, <3>1, <3>4
      <4> QED
        BY <3>1, <4>3, <4>4 DEF Lifecycle!Next, Lifecycle!Settle
    <3> QED
      BY <3>1, <3>3, <3>4
  <2>3. ASSUME NEW i \in Ids, NEW t \in Triages, Triage(i, t) PROVE [Lifecycle!Next]_lifecycle
    <3>1. lastId' = lastId /\ \A j \in Ids : runs'[j].status = runs[j].status
      BY <2>3 DEF Triage, TypeOK, RunRows
    <3> QED
      BY <2>d, <3>1
  <2>4. ASSUME NEW S \in SUBSET Ids, NEW t \in Triages, TriageBulk(S, t) PROVE [Lifecycle!Next]_lifecycle
    <3>1. lastId' = lastId /\ \A j \in Ids : runs'[j].status = runs[j].status
      BY <2>4 DEF TriageBulk, TypeOK, RunRows
    <3> QED
      BY <2>d, <3>1
  <2>5. CASE UNCHANGED <<runs, lastId>>
    BY <2>d, <2>5
  <2> QED
    BY <2>1, <2>2, <2>3, <2>4, <2>5
       DEF Next, executeRun, StartReplays, StartRefused, GraphBuilt, GraphFails, LoadThrows, IsolateResponds,
           IsolateFails, BodyEnds, Timeout, FinishAs, Crash, NewDay, Age, vars
<1> QED
  BY <1>1, <1>2, TypeCorrect, Ownership, PTL DEF Spec, ImplementsLifecycle, Lifecycle!Spec
----------------------------------------------------------------------------
(* Retention *)

RunsNewer(rs, i) == {j \in Ids : j > i /\ Exists(rs, j)}
FinishedRows(rs) == {i \in Ids : rs[i].status \in {"success", "error"}}

LEMMA IdsFinite ==
  ASSUME NEW S \in SUBSET Ids
  PROVE  IsFiniteSet(S) /\ Cardinality(S) \in Nat
<1>1. IsFiniteSet(Ids)
  BY FS_Interval, RunsAssumption DEF Ids
<1>2. IsFiniteSet(S)
  BY <1>1, FS_Subset
<1> QED
  BY <1>2, FS_CardinalityType

(* A set of numbers that is not empty has a smallest. *)
LEMMA Smallest ==
  ASSUME NEW S \in SUBSET Nat, S # {}
  PROVE  \E m \in S : \A i \in S : m <= i
<1> DEFINE less == {ss \in Nat \X Nat : ss[1] < ss[2]}
<1>1. IsWellFoundedOn(less, Nat)
  BY NatLessThanWellFounded DEF OpToRel
<1> HIDE DEF less
<1>2. PICK m \in S : \A i \in S : ~(<<i, m>> \in less)
  BY <1>1, WFMin
<1>3. ASSUME NEW i \in S, i < m PROVE <<i, m>> \in less
  <2>1. <<i, m>> \in Nat \X Nat /\ <<i, m>>[1] < <<i, m>>[2]
    BY <1>3
  <2> QED
    BY <2>1 DEF less
<1>4. ASSUME NEW i \in S PROVE m <= i
  <2>1. ~(i < m)
    BY <1>2, <1>3
  <2>2. i \in Nat /\ m \in Nat
    OBVIOUS
  <2> QED
    BY <2>1, <2>2
<1> QED
  BY <1>4

(* After a pruning at most RetentionCount finished rows are left: all but the oldest of them are newer than it. *)
LEMMA PruneBound ==
  ASSUME NEW rs \in [Ids -> RunRows]
  PROVE  Cardinality(FinishedRows(pruneRuns(rs))) <= RetentionCount
<1> DEFINE F == FinishedRows(pruneRuns(rs))
<1>1. F \in SUBSET Ids
  BY DEF FinishedRows
<1>2. ASSUME NEW i \in F
      PROVE  Exists(rs, i) /\ Cardinality(RunsNewer(rs, i)) < RetentionCount
  <2>1. i \in Ids /\ pruneRuns(rs)[i].status \in {"success", "error"}
    BY DEF FinishedRows
  <2>2. pruneRuns(rs)[i] # Absent
    BY <2>1 DEF Absent
  <2>3. pruneRuns(rs)[i] = rs[i] /\ ~(Cardinality(RunsNewer(rs, i)) >= RetentionCount)
    BY <2>1, <2>2 DEF pruneRuns, RunsNewer
  <2>4. Cardinality(RunsNewer(rs, i)) \in Nat
    BY IdsFinite DEF RunsNewer
  <2> QED
    BY <2>1, <2>3, <2>4, RunsAssumption DEF Exists
<1>3. IsFiniteSet(F) /\ Cardinality(F) \in Nat
  BY <1>1, IdsFinite
<1> HIDE DEF F
<1>4. ASSUME F = {} PROVE Cardinality(F) <= RetentionCount
  BY <1>4, FS_EmptySet, RunsAssumption
<1>5. ASSUME F # {} PROVE Cardinality(F) <= RetentionCount
  <2>1. F \in SUBSET Nat
    BY <1>1 DEF Ids
  <2>2. PICK oldest \in F : \A i \in F : oldest <= i
    BY <1>5, <2>1, Smallest
  <2>3. F \ {oldest} \in SUBSET RunsNewer(rs, oldest)
    <3>1. ASSUME NEW i \in F, i # oldest PROVE i \in Ids /\ i > oldest /\ Exists(rs, i)
      BY <1>1, <1>2, <2>1, <2>2, <3>1
    <3> QED
      BY <3>1 DEF RunsNewer
  <2>4. IsFiniteSet(RunsNewer(rs, oldest)) /\ Cardinality(RunsNewer(rs, oldest)) \in Nat
    BY IdsFinite DEF RunsNewer
  <2>5. Cardinality(F \ {oldest}) <= Cardinality(RunsNewer(rs, oldest))
    BY <2>3, <2>4, FS_Subset
  <2>6. Cardinality(F \ {oldest}) = Cardinality(F) - 1
    BY <1>3, <2>2, FS_RemoveElement
  <2> QED
    BY <1>2, <1>3, <2>2, <2>4, <2>5, <2>6, RunsAssumption
<1> QED
  BY <1>4, <1>5 DEF F

(* A pruning takes a row only when enough newer runs were created, or when it is too old. *)
LEMMA PruneReason ==
  ASSUME NEW rs \in [Ids -> RunRows], NEW last \in 0..MaxRuns, \A j \in Ids : j > last => ~Exists(rs, j),
         NEW i \in 1..last, Exists(rs, i), ~Exists(pruneRuns(rs), i)
  PROVE  (last - i >= RetentionCount) \/ (AgeRetention /\ i < horizon)
<1>1. i \in Ids /\ MaxRuns \in Nat
  BY RunsAssumption DEF Ids
<1>2. (Cardinality(RunsNewer(rs, i)) >= RetentionCount) \/ (AgeRetention /\ i < horizon)
  BY <1>1 DEF pruneRuns, Exists, RunsNewer
<1>3. RunsNewer(rs, i) \in SUBSET ((i + 1)..last)
  BY <1>1 DEF RunsNewer, Ids
<1>4. IsFiniteSet((i + 1)..last) /\ Cardinality((i + 1)..last) = last - i
  BY <1>1, FS_Interval
<1>5. Cardinality(RunsNewer(rs, i)) <= last - i
  BY <1>3, <1>4, FS_Subset
<1>6. Cardinality(RunsNewer(rs, i)) \in Nat
  BY IdsFinite DEF RunsNewer
<1> QED
  BY <1>1, <1>2, <1>5, <1>6, RunsAssumption

(* Only the start and the end of a run change which rows there are and their status. *)
StatusKept ==
  /\ lastId' = lastId /\ horizon' \in {horizon, horizon + 1}
  /\ \A i \in Ids : runs'[i].status = runs[i].status

LEMMA StepKinds ==
  ASSUME TypeOK, [Next]_vars
  PROVE  \/ \E e \in Execs, key \in Keys \cup {NoKey}, job \in Jobs \cup {NoJob} : StartRun(e, key, job)
         \/ \E e \in Execs : runFinish(e)
         \/ StatusKept
<1>1. horizon \in Nat
  BY RunsAssumption DEF TypeOK
<1>2. CASE UNCHANGED <<runs, lastId, horizon>>
  BY <1>1, <1>2 DEF StatusKept
<1>3. ASSUME NEW i \in Ids, NEW t \in Triages, Triage(i, t) PROVE StatusKept
  BY <1>1, <1>3 DEF Triage, TypeOK, RunRows, StatusKept
<1>4. ASSUME NEW S \in SUBSET Ids, NEW t \in Triages, TriageBulk(S, t) PROVE StatusKept
  BY <1>1, <1>4 DEF TriageBulk, TypeOK, RunRows, StatusKept
<1>5. CASE Age
  BY <1>1, <1>5 DEF Age, StatusKept
<1> QED
  BY <1>2, <1>3, <1>4, <1>5
     DEF Next, executeRun, StartReplays, StartRefused, GraphBuilt, GraphFails, LoadThrows, IsolateResponds,
         IsolateFails, BodyEnds, Timeout, FinishAs, Crash, NewDay, vars

(* What runFinish prunes: the table with its own row settled and, after a success of a job, older errors resolved. *)
Settled(i, o) == IF Exists(runs, i) THEN [runs EXCEPT ![i].status = o] ELSE runs
Resolved(i, o) ==
  IF o = "success" /\ Settled(i, o)[i].job # NoJob THEN autoResolveJob(Settled(i, o), i) ELSE Settled(i, o)

LEMMA ResolvedEffect ==
  ASSUME TypeOK, NEW i \in Ids, NEW o \in {"success", "error"}
  PROVE  /\ Finished(i, o) = pruneRuns(Resolved(i, o))
         /\ Settled(i, o) \in [Ids -> RunRows] /\ Resolved(i, o) \in [Ids -> RunRows]
         /\ \A j \in Ids : j # i => Settled(i, o)[j] = runs[j]
         /\ Settled(i, o)[i].job = runs[i].job
         /\ \A j \in Ids : Exists(Resolved(i, o), j) <=> Exists(runs, j)
<1>1. Settled(i, o) \in [Ids -> RunRows]
  BY DEF Settled, TypeOK, RunRows, Statuses
<1>2. /\ \A j \in Ids : j # i => Settled(i, o)[j] = runs[j]
      /\ Settled(i, o)[i].job = runs[i].job
      /\ \A j \in Ids : Exists(Settled(i, o), j) <=> Exists(runs, j)
  BY DEF Settled, TypeOK, RunRows, Exists
<1>3. Finished(i, o) = pruneRuns(Resolved(i, o))
  BY DEF Finished, Resolved, Settled
<1>4. /\ Resolved(i, o) \in [Ids -> RunRows]
      /\ \A j \in Ids : \/ Resolved(i, o)[j] = Settled(i, o)[j]
                        \/ /\ Settled(i, o)[j].status = "error"
                           /\ Resolved(i, o)[j] = [Settled(i, o)[j] EXCEPT !.triage = "resolved"]
  BY <1>1, AutoResolveEffect DEF Resolved
<1>5. \A j \in Ids : Exists(Resolved(i, o), j) <=> Exists(Settled(i, o), j)
  BY <1>1, <1>4 DEF Exists, RunRows
<1> QED
  BY <1>1, <1>2, <1>3, <1>4, <1>5

(* Retention keeps what docs/operations.md promises: no more finished rows than the setting says, and a run is  *)
(* missing only when that many newer ones were created or it is too old, whatever starts, ends and crashes.     *)
THEOREM Retention == Spec => []RetentionExact
<1>1. Init => RetentionExact
  <2> SUFFICES ASSUME Init PROVE RetentionExact
    OBVIOUS
  <2>1. FinishedRows(runs) = {}
    BY DEF Init, FinishedRows, Absent
  <2>2. Cardinality(FinishedRows(runs)) <= RetentionCount
    BY <2>1, FS_EmptySet, RunsAssumption
  <2>3. 1..lastId = {}
    BY DEF Init
  <2> QED
    BY <2>2, <2>3 DEF RetentionExact, FinishedRows
<1>2. TypeOK /\ RetentionExact /\ [Next]_vars => RetentionExact'
  <2> SUFFICES ASSUME TypeOK, RetentionExact, [Next]_vars PROVE RetentionExact'
    OBVIOUS
  <2>0. /\ MaxRuns \in Nat /\ lastId \in 0..MaxRuns /\ RetentionCount \in Nat
        /\ runs \in [Ids -> RunRows] /\ horizon \in Nat
        /\ \A j \in Ids : j > lastId => ~Exists(runs, j)
    BY RunsAssumption DEF TypeOK, Exists, Absent
  <2>1. CASE \E e \in Execs, key \in Keys \cup {NoKey}, job \in Jobs \cup {NoJob} : StartRun(e, key, job)
    <3>1. PICK e \in Execs, key \in Keys \cup {NoKey}, job \in Jobs \cup {NoJob} : StartRun(e, key, job)
      BY <2>1
    <3> DEFINE row == [status |-> "running", key |-> key, job |-> job, triage |-> "open"]
               rs == [runs EXCEPT ![lastId + 1] = row]
    <3>2. lastId + 1 \in Ids /\ lastId' = lastId + 1 /\ horizon' = horizon /\ runs' = pruneRuns(rs)
      BY <2>0, <3>1 DEF StartRun, Ids
    <3>3. row \in RunRows /\ row.status = "running"
      BY DEF RunRows, Statuses, Triages
    <3> HIDE DEF row
    <3>4. rs \in [Ids -> RunRows] /\ rs[lastId + 1] = row /\ \A j \in Ids : j # lastId + 1 => rs[j] = runs[j]
      BY <2>0, <3>2, <3>3
    <3> HIDE DEF rs
    <3>5. Cardinality(FinishedRows(runs')) <= RetentionCount
      BY <3>2, <3>4, PruneBound
    <3>6. ASSUME NEW i \in 1..lastId', ~Exists(runs', i)
          PROVE  (lastId' - i >= RetentionCount) \/ (AgeRetention /\ i < horizon')
      <4>1. i \in Ids /\ lastId' \in 0..MaxRuns
        BY <2>0, <3>2 DEF Ids
      <4>2. CASE Exists(rs, i)
        <5>1. \A j \in Ids : j > lastId' => ~Exists(rs, j)
          BY <2>0, <3>2, <3>4 DEF Exists, Ids
        <5> QED
          BY <3>2, <3>4, <3>6, <4>1, <4>2, <5>1, PruneReason
      <4>3. CASE ~Exists(rs, i)
        <5>1. i # lastId + 1 /\ ~Exists(runs, i)
          BY <3>3, <3>4, <4>1, <4>3 DEF Exists
        <5>2. i \in 1..lastId
          BY <2>0, <3>2, <5>1
        <5> QED
          BY <2>0, <3>2, <5>1, <5>2 DEF RetentionExact
      <4> QED
        BY <4>2, <4>3
    <3> QED
      BY <3>5, <3>6 DEF RetentionExact, FinishedRows
  <2>2. CASE \E e \in Execs : runFinish(e)
    <3>1. PICK e \in Execs : runFinish(e)
      BY <2>2
    <3> DEFINE n == exec[e].id
               o == exec[e].outcome
    <3>2. o \in {"success", "error"} /\ n \in Ids /\ lastId' = lastId /\ horizon' = horizon /\ runs' = Finished(n, o)
      BY <2>0, <3>1 DEF TypeOK, ExecStates, runFinish, Ids
    <3> HIDE DEF n, o
    <3> DEFINE rs == Resolved(n, o)
    <3>3. rs \in [Ids -> RunRows] /\ runs' = pruneRuns(rs) /\ \A j \in Ids : Exists(rs, j) <=> Exists(runs, j)
      BY <3>2, ResolvedEffect
    <3> HIDE DEF rs
    <3>4. Cardinality(FinishedRows(runs')) <= RetentionCount
      BY <3>3, PruneBound
    <3>5. ASSUME NEW i \in 1..lastId, ~Exists(runs', i)
          PROVE  (lastId - i >= RetentionCount) \/ (AgeRetention /\ i < horizon)
      <4>1. i \in Ids
        BY <2>0 DEF Ids
      <4>2. CASE Exists(rs, i)
        <5>1. \A j \in Ids : j > lastId => ~Exists(rs, j)
          BY <2>0, <3>3
        <5> QED
          BY <2>0, <3>3, <3>5, <4>2, <5>1, PruneReason
      <4>3. CASE ~Exists(rs, i)
        BY <3>3, <4>1, <4>3 DEF RetentionExact
      <4> QED
        BY <4>2, <4>3
    <3> QED
      BY <3>2, <3>4, <3>5 DEF RetentionExact, FinishedRows
  <2>3. CASE StatusKept
    <3>1. FinishedRows(runs') = FinishedRows(runs)
      BY <2>3 DEF StatusKept, FinishedRows
    <3>2. \A i \in Ids : Exists(runs', i) <=> Exists(runs, i)
      BY <2>3 DEF StatusKept, Exists
    <3>3. ASSUME NEW i \in 1..lastId, ~Exists(runs', i)
          PROVE  (lastId - i >= RetentionCount) \/ (AgeRetention /\ i < horizon)
      <4>1. i \in Ids
        BY <2>0 DEF Ids
      <4> QED
        BY <3>2, <3>3, <4>1 DEF RetentionExact
    <3>4. lastId' = lastId /\ \A i \in 1..lastId : i < horizon => i < horizon'
      BY <2>0, <2>3 DEF StatusKept
    <3>5. Cardinality(FinishedRows(runs')) <= RetentionCount
      BY <3>1 DEF RetentionExact, FinishedRows
    <3> QED
      BY <3>3, <3>4, <3>5 DEF RetentionExact, FinishedRows
  <2> QED
    BY <2>1, <2>2, <2>3, StepKinds
<1> QED
  BY <1>1, <1>2, TypeCorrect, PTL DEF Spec

(* A success of a job resolves exactly the job's earlier open errors, as docs/jobs.md says (autoResolveJob). *)
THEOREM AutoResolve == Spec => AutoResolveExact
<1> DEFINE ResolveStep ==
      \A s \in Ids : BecomesSuccess(s) =>
         \A i \in Ids : Exists(runs', i) /\ i # s =>
            IF i < s /\ runs[i].status = "error" /\ runs[i].job = runs[s].job
            THEN runs'[i].triage = (IF runs[i].triage = "open" THEN "resolved" ELSE runs[i].triage)
            ELSE runs'[i].triage = runs[i].triage
<1>1. TypeOK /\ [Next]_vars => ResolveStep
  <2> SUFFICES ASSUME TypeOK, [Next]_vars,
                      NEW s \in Ids, BecomesSuccess(s), NEW i \in Ids, Exists(runs', i), i # s
               PROVE  IF i < s /\ runs[i].status = "error" /\ runs[i].job = runs[s].job
                      THEN runs'[i].triage = (IF runs[i].triage = "open" THEN "resolved" ELSE runs[i].triage)
                      ELSE runs'[i].triage = runs[i].triage
    OBVIOUS
  <2>1. runs[s].status = "running" /\ runs'[s].status = "success" /\ runs[s].job # NoJob
    BY DEF BecomesSuccess
  <2>2. ~StatusKept
    BY <2>1 DEF StatusKept
  <2>3. ASSUME NEW e \in Execs, NEW key \in Keys \cup {NoKey}, NEW job \in Jobs \cup {NoJob}, StartRun(e, key, job)
        PROVE  FALSE
    <3> DEFINE row == [status |-> "running", key |-> key, job |-> job, triage |-> "open"]
    <3>1. row.status = "running"
      OBVIOUS
    <3>2. /\ runs'[lastId + 1] = row
          /\ \A j \in Ids : j # lastId + 1 =>
                (runs'[j] = runs[j]) \/ (runs'[j] = Absent /\ runs[j].status # "running")
      BY <2>3, StartEffect
    <3> HIDE DEF row
    <3> QED
      BY <2>1, <3>1, <3>2 DEF Absent
  <2>4. PICK e \in Execs : runFinish(e)
    BY <2>2, <2>3, StepKinds
  <2> DEFINE n == exec[e].id
             o == exec[e].outcome
  <2>5. o \in {"success", "error"} /\ n \in Ids /\ runs' = Finished(n, o)
    BY <2>4, RunsAssumption, SMTT(30) DEF TypeOK, ExecStates, runFinish, Ids
  <2> HIDE DEF n, o
  <2>6. s = n /\ o = "success"
    BY <2>1, <2>5, FinishedEffect DEF Absent
  <2>7. /\ runs' = pruneRuns(Resolved(n, o))
        /\ Settled(n, o) \in [Ids -> RunRows] /\ Resolved(n, o) \in [Ids -> RunRows]
        /\ Settled(n, o)[i] = runs[i] /\ Settled(n, o)[n].job = runs[s].job
    BY <2>5, <2>6, ResolvedEffect
  <2>8. runs'[i] = Resolved(n, o)[i]
    <3>1. runs'[i] = Resolved(n, o)[i] \/ runs'[i] = Absent
      BY <2>7, PruneEffect
    <3> QED
      BY <3>1 DEF Exists, Absent
  <2>9. Resolved(n, o) = autoResolveJob(Settled(n, o), n)
    BY <2>1, <2>6, <2>7 DEF Resolved
  <2>10. runs[i] \in RunRows
    BY DEF TypeOK
  <2>11. Resolved(n, o)[i] = IF i < n /\ runs[i].status = "error" /\ runs[i].triage = "open" /\ runs[i].job = runs[s].job
                             THEN [runs[i] EXCEPT !.triage = "resolved"] ELSE runs[i]
    BY <2>7, <2>9 DEF autoResolveJob
  <2> QED
    BY <2>6, <2>8, <2>10, <2>11 DEF RunRows
<1> QED
  BY <1>1, TypeCorrect, PTL DEF Spec, AutoResolveExact

(* ------------------------------------------------------------ AppGraph *)

Requested == [pc : {"idle", "lookup", "wait", "stamps", "build", "served"}, key : Nat, entry : Entries \cup {None},
              began : Apps!Stamps \cup {None}, served : [graph : Seq(Nat), disturbed : BOOLEAN] \cup {None}]

AppTypes ==
    /\ stamp \in [Apps!Read -> 0 .. MaxStamp] /\ lastStamp \in 0 .. MaxStamp
    /\ entries \in [Entries -> Apps!Graphs \cup {None}]
    /\ order \in Seq(Entries)
    /\ reqs \in [Execs -> Requested]

(* What an entry knows: undisturbed, it holds the stamps of now until it keeps them, and those it keeps afterwards. *)
EntryFits(e) ==
    LET g == entries[e]
    IN  g # None =>
          /\ IF g.state \in {"built", "stamped"} THEN Len(g.graph) = Len(Apps!Order)
             ELSE Len(g.graph) < Len(Apps!Order)
          /\ \A i \in 1 .. Len(g.graph) : g.graph[i] = 0 => Apps!Order[i] \in Lazy
          /\ g.state \in {"reading", "built"} /\ ~g.disturbed => \A i \in 1 .. Len(g.graph) : g.graph[i] = stamp[Apps!Order[i]]
          /\ g.state = "stamped" => /\ g.stamps \in Apps!Stamps
                                    /\ ~g.disturbed => \A i \in 1 .. Len(g.graph) :
                                                          g.graph[i] = 0 \/ g.graph[i] = g.stamps[Apps!Order[i]]

(* What is saved now was saved when the request came or later. *)
Since(b) == \A p \in Apps!Read : b[p] <= lastStamp /\ (stamp[p] # 0 => b[p] <= stamp[p])
AsNew(graph, b) ==
    \A i \in 1 .. Len(graph) : \/ graph[i] = 0 /\ Apps!Order[i] \in Lazy
                             \/ b[Apps!Order[i]] <= graph[i]

RequestFits(r) ==
    LET q == reqs[r]
    IN  /\ q.entry # None => entries[q.entry] # None
        /\ q.pc \in {"wait", "stamps", "build"} => q.entry # None
        /\ q.pc # "idle" => q.began \in Apps!Stamps /\ Since(q.began)
        /\ q.pc = "stamps" => entries[q.entry].state = "stamped"
        /\ q.pc = "build" => AsNew(entries[q.entry].graph, q.began)
        /\ q.pc = "served" => /\ Len(q.served.graph) = Len(Apps!Order)
                              /\ ~q.served.disturbed => AsNew(q.served.graph, q.began)

CacheFits ==
    /\ Len(order) <= CacheLimit
    /\ \A i \in 1 .. Len(order) : entries[order[i]] # None /\ entries[order[i]].state # "failed"
    /\ \A i, j \in 1 .. Len(order) : entries[order[i]].key = entries[order[j]].key => i = j

AppInv ==
    /\ AppTypes /\ CacheFits
    /\ \A p \in Apps!Read : stamp[p] <= lastStamp
    /\ \A e \in Entries : EntryFits(e)
    /\ \A r \in Execs : RequestFits(r)

(* Order is a sequence. *)
LEMMA OrderIsSeq ==
    ASSUME Apps!AppConstants
    PROVE  /\ Apps!Order \in Seq(Apps!Read) /\ Len(Apps!Order) \in Nat /\ Len(Apps!Order) > 0
           /\ DOMAIN Apps!Order = 1 .. Len(Apps!Order)
           /\ \A i \in 1 .. Len(Apps!Order) : Apps!Order[i] \in Apps!Read
           /\ App \in Apps!Read
<1> DEFINE T == {App} \cup Apps!ToSet(Deps)
<1>1. <<App>> \in Seq(T) /\ Len(<<App>>) = 1
  OBVIOUS
<1>2. Deps \in Seq(T)
  BY DEF Apps!AppConstants, Apps!ToSet
<1>3. Apps!Order \in Seq(T) /\ Len(Apps!Order) = 1 + Len(Deps) /\ Len(Deps) \in Nat
  BY <1>1, <1>2 DEF Apps!Order
<1>4. Apps!Order[1] = App
  BY <1>1, <1>2 DEF Apps!Order
<1>5. \A i \in 1 .. Len(Apps!Order) : Apps!Order[i] \in Apps!Read
  BY <1>3 DEF Apps!Read, Apps!ToSet
<1>6. DOMAIN Apps!Order = 1 .. Len(Apps!Order)
  BY <1>3
<1>7. Apps!Order \in Seq(Apps!Read)
  BY <1>3, <1>5, <1>6
<1>8. App \in Apps!Read
  BY <1>3, <1>4, <1>5
<1>9. QED  BY <1>3, <1>5, <1>6, <1>7, <1>8

(* A sequence without repetitions, and another with some of its elements. *)
Distinct(s) == \A i, j \in 1 .. Len(s) : s[i] = s[j] => i = j
PartOf(s, t) == Distinct(s) /\ \A i \in 1 .. Len(s) : \E j \in 1 .. Len(t) : s[i] = t[j]

(* What is left of the cache without an entry. *)
LEMMA WithoutOne ==
    ASSUME order \in Seq(Entries), Distinct(order), NEW e
    PROVE  /\ Apps!Without(e) \in Seq(Entries)
           /\ PartOf(Apps!Without(e), order)
           /\ \A i \in 1 .. Len(Apps!Without(e)) : Apps!Without(e)[i] # e
           /\ Len(Apps!Without(e)) \in Nat /\ Len(order) \in Nat
           /\ Len(Apps!Without(e)) <= Len(order)
           /\ e \in Apps!ToSet(order) => Len(Apps!Without(e)) = Len(order) - 1
<1> DEFINE at == {i \in DOMAIN order : order[i] = e}
<1>1. CASE at = {}
  <2>1. Apps!Without(e) = order
    BY <1>1 DEF Apps!Without
  <2>2. \A i \in 1 .. Len(order) : order[i] # e
    BY <1>1
  <2>3. e \notin Apps!ToSet(order)
    BY <1>1 DEF Apps!ToSet
  <2>4. QED  BY <2>1, <2>2, <2>3 DEF PartOf
<1>2. CASE at # {}
  <2> DEFINE k == CHOOSE i \in at : TRUE
  <2>1. k \in 1 .. Len(order) /\ order[k] = e
    BY <1>2
  <2>2. Apps!Without(e) = SubSeq(order, 1, k - 1) \o SubSeq(order, k + 1, Len(order))
    BY <1>2 DEF Apps!Without, Apps!RemoveAt
  <2> HIDE DEF k, at
  <2> DEFINE s == Apps!Without(e)
             u == SubSeq(order, 1, k - 1)
             v == SubSeq(order, k + 1, Len(order))
  <2>3. u \in Seq(Entries) /\ Len(u) = k - 1 /\ \A i \in 1 .. Len(u) : u[i] = order[i]
    BY <2>1
  <2>4. v \in Seq(Entries) /\ Len(v) = Len(order) - k /\ \A i \in 1 .. Len(v) : v[i] = order[i + k]
    BY <2>1
  <2>5. s = u \o v
    BY <2>2
  <2> HIDE DEF s, u, v
  <2>11. s \in Seq(Entries) /\ Len(s) = Len(order) - 1
    <3>0. u \in Seq(Entries) /\ v \in Seq(Entries)
      BY <2>3, <2>4
    <3>1. s \in Seq(Entries) /\ Len(s) = Len(u) + Len(v)
      BY <3>0, <2>5
    <3>2. Len(order) \in Nat
      OBVIOUS
    <3>3. QED  BY <2>1, <2>3, <2>4, <3>1, <3>2
  <2>6. \A i \in 1 .. Len(s) : s[i] = IF i < k THEN order[i] ELSE order[i + 1]
    <3>1. \A i \in 1 .. Len(s) : s[i] = IF i <= Len(u) THEN u[i] ELSE v[i - Len(u)]
      BY <2>3, <2>4, <2>5
    <3>2. \A i \in 1 .. Len(s) : i <= Len(u) => u[i] = order[i] /\ i < k
      BY <2>1, <2>3, <2>11
    <3>3. \A i \in 1 .. Len(s) : ~(i <= Len(u)) => v[i - Len(u)] = order[i + 1] /\ ~(i < k)
      BY <2>1, <2>3, <2>4, <2>11
    <3>4. QED  BY <3>1, <3>2, <3>3
  <2>7. \A i \in 1 .. Len(s) : \E j \in 1 .. Len(order) : s[i] = order[j] /\ j # k /\ j = IF i < k THEN i ELSE i + 1
    BY <2>1, <2>11, <2>6
  <2>8. \A i \in 1 .. Len(s) : s[i] # e
    BY <2>1, <2>7 DEF Distinct
  <2>9. Distinct(s)
    BY <2>1, <2>11, <2>7 DEF Distinct
  <2>10. QED  BY <2>1, <2>11, <2>7, <2>8, <2>9 DEF PartOf, s
<1>3. QED  BY <1>1, <1>2

(* The cache has no entry twice. *)
LEMMA CacheDistinct == ASSUME CacheFits PROVE Distinct(order)
  BY DEF CacheFits, Distinct

(* A cache with some of the entries is sound. *)
LEMMA PartFits ==
    ASSUME CacheFits, NEW s \in Seq(Entries), PartOf(s, order), Len(s) <= Len(order), order \in Seq(Entries), CacheLimit \in Nat
    PROVE  /\ Len(s) <= CacheLimit
           /\ \A i \in 1 .. Len(s) : entries[s[i]] # None /\ entries[s[i]].state # "failed"
           /\ \A i, j \in 1 .. Len(s) : entries[s[i]].key = entries[s[j]].key => i = j
<1>1. Len(s) \in Nat /\ Len(order) \in Nat
  OBVIOUS
<1>2. Len(s) <= CacheLimit
  BY <1>1 DEF CacheFits
<1>3. \A i \in 1 .. Len(s) : entries[s[i]] # None /\ entries[s[i]].state # "failed"
  BY DEF PartOf, CacheFits
<1>4. ASSUME NEW i \in 1 .. Len(s), NEW j \in 1 .. Len(s), entries[s[i]].key = entries[s[j]].key PROVE i = j
  <2>1. PICK m \in 1 .. Len(order) : s[i] = order[m]
    BY DEF PartOf
  <2>2. PICK n \in 1 .. Len(order) : s[j] = order[n]
    BY DEF PartOf
  <2>3. m = n
    BY <1>4, <2>1, <2>2 DEF CacheFits
  <2>4. QED  BY <2>1, <2>2, <2>3 DEF PartOf, Distinct
<1>5. QED  BY <1>2, <1>3, <1>4

(* Nothing is cached and no request has come. *)
LEMMA AppInit == ASSUME Apps!AppConstants, Apps!Init PROVE AppInv
<1> USE DEF Apps!Init
<1>1. reqs \in [Execs -> Requested] /\ \A r \in Execs : reqs[r].pc = "idle" /\ reqs[r].entry = None
  BY DEF Apps!Idle, Requested
<1>2. AppTypes
  BY <1>1 DEF AppTypes, Apps!AppConstants
<1>3. CacheFits
  BY DEF CacheFits, Apps!AppConstants
<1>4. \A e \in Entries : EntryFits(e)
  BY DEF EntryFits
<1>5. \A r \in Execs : RequestFits(r)
  BY <1>1 DEF RequestFits
<1>6. QED  BY <1>2, <1>3, <1>4, <1>5 DEF AppInv

(* What the invariant says of a request depends on the entry it has looked up. *)
LEMMA OtherRequest ==
    ASSUME AppInv, NEW r \in Execs, reqs'[r] = reqs[r],
           \A p \in Apps!Read : stamp'[p] # 0 => (stamp[p] # 0 /\ stamp[p] <= stamp'[p]) \/ lastStamp <= stamp'[p],
           lastStamp' \in Nat, lastStamp <= lastStamp', stamp' \in [Apps!Read -> Nat],
           LET e == reqs[r].entry
           IN  e # None => /\ entries'[e] # None
                           /\ entries[e].state = "stamped" => entries'[e].state = "stamped"
                           /\ \/ entries'[e].graph = entries[e].graph
                              \/ reqs[r].pc = "build" => AsNew(entries'[e].graph, reqs[r].began)
    PROVE  RequestFits(r)'
<1> DEFINE q == reqs[r]
<1>1. RequestFits(r) /\ stamp \in [Apps!Read -> Nat] /\ lastStamp \in Nat
  BY DEF AppInv, AppTypes
<1>2. ASSUME NEW b \in Apps!Stamps, Since(b) PROVE Since(b)'
  <2>1. \A p \in Apps!Read : b[p] \in Nat
    BY DEF Apps!Stamps
  <2>2. \A p \in Apps!Read : b[p] <= lastStamp'
    BY <1>1, <1>2, <2>1 DEF Since
  <2>3. ASSUME NEW p \in Apps!Read, stamp'[p] # 0 PROVE b[p] <= stamp'[p]
    <3>1. b[p] \in Nat /\ b[p] <= lastStamp /\ (stamp[p] # 0 => b[p] <= stamp[p]) /\ stamp'[p] \in Nat /\ stamp[p] \in Nat
      BY <1>1, <1>2, <2>1 DEF Since
    <3>2. QED  BY <1>1, <2>3, <3>1
  <2>4. QED  BY <2>2, <2>3 DEF Since
<1>3. q.pc # "idle" => \E b \in Apps!Stamps : b = q.began /\ Since(b)'
  BY <1>1, <1>2 DEF RequestFits
<1>4. q.pc = "build" => AsNew(entries'[q.entry].graph, q.began)
  BY <1>1 DEF RequestFits
<1>5. q.pc = "stamps" => entries'[q.entry].state = "stamped"
  BY <1>1 DEF RequestFits
<1> HIDE DEF q
<1>6. reqs'[r] = q /\ reqs[r] = q
  BY DEF q
<1>7. QED  BY <1>1, <1>3, <1>4, <1>5, <1>6 DEF RequestFits, Since, AsNew

(* A step of one request that leaves what is saved. *)
LEMMA OneRequest ==
    ASSUME AppInv, NEW r \in Execs, NEW q \in Requested, reqs' = [reqs EXCEPT ![r] = q],
           UNCHANGED <<stamp, lastStamp, entries>>, order' \in Seq(Entries), CacheFits', RequestFits(r)'
    PROVE  AppInv'
<1>1. AppTypes'
  BY DEF AppInv, AppTypes
<1>2. \A e \in Entries : EntryFits(e)'
  BY DEF AppInv, EntryFits
<1>3. ASSUME NEW z \in Execs \ {r} PROVE RequestFits(z)'
  <2>1. reqs'[z] = reqs[z]
    BY DEF AppInv, AppTypes
  <2>2. RequestFits(z)
    BY DEF AppInv
  <2>3. QED  BY <2>1, <2>2 DEF RequestFits, Since, AsNew
<1>4. \A z \in Execs : RequestFits(z)'
  BY <1>3
<1>5. QED  BY <1>1, <1>2, <1>4 DEF AppInv

(* A package is saved, under a new stamp, or deleted: whatever is being read now is disturbed. *)
LEMMA DisturbStep ==
    ASSUME Apps!AppConstants, AppInv, NEW p \in Apps!Read, Apps!packageSave(p) \/ Apps!packageDelete(p) PROVE AppInv'
<1>1. /\ stamp' \in [Apps!Read -> 0 .. MaxStamp] /\ lastStamp' \in 0 .. MaxStamp /\ lastStamp <= lastStamp'
      /\ lastStamp \in Nat
      /\ \A x \in Apps!Read : stamp[x] \in Nat /\ stamp'[x] \in Nat
      /\ \A x \in Apps!Read : stamp'[x] = 0 \/ stamp'[x] = stamp[x] \/ lastStamp <= stamp'[x]
      /\ \A x \in Apps!Read : stamp'[x] <= lastStamp'
      /\ entries' = Apps!Disturbed /\ UNCHANGED <<order, reqs>>
  <2> USE DEF AppInv, AppTypes, Apps!AppConstants
  <2>1. CASE Apps!packageSave(p)
    BY <2>1 DEF Apps!packageSave
  <2>2. CASE Apps!packageDelete(p)
    BY <2>2 DEF Apps!packageDelete
  <2>3. QED  BY <2>1, <2>2
<1>2. ASSUME NEW e \in Entries
      PROVE  /\ entries'[e] \in Apps!Graphs \cup {None} /\ EntryFits(e)' /\ (entries[e] # None <=> entries'[e] # None)
             /\ entries[e] # None => /\ entries'[e].state = entries[e].state /\ entries'[e].key = entries[e].key
                                     /\ entries'[e].graph = entries[e].graph
  <2>1. entries'[e] = IF entries[e] # None /\ entries[e].state \in {"reading", "built"}
                      THEN [entries[e] EXCEPT !.disturbed = TRUE] ELSE entries[e]
    BY <1>1 DEF Apps!Disturbed
  <2>2. entries[e] \in Apps!Graphs \cup {None} /\ EntryFits(e)
    BY DEF AppInv, AppTypes
  <2>3. CASE entries[e] # None /\ entries[e].state \in {"reading", "built"}
    <3> DEFINE g == entries[e]
    <3>1. entries'[e] = [g EXCEPT !.disturbed = TRUE] /\ g \in Apps!Graphs
      BY <2>1, <2>2, <2>3
    <3> DEFINE h == [g EXCEPT !.disturbed = TRUE]
    <3>2. /\ h \in Apps!Graphs /\ h.state = g.state /\ h.key = g.key /\ h.graph = g.graph /\ h.disturbed = TRUE
          /\ h.stamps = g.stamps
      BY <3>1 DEF Apps!Graphs
    <3>3. h # None
      BY <3>2 DEF Apps!AppConstants
    <3>4. g # None /\ g.state \in {"reading", "built"}
      BY <2>3
    <3> HIDE DEF h
    <3>5. EntryFits(e)'
      BY <2>2, <3>1, <3>2, <3>4 DEF EntryFits, h
    <3>6. QED  BY <3>1, <3>2, <3>3, <3>4, <3>5 DEF h
  <2>4. CASE ~(entries[e] # None /\ entries[e].state \in {"reading", "built"})
    <3>1. entries'[e] = entries[e]
      BY <2>1, <2>4
    <3>2. EntryFits(e)'
      BY <2>2, <2>4, <3>1 DEF EntryFits
    <3>3. QED  BY <2>2, <3>1, <3>2
  <2>5. QED  BY <2>3, <2>4
<1>3. AppTypes'
  <2>1. entries' = [e \in Entries |-> entries'[e]]
    BY <1>1 DEF Apps!Disturbed
  <2>2. entries' \in [Entries -> Apps!Graphs \cup {None}]
    BY <1>2, <2>1
  <2>3. QED  BY <1>1, <2>2 DEF AppInv, AppTypes
<1>4. CacheFits'
  <2>1. \A i \in 1 .. Len(order) : order[i] \in Entries
    BY DEF AppInv, AppTypes
  <2>2. order' = order /\ CacheFits
    BY <1>1 DEF AppInv
  <2>3. \A i \in 1 .. Len(order) : /\ entries'[order[i]] # None /\ entries'[order[i]].state # "failed"
                                   /\ entries'[order[i]].key = entries[order[i]].key
    BY <1>2, <2>1, <2>2 DEF CacheFits
  <2>4. \A i, j \in 1 .. Len(order) : entries'[order[i]].key = entries'[order[j]].key => i = j
    BY <2>2, <2>3 DEF CacheFits
  <2>5. QED  BY <2>2, <2>3, <2>4 DEF CacheFits
<1>5. ASSUME NEW r \in Execs PROVE RequestFits(r)'
  <2>1. reqs[r].entry # None => reqs[r].entry \in Entries /\ entries[reqs[r].entry] # None
    BY DEF AppInv, AppTypes, Requested, RequestFits
  <2>2. LET e == reqs[r].entry
           IN  e # None => /\ entries'[e] # None
                           /\ entries[e].state = "stamped" => entries'[e].state = "stamped"
                           /\ \/ entries'[e].graph = entries[e].graph
                              \/ reqs[r].pc = "build" => AsNew(entries'[e].graph, reqs[r].began)
    BY <1>2, <2>1
  <2>3. lastStamp' \in Nat /\ stamp' \in [Apps!Read -> Nat] /\ reqs'[r] = reqs[r]
    BY <1>1 DEF Apps!AppConstants
  <2>4. \A x \in Apps!Read : stamp'[x] # 0 => (stamp[x] # 0 /\ stamp[x] <= stamp'[x]) \/ lastStamp <= stamp'[x]
    BY <1>1
  <2>5. QED  BY <1>1, <2>2, <2>3, <2>4, OtherRequest
<1>6. QED  BY <1>1, <1>2, <1>3, <1>4, <1>5 DEF AppInv

(* The idle state of a request is one of its states. *)
LEMMA AppIdle == Apps!Idle \in Requested /\ Apps!Idle.pc = "idle" /\ Apps!Idle.entry = None
  BY DEF Apps!Idle, Requested

(* A request of a saved app begins with the stamps of now. *)
LEMMA ServeStep == ASSUME Apps!AppConstants, AppInv, NEW r \in Execs, Apps!serveApp(r) PROVE AppInv'
<1> DEFINE q == [Apps!Idle EXCEPT !.pc = "lookup", !.key = stamp[App], !.began = stamp]
<1>1. reqs' = [reqs EXCEPT ![r] = q] /\ UNCHANGED <<stamp, lastStamp, entries, order>>
  BY DEF Apps!serveApp
<1>2. /\ q \in Requested /\ q.pc = "lookup" /\ q.entry = None /\ q.began = stamp /\ stamp \in Apps!Stamps
      /\ \A p \in Apps!Read : stamp[p] \in Nat
  <2>1. stamp \in Apps!Stamps /\ stamp[App] \in Nat
    BY OrderIsSeq DEF AppInv, AppTypes, Apps!Stamps, Apps!AppConstants
  <2>2. \A p \in Apps!Read : stamp[p] \in Nat
    BY <2>1 DEF Apps!Stamps
  <2>3. q \in Requested
    BY <2>1, AppIdle DEF Requested
  <2>4. q.pc = "lookup" /\ q.entry = None /\ q.began = stamp
    BY DEF Apps!Idle
  <2>5. QED  BY <2>1, <2>2, <2>3, <2>4
<1> HIDE DEF q
<1>3. reqs'[r] = q
  BY <1>1 DEF AppInv, AppTypes
<1>4. Since(stamp)'
  BY <1>1, <1>2 DEF AppInv, Since
<1>5. RequestFits(r)'
  BY <1>1, <1>2, <1>3, <1>4 DEF RequestFits, Since
<1>6. CacheFits' /\ order' \in Seq(Entries)
  BY <1>1 DEF AppInv, AppTypes, CacheFits
<1>7. QED  BY <1>1, <1>2, <1>5, <1>6, OneRequest

(* The cache a build leaves: its entry in the place of another of its key or as the last, the oldest over the limit gone. *)
CacheWith(x, e, k) ==
    LET rest == Apps!Without(x)
        taken == {i \in DOMAIN rest : entries[rest[i]].key = k}
        all == IF taken = {} THEN Append(rest, e) ELSE [i \in DOMAIN rest |-> IF i \in taken THEN e ELSE rest[i]]
    IN  order' = IF Len(all) > CacheLimit THEN Tail(all) ELSE all

(* It is sound. *)
LEMMA BuildCache ==
    ASSUME Apps!AppConstants, AppInv, NEW x, NEW e \in Entries, entries[e] = None, NEW k,
           NEW g \in Apps!Graphs, g.state = "reading", g.key = k, entries' = [entries EXCEPT ![e] = g],
           CacheWith(x, e, k)
    PROVE  order' \in Seq(Entries) /\ CacheFits'
<1> DEFINE rest == Apps!Without(x)
           taken == {i \in DOMAIN rest : entries[rest[i]].key = k}
           all == IF taken = {} THEN Append(rest, e) ELSE [i \in DOMAIN rest |-> IF i \in taken THEN e ELSE rest[i]]
<1>1. order \in Seq(Entries) /\ CacheFits /\ CacheLimit \in Nat
  BY DEF AppInv, AppTypes, Apps!AppConstants
<1>2. rest \in Seq(Entries) /\ PartOf(rest, order) /\ Len(rest) <= Len(order)
  BY <1>1, CacheDistinct, WithoutOne
<1>3. order' = IF Len(all) > CacheLimit THEN Tail(all) ELSE all
  BY DEF CacheWith
<1> HIDE DEF rest
<1>4. /\ Len(rest) <= CacheLimit /\ Len(rest) \in Nat
      /\ \A i \in 1 .. Len(rest) : entries[rest[i]] # None /\ entries[rest[i]].state # "failed"
      /\ \A i, j \in 1 .. Len(rest) : entries[rest[i]].key = entries[rest[j]].key => i = j
  BY <1>1, <1>2, PartFits
<1>5. /\ entries'[e] = g /\ g # None
      /\ \A i \in 1 .. Len(rest) : rest[i] # e /\ rest[i] \in Entries /\ entries'[rest[i]] = entries[rest[i]]
  BY <1>2, <1>4 DEF AppInv, AppTypes, Apps!AppConstants
<1> DEFINE Fits(s) == /\ \A i \in 1 .. Len(s) : entries'[s[i]] # None /\ entries'[s[i]].state # "failed"
                      /\ \A i, j \in 1 .. Len(s) : entries'[s[i]].key = entries'[s[j]].key => i = j
<1>6. all \in Seq(Entries) /\ Len(all) <= CacheLimit + 1 /\ Len(all) \in Nat /\ Fits(all)
  <2>1. CASE taken = {}
    <3>1. all = Append(rest, e)
      BY <2>1
    <3> HIDE DEF all
    <3>2. all \in Seq(Entries) /\ Len(all) = Len(rest) + 1
      BY <1>2, <3>1
    <3>3. \A i \in 1 .. Len(all) : IF i = Len(all) THEN all[i] = e ELSE i \in 1 .. Len(rest) /\ all[i] = rest[i]
      BY <1>2, <3>1, <3>2
    <3>4. \A i \in 1 .. Len(rest) : entries[rest[i]].key # k
      BY <1>2, <2>1
    <3>5. \A i \in 1 .. Len(all) : entries'[all[i]] # None /\ entries'[all[i]].state # "failed"
      BY <1>4, <1>5, <3>3
    <3>6. ASSUME NEW i \in 1 .. Len(all), NEW j \in 1 .. Len(all), entries'[all[i]].key = entries'[all[j]].key PROVE i = j
      <4>1. CASE i = Len(all) /\ j = Len(all)
        BY <4>1
      <4>2. CASE i = Len(all) /\ j # Len(all)
        BY <1>5, <3>3, <3>4, <3>6, <4>2
      <4>3. CASE i # Len(all) /\ j = Len(all)
        BY <1>5, <3>3, <3>4, <3>6, <4>3
      <4>4. CASE i # Len(all) /\ j # Len(all)
        BY <1>4, <1>5, <3>3, <3>6, <4>4
      <4>5. QED  BY <4>1, <4>2, <4>3, <4>4
    <3>7. QED  BY <1>1, <1>4, <3>2, <3>5, <3>6
  <2>2. CASE taken # {}
    <3>0. DOMAIN rest = 1 .. Len(rest)
      BY <1>2
    <3>2. \A i \in 1 .. Len(rest) : i \in taken <=> entries[rest[i]].key = k
      BY <3>0
    <3> HIDE DEF taken
    <3>1. all = [i \in 1 .. Len(rest) |-> IF i \in taken THEN e ELSE rest[i]]
      BY <2>2, <3>0
    <3> HIDE DEF all
    <3>3. all \in Seq(Entries) /\ Len(all) = Len(rest)
      BY <1>4, <1>5, <3>1
    <3>4. \A i \in 1 .. Len(all) : i \in 1 .. Len(rest) /\ all[i] = IF i \in taken THEN e ELSE rest[i]
      BY <3>1, <3>3
    <3>5. \A i \in 1 .. Len(all) : entries'[all[i]] # None /\ entries'[all[i]].state # "failed"
      BY <1>4, <1>5, <3>4
    <3>6. \A i \in 1 .. Len(all) : entries'[all[i]].key = entries[rest[i]].key
      BY <1>4, <1>5, <3>2, <3>4
    <3>7. QED  BY <1>1, <1>4, <3>3, <3>4, <3>5, <3>6
  <2>3. QED  BY <2>1, <2>2
<1> HIDE DEF all
<1>7. order' \in Seq(Entries) /\ Len(order') <= CacheLimit /\ Fits(order')
  <2>1. CASE Len(all) > CacheLimit
    <3>1. all # <<>>
      BY <1>1, <1>6, <2>1
    <3> DEFINE t == Tail(all)
    <3>2. t \in Seq(Entries) /\ Len(t) = Len(all) - 1 /\ \A i \in 1 .. Len(t) : t[i] = all[i + 1]
      BY <1>6, <3>1
    <3> HIDE DEF t
    <3>3. \A i \in 1 .. Len(t) : i + 1 \in 1 .. Len(all) /\ t[i] = all[i + 1]
      BY <1>6, <3>2
    <3>4. Len(t) <= CacheLimit
      BY <1>1, <1>6, <3>2
    <3>5. \A i \in 1 .. Len(t) : entries'[t[i]] # None /\ entries'[t[i]].state # "failed"
      BY <1>6, <3>3
    <3>6. ASSUME NEW i \in 1 .. Len(t), NEW j \in 1 .. Len(t), entries'[t[i]].key = entries'[t[j]].key PROVE i = j
      <4>1. i + 1 = j + 1
        BY <1>6, <3>3, <3>6
      <4>2. QED  BY <4>1
    <3>7. Fits(t)
      BY <3>5, <3>6
    <3>8. order' = t
      BY <1>3, <2>1 DEF t
    <3> HIDE DEF Fits
    <3>9. QED  BY <3>2, <3>4, <3>7, <3>8
  <2>2. CASE ~(Len(all) > CacheLimit)
    <3>1. order' = all
      BY <1>3, <2>2
    <3> HIDE DEF Fits
    <3>2. QED  BY <1>1, <1>6, <2>2, <3>1
  <2>3. QED  BY <2>1, <2>2
<1>8. QED  BY <1>7 DEF CacheFits

(* A build begins: a new entry that has read nothing, in place of the one that was looked at. *)
LEMMA BuildStep ==
    ASSUME Apps!AppConstants, AppInv, NEW r \in Execs, reqs[r].pc # "idle", Apps!StartBuild(r), UNCHANGED <<stamp, lastStamp>>
    PROVE  AppInv'
<1> DEFINE k == reqs[r].key
           g == [key |-> k, state |-> "reading", graph |-> <<>>, stamps |-> None, disturbed |-> FALSE]
<1>1. PICK e \in Entries :
         /\ entries[e] = None
         /\ entries' = [entries EXCEPT ![e] = g]
         /\ CacheWith(reqs[r].entry, e, k)
         /\ reqs' = [reqs EXCEPT ![r].pc = "build", ![r].entry = e]
  BY DEF Apps!StartBuild, CacheWith
<1>2. reqs \in [Execs -> Requested] /\ reqs[r] \in Requested /\ k \in Nat /\ entries \in [Entries -> Apps!Graphs \cup {None}] /\ RequestFits(r)
  BY DEF AppInv, AppTypes, Requested
<1>3. g \in Apps!Graphs /\ g.state = "reading" /\ g.key = k /\ g.graph = <<>> /\ g # None
  <2>1. g \in Apps!Graphs
    BY <1>2 DEF Apps!Graphs
  <2>2. QED  BY <2>1 DEF Apps!AppConstants
<1> HIDE DEF g, k
<1>4. order' \in Seq(Entries) /\ CacheFits'
  BY <1>1, <1>3, BuildCache
<1>5. /\ entries' \in [Entries -> Apps!Graphs \cup {None}] /\ entries'[e] = g
      /\ \A f \in Entries \ {e} : entries'[f] = entries[f]
  BY <1>1, <1>2, <1>3
<1>6. /\ reqs' \in [Execs -> Requested] /\ reqs'[r].pc = "build" /\ reqs'[r].entry = e /\ reqs'[r].began = reqs[r].began
      /\ \A z \in Execs \ {r} : reqs'[z] = reqs[z]
  BY <1>1, <1>2 DEF Requested
<1>7. AppTypes'
  BY <1>4, <1>5, <1>6 DEF AppInv, AppTypes
<1>8. ASSUME NEW f \in Entries PROVE EntryFits(f)'
  <2>1. CASE f = e
    <3>1. Len(g.graph) = 0
      BY <1>3
    <3>2. QED  BY <1>3, <1>5, <2>1, <3>1, OrderIsSeq DEF EntryFits
  <2>2. CASE f # e
    <3>1. EntryFits(f) /\ entries'[f] = entries[f] /\ stamp' = stamp
      BY <1>5, <2>2 DEF AppInv
    <3>2. QED  BY <3>1 DEF EntryFits
  <2>3. QED  BY <2>1, <2>2
<1>9. ASSUME NEW z \in Execs PROVE RequestFits(z)'
  <2>1. CASE z = r
    <3>1. Len(g.graph) = 0
      BY <1>3
    <3>2. AsNew(g.graph, reqs[r].began)
      BY <3>1 DEF AsNew
    <3>3. e # None
      BY DEF Apps!AppConstants
    <3>4. \E b \in Apps!Stamps : b = reqs[r].began /\ Since(b)'
      BY <1>2 DEF RequestFits, Since
    <3>5. QED  BY <1>3, <1>5, <1>6, <2>1, <3>1, <3>3, <3>4 DEF RequestFits, AsNew, Since
  <2>2. CASE z # r
    <3>1. reqs'[z] = reqs[z]
      BY <1>6, <2>2
    <3>2. reqs[z].entry # None => reqs[z].entry \in Entries \ {e}
      BY <1>1, <1>2 DEF AppInv, Requested, RequestFits
    <3>3. QED  BY <1>5, <3>1, <3>2, <1>2 DEF AppInv, RequestFits, Since, AsNew
  <2>3. QED  BY <2>1, <2>2
<1>10. QED  BY <1>4, <1>7, <1>8, <1>9 DEF AppInv

(* cachedGraph finds an entry and waits for it, or builds one. *)
LEMMA LookupStep == ASSUME Apps!AppConstants, AppInv, NEW r \in Execs, Apps!cachedGraph(r) PROVE AppInv'
<1>1. CASE Apps!StartBuild(r)
  BY <1>1, BuildStep DEF Apps!cachedGraph
<1>2. ASSUME NEW e \in Apps!Keyed(reqs[r].key), reqs' = [reqs EXCEPT ![r].pc = "wait", ![r].entry = e], UNCHANGED <<entries, order>>
      PROVE  AppInv'
  <2>1. reqs[r].pc = "lookup" /\ UNCHANGED <<stamp, lastStamp>>
    BY DEF Apps!cachedGraph
  <2> DEFINE q == [reqs[r] EXCEPT !.pc = "wait", !.entry = e]
  <2>2. e \in Entries /\ entries[e] # None
    BY DEF Apps!Keyed, Apps!ToSet, AppInv, AppTypes, CacheFits
  <2>3. /\ reqs' = [reqs EXCEPT ![r] = q] /\ q \in Requested /\ reqs'[r] = q
        /\ q.pc = "wait" /\ q.entry = e /\ q.began = reqs[r].began
    BY <1>2, <2>2 DEF AppInv, AppTypes, Requested
  <2> HIDE DEF q
  <2>4. RequestFits(r)
    BY DEF AppInv
  <2>5. e # None
    BY <2>2 DEF Apps!AppConstants
  <2>6. RequestFits(r)'
    BY <1>2, <2>1, <2>2, <2>3, <2>4, <2>5 DEF RequestFits, Since, AsNew
  <2>7. CacheFits' /\ order' \in Seq(Entries)
    BY <1>2 DEF AppInv, AppTypes, CacheFits
  <2>8. QED  BY <1>2, <2>1, <2>3, <2>6, <2>7, OneRequest
<1>3. QED  BY <1>1, <1>2 DEF Apps!cachedGraph

(* A hit waits for the stamps of its entry; if the build failed it builds one itself. *)
LEMMA AwaitStep == ASSUME Apps!AppConstants, AppInv, NEW r \in Execs, Apps!AwaitStamps(r) PROVE AppInv'
<1>1. reqs[r].pc = "wait" /\ UNCHANGED <<stamp, lastStamp>>
  BY DEF Apps!AwaitStamps
<1>2. CASE Apps!StartBuild(r)
  BY <1>1, <1>2, BuildStep
<1>3. CASE entries[reqs[r].entry].state = "stamped" /\ reqs' = [reqs EXCEPT ![r].pc = "stamps"] /\ UNCHANGED <<entries, order>>
  <2> DEFINE q == [reqs[r] EXCEPT !.pc = "stamps"]
  <2>1. /\ reqs' = [reqs EXCEPT ![r] = q] /\ q \in Requested /\ reqs'[r] = q
        /\ q.pc = "stamps" /\ q.entry = reqs[r].entry /\ q.began = reqs[r].began
    BY <1>3 DEF AppInv, AppTypes, Requested
  <2> HIDE DEF q
  <2>2. RequestFits(r)
    BY DEF AppInv
  <2>3. RequestFits(r)'
    BY <1>1, <1>3, <2>1, <2>2 DEF RequestFits, Since, AsNew
  <2>4. CacheFits' /\ order' \in Seq(Entries)
    BY <1>3 DEF AppInv, AppTypes, CacheFits
  <2>5. QED  BY <1>1, <1>3, <2>1, <2>3, <2>4, OneRequest
<1>4. QED  BY <1>1, <1>2, <1>3 DEF Apps!AwaitStamps

(* What an entry answers. *)
LEMMA AnswerOf ==
    ASSUME AppInv, NEW r \in Execs, NEW e \in Entries, entries[e] # None, entries[e].state \in {"built", "stamped"},
           reqs' = Apps!Serve(r, e), UNCHANGED <<stamp, lastStamp, entries>>, reqs[r].pc # "idle",
           reqs[r].entry = e,
           entries[e].disturbed \/ AsNew(entries[e].graph, reqs[r].began)
    PROVE  \E q \in Requested : reqs' = [reqs EXCEPT ![r] = q] /\ RequestFits(r)'
<1> DEFINE a == [graph |-> entries[e].graph, disturbed |-> entries[e].disturbed]
           q == [reqs[r] EXCEPT !.pc = "served", !.served = a]
<1>1. entries[e] \in Apps!Graphs /\ Len(entries[e].graph) = Len(Apps!Order) /\ RequestFits(r)
  BY DEF AppInv, AppTypes, EntryFits
<1>2. a \in [graph : Seq(Nat), disturbed : BOOLEAN] /\ a.graph = entries[e].graph /\ a.disturbed = entries[e].disturbed
  BY <1>1 DEF Apps!Graphs
<1> HIDE DEF a
<1>3. /\ reqs' = [reqs EXCEPT ![r] = q] /\ q \in Requested /\ reqs'[r] = q
      /\ q.pc = "served" /\ q.served = a /\ q.entry = reqs[r].entry /\ q.began = reqs[r].began
  BY <1>2 DEF Apps!Serve, AppInv, AppTypes, Requested, a
<1> HIDE DEF q
<1>4. RequestFits(r)'
  BY <1>1, <1>2, <1>3 DEF RequestFits, Since, AsNew
<1>5. QED  BY <1>3, <1>4

(* The request that builds answers once the graph is there, or gives up. *)
LEMMA BuiltStep == ASSUME Apps!AppConstants, AppInv, NEW r \in Execs, Apps!Built(r) PROVE AppInv'
<1> DEFINE e == reqs[r].entry
<1>1. /\ reqs[r].pc = "build" /\ UNCHANGED <<stamp, lastStamp, entries, order>>
      /\ \/ entries[e].state \in {"built", "stamped"} /\ reqs' = Apps!Serve(r, e)
         \/ entries[e].state = "failed" /\ reqs' = [reqs EXCEPT ![r] = Apps!Idle]
  BY DEF Apps!Built
<1>2. e \in Entries /\ entries[e] # None /\ RequestFits(r)
  BY <1>1 DEF AppInv, AppTypes, Requested, RequestFits
<1>3. \E q \in Requested : reqs' = [reqs EXCEPT ![r] = q] /\ RequestFits(r)'
  <2>1. CASE entries[e].state \in {"built", "stamped"} /\ reqs' = Apps!Serve(r, e)
    <3>1. AsNew(entries[e].graph, reqs[r].began)
      BY <1>1, <1>2 DEF RequestFits
    <3>2. QED  BY <1>1, <1>2, <2>1, <3>1, AnswerOf
  <2>2. CASE reqs' = [reqs EXCEPT ![r] = Apps!Idle]
    <3>1. reqs'[r] = Apps!Idle
      BY <2>2 DEF AppInv, AppTypes
    <3>2. RequestFits(r)'
      BY <3>1, AppIdle DEF RequestFits
    <3>3. QED  BY <2>2, <3>2, AppIdle
  <2>3. QED  BY <1>1, <2>1, <2>2
<1>4. CacheFits' /\ order' \in Seq(Entries)
  BY <1>1 DEF AppInv, AppTypes, CacheFits
<1>5. QED  BY <1>1, <1>3, <1>4, OneRequest

(* The stamps are compared: an entry whose packages are as they were is used, and becomes the last. *)
LEMMA CompareStep == ASSUME Apps!AppConstants, AppInv, NEW r \in Execs, Apps!CompareStamps(r) PROVE AppInv'
<1> DEFINE e == reqs[r].entry
           g == entries[e]
<1>1. reqs[r].pc = "stamps" /\ UNCHANGED <<stamp, lastStamp>>
  BY DEF Apps!CompareStamps
<1>2. CASE Apps!StartBuild(r)
  BY <1>1, <1>2, BuildStep
<1>3. CASE /\ Apps!stampsMatch(entries[e].stamps, stamp) /\ e \in Apps!ToSet(order)
           /\ order' = Append(Apps!Without(e), e)
           /\ reqs' = Apps!Serve(r, e)
           /\ UNCHANGED entries
  <2>1. /\ e \in Entries /\ g # None /\ g \in Apps!Graphs /\ g.state = "stamped" /\ RequestFits(r) /\ EntryFits(e)
        /\ stamp \in [Apps!Read -> 0 .. MaxStamp]
    BY <1>1 DEF AppInv, AppTypes, Requested, RequestFits
  <2>2. g.disturbed \/ AsNew(g.graph, reqs[r].began)
    <3>1. SUFFICES ASSUME ~g.disturbed, NEW i \in 1 .. Len(g.graph), ~(g.graph[i] = 0 /\ Apps!Order[i] \in Lazy)
                   PROVE reqs[r].began[Apps!Order[i]] <= g.graph[i]
      BY DEF AsNew
    <3> DEFINE p == Apps!Order[i]
    <3>2. Len(g.graph) = Len(Apps!Order) /\ g.graph[i] # 0 /\ g.graph[i] = g.stamps[p]
      BY <2>1, <3>1 DEF EntryFits
    <3>3. p \in Apps!Read
      BY <3>2, OrderIsSeq
    <3>4. g.stamps[p] = stamp[p]
      BY <1>3, <3>2, <3>3 DEF Apps!stampsMatch
    <3>5. stamp[p] # 0 => reqs[r].began[p] <= stamp[p]
      BY <1>1, <2>1, <3>3 DEF RequestFits, Since
    <3>6. QED  BY <3>2, <3>4, <3>5
  <2>3. \E q \in Requested : reqs' = [reqs EXCEPT ![r] = q] /\ RequestFits(r)'
    BY <1>1, <1>3, <2>1, <2>2, AnswerOf
  <2>4. CacheFits' /\ order' \in Seq(Entries)
    <3> DEFINE s == Apps!Without(e)
    <3>1. order \in Seq(Entries) /\ CacheFits /\ CacheLimit \in Nat /\ Distinct(order)
      BY CacheDistinct DEF AppInv, AppTypes, Apps!AppConstants
    <3>2. /\ s \in Seq(Entries) /\ PartOf(s, order) /\ Len(s) \in Nat /\ Len(order) \in Nat
          /\ \A i \in 1 .. Len(s) : s[i] # e
          /\ Len(s) = Len(order) - 1
      BY <1>3, <3>1, WithoutOne
    <3> DEFINE t == Append(s, e)
    <3>3. order' = t
      BY <1>3
    <3> HIDE DEF s
    <3>4. t \in Seq(Entries) /\ Len(t) = Len(order) /\ \A i \in 1 .. Len(t) : IF i = Len(t) THEN t[i] = e ELSE i \in 1 .. Len(s) /\ t[i] = s[i]
      BY <2>1, <3>2
    <3> HIDE DEF t
    <3>5. PartOf(t, order)
      <4>1. PICK m \in 1 .. Len(order) : order[m] = e
        BY <1>3, <3>1 DEF Apps!ToSet
      <4>2. \A i \in 1 .. Len(t) : \E j \in 1 .. Len(order) : t[i] = order[j]
        BY <3>2, <3>4, <4>1 DEF PartOf
      <4>3. Distinct(t)
        BY <3>2, <3>4 DEF PartOf, Distinct
      <4>4. QED  BY <4>2, <4>3 DEF PartOf
    <3>6. Len(t) <= Len(order)
      BY <3>2, <3>4
    <3>7. /\ Len(t) <= CacheLimit
          /\ \A i \in 1 .. Len(t) : entries[t[i]] # None /\ entries[t[i]].state # "failed"
          /\ \A i, j \in 1 .. Len(t) : entries[t[i]].key = entries[t[j]].key => i = j
      BY <3>1, <3>4, <3>5, <3>6, PartFits
    <3>8. entries' = entries
      BY <1>3
    <3>9. QED  BY <3>3, <3>4, <3>7, <3>8 DEF CacheFits
  <2>5. QED  BY <1>1, <1>3, <2>3, <2>4, OneRequest
<1>4. QED  BY <1>1, <1>2, <1>3 DEF Apps!CompareStamps

(* The isolate has answered. *)
LEMMA DoneStep == ASSUME Apps!AppConstants, AppInv, NEW r \in Execs, Apps!Done(r) PROVE AppInv'
<1>1. reqs' = [reqs EXCEPT ![r] = Apps!Idle] /\ UNCHANGED <<stamp, lastStamp, entries, order>>
  BY DEF Apps!Done
<1>2. reqs'[r] = Apps!Idle
  BY <1>1 DEF AppInv, AppTypes
<1>3. RequestFits(r)'
  BY <1>2, AppIdle DEF RequestFits
<1>4. CacheFits' /\ order' \in Seq(Entries)
  BY <1>1 DEF AppInv, AppTypes, CacheFits
<1>5. QED  BY <1>1, <1>3, <1>4, AppIdle, OneRequest

(* A step of one entry. *)
LEMMA OneEntry ==
    ASSUME Apps!AppConstants, AppInv, NEW e \in Entries, NEW g \in Apps!Graphs \cup {None},
           entries' = [entries EXCEPT ![e] = g], UNCHANGED <<stamp, lastStamp, reqs>>,
           order' \in Seq(Entries), PartOf(order', order), Len(order') <= Len(order),
           (g # None /\ g.state # "failed" /\ g.key = entries[e].key) \/ \A i \in 1 .. Len(order') : order'[i] # e,
           EntryFits(e)',
           g = None => \A r \in Execs : reqs[r].entry # e,
           entries[e].state # "stamped" \/ g = None,
           g # None => \/ g.graph = entries[e].graph
                       \/ \A r \in Execs : reqs[r].pc = "build" /\ reqs[r].entry = e => AsNew(g.graph, reqs[r].began)
    PROVE  AppInv'
<1>1. /\ entries' \in [Entries -> Apps!Graphs \cup {None}] /\ entries'[e] = g
      /\ \A f \in Entries \ {e} : entries'[f] = entries[f]
  BY DEF AppInv, AppTypes
<1>2. AppTypes'
  BY <1>1 DEF AppInv, AppTypes
<1>3. \A f \in Entries : EntryFits(f)'
  BY <1>1 DEF AppInv, EntryFits
<1>4. CacheFits'
  <2> DEFINE s == order'
  <2>1. order \in Seq(Entries) /\ CacheFits /\ CacheLimit \in Nat
    BY DEF AppInv, AppTypes, Apps!AppConstants
  <2>2. s \in Seq(Entries) /\ PartOf(s, order) /\ Len(s) <= Len(order)
    OBVIOUS
  <2> HIDE DEF s
  <2>3. /\ Len(s) <= CacheLimit
        /\ \A i \in 1 .. Len(s) : entries[s[i]] # None /\ entries[s[i]].state # "failed"
        /\ \A i, j \in 1 .. Len(s) : entries[s[i]].key = entries[s[j]].key => i = j
    BY <2>1, <2>2, PartFits
  <2>4. \A i \in 1 .. Len(s) : s[i] \in Entries /\ (s[i] = e => g # None /\ g.state # "failed" /\ g.key = entries[e].key)
    BY <2>2 DEF s
  <2>5. \A i \in 1 .. Len(s) : entries'[s[i]] # None /\ entries'[s[i]].state # "failed" /\ entries'[s[i]].key = entries[s[i]].key
    BY <1>1, <2>3, <2>4
  <2>6. QED  BY <2>3, <2>5 DEF CacheFits, s
<1>5. ASSUME NEW r \in Execs PROVE RequestFits(r)'
  <2>1. reqs[r].entry # None => reqs[r].entry \in Entries /\ entries[reqs[r].entry] # None
    BY DEF AppInv, AppTypes, Requested, RequestFits
  <2>2. LET f == reqs[r].entry
        IN  f # None => /\ entries'[f] # None
                        /\ entries[f].state = "stamped" => entries'[f].state = "stamped"
                        /\ \/ entries'[f].graph = entries[f].graph
                           \/ reqs[r].pc = "build" => AsNew(entries'[f].graph, reqs[r].began)
    <3>1. CASE reqs[r].entry = e
      BY <1>1, <2>1, <3>1
    <3>2. CASE reqs[r].entry # e
      BY <1>1, <2>1, <3>2
    <3>3. QED  BY <3>1, <3>2
  <2>3. /\ lastStamp' \in Nat /\ stamp' \in [Apps!Read -> Nat] /\ reqs'[r] = reqs[r] /\ lastStamp <= lastStamp'
        /\ \A x \in Apps!Read : stamp'[x] # 0 => (stamp[x] # 0 /\ stamp[x] <= stamp'[x]) \/ lastStamp <= stamp'[x]
    BY DEF AppInv, AppTypes, Apps!AppConstants
  <2>4. QED  BY <2>2, <2>3, OtherRequest
<1>6. QED  BY <1>2, <1>3, <1>4, <1>5 DEF AppInv

(* buildModuleGraph reads the next package, as it is saved now; a build that finds none leaves a stub for it, or fails
   and leaves the cache. *)
LEMMA ReadStep == ASSUME Apps!AppConstants, AppInv, NEW e \in Entries, Apps!ReadPackage(e) PROVE AppInv'
<1> DEFINE n == Len(entries[e].graph) + 1
           p == Apps!Order[n]
           graph == Append(entries[e].graph, stamp[p])
<1>1. entries[e] # None /\ entries[e].state = "reading" /\ UNCHANGED <<stamp, lastStamp, reqs>>
  BY DEF Apps!ReadPackage
<1>2. /\ entries[e] \in Apps!Graphs /\ EntryFits(e) /\ order \in Seq(Entries) /\ stamp \in [Apps!Read -> 0 .. MaxStamp]
      /\ Distinct(order) /\ Len(order) \in Nat /\ entries \in [Entries -> Apps!Graphs \cup {None}]
  BY <1>1, CacheDistinct DEF AppInv, AppTypes
<1>3. Len(entries[e].graph) \in Nat /\ Len(entries[e].graph) < Len(Apps!Order) /\ entries[e].graph \in Seq(Nat)
  BY <1>1, <1>2 DEF EntryFits, Apps!Graphs
<1>4. n \in 1 .. Len(Apps!Order) /\ p \in Apps!Read /\ Len(Apps!Order) \in Nat
  BY <1>3, OrderIsSeq
<1>5. stamp[p] \in Nat
  BY <1>2, <1>4 DEF Apps!AppConstants
<1>6. CASE stamp[p] = 0 /\ p \notin Lazy
  <2> DEFINE g == [entries[e] EXCEPT !.state = "failed"]
  <2>1. entries' = [entries EXCEPT ![e] = g] /\ order' = Apps!Without(e)
    BY <1>1, <1>2, <1>6 DEF Apps!ReadPackage
  <2>2. /\ g \in Apps!Graphs /\ g.state = "failed" /\ g.graph = entries[e].graph /\ g # None
    <3>1. g \in Apps!Graphs /\ g.state = "failed" /\ g.graph = entries[e].graph
      BY <1>2 DEF Apps!Graphs
    <3>2. QED  BY <3>1 DEF Apps!AppConstants
  <2> HIDE DEF g
  <2>3. /\ order' \in Seq(Entries) /\ PartOf(order', order) /\ Len(order') <= Len(order)
        /\ \A i \in 1 .. Len(order') : order'[i] # e
    BY <1>2, <2>1, WithoutOne
  <2>4. EntryFits(e)'
    <3>1. entries'[e] = g
      BY <1>2, <2>1
    <3>2. QED  BY <1>1, <1>2, <1>3, <2>2, <3>1 DEF EntryFits
  <2>5. QED  BY <1>1, <2>1, <2>2, <2>3, <2>4, OneEntry
<1>7. CASE stamp[p] # 0 \/ p \in Lazy
  <2> DEFINE s == IF Len(graph) = Len(Apps!Order) THEN "built" ELSE "reading"
             g == [entries[e] EXCEPT !.graph = graph, !.state = s]
  <2>1. entries' = [entries EXCEPT ![e] = g] /\ order' = order
    BY <1>1, <1>2, <1>7 DEF Apps!ReadPackage
  <2>2. /\ graph \in Seq(Nat) /\ Len(graph) = n
        /\ \A i \in 1 .. n : graph[i] = IF i = n THEN stamp[p] ELSE entries[e].graph[i]
    BY <1>3, <1>5
  <2> HIDE DEF graph
  <2>3. /\ g \in Apps!Graphs /\ g.state = s /\ g.graph = graph /\ g # None /\ g.key = entries[e].key
        /\ g.disturbed = entries[e].disturbed
    <3>1. g \in Apps!Graphs /\ g.state = s /\ g.graph = graph /\ g.key = entries[e].key /\ g.disturbed = entries[e].disturbed
      BY <1>2, <2>2 DEF Apps!Graphs
    <3>2. QED  BY <3>1 DEF Apps!AppConstants
  <2> HIDE DEF g
  <2>4. order' \in Seq(Entries) /\ PartOf(order', order) /\ Len(order') <= Len(order)
    BY <1>2, <2>1 DEF PartOf
  <2>5. EntryFits(e)'
    <3>1. entries'[e] = g /\ UNCHANGED stamp
      BY <1>1, <1>2, <2>1
    <3>2. ASSUME NEW i \in 1 .. n
          PROVE  (graph[i] = 0 => Apps!Order[i] \in Lazy) /\ (~g.disturbed => graph[i] = stamp[Apps!Order[i]])
      <4>1. CASE i = n
        BY <1>7, <2>2, <4>1
      <4>2. CASE i # n
        <5>1. i \in 1 .. Len(entries[e].graph)
          BY <1>3, <4>2
        <5>2. graph[i] = entries[e].graph[i]
          BY <2>2, <4>2
        <5> HIDE DEF n
        <5>3. /\ entries[e].graph[i] = 0 => Apps!Order[i] \in Lazy
              /\ ~entries[e].disturbed => entries[e].graph[i] = stamp[Apps!Order[i]]
          BY <1>1, <1>2, <5>1 DEF EntryFits
        <5>4. QED  BY <2>3, <5>2, <5>3
      <4>3. QED  BY <4>1, <4>2
    <3>3. IF s = "built" THEN n = Len(Apps!Order) ELSE n < Len(Apps!Order)
      BY <1>3, <1>4, <2>2
    <3> HIDE DEF n
    <3>4. QED  BY <2>2, <2>3, <3>1, <3>2, <3>3 DEF EntryFits
  <2>6. ASSUME NEW r \in Execs, reqs[r].pc = "build", reqs[r].entry = e PROVE AsNew(g.graph, reqs[r].began)
    <3>1. RequestFits(r)
      BY DEF AppInv
    <3>2. AsNew(entries[e].graph, reqs[r].began)
      BY <2>6, <3>1 DEF RequestFits
    <3>3. (stamp[p] = 0 /\ p \in Lazy) \/ reqs[r].began[p] <= stamp[p]
      BY <1>4, <1>7, <2>6, <3>1 DEF RequestFits, Since
    <3>4. \A i \in 1 .. n : (graph[i] = 0 /\ Apps!Order[i] \in Lazy) \/ reqs[r].began[Apps!Order[i]] <= graph[i]
      <4>1. SUFFICES ASSUME NEW i \in 1 .. n
                     PROVE  (graph[i] = 0 /\ Apps!Order[i] \in Lazy) \/ reqs[r].began[Apps!Order[i]] <= graph[i]
        OBVIOUS
      <4>2. CASE i = n
        BY <2>2, <3>3, <4>2
      <4>3. CASE i # n
        <5>1. i \in 1 .. Len(entries[e].graph) /\ graph[i] = entries[e].graph[i]
          BY <1>3, <2>2, <4>3
        <5>2. \/ entries[e].graph[i] = 0 /\ Apps!Order[i] \in Lazy
              \/ reqs[r].began[Apps!Order[i]] <= entries[e].graph[i]
          BY <3>2, <5>1 DEF AsNew
        <5>3. QED  BY <5>1, <5>2
      <4>4. QED  BY <4>2, <4>3
    <3>5. QED  BY <2>2, <2>3, <3>4 DEF AsNew
  <2>7. g.state # "failed"
    BY <2>3
  <2>8. QED  BY <1>1, <2>1, <2>3, <2>4, <2>5, <2>6, <2>7, OneEntry
<1>8. QED  BY <1>6, <1>7

(* The stamps are read once the graph is built. *)
LEMMA StampStep == ASSUME Apps!AppConstants, AppInv, NEW e \in Entries, Apps!ReadStamps(e) PROVE AppInv'
<1> DEFINE kept == [p \in Apps!Read |-> IF p \in Apps!Packages(entries[e].graph) THEN stamp[p] ELSE 0]
           g == [entries[e] EXCEPT !.state = "stamped", !.stamps = kept]
<1>1. entries[e] # None /\ entries[e].state = "built" /\ UNCHANGED <<stamp, lastStamp, reqs, order>>
  BY DEF Apps!ReadStamps
<1>2. /\ entries[e] \in Apps!Graphs /\ EntryFits(e) /\ order \in Seq(Entries) /\ stamp \in Apps!Stamps
      /\ Distinct(order) /\ Len(order) \in Nat /\ entries \in [Entries -> Apps!Graphs \cup {None}]
  BY <1>1, CacheDistinct DEF AppInv, AppTypes, Apps!Stamps, Apps!AppConstants
<1>3. entries' = [entries EXCEPT ![e] = g]
  BY <1>2 DEF Apps!ReadStamps
<1>a. kept \in Apps!Stamps
  BY <1>2 DEF Apps!Stamps
<1>b. ASSUME NEW i \in 1 .. Len(entries[e].graph), entries[e].graph[i] # 0 PROVE kept[Apps!Order[i]] = stamp[Apps!Order[i]]
  <2>1. i \in DOMAIN Apps!Order /\ Apps!Order[i] \in Apps!Read
    BY <1>1, <1>2, OrderIsSeq DEF EntryFits
  <2>2. Apps!Order[i] \in Apps!Packages(entries[e].graph)
    BY <1>b, <2>1 DEF Apps!Packages
  <2>3. QED  BY <2>1, <2>2
<1> HIDE DEF kept
<1>4. /\ g \in Apps!Graphs /\ g.state = "stamped" /\ g.graph = entries[e].graph /\ g # None /\ g.key = entries[e].key
      /\ g.stamps = kept /\ g.disturbed = entries[e].disturbed
  <2>1. /\ g \in Apps!Graphs /\ g.state = "stamped" /\ g.graph = entries[e].graph /\ g.key = entries[e].key
        /\ g.stamps = kept /\ g.disturbed = entries[e].disturbed
    BY <1>2, <1>a DEF Apps!Graphs
  <2>2. QED  BY <2>1 DEF Apps!AppConstants
<1> HIDE DEF g
<1>5. EntryFits(e)'
  <2>1. entries'[e] = g
    BY <1>2, <1>3
  <2>2. QED  BY <1>1, <1>2, <1>a, <1>b, <1>4, <2>1 DEF EntryFits
<1>6. order' \in Seq(Entries) /\ PartOf(order', order) /\ Len(order') <= Len(order)
  BY <1>1, <1>2 DEF PartOf
<1>7. g.state # "failed" /\ entries[e].state # "stamped"
  BY <1>1, <1>4
<1>8. QED  BY <1>1, <1>3, <1>4, <1>5, <1>6, <1>7, OneEntry

(* An entry nobody refers to goes. *)
LEMMA CollectStep == ASSUME Apps!AppConstants, AppInv, NEW e \in Entries, Apps!Collect(e) PROVE AppInv'
<1>1. entries' = [entries EXCEPT ![e] = None] /\ UNCHANGED <<stamp, lastStamp, reqs, order>>
      /\ e \notin Apps!ToSet(order) /\ \A r \in Execs : reqs[r].entry # e
  BY DEF Apps!Collect
<1>2. order \in Seq(Entries) /\ Distinct(order) /\ Len(order) \in Nat /\ entries \in [Entries -> Apps!Graphs \cup {None}]
  BY CacheDistinct DEF AppInv, AppTypes
<1>3. order' \in Seq(Entries) /\ PartOf(order', order) /\ Len(order') <= Len(order) /\ \A i \in 1 .. Len(order') : order'[i] # e
  BY <1>1, <1>2 DEF PartOf, Apps!ToSet
<1>4. EntryFits(e)'
  BY <1>1, <1>2 DEF EntryFits
<1>5. QED  BY <1>1, <1>3, <1>4, OneEntry

(* Every step keeps the invariant. *)
LEMMA AppStep == ASSUME Apps!AppConstants, AppInv, [Apps!Next]_Apps!vars PROVE AppInv'
<1>1. CASE UNCHANGED Apps!vars
  BY <1>1 DEF Apps!vars, AppInv, AppTypes, CacheFits, EntryFits, RequestFits, Since, AsNew
<1>2. CASE Apps!Next
  BY <1>2, DisturbStep, ServeStep, LookupStep, BuiltStep, AwaitStep, CompareStep, DoneStep, ReadStep, StampStep, CollectStep DEF Apps!Next
<1>3. QED  BY <1>1, <1>2

(* What an answer is made of is never older than the request, unless a package was saved while it was built or is a stub. *)
LEMMA AppServes == ASSUME Apps!AppConstants, AppInv PROVE ServedIsCurrent
<1>1. DOMAIN Apps!Order = 1 .. Len(Apps!Order) /\ Len(Apps!Order) \in Nat /\ \A i \in 1 .. Len(Apps!Order) : Apps!Order[i] \in Apps!Read
  BY OrderIsSeq
<1>2. Apps!TypeOK
  <2>1. \A e \in Apps!ToSet(order) : entries[e] # None /\ entries[e].state # "failed"
    BY DEF AppInv, AppTypes, CacheFits, Apps!ToSet
  <2>2. DOMAIN order = 1 .. Len(order)
    BY DEF AppInv, AppTypes
  <2>3. \A i, j \in DOMAIN order : entries[order[i]].key = entries[order[j]].key => i = j
    BY <2>2 DEF AppInv, CacheFits
  <2>4. \A r \in Execs : reqs[r].pc \in {"idle", "lookup", "wait", "stamps", "build", "served"}
    BY DEF AppInv, AppTypes, Requested
  <2>5. QED  BY <2>1, <2>3, <2>4 DEF Apps!TypeOK, AppInv, AppTypes, CacheFits
<1>3. ASSUME NEW r \in Execs, reqs[r].pc = "served", ~reqs[r].served.disturbed, NEW i \in 1 .. Len(Apps!Order)
      PROVE  \/ reqs[r].served.graph[i] = 0 /\ Apps!Order[i] \in Lazy
             \/ reqs[r].served.graph[i] >= reqs[r].began[Apps!Order[i]]
  <2>1. RequestFits(r)
    BY DEF AppInv
  <2>2. Len(reqs[r].served.graph) = Len(Apps!Order) /\ AsNew(reqs[r].served.graph, reqs[r].began) /\ reqs[r].began \in Apps!Stamps
    BY <1>3, <2>1 DEF RequestFits
  <2>3. \/ reqs[r].served.graph[i] = 0 /\ Apps!Order[i] \in Lazy
        \/ reqs[r].began[Apps!Order[i]] <= reqs[r].served.graph[i]
    BY <2>2 DEF AsNew
  <2>4. QED  BY <2>3
<1>4. QED  BY <1>1, <1>2, <1>3 DEF ServedIsCurrent, Apps!ServedIsCurrent

(* A request is served by packages no older than the ones saved when it came, unless one was saved during the build, or
   was missing then and is imported only by files the entry loads dynamically (apps/serve.ts cachedGraph). *)
THEOREM AppsAreCurrent == ASSUME Apps!AppConstants PROVE Apps!Spec => []ServedIsCurrent
<1>1. Apps!Init => AppInv
  BY AppInit
<1>2. AppInv /\ [Apps!Next]_Apps!vars => AppInv'
  BY AppStep
<1>3. AppInv => ServedIsCurrent
  BY AppServes
<1>4. QED  BY <1>1, <1>2, <1>3, PTL DEF Apps!Spec

(* --------------------------------------------------------- ModuleGraph *)

(* What a graph may name: the module that throws, and the modules of the included packages that are no provider's entry. *)
Linkable == {Graph!Stub} \cup {m \in Graph!Modules : m[1] \in included /\ m # provider[m[1]]}

(* What the entry may load. *)
Loadable == {entry, Graph!Stub} \cup {m \in Graph!Modules : m[1] \in included}

FrameRows == [todo : Seq(Graph!Modules), left : Seq(Graph!Modules), to : SUBSET (Graph!Modules \cup {Graph!Stub})]

GraphTypes ==
    /\ imports \in [Graph!Modules -> Seq(Graph!Modules)] /\ entry \in Graph!Modules /\ present \subseteq Names
    /\ provider \in [Names -> Graph!Modules \cup {None}] /\ \A p \in Names : provider[p] = None \/ provider[p][1] = p
    /\ included \subseteq present /\ sealedOff = {provider[p] : p \in included} \ {None}
    /\ stack \in Seq(FrameRows)
    /\ links \in [Graph!Modules -> SUBSET (Graph!Modules \cup {Graph!Stub})]
    /\ broken \subseteq Graph!Modules
    /\ phase \in {"building", "built", "failed"}

(* A frame has a file to do; no target is lost while its imports are rewritten. *)
FrameFits(f) ==
    /\ Len(f.todo) > 0
    /\ f.to \subseteq Linkable
    /\ f.to = {} => f.left = imports[f.todo[1]]

(* A file is done when it is published, or replaced by one that throws. *)
FileDone(m) == m \in broken \/ imports[m] = <<>> \/ links[m] # {}
Awaited(m, st) == \E i \in 1 .. Len(st) : \E j \in 1 .. Len(st[i].todo) : st[i].todo[j] = m

GraphInv ==
    /\ GraphTypes
    /\ \A i \in 1 .. Len(stack) : FrameFits(stack[i])
    /\ Len(stack) <= Cardinality(included)
    /\ \A m \in Graph!Modules : links[m] \subseteq Linkable
    /\ included # {} => entry[1] \in included
    /\ \A m \in Graph!Modules : m[1] \in included => FileDone(m) \/ Awaited(m, stack)
    /\ phase # "building" => stack = <<>>
    /\ phase = "built" => /\ included # {} /\ Graph!Reachable \cap broken = {}
                          /\ entry \in sealedOff => sealed

(* Module FiniteSets is the same in an instance. *)
LEMMA SameCardinality == \A S : Graph!Cardinality(S) = Cardinality(S)
  BY DEF Graph!Cardinality, Cardinality

(* The graph module takes finite sets through its own copy of FiniteSets. *)
LEMMA SameFinite == \A S : Graph!IsFiniteSet(S) <=> IsFiniteSet(S)
  BY DEF Graph!IsFiniteSet, IsFiniteSet

(* The files of a package, in some order. *)
LEMMA FilesInOrder ==
    ASSUME Graph!GraphConstants, NEW p \in Names
    PROVE  /\ Graph!SetToSeq(Graph!FilesOf(p)) \in Seq(Graph!Modules)
           /\ Len(Graph!SetToSeq(Graph!FilesOf(p))) > 0
           /\ \A m \in Graph!FilesOf(p) : \E j \in 1 .. Len(Graph!SetToSeq(Graph!FilesOf(p))) : Graph!SetToSeq(Graph!FilesOf(p))[j] = m
<1> DEFINE S == Graph!FilesOf(p)
           n == Cardinality(S)
           f == Graph!SetToSeq(S)
<1>1. IsFiniteSet(Graph!Modules)
  BY SameFinite, FS_Product DEF Graph!GraphConstants, Graph!Modules
<1>2. IsFiniteSet(S) /\ S \subseteq Graph!Modules
  BY <1>1, FS_Subset DEF Graph!FilesOf
<1>3. n \in Nat /\ ExistsBijection(1 .. n, S)
  BY <1>2, FS_CardinalityType
<1>4. S # {}
  <2>1. PICK k \in FileNames : TRUE
    BY DEF Graph!GraphConstants
  <2>2. <<p, k>> \in S
    BY <2>1 DEF Graph!FilesOf, Graph!Modules, Graph!PackageOf
  <2>3. QED  BY <2>2
<1>5. f \in [1 .. n -> S] /\ \A i, j \in 1 .. n : f[i] = f[j] => i = j
  <2> DEFINE Orders == {g \in [1 .. n -> S] : Graph!IsInjective(g)}
  <2>1. \E g \in [1 .. n -> S] : Graph!IsInjective(g)
    BY <1>3 DEF ExistsBijection, Bijection, Injection, IsInjective, Graph!IsInjective
  <2>2. f = CHOOSE g \in [1 .. n -> S] : Graph!IsInjective(g)
    BY SameCardinality DEF Graph!SetToSeq
  <2> HIDE DEF f
  <2>3. f \in [1 .. n -> S] /\ Graph!IsInjective(f)
    BY <2>1, <2>2
  <2>4. QED  BY <2>3 DEF Graph!IsInjective
<1> HIDE DEF f
<1>6. f \in Injection(1 .. n, S)
  BY <1>5 DEF Injection, IsInjective
<1>7. Cardinality(1 .. n) = n
  BY <1>3, FS_Interval
<1>8. f \in Surjection(1 .. n, S)
  BY <1>2, <1>6, <1>7, FS_Injection
<1>9. \A m \in S : \E j \in 1 .. n : f[j] = m
  BY <1>8 DEF Surjection
<1>10. f \in Seq(Graph!Modules) /\ Len(f) = n
  BY <1>2, <1>3, <1>5
<1>11. n > 0
  BY <1>2, <1>3, <1>4, FS_EmptySet
<1>12. QED  BY <1>9, <1>10, <1>11 DEF f

(* One of the modules each step of the search reaches. *)
Search(g, n) == g = [k \in 0 .. n |-> IF k = 0 THEN {entry} ELSE Graph!Reached(g[k - 1])]

(* A set of numbers has a least one. *)
LEMMA LeastNumber == ASSUME NEW S \in SUBSET Nat, S # {} PROVE \E n \in S : \A m \in S : n <= m
<1>1. PICK n \in S : \A m \in S : ~(<<m, n>> \in OpToRel(<, Nat))
  BY NatLessThanWellFounded, WFMin
<1>2. \A m \in S : ~(m < n)
  BY <1>1 DEF OpToRel
<1>3. \A m \in S : n <= m
  BY <1>2
<1>4. QED  BY <1>3

(* The search exists, however many steps it takes: there is no least number of steps without one. *)
LEMMA SearchExists == \A n \in Nat : \E g : Search(g, n)
<1> DEFINE Bad == {n \in Nat : ~\E g : Search(g, n)}
<1>1. 0 \notin Bad
  <2>1. Search([k \in 0 .. 0 |-> {entry}], 0)
    BY DEF Search
  <2>2. QED  BY <2>1
<1>2. ASSUME NEW n \in Nat, n # 0, NEW g, Search(g, n - 1) PROVE \E h : Search(h, n)
  <2> DEFINE h == [k \in 0 .. n |-> IF k = 0 THEN {entry} ELSE Graph!Reached(g[k - 1])]
  <2>1. \A k \in 0 .. (n - 1) : g[k] = IF k = 0 THEN {entry} ELSE Graph!Reached(g[k - 1])
    BY <1>2 DEF Search
  <2>2. \A k \in 0 .. n : k # 0 => k - 1 \in 0 .. (n - 1)
    BY <1>2
  <2>3. \A k \in 0 .. (n - 1) : k \in 0 .. n /\ h[k] = g[k]
    <3>1. \A k \in 0 .. (n - 1) : k \in 0 .. n
      BY <1>2
    <3>2. QED  BY <2>1, <3>1
  <2>4. \A k \in 0 .. n : k # 0 => h[k - 1] = g[k - 1]
    BY <2>2, <2>3
  <2>5. Search(h, n)
    BY <2>4 DEF Search
  <2>6. QED  BY <2>5
<1>3. Bad = {}
  <2>1. SUFFICES ASSUME Bad # {} PROVE FALSE
    OBVIOUS
  <2>2. PICK n \in Bad : \A m \in Bad : n <= m
    BY <2>1, LeastNumber
  <2>3. n # 0 /\ n - 1 \in Nat /\ n - 1 \notin Bad
    BY <1>1, <2>2
  <2>4. QED  BY <1>2, <2>2, <2>3
<1>4. QED  BY <1>3

(* What the entry loads is its own file and what the files of the included packages name. *)
LEMMA LoadsLoadable ==
    ASSUME Graph!GraphConstants, GraphInv, included # {} PROVE Graph!Reachable \subseteq Loadable
<1> DEFINE N == Cardinality(Graph!Modules)
           from == CHOOSE g : g = [n \in 0 .. N |-> IF n = 0 THEN {entry} ELSE Graph!Reached(g[n - 1])]
<1>1. N \in Nat
  BY SameFinite, FS_Product, FS_CardinalityType DEF Graph!GraphConstants, Graph!Modules
<1>2. Graph!Reachable = from[N]
  BY SameCardinality DEF Graph!Reachable
<1>3. Search(from, N)
  BY <1>1, SearchExists DEF Search
<1> HIDE DEF from
<1>4. entry \in Loadable /\ \A ms : ms \subseteq Loadable => Graph!Reached(ms) \subseteq Loadable
  BY DEF GraphInv, GraphTypes, Loadable, Linkable, Graph!Reached
<1> DEFINE Bad == {n \in 0 .. N : ~(from[n] \subseteq Loadable)}
<1>5. Bad = {}
  <2>1. SUFFICES ASSUME Bad # {} PROVE FALSE
    OBVIOUS
  <2>2. PICK n \in Bad : \A m \in Bad : n <= m
    <3>1. Bad \in SUBSET Nat
      BY <1>1
    <3> HIDE DEF Bad
    <3>2. QED  BY <2>1, <3>1, LeastNumber
  <2>3. from[n] = IF n = 0 THEN {entry} ELSE Graph!Reached(from[n - 1])
    BY <1>3, <2>2 DEF Search
  <2>4. n # 0
    BY <1>4, <2>2, <2>3
  <2>5. n - 1 \in 0 .. N /\ n - 1 \notin Bad
    BY <1>1, <2>2, <2>4
  <2>6. QED  BY <1>4, <2>2, <2>3, <2>4, <2>5
<1>6. QED  BY <1>1, <1>2, <1>5

(* A sequence without its first element, and without its last. *)
LEMMA TailIs ==
    ASSUME NEW T, NEW q \in Seq(T), Len(q) > 0
    PROVE  /\ Tail(q) \in Seq(T) /\ Len(Tail(q)) = Len(q) - 1
           /\ \A j \in 1 .. (Len(q) - 1) : Tail(q)[j] = q[j + 1]
<1>1. Tail(q) \in Seq(T) /\ Len(Tail(q)) = Len(q) - 1
  OBVIOUS
<1>2. \A j \in 1 .. (Len(q) - 1) : Tail(q)[j] = q[j + 1]
  OBVIOUS
<1>3. QED  BY <1>1, <1>2

(* What the stack is without its top. *)
LEMMA FrontIs ==
    ASSUME NEW T, NEW q \in Seq(T), Len(q) > 0
    PROVE  /\ SubSeq(q, 1, Len(q) - 1) \in Seq(T) /\ Len(SubSeq(q, 1, Len(q) - 1)) = Len(q) - 1
           /\ \A j \in 1 .. (Len(q) - 1) : SubSeq(q, 1, Len(q) - 1)[j] = q[j]
<1>1. Len(q) \in Nat /\ Len(q) - 1 \in Nat
  OBVIOUS
<1>2. \A j \in 1 .. (Len(q) - 1) : q[j] \in T
  BY <1>1
<1>3. PICK n \in Nat : n = Len(q) - 1
  BY <1>1
<1>4. /\ SubSeq(q, 1, n) \in Seq(T) /\ Len(SubSeq(q, 1, n)) = IF 1 <= n THEN n - 1 + 1 ELSE 0
      /\ \A i \in 1 .. (n - 1 + 1) : SubSeq(q, 1, n)[i] = q[1 + i - 1]
  BY <1>2, <1>3, SubSeqProperties
<1>5. Len(SubSeq(q, 1, n)) = n /\ \A i \in 1 .. n : SubSeq(q, 1, n)[i] = q[i]
  BY <1>4
<1>6. QED  BY <1>3, <1>4, <1>5

(* The innermost frame, and those around it. *)
LEMMA TopFrame ==
    ASSUME GraphInv, stack # <<>>
    PROVE  /\ Len(stack) \in Nat /\ Len(stack) > 0
           /\ Graph!Top = stack[Len(stack)] /\ Graph!Top \in FrameRows /\ FrameFits(Graph!Top)
           /\ Graph!Current = Graph!Top.todo[1] /\ Graph!Current \in Graph!Modules
           /\ Graph!Front(stack) \in Seq(FrameRows) /\ Len(Graph!Front(stack)) = Len(stack) - 1
           /\ \A i \in 1 .. (Len(stack) - 1) : Graph!Front(stack)[i] = stack[i]
<1>1. stack \in Seq(FrameRows) /\ \A i \in 1 .. Len(stack) : FrameFits(stack[i])
  BY DEF GraphInv, GraphTypes
<1>2. Len(stack) \in Nat /\ Len(stack) > 0
  BY <1>1
<1>3. Graph!Top = stack[Len(stack)]
  BY DEF Graph!Top, Graph!Last
<1>4. Graph!Top \in FrameRows /\ FrameFits(Graph!Top)
  BY <1>1, <1>2, <1>3
<1>5. Graph!Top.todo \in Seq(Graph!Modules) /\ Len(Graph!Top.todo) > 0
  BY <1>4 DEF FrameRows, FrameFits
<1>6. Graph!Current = Graph!Top.todo[1] /\ Graph!Current \in Graph!Modules
  BY <1>5 DEF Graph!Current
<1>7. /\ Graph!Front(stack) \in Seq(FrameRows) /\ Len(Graph!Front(stack)) = Len(stack) - 1
      /\ \A i \in 1 .. (Len(stack) - 1) : Graph!Front(stack)[i] = stack[i]
  BY <1>1, <1>2, FrontIs DEF Graph!Front
<1>8. QED  BY <1>2, <1>3, <1>4, <1>6, <1>7

(* The stack with another innermost frame. *)
LEMMA OtherTop ==
    ASSUME GraphInv, stack # <<>>, NEW g \in FrameRows
    PROVE  /\ Append(Graph!Front(stack), g) \in Seq(FrameRows)
           /\ Len(Append(Graph!Front(stack), g)) = Len(stack)
           /\ \A i \in 1 .. Len(stack) : Append(Graph!Front(stack), g)[i] = IF i = Len(stack) THEN g ELSE stack[i]
<1> DEFINE f == Graph!Front(stack)
<1>1. f \in Seq(FrameRows) /\ Len(f) = Len(stack) - 1 /\ Len(stack) \in Nat /\ Len(stack) > 0
      /\ \A i \in 1 .. (Len(stack) - 1) : f[i] = stack[i]
  BY TopFrame
<1> HIDE DEF f
<1>2. \A i \in 1 .. Len(stack) : Append(f, g)[i] = IF i = Len(stack) THEN g ELSE stack[i]
  BY <1>1
<1>3. QED  BY <1>1, <1>2 DEF f

(* A file that is done leaves the files that were awaited, and nothing else does. *)
LEMMA AfterFile ==
    ASSUME Graph!GraphConstants, GraphInv, stack # <<>>
    PROVE  /\ Graph!NextFile(Graph!Top) \in Seq(FrameRows)
           /\ Len(Graph!NextFile(Graph!Top)) <= Len(stack)
           /\ \A i \in 1 .. Len(Graph!NextFile(Graph!Top)) : FrameFits(Graph!NextFile(Graph!Top)[i])
           /\ \A m : Awaited(m, stack) => m = Graph!Current \/ Awaited(m, Graph!NextFile(Graph!Top))
<1> DEFINE n == Len(stack)
           t == Graph!Top
           s == Graph!NextFile(t)
<1>1. n \in Nat /\ n > 0 /\ t = stack[n] /\ t \in FrameRows /\ FrameFits(t) /\ Graph!Current = t.todo[1]
  BY TopFrame
<1>2. t.todo \in Seq(Graph!Modules) /\ Len(t.todo) > 0 /\ Len(t.todo) \in Nat
  BY <1>1 DEF FrameRows, FrameFits
<1>3. \A i \in 1 .. n : FrameFits(stack[i])
  BY DEF GraphInv
<1>4. \A m : Awaited(m, stack) => \E i \in 1 .. n : \E j \in 1 .. Len(stack[i].todo) : stack[i].todo[j] = m
  BY DEF Awaited
<1> HIDE DEF t
<1>5. CASE Len(t.todo) = 1
  <2>1. s = Graph!Front(stack)
    BY <1>5 DEF Graph!NextFile
  <2> HIDE DEF s
  <2>2. s \in Seq(FrameRows) /\ Len(s) = n - 1 /\ \A i \in 1 .. (n - 1) : s[i] = stack[i]
    BY <2>1, TopFrame
  <2> HIDE DEF n
  <2>3. \A i \in 1 .. Len(s) : i \in 1 .. n /\ i \in 1 .. (n - 1)
    BY <1>1, <2>2
  <2>4. \A i \in 1 .. Len(s) : FrameFits(s[i])
    BY <1>3, <2>2, <2>3
  <2>5. ASSUME NEW m, Awaited(m, stack) PROVE m = Graph!Current \/ Awaited(m, s)
    <3>1. PICK i \in 1 .. n : \E j \in 1 .. Len(stack[i].todo) : stack[i].todo[j] = m
      BY <1>4, <2>5
    <3>2. CASE i = n
      BY <1>1, <1>2, <1>5, <3>1, <3>2
    <3>3. CASE i # n
      <4>1. i \in 1 .. Len(s) /\ s[i] = stack[i]
        BY <1>1, <2>2, <3>3
      <4>2. QED  BY <3>1, <4>1 DEF Awaited
    <3>4. QED  BY <3>2, <3>3
  <2>6. Len(s) <= Len(stack)
    BY <1>1, <2>2 DEF n
  <2>7. QED  BY <2>2, <2>4, <2>5, <2>6 DEF s, t
<1>6. CASE Len(t.todo) > 1
  <2> DEFINE g == [todo |-> Tail(t.todo), left |-> imports[t.todo[2]], to |-> {}]
  <2>1. s = Append(Graph!Front(stack), g)
    BY <1>6 DEF Graph!NextFile
  <2>2. /\ Tail(t.todo) \in Seq(Graph!Modules) /\ Len(Tail(t.todo)) = Len(t.todo) - 1
        /\ \A j \in 1 .. (Len(t.todo) - 1) : Tail(t.todo)[j] = t.todo[j + 1]
    BY <1>2, TailIs
  <2>3. t.todo[2] \in Graph!Modules
    BY <1>2, <1>6
  <2>4. g \in FrameRows /\ g.todo = Tail(t.todo)
    BY <2>2, <2>3 DEF FrameRows, GraphInv, GraphTypes
  <2>5. FrameFits(g)
    <3>1. Len(t.todo) - 1 > 0 /\ 1 \in 1 .. (Len(t.todo) - 1)
      BY <1>2, <1>6
    <3>2. Tail(t.todo)[1] = t.todo[2] /\ Len(Tail(t.todo)) > 0
      BY <2>2, <3>1
    <3>3. QED  BY <3>2 DEF FrameFits
  <2> HIDE DEF g, s
  <2>6. s \in Seq(FrameRows) /\ Len(s) = n /\ \A i \in 1 .. n : s[i] = IF i = n THEN g ELSE stack[i]
    BY <2>1, <2>4, OtherTop
  <2> HIDE DEF n
  <2>7. \A i \in 1 .. Len(s) : FrameFits(s[i])
    BY <1>3, <2>5, <2>6
  <2>8. ASSUME NEW m, Awaited(m, stack) PROVE m = Graph!Current \/ Awaited(m, s)
    <3>1. PICK i \in 1 .. n : \E j \in 1 .. Len(stack[i].todo) : stack[i].todo[j] = m
      BY <1>4, <2>8
    <3>2. PICK j \in 1 .. Len(stack[i].todo) : stack[i].todo[j] = m
      BY <3>1
    <3>3. CASE i = n /\ j = 1
      BY <1>1, <3>2, <3>3
    <3>4. CASE i = n /\ j # 1
      <4>1. j - 1 \in 1 .. (Len(t.todo) - 1) /\ j \in 1 .. Len(t.todo)
        BY <1>1, <1>2, <3>2, <3>4
      <4>2. g.todo[j - 1] = m /\ j - 1 \in 1 .. Len(g.todo)
        BY <1>1, <1>2, <2>2, <2>4, <3>2, <3>4, <4>1
      <4>3. i \in 1 .. Len(s) /\ s[i] = g
        BY <2>6, <3>1, <3>4
      <4>4. QED  BY <4>2, <4>3 DEF Awaited
    <3>5. CASE i # n
      <4>1. i \in 1 .. Len(s) /\ s[i] = stack[i]
        BY <2>6, <3>1, <3>5
      <4>2. QED  BY <3>1, <4>1 DEF Awaited
    <3>6. QED  BY <3>3, <3>4, <3>5
  <2>9. Len(s) <= Len(stack)
    BY <1>1, <2>6 DEF n
  <2>10. QED  BY <2>6, <2>7, <2>8, <2>9 DEF s, t
<1>7. Len(t.todo) = 1 \/ Len(t.todo) > 1
  <2>1. \A k \in Nat : k > 0 => k = 1 \/ k > 1
    OBVIOUS
  <2>2. QED  BY <1>2, <2>1
<1>8. QED  BY <1>5, <1>6, <1>7

(* Nothing is loaded, linked or broken at the start. *)
LEMMA GraphStart == ASSUME Graph!GraphConstants, Graph!Init PROVE GraphInv
<1> USE DEF Graph!Init
<1>1. imports \in [Graph!Modules -> Seq(Graph!Modules)]
  BY DEF Graph!GraphConstants
<1>2. GraphTypes
  BY <1>1 DEF GraphTypes, Graph!PackageOf
<1>3. Len(stack) = 0 /\ Cardinality(included) = 0
  BY FS_EmptySet
<1>4. QED  BY <1>2, <1>3 DEF GraphInv, Linkable

(* A package is included: its provider's entry is noted, and what could be named before it still can. *)
LEMMA Including ==
    ASSUME Graph!GraphConstants, GraphInv, NEW p \in present \ included, Graph!include(p), UNCHANGED Graph!given
    PROVE  /\ included' = included \cup {p} /\ included' \subseteq present
           /\ sealedOff' = {provider'[q] : q \in included'} \ {None}
           /\ Linkable \subseteq Linkable'
           /\ Cardinality(included') = Cardinality(included) + 1 /\ Cardinality(included) \in Nat
<1>1. /\ included' = included \cup {p} /\ included \subseteq present /\ present \subseteq Names /\ IsFiniteSet(Names)
      /\ UNCHANGED <<imports, present, provider, entry, sealed>>
  BY SameFinite DEF Graph!include, GraphInv, GraphTypes, Graph!GraphConstants, Graph!given
<1>2. IsFiniteSet(included)
  BY <1>1, FS_Subset
<1>3. Cardinality(included') = Cardinality(included) + 1 /\ Cardinality(included) \in Nat
  BY <1>1, <1>2, FS_AddElement, FS_CardinalityType
<1>4. sealedOff' = {provider[q] : q \in included'} \ {None}
  BY <1>1 DEF Graph!include, Graph!NoteProvider, Graph!Provider, GraphInv, GraphTypes
<1>5. Linkable \subseteq Linkable'
  BY <1>1 DEF Linkable
<1>6. QED  BY <1>1, <1>3, <1>4, <1>5

(* The frame of a package that is included now. *)
LEMMA NewFrame ==
    ASSUME Graph!GraphConstants, GraphInv, NEW p \in Names
    PROVE  /\ Graph!Frame(p) \in FrameRows /\ Graph!Frame(p).to = {} /\ Len(Graph!Frame(p).todo) > 0
           /\ Graph!Frame(p).left = imports[Graph!Frame(p).todo[1]]
           /\ \A m \in Graph!Modules : m[1] = p => \E j \in 1 .. Len(Graph!Frame(p).todo) : Graph!Frame(p).todo[j] = m
<1> DEFINE todo == Graph!SetToSeq(Graph!FilesOf(p))
<1>1. /\ todo \in Seq(Graph!Modules) /\ Len(todo) > 0
      /\ \A m \in Graph!FilesOf(p) : \E j \in 1 .. Len(todo) : todo[j] = m
  BY FilesInOrder
<1>2. Graph!Frame(p) = [todo |-> todo, left |-> imports[Head(todo)], to |-> {}]
  BY DEF Graph!Frame
<1> HIDE DEF todo
<1>3. Head(todo) = todo[1] /\ todo[1] \in Graph!Modules
  BY <1>1
<1>4. imports[todo[1]] \in Seq(Graph!Modules)
  BY <1>3 DEF GraphInv, GraphTypes
<1>5. Graph!Frame(p) \in FrameRows
  BY <1>1, <1>2, <1>3, <1>4 DEF FrameRows
<1>6. \A m \in Graph!Modules : m[1] = p => \E j \in 1 .. Len(todo) : todo[j] = m
  BY <1>1 DEF Graph!FilesOf, Graph!PackageOf
<1>7. QED  BY <1>1, <1>2, <1>3, <1>5, <1>6

(* A package is included, for the entry or for an import: its files are awaited. *)
LEMMA PushFrame ==
    ASSUME Graph!GraphConstants, GraphInv, NEW p \in present \ included, Graph!include(p),
           UNCHANGED Graph!given, UNCHANGED <<links, broken, phase>>, phase = "building",
           stack' = Append(stack, Graph!Frame(p)), included # {} \/ p = entry[1]
    PROVE  GraphInv'
<1>1. /\ included' = included \cup {p} /\ included' \subseteq present
      /\ sealedOff' = {provider'[q] : q \in included'} \ {None}
      /\ Linkable \subseteq Linkable' /\ Cardinality(included') = Cardinality(included) + 1 /\ Cardinality(included) \in Nat
  BY Including
<1>2. UNCHANGED <<imports, present, provider, entry, sealed, links, broken, phase>> /\ p \in Names
  BY DEF Graph!given, GraphInv, GraphTypes
<1>3. PICK f \in FrameRows :
         /\ f = Graph!Frame(p) /\ f.to = {} /\ Len(f.todo) > 0 /\ f.left = imports[f.todo[1]]
         /\ \A m \in Graph!Modules : m[1] = p => \E j \in 1 .. Len(f.todo) : f.todo[j] = m
  BY <1>2, NewFrame
<1>4. stack' = Append(stack, f) /\ stack \in Seq(FrameRows) /\ Len(stack) \in Nat
  BY <1>3 DEF GraphInv, GraphTypes
<1>5. /\ stack' \in Seq(FrameRows) /\ Len(stack') = Len(stack) + 1
      /\ \A i \in 1 .. Len(stack') : stack'[i] = IF i = Len(stack) + 1 THEN f ELSE stack[i]
  BY <1>4
<1>6. GraphTypes'
  BY <1>1, <1>2, <1>5 DEF GraphInv, GraphTypes
<1>7. \A i \in 1 .. Len(stack') : FrameFits(stack[i])'
  <2>1. FrameFits(f)'
    BY <1>2, <1>3 DEF FrameFits
  <2>2. \A i \in 1 .. Len(stack) : FrameFits(stack[i])
    BY DEF GraphInv
  <2>3. ASSUME NEW i \in 1 .. Len(stack'), i # Len(stack) + 1 PROVE FrameFits(stack[i])'
    <3>1. i \in 1 .. Len(stack) /\ stack'[i] = stack[i]
      BY <1>4, <1>5, <2>3
    <3>2. \E g : g = stack[i] /\ FrameFits(g)'
      BY <1>1, <1>2, <2>2, <3>1 DEF FrameFits
    <3>3. QED  BY <3>1, <3>2 DEF FrameFits
  <2>4. \A i \in 1 .. Len(stack') : i = Len(stack) + 1 => FrameFits(stack[i])'
    <3>1. SUFFICES ASSUME NEW i \in 1 .. Len(stack'), i = Len(stack) + 1 PROVE FrameFits(stack[i])'
      OBVIOUS
    <3>2. stack'[i] = f
      BY <1>5, <3>1
    <3>3. QED  BY <2>1, <3>2 DEF FrameFits
  <2>5. QED  BY <2>3, <2>4
<1>8. Len(stack') <= Cardinality(included')
  BY <1>1, <1>5 DEF GraphInv
<1>9. \A m \in Graph!Modules : links'[m] \subseteq Linkable'
  BY <1>1, <1>2 DEF GraphInv
<1>10. included' # {} => entry'[1] \in included'
  BY <1>1, <1>2 DEF GraphInv
<1>11. ASSUME NEW m \in Graph!Modules, m[1] \in included' PROVE FileDone(m)' \/ Awaited(m, stack)'
  <2>1. CASE m[1] = p
    <3>1. Len(stack) + 1 \in 1 .. Len(stack') /\ stack'[Len(stack) + 1] = f
      BY <1>4, <1>5
    <3>2. QED  BY <1>3, <2>1, <3>1 DEF Awaited
  <2>2. CASE m[1] # p
    <3>1. FileDone(m) \/ Awaited(m, stack)
      BY <1>1, <1>11, <2>2 DEF GraphInv
    <3>2. \A i \in 1 .. Len(stack) : i \in 1 .. Len(stack') /\ stack'[i] = stack[i]
      BY <1>4, <1>5
    <3>3. QED  BY <1>2, <3>1, <3>2 DEF FileDone, Awaited
  <2>3. QED  BY <2>1, <2>2
<1>12. QED  BY <1>2, <1>6, <1>7, <1>8, <1>9, <1>10, <1>11 DEF GraphInv, Awaited

(* The entry's package is loaded, or the build fails. *)
LEMMA BeginGraph == ASSUME Graph!GraphConstants, GraphInv, Graph!Begin PROVE GraphInv'
<1> DEFINE p == entry[1]
<1>1. phase = "building" /\ included = {} /\ UNCHANGED <<imports, present, provider, entry, sealed, links, broken>>
  BY DEF Graph!Begin, Graph!given
<1>2. stack \in Seq(FrameRows)
  BY DEF GraphInv, GraphTypes
<1>3. stack = <<>>
  <2>1. Cardinality(included) = 0
    BY <1>1, FS_EmptySet
  <2>2. Len(stack) = 0
    BY <1>2, <2>1 DEF GraphInv
  <2>3. QED  BY <1>2, <2>2
<1>4. CASE p \in present
  <2>1. Graph!include(p) /\ stack' = <<Graph!Frame(p)>> /\ phase' = phase /\ p \in present \ included
    BY <1>1, <1>4 DEF Graph!Begin, Graph!PackageOf
  <2>2. stack' = Append(stack, Graph!Frame(p))
    BY <1>3, <2>1
  <2>3. QED  BY <1>1, <2>1, <2>2, PushFrame DEF Graph!given
<1>5. CASE p \notin present
  <2>1. phase' = "failed" /\ UNCHANGED <<included, sealedOff, stack>>
    BY <1>5 DEF Graph!Begin, Graph!PackageOf
  <2>2. GraphTypes'
    BY <1>1, <2>1 DEF GraphInv, GraphTypes
  <2>3. QED
    BY <1>1, <1>3, <2>1, <2>2 DEF GraphInv, Linkable, FrameFits, FileDone, Awaited
<1>6. QED  BY <1>4, <1>5

(* A file is done, published or replaced: the others are as they were. *)
LEMMA FileLeaves ==
    ASSUME Graph!GraphConstants, GraphInv, stack # <<>>, stack' = Graph!NextFile(Graph!Top),
           UNCHANGED <<imports, present, provider, entry, sealed, included, sealedOff, phase>>,
           NEW T \in SUBSET Linkable, links' = [links EXCEPT ![Graph!Current] = T],
           broken' \subseteq Graph!Modules, broken \subseteq broken',
           NEW c \in Graph!Modules, c = Graph!Current, c \in broken' \/ imports[c] = <<>> \/ T # {}
    PROVE  GraphInv'
<1>1. /\ stack' \in Seq(FrameRows) /\ Len(stack') <= Len(stack)
      /\ \A i \in 1 .. Len(stack') : FrameFits(stack'[i])
      /\ \A m : Awaited(m, stack) => m = Graph!Current \/ Awaited(m, stack')
  BY AfterFile
<1>2. Linkable' = Linkable /\ Linkable \subseteq Graph!Modules \cup {Graph!Stub}
  BY DEF Linkable
<1>3. GraphTypes'
  BY <1>1, <1>2 DEF GraphInv, GraphTypes
<1>4. \A i \in 1 .. Len(stack') : FrameFits(stack[i])'
  BY <1>1, <1>2 DEF FrameFits
<1>5. Len(stack') <= Cardinality(included')
  <2>1. Len(stack) <= Cardinality(included) /\ Len(stack) \in Nat /\ Len(stack') \in Nat
    BY <1>1 DEF GraphInv, GraphTypes
  <2>2. IsFiniteSet(included)
    BY SameFinite, FS_Subset DEF GraphInv, GraphTypes, Graph!GraphConstants
  <2>3. Cardinality(included) \in Nat
    BY <2>2, FS_CardinalityType
  <2>4. QED  BY <1>1, <2>1, <2>3
<1>6. \A m \in Graph!Modules : links'[m] \subseteq Linkable'
  BY <1>2 DEF GraphInv, GraphTypes
<1>7. ASSUME NEW m \in Graph!Modules, m[1] \in included' PROVE FileDone(m)' \/ Awaited(m, stack)'
  <2>1. CASE m = Graph!Current
    <3>1. m = c /\ links'[c] = T
      BY <2>1 DEF GraphInv, GraphTypes
    <3>2. QED  BY <3>1 DEF FileDone
  <2>2. CASE m # Graph!Current
    <3>1. FileDone(m) \/ Awaited(m, stack)
      BY <1>7 DEF GraphInv
    <3>2. links'[m] = links[m]
      BY <2>2 DEF GraphInv, GraphTypes
    <3>3. QED  BY <1>1, <2>2, <3>1, <3>2 DEF FileDone, Awaited
  <2>3. QED  BY <2>1, <2>2
<1>8. phase' = "building"
  BY DEF GraphInv
<1>9. QED  BY <1>3, <1>4, <1>5, <1>6, <1>7, <1>8 DEF GraphInv

(* An import of a package that is there is looked up: what it names may be linked. *)
LEMMA TargetLinkable ==
    ASSUME Graph!GraphConstants, GraphInv, NEW m \in Graph!Modules, m[1] \in included
    PROVE  Graph!importTarget(m) \in Linkable
<1>1. m[1] \in Names /\ None \notin Graph!Modules
  BY DEF Graph!Modules, Graph!GraphConstants
<1>2. CASE m = provider[m[1]]
  <2>1. m \in sealedOff
    BY <1>1, <1>2 DEF GraphInv, GraphTypes
  <2>2. QED  BY <2>1 DEF Graph!importTarget, Linkable
<1>3. CASE m # provider[m[1]]
  BY <1>3 DEF Graph!importTarget, Linkable
<1>4. QED  BY <1>2, <1>3

(* The innermost frame goes on to its next import. *)
LEMMA FrameGoesOn ==
    ASSUME Graph!GraphConstants, GraphInv, stack # <<>>, NEW g \in FrameRows, FrameFits(g), g.todo = Graph!Top.todo,
           stack' = Append(Graph!Front(stack), g),
           UNCHANGED <<imports, present, provider, entry, sealed, included, sealedOff, links, broken, phase>>
    PROVE  GraphInv'
<1>1. /\ stack' \in Seq(FrameRows) /\ Len(stack') = Len(stack) /\ Len(stack) \in Nat
      /\ \A i \in 1 .. Len(stack) : stack'[i] = IF i = Len(stack) THEN g ELSE stack[i]
  BY TopFrame, OtherTop
<1>2. Linkable' = Linkable
  BY DEF Linkable
<1>3. GraphTypes'
  BY <1>1 DEF GraphInv, GraphTypes
<1>4. \A i \in 1 .. Len(stack') : FrameFits(stack[i])'
  <2>1. \A i \in 1 .. Len(stack') : FrameFits(stack'[i])
    BY <1>1 DEF GraphInv
  <2>2. QED  BY <1>2, <2>1 DEF FrameFits
<1>5. \A m : Awaited(m, stack) => Awaited(m, stack')
  <2>1. Graph!Top = stack[Len(stack)]
    BY TopFrame
  <2>2. \A i \in 1 .. Len(stack) : stack'[i].todo = stack[i].todo
    BY <1>1, <2>1
  <2>3. QED  BY <1>1, <2>2 DEF Awaited
<1>6. phase' = "building" /\ Len(stack') <= Cardinality(included')
  BY <1>1 DEF GraphInv
<1>7. \A m \in Graph!Modules : m[1] \in included' => FileDone(m)' \/ Awaited(m, stack)'
  BY <1>5 DEF GraphInv, FileDone, Awaited
<1>8. QED  BY <1>2, <1>3, <1>4, <1>6, <1>7 DEF GraphInv

(* The next import of the current file: it cannot be read, brings in its package, or is rewritten. *)
LEMMA RewriteStep == ASSUME Graph!GraphConstants, GraphInv, Graph!RewriteImport PROVE GraphInv'
<1> DEFINE f == Graph!Top
           t == Head(f.left)
           p == Graph!PackageOf(t)
<1>1. /\ stack # <<>> /\ f.left # <<>>
      /\ UNCHANGED <<imports, present, provider, entry, sealed, phase>>
  BY DEF Graph!RewriteImport, Graph!given
<1>2. f \in FrameRows /\ FrameFits(f) /\ Graph!Current \in Graph!Modules /\ Len(stack) > 0 /\ Len(stack) \in Nat
  BY <1>1, TopFrame
<1>3. phase = "building"
  BY <1>1 DEF GraphInv
<1>4. f.left \in Seq(Graph!Modules) /\ t \in Graph!Modules /\ p = t[1] /\ p \in Names
  <2>1. f.left \in Seq(Graph!Modules)
    BY <1>2 DEF FrameRows
  <2>2. t \in Graph!Modules
    BY <1>1, <2>1
  <2>3. QED  BY <2>1, <2>2 DEF Graph!PackageOf, Graph!Modules
<1>5. CASE /\ p \notin present /\ Graph!PublishStub(Graph!Current)
           /\ broken' = broken \cup {Graph!Current}
           /\ stack' = Graph!NextFile(f)
           /\ UNCHANGED <<included, sealedOff>>
  <2>1. links' = [links EXCEPT ![Graph!Current] = {}] /\ Graph!Current \in broken'
    BY <1>5 DEF Graph!PublishStub
  <2>2. broken' \subseteq Graph!Modules /\ broken \subseteq broken'
    BY <1>2, <1>5 DEF GraphInv, GraphTypes
  <2>3. PICK c \in Graph!Modules : c = Graph!Current
    BY <1>2
  <2>4. {} \in SUBSET Linkable /\ c \in broken'
    BY <2>1, <2>3
  <2>5. UNCHANGED <<imports, present, provider, entry, sealed, included, sealedOff, phase>> /\ stack' = Graph!NextFile(Graph!Top)
    BY <1>1, <1>5
  <2>6. QED  BY <1>1, <2>1, <2>2, <2>3, <2>4, <2>5, FileLeaves
<1>6. CASE p \in present \ included /\ Graph!include(p) /\ stack' = Append(stack, Graph!Frame(p)) /\ UNCHANGED <<links, broken>>
  <2>1. included # {}
    <3>1. SUFFICES ASSUME included = {} PROVE FALSE
      OBVIOUS
    <3>2. Cardinality(included) = 0
      BY <3>1, FS_EmptySet
    <3>3. QED  BY <1>2, <3>2 DEF GraphInv
  <2>2. QED  BY <1>1, <1>3, <1>6, <2>1, PushFrame DEF Graph!given
<1>7. CASE /\ Graph!Available(p)
           /\ stack' = Append(Graph!Front(stack), [f EXCEPT !.left = Tail(f.left), !.to = f.to \cup {Graph!importTarget(t)}])
           /\ UNCHANGED <<included, sealedOff, links, broken>>
  <2> DEFINE g == [f EXCEPT !.left = Tail(f.left), !.to = f.to \cup {Graph!importTarget(t)}]
             d == Graph!importTarget(t)
  <2>1. d \in Linkable /\ Linkable \subseteq Graph!Modules \cup {Graph!Stub}
    BY <1>4, <1>7, TargetLinkable DEF Graph!Available, Linkable
  <2>2. Tail(f.left) \in Seq(Graph!Modules)
    BY <1>1, <1>4
  <2> HIDE DEF f, d
  <2>3. g = [f EXCEPT !.left = Tail(f.left), !.to = f.to \cup {d}]
    BY DEF d, f
  <2> HIDE DEF g
  <2>4. g \in FrameRows /\ g.todo = f.todo /\ g.to = f.to \cup {d}
    BY <1>2, <2>1, <2>2, <2>3 DEF FrameRows
  <2>5. FrameFits(g)
    BY <1>2, <2>1, <2>4 DEF FrameFits
  <2>6. stack' = Append(Graph!Front(stack), g)
    BY <1>7 DEF g, f
  <2>7. QED  BY <1>1, <1>7, <2>4, <2>5, <2>6, FrameGoesOn DEF f
<1>8. QED
  BY <1>5, <1>6, <1>7 DEF Graph!RewriteImport

(* A file is published with its new imports. *)
LEMMA PublishStep == ASSUME Graph!GraphConstants, GraphInv, Graph!PublishFile PROVE GraphInv'
<1>1. /\ stack # <<>> /\ Graph!Top.left = <<>> /\ stack' = Graph!NextFile(Graph!Top)
      /\ links' = [links EXCEPT ![Graph!Current] = Graph!Top.to]
      /\ UNCHANGED <<imports, present, provider, entry, sealed, included, sealedOff, broken, phase>>
  BY DEF Graph!PublishFile, Graph!given
<1>2. /\ Graph!Top.to \in SUBSET Linkable /\ Graph!Current \in Graph!Modules
      /\ Graph!Top.to = {} => imports[Graph!Current] = <<>>
  BY <1>1, TopFrame DEF FrameFits
<1>3. broken' \subseteq Graph!Modules /\ broken \subseteq broken'
  BY <1>1 DEF GraphInv, GraphTypes
<1>4. QED  BY <1>1, <1>2, <1>3, FileLeaves

(* The build ends, and the graph is checked. *)
LEMMA EndStep == ASSUME Graph!GraphConstants, GraphInv, Graph!End PROVE GraphInv'
<1>1. /\ phase = "building" /\ included # {} /\ stack = <<>>
      /\ phase' = IF (~sealed /\ entry \in sealedOff) \/ Graph!Reachable \cap broken # {} THEN "failed" ELSE "built"
      /\ UNCHANGED <<imports, present, provider, entry, sealed, included, sealedOff, stack, links, broken>>
  BY DEF Graph!End, Graph!given
<1>2. Graph!Reachable' = Graph!Reachable
  BY <1>1 DEF Graph!Reachable, Graph!Reached, Graph!Modules, Graph!Cardinality
<1>3. GraphTypes' /\ Linkable' = Linkable
  BY <1>1 DEF GraphInv, GraphTypes, Linkable
<1>4. \A i \in 1 .. Len(stack') : FrameFits(stack[i])'
  BY <1>1
<1>5. QED  BY <1>1, <1>2, <1>3, <1>4 DEF GraphInv, FileDone, Awaited

(* Every step keeps the invariant. *)
LEMMA GraphStep == ASSUME Graph!GraphConstants, GraphInv, [Graph!Next]_Graph!vars PROVE GraphInv'
<1>1. CASE UNCHANGED Graph!vars
  <2>1. UNCHANGED <<imports, present, provider, entry, sealed, included, sealedOff, stack, links, broken, phase>>
    BY <1>1 DEF Graph!vars
  <2>2. Graph!Reachable' = Graph!Reachable
    BY <2>1 DEF Graph!Reachable, Graph!Reached, Graph!Modules, Graph!Cardinality
  <2>3. GraphTypes' /\ Linkable' = Linkable
    BY <2>1 DEF GraphInv, GraphTypes, Linkable
  <2>4. \A i \in 1 .. Len(stack') : FrameFits(stack[i])'
    BY <2>1, <2>3 DEF GraphInv, FrameFits
  <2>5. \A m \in Graph!Modules : (m[1] \in included => FileDone(m) \/ Awaited(m, stack))'
    BY <2>1 DEF GraphInv, FileDone, Awaited
  <2>6. \A m \in Graph!Modules : (links[m] \subseteq Linkable)'
    BY <2>1, <2>3 DEF GraphInv
  <2>7. (Len(stack) <= Cardinality(included))' /\ (included # {} => entry[1] \in included)'
    BY <2>1 DEF GraphInv
  <2>8. (phase # "building" => stack = <<>>)'
    BY <2>1 DEF GraphInv
  <2>9. (phase = "built" => included # {} /\ Graph!Reachable \cap broken = {} /\ (entry \in sealedOff => sealed))'
    BY <2>1, <2>2 DEF GraphInv
  <2>10. QED  BY <2>3, <2>4, <2>5, <2>6, <2>7, <2>8, <2>9 DEF GraphInv
<1>2. CASE Graph!Next
  BY <1>2, BeginGraph, RewriteStep, PublishStep, EndStep DEF Graph!Next
<1>3. QED  BY <1>1, <1>2

(* A graph that was built has what its entry loads, and nothing in it names a provider's entry. *)
LEMMA GraphServes == ASSUME Graph!GraphConstants, GraphInv PROVE GraphExact
<1>1. Graph!TypeOK
  <2>1. IsFiniteSet(Names) /\ included \subseteq Names /\ IsFiniteSet(included)
    BY SameFinite, FS_Subset DEF GraphInv, GraphTypes, Graph!GraphConstants
  <2>2. Cardinality(included) <= Cardinality(Names) /\ Cardinality(included) \in Nat /\ Cardinality(Names) \in Nat
    BY <2>1, FS_Subset, FS_CardinalityType
  <2>3. Len(stack) <= Cardinality(Names)
    <3>1. Len(stack) \in Nat /\ Len(stack) <= Cardinality(included)
      BY DEF GraphInv, GraphTypes
    <3>2. QED  BY <2>2, <3>1
  <2>4. sealedOff \subseteq Graph!Modules
    BY <2>1 DEF GraphInv, GraphTypes
  <2>5. QED  BY <2>3, <2>4, SameCardinality DEF GraphInv, GraphTypes, Graph!TypeOK
<1>2. Graph!ProviderOnlyEntry
  <2>1. SUFFICES ASSUME phase = "built"
                 PROVE  /\ \A p \in included, m \in Graph!Modules : provider[p] \notin links[m]
                        /\ entry = provider[Graph!PackageOf(entry)] => sealed
    BY DEF Graph!ProviderOnlyEntry
  <2>2. None \notin Graph!Modules /\ None # Graph!Stub /\ Graph!Stub \notin Graph!Modules
    BY DEF Graph!GraphConstants, Graph!Stub, Graph!Modules
  <2>3. ASSUME NEW p \in included, NEW m \in Graph!Modules, provider[p] \in links[m] PROVE FALSE
    <3>1. provider[p] = None \/ (provider[p] \in Graph!Modules /\ provider[p][1] = p)
      BY DEF GraphInv, GraphTypes
    <3>2. provider[p] \in Linkable
      BY <2>3 DEF GraphInv
    <3>3. QED  BY <2>2, <3>1, <3>2 DEF Linkable
  <2>4. entry = provider[entry[1]] => sealed
    BY <2>1, <2>2 DEF GraphInv, GraphTypes
  <2>5. QED  BY <2>3, <2>4 DEF Graph!PackageOf
<1>3. Graph!ReachedIsLinked
  <2>1. SUFFICES ASSUME phase = "built", NEW m \in Graph!Reachable \cap Graph!Modules
                 PROVE  Graph!PackageOf(m) \in included /\ (Len(imports[m]) > 0 => links[m] # {})
    BY DEF Graph!ReachedIsLinked
  <2>2. included # {} /\ stack = <<>> /\ m \notin broken /\ entry[1] \in included
    BY <2>1 DEF GraphInv
  <2>3. m[1] \in included
    <3>1. m \in Loadable /\ m # Graph!Stub
      <4>1. m \in Loadable
        BY <2>1, <2>2, LoadsLoadable
      <4>2. Graph!Stub \notin Graph!Modules
        BY DEF Graph!Modules, Graph!Stub, Graph!GraphConstants
      <4>3. QED  BY <2>1, <4>1, <4>2
    <3>2. QED  BY <2>2, <3>1 DEF Loadable
  <2>4. FileDone(m)
    BY <2>1, <2>2, <2>3 DEF GraphInv, Awaited
  <2>5. QED  BY <2>2, <2>3, <2>4 DEF FileDone, Graph!PackageOf
<1>4. QED  BY <1>1, <1>2, <1>3 DEF GraphExact, Graph!GraphExact

(* A graph that was built lacks nothing its entry loads, every file of it linked, and names no secret provider's entry,
   whatever packages import each other (execute/module-graph.ts buildModuleGraph). *)
THEOREM GraphsAreExact == ASSUME Graph!GraphConstants PROVE Graph!Spec => []GraphExact
<1>1. Graph!Init => GraphInv
  BY GraphStart
<1>2. GraphInv /\ [Graph!Next]_Graph!vars => GraphInv'
  BY GraphStep
<1>3. GraphInv => GraphExact
  BY GraphServes
<1>4. QED  BY <1>1, <1>2, <1>3, PTL DEF Graph!Spec

(* ------------------------------------------------------------ Packages *)

SavedRows == [files : P!Files, source : P!Source]
ListingRows == [owner : Users, by : Users, files : P!Files, installs : Nat]
KeptRows == [key : P!Source, files : P!Files, commit : P!Versions \cup {None}, fresh : BOOLEAN]
CallPcs == {"idle", "resolve", "download", "join", "follow", "shown", "save", "listing", "publish", "record", "done"}
PackageCalls == [op : P!AllOps \cup {None}, user : Users \cup {None}, pc : CallPcs, src : P!Source \cup {None},
                 commit : P!Versions \cup {None}, files : P!Files \cup {None}, began : Nat, shown : P!Files \cup {None},
                 was : SavedRows \cup {None}]

PackageTypes ==
    /\ remote \in [P!Origins -> P!Versions]
    /\ saved \in [Users -> [Names -> SavedRows \cup {None}]]
    /\ claimed \subseteq Users \X Names
    /\ listings \in [Names -> ListingRows \cup {None}]
    /\ listed \in [Names -> SUBSET P!Files]
    /\ cache \in Seq(KeptRows)
    /\ call \in [Execs -> PackageCalls]

(* A place that can be fetched from, and what it holds in one version. *)
Fetchable(src) == src \in P!Source /\ src.kind \in P!Origins /\ src.ref \in P!Versions \cup {None}
Listed(f, n) == n \in Names /\ \E g \in listed[n] : f = [g EXCEPT !.name = f.name]

(* The files are from where the source says. *)
ComesFrom(f, s) ==
    /\ s.kind = "community" => Listed(f, s.ref)
    /\ s.kind = "local" => f.origin = "local"
    /\ s.kind \in P!Origins => /\ Fetchable(s) /\ f.origin = s.kind /\ f.sub = s.sub
                               /\ s.ref # None => f.ver = s.ref

(* What was downloaded is the pinned version, or none older than the call; a fork has another name. *)
Downloaded(c) ==
    \E v \in P!Versions :
        /\ c.src.ref # None => v = c.src.ref
        /\ c.src.ref = None => c.began <= v
        /\ \/ c.files = P!FilesOf(c.src, v)
           \/ c.op = "fork" /\ c.files = [P!FilesOf(c.src, v) EXCEPT !.name = ForkName]

(* What the page shows of a pinned source is that version. *)
ShowsPin(c) ==
    c.shown # None =>
        /\ c.op \in {"preview", "install"}
        /\ c.op = "preview" => c.pc = "shown"
        /\ P!Pinned(c.src) => c.shown = P!FilesOf(c.src, c.src.ref)

(* A fetch: a pinned source is downloaded as it is, the head of another is no older than the call. *)
FetchFits(c) ==
    /\ c.pc = "resolve" => c.src.kind = "git" /\ c.src.ref = None
    /\ c.src.ref # None => c.commit = c.src.ref
    /\ c.op # "preview" => /\ c.began <= remote[c.src.kind]
                           /\ c.src.ref = None /\ c.commit # None => c.began <= c.commit

PackageCallFits(c) ==
    /\ c.pc # "idle" => c.user \in Users
    /\ c.pc \in {"resolve", "download", "join", "follow", "shown"} => Fetchable(c.src)
    /\ c.pc \in {"join", "follow", "shown"} => c.op = "preview"
    /\ c.pc \in {"resolve", "download"} => FetchFits(c)
    /\ ShowsPin(c)
    /\ c.pc \in {"save", "done"} => /\ c.src \in P!Source /\ c.files \in P!Files
                                    /\ c.src.kind \in P!Origins => Fetchable(c.src) /\ Downloaded(c)
    /\ c.pc = "save" => /\ c.src.kind # "local"
                        /\ c.src.kind = "community" => Listed(c.files, c.src.ref)
    /\ c.pc = "listing" => c.src \in P!Source /\ c.src.kind = "community" /\ c.src.ref \in Names
    /\ c.pc = "publish" => c.files \in P!Files
    /\ c.pc = "record" => c.src \in P!Source /\ c.src.ref \in Names

(* What an update may read, whether it is claimed or not. *)
Readable(s) == (s.kind = "community" => s.ref \in Names) /\ (s.kind \in P!Origins => Fetchable(s))

SavedFits(u, n) ==
    saved[u][n] # None => /\ Readable(saved[u][n].source)
                          /\ <<u, n>> \in claimed \/ ComesFrom(saved[u][n].files, saved[u][n].source)
ListingFits(n) == listings[n] # None => listings[n].files \in listed[n] /\ listings[n].by = listings[n].owner
KeptFits(e) ==
    /\ Fetchable(e.key)
    /\ e.key.kind = "git" => e.key.ref # None /\ e.files = P!FilesOf(e.key, e.key.ref)

PackageInv ==
    /\ PackageTypes /\ Len(cache) <= MaxEntries
    /\ \A u \in Users, n \in Names : SavedFits(u, n)
    /\ \A n \in Names : ListingFits(n)
    /\ \A i \in 1 .. Len(cache) : KeptFits(cache[i])
    /\ \A p \in Execs : PackageCallFits(call[p])

(* What a place holds. *)
LEMMA PlaceFiles ==
    ASSUME P!PackagesConstants, NEW src, Fetchable(src), NEW v \in P!Versions
    PROVE  /\ P!FilesOf(src, v) \in P!Files /\ P!FilesOf(src, v).origin = src.kind /\ P!FilesOf(src, v).sub = src.sub
           /\ P!FilesOf(src, v).ver = v /\ P!FilesOf(src, v).name = Named[src.kind, src.sub]
<1>1. src.kind \in P!Origins /\ src.sub \in BOOLEAN
  BY DEF Fetchable, P!Source
<1>2. Named[src.kind, src.sub] \in Names
  BY <1>1 DEF P!PackagesConstants
<1>3. QED  BY <1>1, <1>2 DEF P!FilesOf, P!Files

(* Nothing a call or a saved package holds depends on how little was listed, or on an old head. *)
Later == /\ \A n \in Names : listed[n] \subseteq listed'[n]
         /\ \A o \in P!Origins : remote[o] <= remote'[o]

(* What fits a call now fits it later. *)
LEMMA CallFitsLater ==
    ASSUME PackageTypes, remote' \in [P!Origins -> P!Versions], Later, P!PackagesConstants, NEW c \in PackageCalls, PackageCallFits(c)
    PROVE  PackageCallFits(c)'
<1>1. \A f, n : Listed(f, n) => Listed(f, n)'
  BY DEF Listed, Later
<1>2. ASSUME FetchFits(c), Fetchable(c.src) PROVE FetchFits(c)'
  <2>1. c.src.kind \in P!Origins /\ c.began \in Nat
    BY <1>2 DEF Fetchable, PackageCalls
  <2>2. remote[c.src.kind] <= remote'[c.src.kind] /\ remote[c.src.kind] \in Nat /\ remote'[c.src.kind] \in Nat
    BY <2>1 DEF Later, PackageTypes, P!Versions, P!PackagesConstants
  <2>3. QED  BY <1>2, <2>1, <2>2 DEF FetchFits
<1>3. QED  BY <1>1, <1>2 DEF PackageCallFits

(* So does what a source says of its files. *)
LEMMA ComesFromLater ==
    ASSUME Later, NEW f, NEW s, ComesFrom(f, s)
    PROVE  ComesFrom(f, s)'
  BY DEF Later, ComesFrom, Listed

(* A row goes, stays as it is, or gets a source that can be read and, unless it is only claimed, is where its files are
   from. *)
SavedTypes == saved \in [Users -> [Names -> SavedRows \cup {None}]] /\ claimed \subseteq Users \X Names
RowMoves(r, u, n) ==
    \/ r = None
    \/ r = saved[u][n] /\ (<<u, n>> \in claimed => <<u, n>> \in claimed')
    \/ Readable(r.source) /\ (<<u, n>> \in claimed' \/ ComesFrom(r.files, r.source)')
RowsMove == \A u \in Users, n \in Names : \E r : saved'[u][n] = r /\ RowMoves(r, u, n)

(* Rows that stay. *)
LEMMA RowsStay == ASSUME PackageTypes, UNCHANGED <<saved, claimed>> PROVE SavedTypes' /\ RowsMove
  BY DEF PackageTypes, SavedTypes, RowsMove, RowMoves

(* A step keeps the invariant when what it changes fits. *)
LEMMA StepKeeps ==
    ASSUME P!PackagesConstants, PackageInv, Later,
           remote' \in [P!Origins -> P!Versions], listed' \in [Names -> SUBSET P!Files],
           SavedTypes', RowsMove,
           listings' \in [Names -> ListingRows \cup {None}],
           \A n \in Names : \E r : /\ listings'[n] = r
                                   /\ r = listings[n] \/ r = None \/ (r.files \in listed'[n] /\ r.by = r.owner),
           cache' \in Seq(KeptRows), Len(cache') <= MaxEntries, \A i \in 1 .. Len(cache') : KeptFits(cache'[i]),
           call' \in [Execs -> PackageCalls],
           \A q \in Execs : \E c \in PackageCalls : call'[q] = c /\ (c = call[q] \/ PackageCallFits(c)')
    PROVE  PackageInv'
<1>1. PackageTypes'
  BY DEF PackageTypes, SavedTypes
<1>2. ASSUME NEW u \in Users, NEW n \in Names PROVE SavedFits(u, n)'
  <2>1. PICK r : saved'[u][n] = r /\ RowMoves(r, u, n)
    BY DEF RowsMove
  <2>2. r = None \/ (Readable(r.source) /\ (<<u, n>> \in claimed' \/ ComesFrom(r.files, r.source)'))
    <3>1. SavedFits(u, n)
      BY DEF PackageInv
    <3>2. CASE r = saved[u][n] /\ r # None /\ (<<u, n>> \in claimed => <<u, n>> \in claimed')
      <4>1. Readable(r.source) /\ (<<u, n>> \in claimed \/ ComesFrom(r.files, r.source))
        BY <3>1, <3>2 DEF SavedFits
      <4>2. ComesFrom(r.files, r.source) => ComesFrom(r.files, r.source)'
        BY ComesFromLater
      <4>3. QED  BY <3>2, <4>1, <4>2
    <3>3. QED  BY <2>1, <3>2 DEF RowMoves
  <2>3. QED  BY <2>1, <2>2 DEF SavedFits, ComesFrom, Listed, Readable, Fetchable
<1>3. ASSUME NEW n \in Names PROVE ListingFits(n)'
  <2>1. ListingFits(n)
    BY DEF PackageInv
  <2>2. QED  BY <2>1 DEF ListingFits, Later
<1>4. ASSUME NEW q \in Execs PROVE PackageCallFits(call[q])'
  <2>1. PICK c \in PackageCalls : call'[q] = c /\ (c = call[q] \/ PackageCallFits(c)')
    OBVIOUS
  <2>2. PackageTypes /\ PackageCallFits(call[q])
    BY DEF PackageInv
  <2>3. c = call[q] => PackageCallFits(c)
    BY <2>2
  <2>4. PackageCallFits(c)'
    BY <2>1, <2>2, <2>3, CallFitsLater
  <2>5. \A d : d = c => (PackageCallFits(d)' <=> PackageCallFits(c)')
    OBVIOUS
  <2>6. QED  BY <2>1, <2>4 DEF PackageCallFits, FetchFits, ShowsPin, Listed
<1>5. \A i \in 1 .. Len(cache') : KeptFits(cache[i])'
  BY DEF KeptFits, Fetchable
<1>6. QED  BY <1>1, <1>2, <1>3, <1>4, <1>5 DEF PackageInv

(* A step of one call that changes nothing else. *)
LEMMA CallKeeps ==
    ASSUME P!PackagesConstants, PackageInv, UNCHANGED <<remote, saved, claimed, listings, listed, cache>>,
           NEW p \in Execs, NEW c \in PackageCalls, PackageCallFits(c), call' = [call EXCEPT ![p] = c]
    PROVE  PackageInv'
<1>1. PackageTypes /\ Later
  <2>1. \A o \in P!Origins : remote[o] <= remote[o]
    BY DEF PackageInv, PackageTypes, P!PackagesConstants, P!Versions
  <2>2. QED  BY <2>1 DEF PackageInv, Later
<1>2. PackageCallFits(c)'
  BY <1>1, CallFitsLater DEF PackageTypes
<1>3. \A q \in Execs : \E d \in PackageCalls : call'[q] = d /\ (d = call[q] \/ PackageCallFits(d)')
  <2>1. SUFFICES ASSUME NEW q \in Execs PROVE \E d \in PackageCalls : call'[q] = d /\ (d = call[q] \/ PackageCallFits(d)')
    OBVIOUS
  <2>2. CASE q = p
    BY <1>1, <1>2, <2>2 DEF PackageTypes
  <2>3. CASE q # p
    BY <1>1, <2>3 DEF PackageTypes
  <2>4. QED  BY <2>2, <2>3
<1>4. /\ remote' \in [P!Origins -> P!Versions] /\ listed' \in [Names -> SUBSET P!Files]
      /\ SavedTypes' /\ RowsMove /\ listings' \in [Names -> ListingRows \cup {None}]
      /\ cache' \in Seq(KeptRows) /\ call' \in [Execs -> PackageCalls]
  BY <1>1, RowsStay DEF PackageTypes
<1>5. Len(cache') <= MaxEntries /\ \A i \in 1 .. Len(cache') : KeptFits(cache'[i])
  BY DEF PackageInv
<1>6. QED  BY <1>1, <1>3, <1>4, <1>5, StepKeeps

(* A call that is over. *)
LEMMA IdleCall == P!Idle \in PackageCalls /\ PackageCallFits(P!Idle)
  BY DEF P!Idle, PackageCalls, CallPcs, PackageCallFits, ShowsPin

(* Nothing is saved, listed, kept or under way at the start. *)
LEMMA PackageStart == ASSUME P!PackagesConstants, P!Init PROVE PackageInv
<1> USE DEF P!Init
<1>1. 1 \in P!Versions
  BY DEF P!PackagesConstants, P!Versions
<1>2. PackageTypes
  BY <1>1, IdleCall DEF PackageTypes
<1>3. Len(cache) = 0 /\ MaxEntries \in Nat
  BY DEF P!PackagesConstants
<1>4. \A u \in Users, n \in Names : SavedFits(u, n)
  BY DEF SavedFits
<1>5. \A n \in Names : ListingFits(n)
  BY DEF ListingFits
<1>6. \A p \in Execs : PackageCallFits(call[p])
  BY IdleCall
<1>7. QED  BY <1>2, <1>3, <1>4, <1>5, <1>6 DEF PackageInv

(* A call that begins to fetch. *)
LEMMA FetchBegins ==
    ASSUME P!PackagesConstants, PackageInv, NEW src, Fetchable(src), NEW c \in PackageCalls,
           c.src = src, c.pc = P!FetchPc(src), c.commit = src.ref, c.user \in Users,
           c.op # "preview" => c.began = remote[src.kind],
           ShowsPin(c)
    PROVE  PackageCallFits(c)
<1>1. remote[src.kind] \in Nat /\ remote[src.kind] <= remote[src.kind]
  BY DEF PackageInv, PackageTypes, Fetchable, P!Versions, P!PackagesConstants
<1>2. (c.pc = "resolve" /\ src.kind = "git" /\ src.ref = None) \/ c.pc = "download"
  BY DEF P!FetchPc
<1>3. FetchFits(c)
  BY <1>1, <1>2 DEF FetchFits
<1>4. QED  BY <1>2, <1>3 DEF PackageCallFits

(* An install, a fork or an update begins. *)
LEMMA FetchStarts ==
    ASSUME P!PackagesConstants, PackageInv, NEW p \in Execs, NEW op, op \in {"install", "fork", "update"},
           NEW u \in Users, NEW src, Fetchable(src), NEW pkg \in SavedRows \cup {None},
           P!FetchStart(p, op, u, src, pkg), UNCHANGED <<remote, saved, claimed, listings, listed, cache>>
    PROVE  PackageInv'
<1> DEFINE c == [P!Idle EXCEPT !.op = op, !.user = u, !.src = src, !.was = pkg,
                               !.pc = P!FetchPc(src), !.commit = src.ref, !.began = remote[src.kind]]
<1>1. call' = [call EXCEPT ![p] = c]
  BY DEF P!FetchStart, P!Start
<1>2. remote[src.kind] \in Nat
  BY DEF PackageInv, PackageTypes, Fetchable, P!Versions, P!PackagesConstants
<1>3. P!FetchPc(src) \in CallPcs /\ op \in P!AllOps /\ src \in P!Source /\ src.ref \in P!Versions \cup {None}
  BY DEF P!FetchPc, CallPcs, P!AllOps, Fetchable
<1>4. /\ c \in PackageCalls /\ c.src = src /\ c.pc = P!FetchPc(src) /\ c.commit = src.ref /\ c.user = u
      /\ c.began = remote[src.kind] /\ c.shown = None
  BY <1>2, <1>3 DEF PackageCalls, P!Idle
<1> HIDE DEF c
<1>5. ShowsPin(c)
  BY <1>4 DEF ShowsPin
<1>6. PackageCallFits(c)
  BY <1>4, <1>5, FetchBegins
<1>7. QED  BY <1>1, <1>4, <1>6, CallKeeps

(* A caller names a remote source. *)
LEMMA InstallStep ==
    ASSUME P!PackagesConstants, PackageInv, NEW p \in Execs, NEW u \in Users, NEW src \in Sources, P!Install(p, u, src)
    PROVE  PackageInv'
<1>1. Fetchable(src)
  BY DEF Fetchable, P!PackagesConstants
<1>2. PICK op \in {"install", "fork"} : P!FetchStart(p, op, u, src, None)
  BY DEF P!Install
<1>3. UNCHANGED <<remote, saved, claimed, listings, listed, cache>>
  BY DEF P!Install
<1>4. QED  BY <1>1, <1>2, <1>3, FetchStarts

(* The commit at the head is found, or not. *)
LEMMA ResolveStep == ASSUME P!PackagesConstants, PackageInv, NEW p \in Execs, P!Resolve(p) PROVE PackageInv'
<1>1. /\ call[p].pc = "resolve" /\ UNCHANGED <<remote, saved, claimed, listings, listed, cache>>
      /\ call[p] \in PackageCalls /\ PackageCallFits(call[p])
  BY DEF P!Resolve, PackageInv, PackageTypes
<1>2. PICK k \in {remote["git"], None} : call' = [call EXCEPT ![p].commit = k, ![p].pc = "download"]
  BY DEF P!Resolve
<1> DEFINE c == [call[p] EXCEPT !.commit = k, !.pc = "download"]
<1>3. call' = [call EXCEPT ![p] = c]
  BY <1>2 DEF PackageInv, PackageTypes
<1>4. remote["git"] \in P!Versions /\ remote["git"] \in Nat
  BY DEF PackageInv, PackageTypes, P!Origins, P!Versions, P!PackagesConstants
<1>5. /\ c \in PackageCalls /\ c.pc = "download" /\ c.commit = k /\ c.src = call[p].src /\ c.op = call[p].op
      /\ c.user = call[p].user /\ c.began = call[p].began /\ c.shown = call[p].shown
  BY <1>1, <1>4 DEF PackageCalls, CallPcs
<1>6. /\ call[p].src.kind = "git" /\ call[p].src.ref = None /\ Fetchable(call[p].src) /\ call[p].user \in Users
      /\ FetchFits(call[p]) /\ ShowsPin(call[p])
  BY <1>1 DEF PackageCallFits, FetchFits
<1> HIDE DEF c
<1>7. FetchFits(c)
  BY <1>4, <1>5, <1>6 DEF FetchFits
<1>8. ShowsPin(c)
  BY <1>1, <1>5, <1>6 DEF ShowsPin
<1>9. PackageCallFits(c)
  BY <1>5, <1>6, <1>7, <1>8 DEF PackageCallFits
<1>10. QED  BY <1>1, <1>3, <1>5, <1>9, CallKeeps

(* What a download answers: one version of the place, and its commit when it is known. *)
LEMMA FetchedIs ==
    ASSUME P!PackagesConstants, PackageInv, NEW c \in PackageCalls, c.pc = "download", PackageCallFits(c), NEW f \in P!Fetched(c)
    PROVE  \E v \in P!Versions :
             /\ f.files = P!FilesOf(c.src, v)
             /\ f.commit = None \/ f.commit = v
             /\ c.src.ref # None => v = c.src.ref /\ f.commit = v
             /\ c.op # "preview" /\ c.src.ref = None => c.began <= v
<1>1. Fetchable(c.src) /\ FetchFits(c) /\ c.src.kind \in P!Origins
  BY DEF PackageCallFits, Fetchable
<1>2. remote[c.src.kind] \in P!Versions /\ remote["git"] \in P!Versions
  BY <1>1 DEF PackageInv, PackageTypes, P!Origins
<1>3. CASE c.commit # None
  <2>1. f = [files |-> P!FilesOf(c.src, c.commit), commit |-> c.commit]
    BY <1>3 DEF P!Fetched
  <2>2. c.commit \in P!Versions
    BY <1>3 DEF PackageCalls
  <2>3. QED  BY <1>1, <1>3, <2>1, <2>2 DEF FetchFits
<1>4. CASE c.commit = None
  <2>1. PICK k \in {None} \cup (IF c.src.kind = "git" THEN {remote["git"]} ELSE {}) :
               f = [files |-> P!FilesOf(c.src, remote[c.src.kind]), commit |-> k]
    BY <1>4 DEF P!Fetched
  <2>2. k = None \/ k = remote[c.src.kind]
    BY <2>1
  <2>3. c.src.ref = None
    BY <1>1, <1>4 DEF FetchFits
  <2>4. c.op # "preview" => c.began <= remote[c.src.kind]
    BY <1>1 DEF FetchFits
  <2>5. QED  BY <1>2, <2>1, <2>2, <2>3, <2>4
<1>5. QED  BY <1>3, <1>4

(* The download of an install or an update ends. *)
LEMMA DownloadStep == ASSUME P!PackagesConstants, PackageInv, NEW p \in Execs, P!Download(p) PROVE PackageInv'
<1>1. /\ call[p].pc = "download" /\ call[p].op # "preview" /\ UNCHANGED <<remote, saved, claimed, listings, listed, cache>>
      /\ call[p] \in PackageCalls /\ PackageCallFits(call[p]) /\ call \in [Execs -> PackageCalls]
  BY DEF P!Download, PackageInv, PackageTypes
<1>2. PICK f \in P!Fetched(call[p]) :
          call' = [call EXCEPT ![p].pc = "save", ![p].commit = f.commit,
                      ![p].files = IF call[p].op = "fork" THEN [f.files EXCEPT !.name = ForkName] ELSE f.files]
  BY DEF P!Download
<1> DEFINE files == IF call[p].op = "fork" THEN [f.files EXCEPT !.name = ForkName] ELSE f.files
           c == [call[p] EXCEPT !.pc = "save", !.commit = f.commit, !.files = files]
<1>3. call' = [call EXCEPT ![p] = c]
  BY <1>1, <1>2
<1>4. PICK v \in P!Versions :
             /\ f.files = P!FilesOf(call[p].src, v)
             /\ f.commit = None \/ f.commit = v
             /\ call[p].src.ref # None => v = call[p].src.ref /\ f.commit = v
             /\ call[p].op # "preview" /\ call[p].src.ref = None => call[p].began <= v
  BY <1>1, FetchedIs
<1>5. Fetchable(call[p].src) /\ call[p].user \in Users /\ ShowsPin(call[p])
  BY <1>1 DEF PackageCallFits
<1>6. files \in P!Files
  <2>1. f.files \in P!Files
    BY <1>4, <1>5, PlaceFiles
  <2>2. ForkName \in Names
    BY Zenon DEF P!PackagesConstants
  <2>3. QED  BY <2>1, <2>2 DEF P!Files
<1>7. files = P!FilesOf(call[p].src, v) \/ (call[p].op = "fork" /\ files = [P!FilesOf(call[p].src, v) EXCEPT !.name = ForkName])
  BY <1>4
<1> HIDE DEF files
<1>8. /\ c \in PackageCalls /\ c.pc = "save" /\ c.files = files /\ c.src = call[p].src /\ c.op = call[p].op
      /\ c.user = call[p].user /\ c.began = call[p].began /\ c.shown = call[p].shown
  BY <1>1, <1>4, <1>6 DEF PackageCalls, CallPcs
<1> HIDE DEF c
<1>9. Downloaded(c)
  BY <1>1, <1>4, <1>7, <1>8 DEF Downloaded
<1>10. ShowsPin(c)
  BY <1>1, <1>5, <1>8 DEF ShowsPin
<1>11. c.src.kind \in P!Origins /\ c.src \in P!Source
  BY <1>5, <1>8 DEF Fetchable
<1>12. PackageCallFits(c)
  BY <1>5, <1>6, <1>8, <1>9, <1>10, <1>11 DEF PackageCallFits, P!Origins
<1>13. QED  BY <1>1, <1>3, <1>8, <1>12, CallKeeps

(* A download that fails ends the call, and those that waited for it. *)
LEMMA DownloadFailsStep == ASSUME P!PackagesConstants, PackageInv, NEW p \in Execs, P!DownloadFails(p) PROVE PackageInv'
<1>1. UNCHANGED <<remote, saved, claimed, listings, listed, cache>> /\ PackageTypes /\ Later
  <2>1. \A o \in P!Origins : remote[o] <= remote[o]
    BY DEF PackageInv, PackageTypes, P!PackagesConstants, P!Versions
  <2>2. QED  BY <2>1 DEF PackageInv, Later, P!DownloadFails
<1>2. call' \in [Execs -> PackageCalls] /\ \A q \in Execs : call'[q] = call[q] \/ call'[q] = P!Idle
  BY <1>1, IdleCall DEF PackageTypes, P!DownloadFails
<1>3. \A q \in Execs : \E d \in PackageCalls : call'[q] = d /\ (d = call[q] \/ PackageCallFits(d)')
  <2>1. PICK d \in PackageCalls : d = P!Idle /\ PackageCallFits(d)'
    BY IdleCall DEF P!Idle, PackageCallFits, ShowsPin
  <2>2. QED  BY <1>1, <1>2, <2>1 DEF PackageTypes
<1>4. Len(cache') <= MaxEntries /\ \A i \in 1 .. Len(cache') : KeptFits(cache'[i])
  BY <1>1 DEF PackageInv
<1>5. QED  BY <1>1, <1>2, <1>3, <1>4, RowsStay, StepKeeps DEF PackageTypes

(* The world moves on. *)
LEMMA RemoteMovesStep == ASSUME P!PackagesConstants, PackageInv, NEW o \in P!Origins, P!RemoteMoves(o) PROVE PackageInv'
<1>1. /\ UNCHANGED <<saved, claimed, listings, listed, cache, call>> /\ PackageTypes
      /\ remote[o] < MaxVersion /\ remote' = [remote EXCEPT ![o] = remote[o] + 1]
  BY DEF P!RemoteMoves, PackageInv
<1>2. remote' \in [P!Origins -> P!Versions] /\ Later
  BY <1>1 DEF PackageTypes, Later, P!Versions, P!PackagesConstants
<1>3. Len(cache') <= MaxEntries /\ \A i \in 1 .. Len(cache') : KeptFits(cache'[i])
  BY <1>1 DEF PackageInv
<1>4. QED  BY <1>1, <1>2, <1>3, RowsStay, StepKeeps DEF PackageTypes

(* A minute passes over one entry. *)
LEMMA ExpireStep == ASSUME P!PackagesConstants, PackageInv, NEW i, P!Expire(i) PROVE PackageInv'
<1>1. /\ UNCHANGED <<remote, saved, claimed, listings, listed, call>> /\ PackageTypes /\ Later
      /\ i \in DOMAIN cache /\ cache' = [cache EXCEPT ![i].fresh = FALSE]
  <2>1. \A o \in P!Origins : remote[o] <= remote[o]
    BY DEF PackageInv, PackageTypes, P!PackagesConstants, P!Versions
  <2>2. QED  BY <2>1 DEF PackageInv, Later, P!Expire
<1>2. DOMAIN cache = 1 .. Len(cache) /\ Len(cache) \in Nat
  BY <1>1 DEF PackageTypes
<1> DEFINE e == [cache[i] EXCEPT !.fresh = FALSE]
<1>3. cache' = [cache EXCEPT ![i] = e] /\ cache[i] \in KeptRows
  BY <1>1, <1>2 DEF PackageTypes
<1>4. e \in KeptRows /\ e.key = cache[i].key /\ e.files = cache[i].files
  BY <1>3 DEF KeptRows
<1> HIDE DEF e
<1>5. cache' \in Seq(KeptRows) /\ Len(cache') = Len(cache)
      /\ \A j \in 1 .. Len(cache) : cache'[j] = IF j = i THEN e ELSE cache[j]
  <2>1. cache \in Seq(KeptRows) /\ i \in 1 .. Len(cache) /\ e \in KeptRows
    BY <1>1, <1>2, <1>4 DEF PackageTypes
  <2>2. /\ [cache EXCEPT ![i] = e] \in Seq(KeptRows) /\ Len([cache EXCEPT ![i] = e]) = Len(cache)
        /\ \A j \in 1 .. Len(cache) : [cache EXCEPT ![i] = e][j] = IF j = i THEN e ELSE cache[j]
    BY <2>1, ExceptSeq
  <2>3. QED  BY <1>3, <2>2
<1>6. \A j \in 1 .. Len(cache') : KeptFits(cache'[j])
  BY <1>1, <1>2, <1>4, <1>5 DEF PackageInv, KeptFits
<1>7. Len(cache') <= MaxEntries
  BY <1>5 DEF PackageInv
<1>8. QED  BY <1>1, <1>5, <1>6, <1>7, RowsStay, StepKeeps DEF PackageTypes

(* Saving puts one package, from where its source says unless it is only claimed, into one row, or nothing. *)
Marks(u, f, s) ==
    /\ claimed' \subseteq Users \X Names
    /\ \A v \in Users, n \in Names : <<v, n>> # <<u, f.name>> => (<<v, n>> \in claimed' <=> <<v, n>> \in claimed)
    /\ <<u, f.name>> \in claimed' \/ ComesFrom(f, s)
LEMMA SaveFits ==
    ASSUME PackageTypes, Later, NEW u \in Users, NEW f \in P!Files, NEW s \in P!Source, Readable(s), Marks(u, f, s),
           P!PackageSave(u, f, s)
    PROVE  SavedTypes' /\ RowsMove
<1>1. saved \in [Users -> [Names -> SavedRows \cup {None}]] /\ f.name \in Names
  BY DEF PackageTypes, P!Files
<1>2. CASE ~P!SaveOK(u, f)
  <2>1. saved' = saved /\ saved[u][f.name] = None
    BY <1>2 DEF P!PackageSave, P!SaveOK
  <2>2. ASSUME NEW v \in Users, NEW n \in Names PROVE \E r : saved'[v][n] = r /\ RowMoves(r, v, n)
    <3>1. CASE v = u /\ n = f.name
      BY <2>1, <3>1 DEF RowMoves
    <3>2. CASE <<v, n>> # <<u, f.name>>
      BY <2>1, <3>2 DEF RowMoves, Marks
    <3>3. QED  BY <3>1, <3>2
  <2>3. QED  BY <1>1, <2>1, <2>2 DEF SavedTypes, RowsMove, Marks
<1>3. CASE P!SaveOK(u, f)
  <2>1. PICK r \in SavedRows : r = [files |-> f, source |-> s]
    BY DEF SavedRows
  <2>2. saved' = [saved EXCEPT ![u][f.name] = r]
    BY <1>3, <2>1 DEF P!PackageSave
  <2>3. saved' = [saved EXCEPT ![u] = [saved[u] EXCEPT ![f.name] = r]]
    BY <1>1, <2>2
  <2>4. [saved[u] EXCEPT ![f.name] = r] \in [Names -> SavedRows \cup {None}]
    BY <1>1, <2>1
  <2>5. saved' \in [Users -> [Names -> SavedRows \cup {None}]]
    BY <1>1, <2>3, <2>4
  <2>6. \A v \in Users, n \in Names : saved'[v][n] = IF v = u /\ n = f.name THEN r ELSE saved[v][n]
    BY <1>1, <2>3
  <2>7. <<u, f.name>> \in claimed' \/ ComesFrom(r.files, r.source)'
    <3>1. r.files = f /\ r.source = s
      BY <2>1
    <3>2. ComesFrom(f, s) => ComesFrom(f, s)'
      BY ComesFromLater
    <3>3. QED  BY <3>1, <3>2 DEF Marks
  <2>8. Readable(r.source)
    BY <2>1
  <2>9. ASSUME NEW v \in Users, NEW n \in Names PROVE \E q : saved'[v][n] = q /\ RowMoves(q, v, n)
    <3>1. CASE v = u /\ n = f.name
      BY <2>6, <2>7, <2>8, <3>1 DEF RowMoves
    <3>2. CASE ~(v = u /\ n = f.name)
      <4>1. saved'[v][n] = saved[v][n] /\ <<v, n>> # <<u, f.name>>
        BY <2>6, <3>2
      <4>2. QED  BY <4>1 DEF RowMoves, Marks
    <3>3. QED  BY <3>1, <3>2
  <2>10. QED  BY <2>5, <2>9 DEF SavedTypes, RowsMove, Marks
<1>4. QED  BY <1>2, <1>3

(* Files that are from where their source says. *)
LEMMA NowMarks ==
    ASSUME PackageTypes, NEW u \in Users, NEW f \in P!Files, NEW s \in P!Source, ComesFrom(f, s), P!NowGenuine(u, f.name)
    PROVE  Readable(s) /\ Marks(u, f, s)
<1>1. Readable(s)
  BY DEF ComesFrom, Readable, Listed, P!Origins
<1>2. Marks(u, f, s)
  BY DEF Marks, PackageTypes, P!NowGenuine
<1>3. QED  BY <1>1, <1>2

(* A step in which no head moves and nothing is listed. *)
LEMMA NoTime == ASSUME P!PackagesConstants, PackageInv, remote' = remote, listed' = listed PROVE Later
<1>1. \A o \in P!Origins : remote[o] <= remote[o]
  BY DEF PackageInv, PackageTypes, P!PackagesConstants, P!Versions
<1>2. QED  BY <1>1 DEF Later

(* A package is saved and its call goes on, or ends. *)
LEMMA SaveKeeps ==
    ASSUME P!PackagesConstants, PackageInv, UNCHANGED <<remote, listings, listed, cache>>,
           NEW u \in Users, NEW f \in P!Files, NEW s \in P!Source, ComesFrom(f, s), P!NowGenuine(u, f.name),
           P!PackageSave(u, f, s),
           NEW p \in Execs, NEW c \in PackageCalls, PackageCallFits(c), call' = [call EXCEPT ![p] = c]
    PROVE  PackageInv'
<1>1. PackageTypes /\ Later
  BY NoTime DEF PackageInv
<1>2. SavedTypes' /\ RowsMove
  BY <1>1, NowMarks, SaveFits
<1>3. PackageCallFits(c)'
  BY <1>1, CallFitsLater DEF PackageTypes
<1>4. \A q \in Execs : \E d \in PackageCalls : call'[q] = d /\ (d = call[q] \/ PackageCallFits(d)')
  <2>1. SUFFICES ASSUME NEW q \in Execs PROVE \E d \in PackageCalls : call'[q] = d /\ (d = call[q] \/ PackageCallFits(d)')
    OBVIOUS
  <2>2. CASE q = p
    BY <1>1, <1>3, <2>2 DEF PackageTypes
  <2>3. CASE q # p
    BY <1>1, <2>3 DEF PackageTypes
  <2>4. QED  BY <2>2, <2>3
<1>5. /\ remote' \in [P!Origins -> P!Versions] /\ listed' \in [Names -> SUBSET P!Files]
      /\ listings' \in [Names -> ListingRows \cup {None}]
      /\ cache' \in Seq(KeptRows) /\ call' \in [Execs -> PackageCalls]
  BY <1>1 DEF PackageTypes
<1>6. Len(cache') <= MaxEntries /\ \A i \in 1 .. Len(cache') : KeptFits(cache'[i])
  BY DEF PackageInv
<1>7. \A n \in Names : \E r : listings'[n] = r /\ (r = listings[n] \/ r = None \/ (r.files \in listed'[n] /\ r.by = r.owner))
  OBVIOUS
<1>8. QED  BY <1>1, <1>2, <1>4, <1>5, <1>6, <1>7, StepKeeps

(* A change of the saved packages alone. *)
LEMMA SavedKeeps ==
    ASSUME P!PackagesConstants, PackageInv, UNCHANGED <<remote, listings, listed, cache, call>>,
           SavedTypes', RowsMove
    PROVE  PackageInv'
<1>1. PackageTypes /\ Later
  BY NoTime DEF PackageInv
<1>2. /\ remote' \in [P!Origins -> P!Versions] /\ listed' \in [Names -> SUBSET P!Files]
      /\ listings' \in [Names -> ListingRows \cup {None}]
      /\ cache' \in Seq(KeptRows) /\ call' \in [Execs -> PackageCalls]
  BY <1>1 DEF PackageTypes
<1>3. Len(cache') <= MaxEntries /\ \A i \in 1 .. Len(cache') : KeptFits(cache'[i])
  BY DEF PackageInv
<1>4. \A q \in Execs : \E d \in PackageCalls : call'[q] = d /\ (d = call[q] \/ PackageCallFits(d)')
  BY <1>2
<1>5. \A n \in Names : \E r : listings'[n] = r /\ (r = listings[n] \/ r = None \/ (r.files \in listed'[n] /\ r.by = r.owner))
  OBVIOUS
<1>6. QED  BY <1>1, <1>2, <1>3, <1>4, <1>5, StepKeeps

(* The caller's own files are saved, with no source or with one the caller claims. *)
LEMMA SaveLocalStep ==
    ASSUME P!PackagesConstants, PackageInv, NEW u \in Users, NEW n \in Names, NEW v \in P!Versions,
           NEW src \in Claims \cup {P!Local}, P!SaveLocal(u, n, v, src)
    PROVE  PackageInv'
<1>1. PICK f \in P!Files : f = [name |-> n, origin |-> "local", ver |-> v, sub |-> FALSE] /\ f.name = n
  <2>1. [name |-> n, origin |-> "local", ver |-> v, sub |-> FALSE] \in P!Files
    BY DEF P!Files
  <2>2. QED  BY <2>1
<1>2. P!Local \in P!Source /\ P!Local.kind = "local"
  BY DEF P!Source, P!Local
<1>3. src \in P!Source /\ Readable(src)
  BY <1>2 DEF Readable, Fetchable, P!PackagesConstants, P!Origins
<1>4. P!PackageSave(u, f, src) /\ UNCHANGED <<remote, listings, listed, cache, call>>
  BY <1>1 DEF P!SaveLocal
<1>5. PackageTypes /\ Later
  BY <1>4, NoTime DEF PackageInv
<1>6. /\ IF src # P!Local /\ P!SaveOK(u, f) THEN P!NowClaimed(u, n) ELSE P!NowGenuine(u, n)
  BY <1>1 DEF P!SaveLocal
<1>7. CASE P!NowClaimed(u, n)
  <2>1. Marks(u, f, src)
    BY <1>1, <1>5, <1>7 DEF Marks, P!NowClaimed, PackageTypes
  <2>2. QED  BY <1>3, <1>4, <1>5, <2>1, SaveFits, SavedKeeps
<1>8. CASE src = P!Local /\ P!NowGenuine(u, n)
  <2>1. ComesFrom(f, src)
    BY <1>1, <1>2, <1>8 DEF ComesFrom, P!Origins
  <2>2. Marks(u, f, src)
    BY <1>1, <1>3, <1>5, <1>8, <2>1, NowMarks
  <2>3. QED  BY <1>3, <1>4, <1>5, <2>2, SaveFits, SavedKeeps
<1>9. CASE ~P!SaveOK(u, f) /\ P!NowGenuine(u, n)
  <2>1. saved' = saved /\ saved[u][n] = None
    BY <1>1, <1>4, <1>9 DEF P!PackageSave, P!SaveOK
  <2>2. SavedTypes'
    BY <1>5, <1>9, <2>1 DEF SavedTypes, PackageTypes, P!NowGenuine
  <2>3. RowsMove
    BY <1>9, <2>1 DEF RowsMove, RowMoves, P!NowGenuine
  <2>4. QED  BY <1>4, <2>2, <2>3, SavedKeeps
<1>10. QED  BY <1>6, <1>7, <1>8, <1>9

(* A package is deleted. *)
LEMMA DeletePackageStep ==
    ASSUME P!PackagesConstants, PackageInv, NEW u \in Users, NEW n \in Names, P!Delete(u, n)
    PROVE  PackageInv'
<1>1. saved \in [Users -> [Names -> SavedRows \cup {None}]] /\ saved' = [saved EXCEPT ![u][n] = None]
      /\ claimed \subseteq Users \X Names /\ claimed' = claimed \ {<<u, n>>}
      /\ UNCHANGED <<remote, listings, listed, cache, call>>
  BY DEF PackageInv, PackageTypes, P!Delete, P!NowGenuine
<1>2. saved' = [saved EXCEPT ![u] = [saved[u] EXCEPT ![n] = None]]
  BY <1>1
<1>3. SavedTypes'
  BY <1>1, <1>2 DEF SavedTypes
<1>4. \A v \in Users, m \in Names : saved'[v][m] = IF v = u /\ m = n THEN None ELSE saved[v][m]
  BY <1>1, <1>2
<1>5. RowsMove
  BY <1>1, <1>4 DEF RowsMove, RowMoves
<1>6. QED  BY <1>1, <1>3, <1>5, SavedKeeps

(* What was downloaded is saved with the source it was asked for. *)
LEMMA SaveFetchedStep == ASSUME P!PackagesConstants, PackageInv, NEW p \in Execs, P!SaveFetched(p) PROVE PackageInv'
<1>1. /\ call[p].pc = "save" /\ call[p].src.kind # "community" /\ UNCHANGED <<remote, listings, listed, cache>>
      /\ call[p] \in PackageCalls /\ PackageCallFits(call[p]) /\ call \in [Execs -> PackageCalls]
  BY DEF P!SaveFetched, PackageInv, PackageTypes
<1>2. /\ call[p].src \in P!Source /\ call[p].files \in P!Files /\ call[p].user \in Users /\ call[p].src.kind # "local"
      /\ ShowsPin(call[p])
  BY <1>1 DEF PackageCallFits
<1>3. call[p].src.kind \in P!Origins /\ Fetchable(call[p].src) /\ Downloaded(call[p])
  BY <1>1, <1>2 DEF PackageCallFits, P!Source
<1>4. PICK fork \in BOOLEAN : P!PackageSave(call[p].user, call[p].files, [call[p].src EXCEPT !.fork = fork])
  <2>1. (call[p].op = "fork" /\ call[p].files.name # Named[call[p].src.kind, call[p].src.sub]) \in BOOLEAN
    OBVIOUS
  <2>2. QED  BY <2>1, Zenon DEF P!SaveFetched
<1>5. PICK s \in P!Source : s = [call[p].src EXCEPT !.fork = fork] /\ s.kind = call[p].src.kind /\ s.sub = call[p].src.sub
                            /\ s.ref = call[p].src.ref
  <2>1. \A a \in P!Source : /\ [a EXCEPT !.fork = fork] \in P!Source /\ [a EXCEPT !.fork = fork].kind = a.kind
                             /\ [a EXCEPT !.fork = fork].sub = a.sub /\ [a EXCEPT !.fork = fork].ref = a.ref
    BY DEF P!Source
  <2>2. QED  BY <1>2, <2>1
<1>6. PICK f \in P!Files : f = call[p].files
  BY <1>2
<1>7. ComesFrom(f, s)
  <2>1. PICK v \in P!Versions :
               /\ call[p].src.ref # None => v = call[p].src.ref
               /\ \/ call[p].files = P!FilesOf(call[p].src, v)
                  \/ call[p].files = [P!FilesOf(call[p].src, v) EXCEPT !.name = ForkName]
    BY <1>3 DEF Downloaded
  <2>2. f.origin = s.kind /\ f.sub = s.sub /\ f.ver = v
    <3>1. \A src : /\ P!FilesOf(src, v).origin = src.kind /\ P!FilesOf(src, v).sub = src.sub /\ P!FilesOf(src, v).ver = v
                   /\ [P!FilesOf(src, v) EXCEPT !.name = ForkName].origin = src.kind
                   /\ [P!FilesOf(src, v) EXCEPT !.name = ForkName].sub = src.sub
                   /\ [P!FilesOf(src, v) EXCEPT !.name = ForkName].ver = v
      BY DEF P!FilesOf
    <3>2. PICK a : a = call[p].src
      OBVIOUS
    <3>3. f.origin = a.kind /\ f.sub = a.sub /\ f.ver = v
      <4>1. f = P!FilesOf(a, v) \/ f = [P!FilesOf(a, v) EXCEPT !.name = ForkName]
        BY <1>6, <2>1, <3>2
      <4>2. QED  BY <3>1, <4>1
    <3>4. QED  BY <1>5, <3>2, <3>3
  <2>3. Fetchable(s)
    BY <1>3, <1>5 DEF Fetchable
  <2>4. QED  BY <1>1, <1>2, <1>5, <2>1, <2>2, <2>3 DEF ComesFrom
<1>8. PICK c \in PackageCalls : call' = [call EXCEPT ![p] = c] /\ PackageCallFits(c)
  <2>1. CASE call' = [call EXCEPT ![p] = P!Idle]
    BY <2>1, IdleCall
  <2>2. CASE call' = [call EXCEPT ![p] = [call[p] EXCEPT !.pc = "done"]]
    <3> DEFINE c == [call[p] EXCEPT !.pc = "done"]
    <3>1. /\ c \in PackageCalls /\ c.pc = "done" /\ c.src = call[p].src /\ c.files = call[p].files /\ c.op = call[p].op
          /\ c.user = call[p].user /\ c.began = call[p].began /\ c.shown = call[p].shown
      BY <1>1 DEF PackageCalls, CallPcs
    <3> HIDE DEF c
    <3>2. Downloaded(c) /\ ShowsPin(c)
      BY <1>1, <1>2, <1>3, <3>1 DEF Downloaded, ShowsPin
    <3>3. PackageCallFits(c)
      BY <1>2, <1>3, <3>1, <3>2 DEF PackageCallFits
    <3>4. QED  BY <2>2, <3>1, <3>3 DEF c
  <2>3. QED  BY <1>1, <2>1, <2>2 DEF P!SaveFetched
<1>9. QED
  <2>1. P!PackageSave(call[p].user, f, s) /\ P!NowGenuine(call[p].user, f.name)
    BY <1>4, <1>5, <1>6 DEF P!SaveFetched
  <2>2. QED  BY <1>1, <1>2, <1>7, <1>8, <2>1, SaveKeeps

(* So is a copy of a listing. *)
LEMMA SaveListedStep == ASSUME P!PackagesConstants, PackageInv, NEW p \in Execs, P!SaveListed(p) PROVE PackageInv'
<1>1. /\ call[p].pc = "save" /\ call[p].src.kind = "community" /\ UNCHANGED <<remote, listings, listed, cache>>
      /\ call[p] \in PackageCalls /\ PackageCallFits(call[p]) /\ call \in [Execs -> PackageCalls]
      /\ P!PackageSave(call[p].user, call[p].files, call[p].src) /\ P!NowGenuine(call[p].user, call[p].files.name)
  BY DEF P!SaveListed, PackageInv, PackageTypes
<1>2. /\ call[p].src \in P!Source /\ call[p].files \in P!Files /\ call[p].user \in Users
      /\ ShowsPin(call[p]) /\ Listed(call[p].files, call[p].src.ref)
  BY <1>1 DEF PackageCallFits
<1>3. PICK f \in P!Files, s \in P!Source : f = call[p].files /\ s = call[p].src
  BY <1>2
<1>4. ComesFrom(f, s)
  BY <1>1, <1>2, <1>3 DEF ComesFrom, P!Origins
<1>5. PICK c \in PackageCalls : call' = [call EXCEPT ![p] = c] /\ PackageCallFits(c)
  <2>1. CASE call' = [call EXCEPT ![p] = P!Idle]
    BY <2>1, IdleCall
  <2>2. ASSUME NEW pc \in {"record", "done"}, call' = [call EXCEPT ![p] = [call[p] EXCEPT !.pc = pc]]
        PROVE  \E c \in PackageCalls : call' = [call EXCEPT ![p] = c] /\ PackageCallFits(c)
    <3> DEFINE c == [call[p] EXCEPT !.pc = pc]
    <3>1. /\ c \in PackageCalls /\ c.pc = pc /\ c.src = call[p].src /\ c.files = call[p].files /\ c.op = call[p].op
          /\ c.user = call[p].user /\ c.shown = call[p].shown
      BY <1>1, <2>2 DEF PackageCalls, CallPcs
    <3> HIDE DEF c
    <3>2. ShowsPin(c)
      BY <1>1, <1>2, <2>2, <3>1 DEF ShowsPin
    <3>3. PackageCallFits(c)
      BY <1>1, <1>2, <2>2, <3>1, <3>2 DEF PackageCallFits, Listed, P!Origins
    <3>4. QED  BY <2>2, <3>1, <3>3 DEF c
  <2>3. \/ call' = [call EXCEPT ![p] = P!Idle]
        \/ call' = [call EXCEPT ![p] = [call[p] EXCEPT !.pc = "record"]]
        \/ call' = [call EXCEPT ![p] = [call[p] EXCEPT !.pc = "done"]]
    BY <1>1 DEF P!SaveListed
  <2>4. QED  BY <2>1, <2>2, <2>3
<1>6. QED  BY <1>1, <1>2, <1>3, <1>4, <1>5, SaveKeeps

(* A sequence without its first element. *)
LEMMA TailOf ==
    ASSUME NEW T, NEW q \in Seq(T), Len(q) > 0
    PROVE  /\ Tail(q) \in Seq(T) /\ Len(Tail(q)) = Len(q) - 1
           /\ \A i \in 1 .. Len(Tail(q)) : \E j \in 1 .. Len(q) : Tail(q)[i] = q[j]
<1>1. Tail(q) \in Seq(T) /\ Len(Tail(q)) = Len(q) - 1 /\ Len(q) \in Nat
  OBVIOUS
<1>2. \A j \in 1 .. (Len(q) - 1) : Tail(q)[j] = q[j + 1]
  OBVIOUS
<1>3. \A i \in 1 .. Len(Tail(q)) : i \in 1 .. (Len(q) - 1) /\ i + 1 \in 1 .. Len(q)
  BY <1>1
<1>4. QED  BY <1>1, <1>2, <1>3

(* A sequence without one of its elements. *)
LEMMA RemoveOne ==
    ASSUME NEW T, NEW q \in Seq(T), NEW k \in 1 .. Len(q)
    PROVE  /\ P!RemoveAt(q, k) \in Seq(T) /\ Len(P!RemoveAt(q, k)) = Len(q) - 1
           /\ \A i \in 1 .. Len(P!RemoveAt(q, k)) : \E j \in 1 .. Len(q) : P!RemoveAt(q, k)[i] = q[j]
<1> DEFINE u == SubSeq(q, 1, k - 1)
           v == SubSeq(q, k + 1, Len(q))
           s == P!RemoveAt(q, k)
<1>1. u \in Seq(T) /\ Len(u) = k - 1 /\ \A i \in 1 .. Len(u) : u[i] = q[i]
  OBVIOUS
<1>2. v \in Seq(T) /\ Len(v) = Len(q) - k /\ \A i \in 1 .. Len(v) : v[i] = q[i + k]
  OBVIOUS
<1>3. s = u \o v
  BY DEF P!RemoveAt
<1> HIDE DEF s, u, v
<1>4. Len(q) \in Nat /\ k \in Nat
  OBVIOUS
<1>5. s \in Seq(T) /\ Len(s) = Len(q) - 1
  <2>1. u \in Seq(T) /\ v \in Seq(T)
    BY <1>1, <1>2
  <2>2. s \in Seq(T) /\ Len(s) = Len(u) + Len(v)
    BY <1>3, <2>1
  <2>3. QED  BY <1>1, <1>2, <1>4, <2>2
<1>6. ASSUME NEW i \in 1 .. Len(s) PROVE \E j \in 1 .. Len(q) : s[i] = q[j]
  <2>1. s[i] = IF i <= Len(u) THEN u[i] ELSE v[i - Len(u)]
    BY <1>1, <1>2, <1>3
  <2>2. CASE i <= Len(u)
    <3>1. i \in 1 .. Len(u) /\ i \in 1 .. Len(q)
      BY <1>1, <1>4, <1>5, <2>2
    <3>2. QED  BY <1>1, <2>1, <2>2, <3>1
  <2>3. CASE ~(i <= Len(u))
    <3>1. i - Len(u) \in 1 .. Len(v) /\ (i - Len(u)) + k \in 1 .. Len(q)
      BY <1>1, <1>2, <1>4, <1>5, <2>3
    <3>2. QED  BY <1>2, <2>1, <2>3, <3>1
  <2>4. QED  BY <2>2, <2>3
<1>7. QED  BY <1>5, <1>6 DEF s

(* The cache without a key. *)
LEMMA WithoutKeyIs ==
    ASSUME PackageTypes, NEW key
    PROVE  /\ P!WithoutKey(key) \in Seq(KeptRows)
           /\ P!Keyed(key) = {} => P!WithoutKey(key) = cache
           /\ P!Keyed(key) # {} => Len(P!WithoutKey(key)) = Len(cache) - 1
           /\ \A i \in 1 .. Len(P!WithoutKey(key)) : \E j \in 1 .. Len(cache) : P!WithoutKey(key)[i] = cache[j]
<1>1. cache \in Seq(KeptRows) /\ DOMAIN cache = 1 .. Len(cache)
  BY DEF PackageTypes
<1>2. CASE P!Keyed(key) = {}
  BY <1>1, <1>2 DEF P!WithoutKey
<1>3. CASE P!Keyed(key) # {}
  <2>1. PICK k \in 1 .. Len(cache) : P!WithoutKey(key) = P!RemoveAt(cache, k)
    BY <1>1, <1>3 DEF P!WithoutKey, P!Keyed
  <2>2. PICK q \in Seq(KeptRows) : q = cache
    BY <1>1
  <2>3. PICK s : s = P!RemoveAt(q, k)
    OBVIOUS
  <2>4. k \in 1 .. Len(q)
    BY <2>1, <2>2
  <2>5. s \in Seq(KeptRows) /\ Len(s) = Len(q) - 1
    BY <2>3, <2>4, RemoveOne
  <2>6. \A i \in 1 .. Len(s) : \E j \in 1 .. Len(q) : s[i] = q[j]
    BY <2>3, <2>4, RemoveOne
  <2>7. QED  BY <1>3, <2>1, <2>2, <2>3, <2>5, <2>6
<1>4. QED  BY <1>2, <1>3

(* The cache without a key, and with one more entry. *)
LEMMA WithOne ==
    ASSUME P!PackagesConstants, PackageInv, NEW s \in Seq(KeptRows), Len(s) < MaxEntries,
           \A i \in 1 .. Len(s) : \E j \in 1 .. Len(cache) : s[i] = cache[j],
           NEW e \in KeptRows, KeptFits(e)
    PROVE  /\ Append(s, e) \in Seq(KeptRows) /\ Len(Append(s, e)) <= MaxEntries
           /\ \A i \in 1 .. Len(Append(s, e)) : KeptFits(Append(s, e)[i])
<1>1. Append(s, e) \in Seq(KeptRows) /\ Len(Append(s, e)) = Len(s) + 1 /\ Len(s) \in Nat /\ MaxEntries \in Nat
  BY DEF P!PackagesConstants
<1>2. \A i \in 1 .. Len(Append(s, e)) : Append(s, e)[i] = IF i <= Len(s) THEN s[i] ELSE e
  OBVIOUS
<1>3. \A i \in 1 .. Len(s) : KeptFits(s[i])
  BY DEF PackageInv
<1>4. ASSUME NEW i \in 1 .. Len(Append(s, e)) PROVE KeptFits(Append(s, e)[i])
  <2>1. CASE i <= Len(s)
    BY <1>1, <1>2, <1>3, <2>1
  <2>2. CASE ~(i <= Len(s))
    BY <1>2, <2>2
  <2>3. QED  BY <2>1, <2>2
<1>5. QED  BY <1>1, <1>4

(* A change of the cache and of one call. *)
LEMMA CacheKeeps ==
    ASSUME P!PackagesConstants, PackageInv, UNCHANGED <<remote, saved, claimed, listings, listed>>,
           cache' \in Seq(KeptRows), Len(cache') <= MaxEntries, \A i \in 1 .. Len(cache') : KeptFits(cache'[i]),
           call' \in [Execs -> PackageCalls], \A q \in Execs : call'[q] = call[q] \/ PackageCallFits(call'[q])
    PROVE  PackageInv'
<1>1. PackageTypes /\ Later
  BY NoTime DEF PackageInv
<1>2. /\ remote' \in [P!Origins -> P!Versions] /\ listed' \in [Names -> SUBSET P!Files]
      /\ SavedTypes' /\ RowsMove
      /\ listings' \in [Names -> ListingRows \cup {None}]
  BY <1>1, RowsStay DEF PackageTypes
<1>3. \A q \in Execs : \E d \in PackageCalls : call'[q] = d /\ (d = call[q] \/ PackageCallFits(d)')
  <2>1. SUFFICES ASSUME NEW q \in Execs PROVE \E d \in PackageCalls : call'[q] = d /\ (d = call[q] \/ PackageCallFits(d)')
    OBVIOUS
  <2>2. PICK d \in PackageCalls : d = call'[q] /\ (d = call[q] \/ PackageCallFits(d))
    OBVIOUS
  <2>3. QED  BY <1>1, <1>2, <2>2, CallFitsLater
<1>4. \A n \in Names : \E r : listings'[n] = r /\ (r = listings[n] \/ r = None \/ (r.files \in listed'[n] /\ r.by = r.owner))
  OBVIOUS
<1>5. QED  BY <1>1, <1>2, <1>3, <1>4, StepKeeps

(* A preview that looks in the cache. *)
Looking(c) == /\ c \in PackageCalls /\ c.op = "preview" /\ c.user \in Users /\ Fetchable(c.src) /\ c.shown = None

(* What is answered from a fetched version or a kept one: the pinned place is followed, any other is shown. *)
LEMMA AnswerFits ==
    ASSUME P!PackagesConstants, NEW c, Looking(c), NEW f, f.files \in P!Files, f.commit \in P!Versions \cup {None},
           P!Pinned(c.src) => f.commit = None \/ (f.commit = c.src.ref => f.files = P!FilesOf(c.src, c.src.ref)),
           P!Pinned(c.src) /\ f.commit = None => f.files = P!FilesOf(c.src, c.src.ref)
    PROVE  P!Answer(c, f) \in PackageCalls /\ PackageCallFits(P!Answer(c, f))
<1> DEFINE pin == P!Pin(c.src, f.commit)
           a == P!Answer(c, f)
<1>1. pin = c.src \/ (c.src.kind = "git" /\ f.commit # None /\ pin = [c.src EXCEPT !.ref = f.commit])
  BY DEF P!Pin
<1>2. Fetchable(pin)
  <2>1. \A s \in P!Source, k \in P!Versions : /\ [s EXCEPT !.ref = k] \in P!Source /\ [s EXCEPT !.ref = k].kind = s.kind
                                             /\ [s EXCEPT !.ref = k].ref = k
    BY DEF P!Source
  <2>2. Fetchable(c.src)
    BY DEF Looking
  <2>3. CASE pin = c.src
    BY <2>2, <2>3
  <2>4. CASE f.commit \in P!Versions /\ pin = [c.src EXCEPT !.ref = f.commit]
    <3>1. pin \in P!Source /\ pin.kind = c.src.kind /\ pin.ref = f.commit
      BY <2>1, <2>2, <2>4 DEF Fetchable
    <3>2. QED  BY <2>2, <2>4, <3>1 DEF Fetchable
  <2>5. QED  BY <1>1, <2>3, <2>4
<1>3. CASE pin # c.src
  <2>1. a = [c EXCEPT !.pc = "follow", !.src = pin]
    BY <1>3 DEF P!Answer
  <2> HIDE DEF pin
  <2>2. /\ a \in PackageCalls /\ a.pc = "follow" /\ a.src = pin /\ a.op = "preview" /\ a.user \in Users /\ a.shown = None
    BY <1>2, <2>1 DEF PackageCalls, CallPcs, Looking, Fetchable
  <2> HIDE DEF a
  <2>3. PackageCallFits(a)
    BY <1>2, <2>2 DEF PackageCallFits, ShowsPin
  <2>4. QED  BY <2>2, <2>3 DEF a
<1>4. CASE pin = c.src
  <2>1. a = [c EXCEPT !.pc = "shown", !.shown = f.files]
    BY <1>4 DEF P!Answer
  <2>2. P!Pinned(c.src) => f.files = P!FilesOf(c.src, c.src.ref)
    <3>1. SUFFICES ASSUME P!Pinned(c.src), f.commit # None PROVE f.commit = c.src.ref
      OBVIOUS
    <3>2. c.src.kind = "git" /\ c.src = [c.src EXCEPT !.ref = f.commit]
      BY <1>4, <3>1 DEF P!Pin, P!Pinned
    <3>3. \A s \in P!Source : [s EXCEPT !.ref = f.commit].ref = f.commit
      BY DEF P!Source
    <3>4. QED  BY <3>2, <3>3 DEF Looking, Fetchable
  <2> HIDE DEF pin
  <2>3. /\ a \in PackageCalls /\ a.pc = "shown" /\ a.src = c.src /\ a.op = "preview" /\ a.user \in Users /\ a.shown = f.files
    BY <2>1 DEF PackageCalls, CallPcs, Looking
  <2> HIDE DEF a
  <2>4. ShowsPin(a)
    BY <2>2, <2>3 DEF ShowsPin
  <2>5. PackageCallFits(a)
    BY <2>3, <2>4 DEF PackageCallFits, Looking
  <2>6. QED  BY <2>3, <2>5 DEF a
<1>5. QED  BY <1>3, <1>4

(* A hit is answered and becomes the last; anything else waits for a fetch or starts one. *)
LEMMA LookupKeeps ==
    ASSUME P!PackagesConstants, PackageInv, NEW p \in Execs, NEW c, Looking(c), P!Lookup(p, c),
           UNCHANGED <<remote, saved, claimed, listings, listed>>
    PROVE  PackageInv'
<1> DEFINE hit == {i \in P!Keyed(c.src) : cache[i].fresh}
           flight == {q \in Execs \ {p} : /\ call[q].op = "preview"
                                          /\ call[q].pc \in {"resolve", "download"}
                                          /\ call[q].src = c.src}
           w == P!WithoutKey(c.src)
<1>1. PackageTypes /\ call \in [Execs -> PackageCalls] /\ cache \in Seq(KeptRows) /\ DOMAIN cache = 1 .. Len(cache)
      /\ Len(cache) \in Nat /\ Len(cache) <= MaxEntries /\ MaxEntries \in Nat
  BY DEF PackageInv, PackageTypes, P!PackagesConstants
<1>2. /\ w \in Seq(KeptRows) /\ Len(w) \in Nat
      /\ P!Keyed(c.src) = {} => w = cache
      /\ P!Keyed(c.src) # {} => Len(w) = Len(cache) - 1
      /\ \A i \in 1 .. Len(w) : \E j \in 1 .. Len(cache) : w[i] = cache[j]
  <2>1. /\ w \in Seq(KeptRows)
        /\ P!Keyed(c.src) = {} => w = cache
        /\ P!Keyed(c.src) # {} => Len(w) = Len(cache) - 1
        /\ \A i \in 1 .. Len(w) : \E j \in 1 .. Len(cache) : w[i] = cache[j]
    BY <1>1, WithoutKeyIs, Zenon
  <2> HIDE DEF w
  <2>2. Len(w) \in Nat
    BY <2>1
  <2>3. QED  BY <2>1, <2>2
<1>3. CASE hit # {}
  <2>1. PICK i \in hit : cache' = Append(w, cache[i]) /\ call' = [call EXCEPT ![p] = P!Answer(c, cache[i])]
    BY <1>3 DEF P!Lookup
  <2> HIDE DEF w
  <2>2. i \in 1 .. Len(cache) /\ cache[i].key = c.src /\ P!Keyed(c.src) # {}
    BY <1>1, <2>1 DEF P!Keyed
  <2> HIDE DEF hit, flight
  <2>3. cache[i] \in KeptRows /\ KeptFits(cache[i])
    BY <1>1, <2>2 DEF PackageInv
  <2>4. Len(w) < MaxEntries
    <3>1. Len(w) = Len(cache) - 1
      BY <1>2, <2>2
    <3>2. QED  BY <1>1, <3>1
  <2>5. cache' \in Seq(KeptRows) /\ Len(cache') <= MaxEntries /\ \A j \in 1 .. Len(cache') : KeptFits(cache'[j])
    BY <1>2, <2>1, <2>3, <2>4, WithOne
  <2>6. /\ cache[i].files \in P!Files /\ cache[i].commit \in P!Versions \cup {None}
        /\ P!Pinned(c.src) => cache[i].files = P!FilesOf(c.src, c.src.ref)
    BY <2>2, <2>3 DEF KeptRows, KeptFits, P!Pinned
  <2>7. P!Answer(c, cache[i]) \in PackageCalls /\ PackageCallFits(P!Answer(c, cache[i]))
    BY <2>6, AnswerFits
  <2>8. call' \in [Execs -> PackageCalls] /\ \A q \in Execs : call'[q] = call[q] \/ PackageCallFits(call'[q])
    BY <1>1, <2>1, <2>7
  <2>9. QED  BY <2>5, <2>8, CacheKeeps
<1>4. CASE hit = {}
  <2> DEFINE d == [c EXCEPT !.commit = c.src.ref, !.pc = IF flight # {} THEN "join" ELSE P!FetchPc(c.src)]
  <2>1. cache' = w /\ call' = [call EXCEPT ![p] = d]
    BY <1>4 DEF P!Lookup
  <2> HIDE DEF hit
  <2>2. d.pc = "join" \/ d.pc = P!FetchPc(c.src)
    BY DEF PackageCalls, Looking
  <2>3. /\ d \in PackageCalls /\ d.src = c.src /\ d.op = "preview" /\ d.user \in Users /\ d.shown = None
        /\ d.commit = c.src.ref
    <3>1. c \in PackageCalls /\ c.op = "preview" /\ c.user \in Users /\ c.shown = None /\ c.src.ref \in P!Versions \cup {None}
      BY DEF Looking, Fetchable
    <3>2. (IF flight # {} THEN "join" ELSE P!FetchPc(c.src)) \in CallPcs
      BY DEF CallPcs, P!FetchPc
    <3> HIDE DEF flight
    <3>3. PICK x \in CallPcs : x = IF flight # {} THEN "join" ELSE P!FetchPc(c.src)
      BY <3>2
    <3>4. PICK k \in P!Versions \cup {None} : k = c.src.ref
      BY <3>1
    <3>5. d = [c EXCEPT !.commit = k, !.pc = x]
      BY <3>3, <3>4
    <3> HIDE DEF d
    <3>6. QED  BY <3>1, <3>4, <3>5 DEF PackageCalls
  <2> HIDE DEF d, w
  <2>4. PackageCallFits(d)
    <3>1. CASE d.pc = "join"
      BY <2>3, <3>1 DEF PackageCallFits, Looking, ShowsPin
    <3>2. CASE d.pc = P!FetchPc(c.src)
      <4>1. ShowsPin(d) /\ Fetchable(c.src)
        BY <2>3 DEF ShowsPin, Looking
      <4>2. QED  BY <2>3, <3>2, <4>1, FetchBegins
    <3>3. QED  BY <2>2, <3>1, <3>2
  <2>5. call' \in [Execs -> PackageCalls] /\ \A q \in Execs : call'[q] = call[q] \/ PackageCallFits(call'[q])
    BY <1>1, <2>1, <2>3, <2>4
  <2>6. cache' \in Seq(KeptRows) /\ Len(cache') <= MaxEntries /\ \A j \in 1 .. Len(cache') : KeptFits(cache'[j])
    <3>1. \A k, l, m \in Nat : (k = l \/ k = l - 1) /\ l <= m => k <= m
      OBVIOUS
    <3>2. Len(w) <= MaxEntries
      <4>1. Len(w) = Len(cache) \/ Len(w) = Len(cache) - 1
        BY <1>2
      <4>2. Len(w) \in Nat /\ Len(cache) \in Nat /\ MaxEntries \in Nat /\ Len(cache) <= MaxEntries
        BY <1>1, <1>2
      <4>3. QED  BY <3>1, <4>1, <4>2
    <3>3. \A j \in 1 .. Len(w) : KeptFits(w[j])
      BY <1>2 DEF PackageInv
    <3>4. QED  BY <1>2, <2>1, <3>2, <3>3
  <2>7. QED  BY <2>5, <2>6, CacheKeeps
<1>5. QED  BY <1>3, <1>4

(* A page of a source is opened. *)
LEMMA OpenPreviewStep ==
    ASSUME P!PackagesConstants, PackageInv, NEW p \in Execs, NEW u \in Users, NEW src \in Sources, P!OpenPreview(p, u, src)
    PROVE  PackageInv'
<1> DEFINE c == [P!Idle EXCEPT !.op = "preview", !.user = u, !.src = src]
<1>1. P!Lookup(p, c) /\ UNCHANGED <<remote, saved, claimed, listings, listed>>
  BY DEF P!OpenPreview
<1>2. Fetchable(src)
  BY DEF Fetchable, P!PackagesConstants
<1>3. Looking(c)
  BY <1>2, IdleCall DEF Looking, PackageCalls, P!Idle, CallPcs, P!AllOps, Fetchable
<1> HIDE DEF c
<1>4. QED  BY <1>1, <1>3, LookupKeeps

(* The page follows the redirect to the pinned source. *)
LEMMA FollowPinStep == ASSUME P!PackagesConstants, PackageInv, NEW p \in Execs, P!FollowPin(p) PROVE PackageInv'
<1>1. P!Lookup(p, call[p]) /\ UNCHANGED <<remote, saved, claimed, listings, listed>> /\ call[p].pc = "follow"
  BY DEF P!FollowPin
<1>2. call[p] \in PackageCalls /\ PackageCallFits(call[p])
  BY DEF PackageInv, PackageTypes
<1>3. Looking(call[p])
  BY <1>1, <1>2 DEF Looking, PackageCallFits, ShowsPin
<1>4. QED  BY <1>1, <1>3, LookupKeeps

(* What a settled fetch leaves in the cache: a pinned version, or an archive. *)
LEMMA PutFits ==
    ASSUME P!PackagesConstants, PackageInv, NEW src, Fetchable(src), NEW f, NEW v \in P!Versions,
           f.files = P!FilesOf(src, v), f.commit = None \/ f.commit = v
    PROVE  /\ P!PutSettled(src, f) \in Seq(KeptRows) /\ Len(P!PutSettled(src, f)) <= MaxEntries
           /\ \A i \in 1 .. Len(P!PutSettled(src, f)) : KeptFits(P!PutSettled(src, f)[i])
<1> DEFINE key == P!Pin(src, f.commit)
           rest == IF P!Keyed(key) = {} /\ Len(cache) >= MaxEntries THEN Tail(cache) ELSE P!WithoutKey(key)
           e == [key |-> key, files |-> f.files, commit |-> f.commit, fresh |-> TRUE]
<1>1. PackageTypes /\ cache \in Seq(KeptRows) /\ Len(cache) \in Nat /\ Len(cache) <= MaxEntries /\ MaxEntries \in Nat /\ MaxEntries > 0
  BY DEF PackageInv, PackageTypes, P!PackagesConstants
<1>2. CASE f.commit = None /\ src.kind # "url"
  <2>1. P!PutSettled(src, f) = cache
    BY <1>2 DEF P!PutSettled
  <2>2. QED  BY <1>1, <2>1 DEF PackageInv
<1>3. CASE ~(f.commit = None /\ src.kind # "url")
  <2>1. P!PutSettled(src, f) = Append(rest, e)
    BY <1>3 DEF P!PutSettled
  <2>2. /\ Fetchable(key) /\ key.kind = src.kind /\ key.sub = src.sub
        /\ key.kind = "git" => key.ref # None /\ key.ref = v
    <3>1. \A s \in P!Source, k \in P!Versions : /\ [s EXCEPT !.ref = k] \in P!Source /\ [s EXCEPT !.ref = k].kind = s.kind
                                               /\ [s EXCEPT !.ref = k].sub = s.sub /\ [s EXCEPT !.ref = k].ref = k
      BY DEF P!Source
    <3>2. CASE src.kind = "git" /\ f.commit # None
      <4>1. key = [src EXCEPT !.ref = v]
        BY <3>2 DEF P!Pin
      <4>2. QED  BY <3>1, <3>2, <4>1 DEF Fetchable
    <3>3. CASE ~(src.kind = "git" /\ f.commit # None)
      <4>1. key = src /\ src.kind = "url"
        BY <1>3, <3>3 DEF P!Pin, Fetchable, P!Origins
      <4>2. QED  BY <4>1
    <3>4. QED  BY <3>2, <3>3
  <2> HIDE DEF key
  <2>3. f.files \in P!Files /\ \A k : k.kind = src.kind /\ k.sub = src.sub => P!FilesOf(k, v) = f.files
    <3>1. P!FilesOf(src, v) \in P!Files
      BY PlaceFiles
    <3>2. \A k : k.kind = src.kind /\ k.sub = src.sub => P!FilesOf(k, v) = P!FilesOf(src, v)
      BY DEF P!FilesOf
    <3>3. QED  BY <3>1, <3>2
  <2>4. e \in KeptRows /\ KeptFits(e)
    <3>1. e.key = key /\ e.files = f.files
      OBVIOUS
    <3>2. e \in KeptRows
      BY <2>2, <2>3 DEF KeptRows, Fetchable
    <3> HIDE DEF e
    <3>3. QED  BY <2>2, <2>3, <3>1, <3>2 DEF KeptFits
  <2> HIDE DEF e
  <2>5. rest \in Seq(KeptRows) /\ Len(rest) < MaxEntries /\ \A i \in 1 .. Len(rest) : \E j \in 1 .. Len(cache) : rest[i] = cache[j]
    <3>1. CASE P!Keyed(key) = {} /\ Len(cache) >= MaxEntries
      <4>1. Len(cache) > 0 /\ Len(cache) = MaxEntries
        BY <1>1, <3>1
      <4>2. PICK q \in Seq(KeptRows) : q = cache
        BY <1>1
      <4>3. PICK s : s = Tail(q)
        OBVIOUS
      <4>4. s \in Seq(KeptRows) /\ Len(s) = Len(q) - 1
        BY <4>1, <4>2, <4>3, TailOf
      <4>5. \A i \in 1 .. Len(s) : \E j \in 1 .. Len(q) : s[i] = q[j]
        BY <4>1, <4>2, <4>3, TailOf
      <4>6. rest = s
        BY <3>1, <4>2, <4>3
      <4>7. Len(s) < MaxEntries
        BY <1>1, <4>1, <4>2, <4>4
      <4> HIDE DEF rest
      <4>8. QED  BY <4>2, <4>4, <4>5, <4>6, <4>7
    <3>2. CASE ~(P!Keyed(key) = {} /\ Len(cache) >= MaxEntries)
      <4> DEFINE w == P!WithoutKey(key)
      <4>1. /\ w \in Seq(KeptRows)
            /\ P!Keyed(key) = {} => w = cache
            /\ P!Keyed(key) # {} => Len(w) = Len(cache) - 1
            /\ \A i \in 1 .. Len(w) : \E j \in 1 .. Len(cache) : w[i] = cache[j]
        BY <1>1, WithoutKeyIs, Zenon
      <4>2. rest = w
        BY <3>2
      <4> HIDE DEF w, rest
      <4>3. Len(w) \in Nat
        BY <4>1
      <4>4. \A k, l, m \in Nat : (k = l - 1 /\ l <= m) \/ (k = l /\ ~(l >= m)) => k < m
        OBVIOUS
      <4>5. (Len(w) = Len(cache) - 1 /\ Len(cache) <= MaxEntries) \/ (Len(w) = Len(cache) /\ ~(Len(cache) >= MaxEntries))
        BY <1>1, <3>2, <4>1
      <4>6. Len(w) < MaxEntries
        BY <1>1, <4>3, <4>4, <4>5
      <4>7. QED  BY <4>1, <4>2, <4>6
    <3>3. QED  BY <3>1, <3>2
  <2> HIDE DEF rest
  <2>6. QED  BY <2>1, <2>4, <2>5, WithOne
<1>4. QED  BY <1>2, <1>3

(* A preview's fetch settles: it is kept, and it and those that wait for it are answered. *)
LEMMA SettlesStep == ASSUME P!PackagesConstants, PackageInv, NEW p \in Execs, P!PreviewSettles(p) PROVE PackageInv'
<1>1. /\ call[p].pc = "download" /\ call[p].op = "preview" /\ UNCHANGED <<remote, saved, claimed, listings, listed>>
      /\ call[p] \in PackageCalls /\ PackageCallFits(call[p]) /\ call \in [Execs -> PackageCalls]
  BY DEF P!PreviewSettles, PackageInv, PackageTypes
<1>2. PICK f \in P!Fetched(call[p]) :
          /\ cache' = P!PutSettled(call[p].src, f)
          /\ call' = [q \in Execs |-> IF q = p \/ (call[q].pc = "join" /\ call[q].src = call[p].src)
                                      THEN P!Answer(call[q], f) ELSE call[q]]
  BY DEF P!PreviewSettles
<1>3. PICK v \in P!Versions :
             /\ f.files = P!FilesOf(call[p].src, v)
             /\ f.commit = None \/ f.commit = v
             /\ call[p].src.ref # None => v = call[p].src.ref /\ f.commit = v
  BY <1>1, FetchedIs
<1>4. Fetchable(call[p].src)
  BY <1>1 DEF PackageCallFits
<1>5. cache' \in Seq(KeptRows) /\ Len(cache') <= MaxEntries /\ \A i \in 1 .. Len(cache') : KeptFits(cache'[i])
  BY <1>2, <1>3, <1>4, PutFits
<1>6. f.files \in P!Files /\ f.commit \in P!Versions \cup {None}
  BY <1>3, <1>4, PlaceFiles
<1>7. ASSUME NEW q \in Execs, q = p \/ (call[q].pc = "join" /\ call[q].src = call[p].src)
      PROVE  P!Answer(call[q], f) \in PackageCalls /\ PackageCallFits(P!Answer(call[q], f))
  <2>1. call[q] \in PackageCalls /\ PackageCallFits(call[q]) /\ call[q].src = call[p].src
    BY <1>1, <1>7 DEF PackageInv
  <2>2. Looking(call[q])
    BY <1>1, <1>4, <1>7, <2>1 DEF Looking, PackageCallFits, ShowsPin
  <2>3. P!Pinned(call[q].src) => f.files = P!FilesOf(call[q].src, call[q].src.ref)
    BY <1>3, <2>1 DEF P!Pinned
  <2>4. QED  BY <1>6, <2>2, <2>3, AnswerFits
<1>8. call' \in [Execs -> PackageCalls] /\ \A q \in Execs : call'[q] = call[q] \/ PackageCallFits(call'[q])
  BY <1>1, <1>2, <1>7
<1>9. QED  BY <1>1, <1>5, <1>8, CacheKeeps

(* What a page shows is installed from the place it names. *)
LEMMA InstallShownStep == ASSUME P!PackagesConstants, PackageInv, NEW p \in Execs, P!InstallShown(p) PROVE PackageInv'
<1> DEFINE src == call[p].src
           c == [call[p] EXCEPT !.op = "install", !.pc = P!FetchPc(src), !.commit = src.ref, !.began = remote[src.kind]]
<1>1. /\ call[p].pc = "shown" /\ UNCHANGED <<remote, saved, claimed, listings, listed, cache>>
      /\ call' = [call EXCEPT ![p] = c]
      /\ call[p] \in PackageCalls /\ PackageCallFits(call[p])
  BY DEF P!InstallShown, PackageInv, PackageTypes
<1>2. Fetchable(src) /\ call[p].user \in Users /\ ShowsPin(call[p])
  BY <1>1 DEF PackageCallFits
<1>3. remote[src.kind] \in Nat
  BY <1>2 DEF PackageInv, PackageTypes, Fetchable, P!Versions, P!PackagesConstants
<1>4. P!FetchPc(src) \in CallPcs /\ "install" \in P!AllOps /\ src.ref \in P!Versions \cup {None}
  BY <1>2 DEF P!FetchPc, CallPcs, P!AllOps, Fetchable
<1>5. /\ c \in PackageCalls /\ c.src = src /\ c.pc = P!FetchPc(src) /\ c.commit = src.ref /\ c.user \in Users
      /\ c.began = remote[src.kind] /\ c.shown = call[p].shown /\ c.op = "install"
  BY <1>1, <1>2, <1>3, <1>4 DEF PackageCalls
<1> HIDE DEF c
<1>6. ShowsPin(c)
  BY <1>2, <1>5 DEF ShowsPin
<1>7. PackageCallFits(c)
  BY <1>2, <1>5, <1>6, FetchBegins
<1>8. QED  BY <1>1, <1>5, <1>7, CallKeeps

(* A saved package is fetched again, or copied from its listing. *)
LEMMA UpdateStep ==
    ASSUME P!PackagesConstants, PackageInv, NEW p \in Execs, NEW u \in Users, NEW n \in Names, P!Update(p, u, n)
    PROVE  PackageInv'
<1>1. saved[u][n] # None /\ UNCHANGED <<remote, saved, claimed, listings, listed, cache>>
  BY DEF P!Update
<1>2. PICK pkg \in SavedRows : pkg = saved[u][n]
  BY <1>1 DEF PackageInv, PackageTypes
<1>3. pkg.source \in P!Source /\ Readable(pkg.source)
  BY <1>1, <1>2 DEF PackageInv, SavedFits, SavedRows
<1>4. CASE /\ pkg.source.kind = "community"
           /\ P!Start(p, [P!Idle EXCEPT !.op = "update", !.user = u, !.pc = "listing", !.was = pkg, !.src = pkg.source])
  <2> DEFINE c == [P!Idle EXCEPT !.op = "update", !.user = u, !.pc = "listing", !.was = pkg, !.src = pkg.source]
  <2>1. call' = [call EXCEPT ![p] = c]
    BY <1>4 DEF P!Start
  <2>2. /\ c \in PackageCalls /\ c.pc = "listing" /\ c.user = u /\ c.src = pkg.source /\ c.shown = None
    BY <1>3 DEF PackageCalls, CallPcs, P!Idle, P!AllOps
  <2>3. pkg.source.ref \in Names
    BY <1>3, <1>4 DEF Readable
  <2> HIDE DEF c
  <2>4. PackageCallFits(c)
    BY <1>3, <1>4, <2>2, <2>3 DEF PackageCallFits, ShowsPin
  <2>5. QED  BY <1>1, <2>1, <2>2, <2>4, CallKeeps
<1>5. CASE P!ParseSource(pkg.source) # None /\ P!FetchStart(p, "update", u, P!ParseSource(pkg.source), pkg)
  <2>1. pkg.source.kind \in P!Origins
    BY <1>3, <1>5 DEF P!ParseSource, P!Source, P!Origins
  <2>2. Fetchable(pkg.source)
    BY <1>3, <2>1 DEF Readable
  <2>3. \A a \in P!Source : LET b == [a EXCEPT !.sub = FALSE, !.fork = FALSE]
                            IN  b \in P!Source /\ b.kind = a.kind /\ b.ref = a.ref
    BY DEF P!Source
  <2>4. Fetchable(P!ParseSource(pkg.source))
    BY <1>3, <1>5, <2>2, <2>3 DEF P!ParseSource, Fetchable
  <2>5. QED  BY <1>1, <1>5, <2>4, FetchStarts
<1>6. QED  BY <1>2, <1>4, <1>5 DEF P!Update

(* A call ends. *)
LEMMA FinishStep == ASSUME P!PackagesConstants, PackageInv, NEW p \in Execs, P!Finish(p) PROVE PackageInv'
  BY IdleCall, CallKeeps DEF P!Finish

(* The saved files are read, to be listed. *)
LEMMA PublishPackageStep ==
    ASSUME P!PackagesConstants, PackageInv, NEW p \in Execs, NEW u \in Users, NEW n \in Names, P!Publish(p, u, n)
    PROVE  PackageInv'
<1>1. saved[u][n] # None /\ UNCHANGED <<remote, saved, claimed, listings, listed, cache>>
  BY DEF P!Publish
<1>2. saved[u][n].files \in P!Files
  BY <1>1 DEF PackageInv, PackageTypes, SavedRows
<1> DEFINE c == [P!Idle EXCEPT !.op = "publish", !.user = u, !.pc = "publish", !.files = saved[u][n].files]
<1>3. call' = [call EXCEPT ![p] = c]
  BY DEF P!Publish, P!Start
<1>4. c \in PackageCalls /\ c.pc = "publish" /\ c.user = u /\ c.files = saved[u][n].files /\ c.shown = None
  BY <1>2 DEF PackageCalls, CallPcs, P!Idle, P!AllOps
<1> HIDE DEF c
<1>5. PackageCallFits(c)
  BY <1>2, <1>4 DEF PackageCallFits, ShowsPin
<1>6. QED  BY <1>1, <1>3, <1>4, <1>5, CallKeeps

(* The listings change, and more may have been listed. *)
LEMMA ListingsKeep ==
    ASSUME P!PackagesConstants, PackageInv, UNCHANGED <<remote, saved, claimed, cache>>,
           listed' \in [Names -> SUBSET P!Files], \A n \in Names : listed[n] \subseteq listed'[n],
           listings' \in [Names -> ListingRows \cup {None}],
           \A n \in Names : \E r : /\ listings'[n] = r
                                   /\ r = listings[n] \/ r = None \/ (r.files \in listed'[n] /\ r.by = r.owner),
           call' = call \/ \E p \in Execs : call' = [call EXCEPT ![p] = P!Idle]
    PROVE  PackageInv'
<1>1. PackageTypes /\ Later
  <2>1. \A o \in P!Origins : remote[o] <= remote[o]
    BY DEF PackageInv, PackageTypes, P!PackagesConstants, P!Versions
  <2>2. QED  BY <2>1 DEF PackageInv, Later
<1>2. PackageCallFits(P!Idle)'
  BY <1>1, IdleCall, CallFitsLater DEF PackageTypes
<1>3. call' \in [Execs -> PackageCalls] /\ \A q \in Execs : call'[q] = call[q] \/ call'[q] = P!Idle
  BY <1>1, IdleCall DEF PackageTypes
<1>4. \A q \in Execs : \E c \in PackageCalls : call'[q] = c /\ (c = call[q] \/ PackageCallFits(c)')
  <2>1. SUFFICES ASSUME NEW q \in Execs PROVE \E c \in PackageCalls : call'[q] = c /\ (c = call[q] \/ PackageCallFits(c)')
    OBVIOUS
  <2>2. CASE call'[q] = call[q]
    BY <1>1, <2>2 DEF PackageTypes
  <2>3. CASE call'[q] = P!Idle
    BY <1>2, <2>3, IdleCall
  <2>4. QED  BY <1>3, <2>2, <2>3
<1>5. remote' \in [P!Origins -> P!Versions] /\ SavedTypes' /\ RowsMove /\ cache' \in Seq(KeptRows)
  BY <1>1, RowsStay DEF PackageTypes
<1>6. Len(cache') <= MaxEntries /\ \A i \in 1 .. Len(cache') : KeptFits(cache'[i])
  BY DEF PackageInv
<1>7. QED  BY <1>1, <1>3, <1>4, <1>5, <1>6, StepKeeps

(* The owner of a name, or the first to ask, lists the files. *)
LEMMA PublishListingStep == ASSUME P!PackagesConstants, PackageInv, NEW p \in Execs, P!PublishListing(p) PROVE PackageInv'
<1>1. /\ UNCHANGED <<remote, saved, claimed, cache>> /\ call' = [call EXCEPT ![p] = P!Idle] /\ call[p].pc = "publish"
      /\ listings \in [Names -> ListingRows \cup {None}] /\ listed \in [Names -> SUBSET P!Files]
      /\ PackageCallFits(call[p])
  BY DEF P!PublishListing, PackageInv, PackageTypes
<1>2. PICK f \in P!Files, u \in Users : f = call[p].files /\ u = call[p].user
  BY <1>1 DEF PackageCallFits
<1>3. PICK n \in Names : n = f.name
  BY DEF P!Files
<1>4. CASE ~P!MayPublish(u, n)
  <2>1. listings' = listings /\ listed' = listed
    BY <1>2, <1>3, <1>4 DEF P!PublishListing
  <2>2. QED  BY <1>1, <2>1, ListingsKeep
<1>5. CASE P!MayPublish(u, n)
  <2>1. PICK r \in ListingRows :
               /\ r = IF listings[n] = None THEN [owner |-> u, by |-> u, files |-> f, installs |-> 0]
                      ELSE [listings[n] EXCEPT !.files = f, !.by = u]
               /\ r.files = f /\ r.by = r.owner
    <3>1. CASE listings[n] = None
      <4>1. [owner |-> u, by |-> u, files |-> f, installs |-> 0] \in ListingRows
        BY DEF ListingRows
      <4>2. QED  BY <3>1, <4>1
    <3>2. CASE listings[n] # None
      <4>1. listings[n] \in ListingRows /\ listings[n].owner = u
        BY <1>1, <1>5, <3>2 DEF P!MayPublish
      <4>2. \A a \in ListingRows : LET b == [a EXCEPT !.files = f, !.by = u]
                                   IN  b \in ListingRows /\ b.files = f /\ b.by = u /\ b.owner = a.owner
        BY DEF ListingRows
      <4>3. QED  BY <3>2, <4>1, <4>2
    <3>3. QED  BY <3>1, <3>2
  <2>2. listings' = [listings EXCEPT ![n] = r] /\ listed' = [listed EXCEPT ![n] = @ \cup {f}]
    BY <1>2, <1>3, <1>5, <2>1 DEF P!PublishListing
  <2>3. /\ listed' \in [Names -> SUBSET P!Files] /\ \A m \in Names : listed[m] \subseteq listed'[m]
        /\ f \in listed'[n]
    BY <1>1, <2>2
  <2>4. /\ listings' \in [Names -> ListingRows \cup {None}]
        /\ \A m \in Names : listings'[m] = listings[m] \/ (m = n /\ listings'[m] = r)
    BY <1>1, <2>2
  <2>5. \A m \in Names : \E t : /\ listings'[m] = t
                                /\ t = listings[m] \/ t = None \/ (t.files \in listed'[m] /\ t.by = t.owner)
    BY <2>1, <2>3, <2>4
  <2>6. QED  BY <1>1, <2>3, <2>4, <2>5, ListingsKeep
<1>6. QED  BY <1>4, <1>5

(* Listings go. *)
LEMMA ListingsGo ==
    ASSUME P!PackagesConstants, PackageInv, UNCHANGED <<remote, saved, claimed, listed, cache, call>>,
           listings' \in [Names -> ListingRows \cup {None}], \A n \in Names : listings'[n] = listings[n] \/ listings'[n] = None
    PROVE  PackageInv'
<1>1. listed' \in [Names -> SUBSET P!Files] /\ \A n \in Names : listed[n] \subseteq listed'[n]
  BY DEF PackageInv, PackageTypes
<1>2. QED  BY <1>1, ListingsKeep

(* One listing is taken back. *)
LEMMA UnpublishStep ==
    ASSUME P!PackagesConstants, PackageInv, NEW u \in Users, NEW n \in Names, P!Unpublish(u, n)
    PROVE  PackageInv'
<1>1. listings \in [Names -> ListingRows \cup {None}]
  BY DEF PackageInv, PackageTypes
<1>2. QED  BY <1>1, ListingsGo DEF P!Unpublish

(* All of an owner's are. *)
LEMMA LeaveStep == ASSUME P!PackagesConstants, PackageInv, NEW u \in Users, P!Leave(u) PROVE PackageInv'
<1>1. listings \in [Names -> ListingRows \cup {None}]
  BY DEF PackageInv, PackageTypes
<1>2. QED  BY <1>1, ListingsGo DEF P!Leave

(* A listing is read, to be copied under its own name or a fork's. *)
LEMMA ObtainStep ==
    ASSUME P!PackagesConstants, PackageInv, NEW p \in Execs, NEW u \in Users, NEW n \in Names, NEW fork \in BOOLEAN,
           P!Obtain(p, u, n, fork)
    PROVE  PackageInv'
<1>1. listings[n] # None /\ UNCHANGED <<remote, saved, claimed, listings, listed, cache>>
  BY DEF P!Obtain
<1>2. PICK g \in P!Files : g = listings[n].files /\ g \in listed[n]
  BY <1>1 DEF PackageInv, PackageTypes, ListingFits, ListingRows
<1>3. PICK f \in P!Files : f = (IF fork THEN [g EXCEPT !.name = ForkName] ELSE g) /\ f = [g EXCEPT !.name = f.name]
  <2>1. ForkName \in Names
    BY DEF P!PackagesConstants
  <2>2. \A a \in P!Files : /\ [a EXCEPT !.name = ForkName] \in P!Files /\ [a EXCEPT !.name = a.name] = a
                            /\ [a EXCEPT !.name = ForkName].name = ForkName
    BY <2>1 DEF P!Files
  <2>3. QED  BY <2>2
<1>4. PICK s \in P!Source : s = [P!Community(n) EXCEPT !.fork = fork] /\ s.kind = "community" /\ s.ref = n
  <2>1. P!Community(n) \in P!Source /\ P!Community(n).kind = "community" /\ P!Community(n).ref = n
    BY DEF P!Community, P!Local, P!Source
  <2>2. \A a \in P!Source : LET b == [a EXCEPT !.fork = fork]
                            IN  b \in P!Source /\ b.kind = a.kind /\ b.ref = a.ref
    BY DEF P!Source
  <2>3. QED  BY <2>1, <2>2
<1>5. Listed(f, n)
  BY <1>2, <1>3 DEF Listed
<1> DEFINE c == [P!Idle EXCEPT !.op = "obtain", !.user = u, !.pc = "save", !.src = s, !.files = f]
<1>6. call' = [call EXCEPT ![p] = c]
  BY <1>2, <1>3, <1>4 DEF P!Obtain, P!Start
<1>7. /\ c \in PackageCalls /\ c.pc = "save" /\ c.user = u /\ c.files = f /\ c.src = s /\ c.shown = None
  BY DEF PackageCalls, CallPcs, P!Idle, P!AllOps
<1> HIDE DEF c
<1>8. PackageCallFits(c)
  BY <1>4, <1>5, <1>7 DEF PackageCallFits, ShowsPin, P!Origins
<1>9. QED  BY <1>1, <1>6, <1>7, <1>8, CallKeeps

(* The listing as it is now is read, if it is still of the package. *)
LEMMA ReadListingStep == ASSUME P!PackagesConstants, PackageInv, NEW p \in Execs, P!ReadListing(p) PROVE PackageInv'
<1>1. /\ call[p].pc = "listing" /\ UNCHANGED <<remote, saved, claimed, listings, listed, cache>>
      /\ call[p] \in PackageCalls /\ PackageCallFits(call[p])
  BY DEF P!ReadListing, PackageInv, PackageTypes
<1>2. PICK n \in Names : n = call[p].src.ref
  BY <1>1 DEF PackageCallFits
<1>3. call[p].src.kind = "community" /\ call[p].src \in P!Source /\ ShowsPin(call[p]) /\ call[p].user \in Users
  BY <1>1 DEF PackageCallFits
<1>4. CASE call' = [call EXCEPT ![p] = P!Idle]
  BY <1>1, <1>4, IdleCall, CallKeeps
<1>5. CASE listings[n] # None /\ call' = [call EXCEPT ![p] = [call[p] EXCEPT !.pc = "save", !.files = listings[n].files]]
  <2>1. PICK g \in P!Files : g = listings[n].files /\ g \in listed[n]
    BY <1>5 DEF PackageInv, PackageTypes, ListingFits, ListingRows
  <2>2. Listed(g, n)
    <3>1. [g EXCEPT !.name = g.name] = g
      BY DEF P!Files
    <3>2. QED  BY <2>1, <3>1 DEF Listed
  <2> DEFINE c == [call[p] EXCEPT !.pc = "save", !.files = g]
  <2>3. /\ c \in PackageCalls /\ c.pc = "save" /\ c.user = call[p].user /\ c.files = g /\ c.src = call[p].src
        /\ c.shown = call[p].shown /\ c.op = call[p].op
    BY <1>1 DEF PackageCalls, CallPcs
  <2>4. call' = [call EXCEPT ![p] = c]
    BY <1>5, <2>1
  <2> HIDE DEF c
  <2>5. ShowsPin(c)
    BY <1>1, <1>3, <2>3 DEF ShowsPin
  <2>6. PackageCallFits(c)
    BY <1>2, <1>3, <2>2, <2>3, <2>5 DEF PackageCallFits, P!Origins
  <2>7. QED  BY <1>1, <2>3, <2>4, <2>6, CallKeeps
<1>6. QED  BY <1>2, <1>4, <1>5 DEF P!ReadListing

(* The install is counted on the listing. *)
LEMMA RecordInstallStep == ASSUME P!PackagesConstants, PackageInv, NEW p \in Execs, P!RecordInstall(p) PROVE PackageInv'
<1>1. /\ UNCHANGED <<remote, saved, claimed, listed, cache>> /\ call' = [call EXCEPT ![p] = P!Idle] /\ call[p].pc = "record"
      /\ listings \in [Names -> ListingRows \cup {None}] /\ PackageCallFits(call[p])
      /\ listed' \in [Names -> SUBSET P!Files] /\ \A m \in Names : listed[m] \subseteq listed'[m]
  BY DEF P!RecordInstall, PackageInv, PackageTypes
<1>2. PICK n \in Names : n = call[p].src.ref
  BY <1>1 DEF PackageCallFits
<1>3. CASE listings' = listings
  BY <1>1, <1>3, ListingsKeep
<1>4. CASE listings[n] # None /\ listings' = [listings EXCEPT ![n].installs = @ + 1]
  <2>1. listings[n] \in ListingRows /\ listings[n].files \in listed[n] /\ listings[n].by = listings[n].owner
    BY <1>1, <1>4 DEF PackageInv, ListingFits
  <2>2. \A a \in ListingRows : LET b == [a EXCEPT !.installs = a.installs + 1]
                               IN  b \in ListingRows /\ b.files = a.files /\ b.by = a.by /\ b.owner = a.owner
    BY DEF ListingRows
  <2>3. PICK r \in ListingRows : r = [listings[n] EXCEPT !.installs = listings[n].installs + 1] /\ r.files \in listed[n] /\ r.by = r.owner
    BY <2>1, <2>2
  <2>4. listings' = [listings EXCEPT ![n] = r]
    BY <1>1, <1>4, <2>3
  <2>5. /\ listings' \in [Names -> ListingRows \cup {None}]
        /\ \A m \in Names : listings'[m] = listings[m] \/ (m = n /\ listings'[m] = r)
    BY <1>1, <2>4
  <2>6. \A m \in Names : \E t : /\ listings'[m] = t
                                /\ t = listings[m] \/ t = None \/ (t.files \in listed'[m] /\ t.by = t.owner)
    BY <1>1, <2>3, <2>5
  <2>7. QED  BY <1>1, <2>5, <2>6, ListingsKeep
<1>5. QED  BY <1>2, <1>3, <1>4 DEF P!RecordInstall

(* Every step keeps the invariant. *)
LEMMA PackageStep == ASSUME P!PackagesConstants, PackageInv, [P!Next]_P!vars PROVE PackageInv'
<1>1. CASE UNCHANGED P!vars
  <2>1. UNCHANGED <<remote, saved, claimed, listings, listed, cache, call>>
    BY <1>1 DEF P!vars
  <2>2. PackageTypes
    BY DEF PackageInv
  <2>3. SavedTypes' /\ RowsMove
    BY <2>1, <2>2, RowsStay
  <2>4. QED  BY <2>1, <2>3, SavedKeeps
<1>2. ASSUME NEW p \in Execs, P!SourceStep(p) PROVE PackageInv'
  BY <1>2, InstallStep, ResolveStep, DownloadStep, DownloadFailsStep, SaveFetchedStep, UpdateStep, FinishStep DEF P!SourceStep
<1>3. ASSUME NEW p \in Execs, P!PreviewStep(p) PROVE PackageInv'
  BY <1>3, OpenPreviewStep, FollowPinStep, SettlesStep, InstallShownStep DEF P!PreviewStep
<1>4. ASSUME NEW p \in Execs, P!CommunityStep(p) PROVE PackageInv'
  BY <1>4, PublishPackageStep, PublishListingStep, ObtainStep, ReadListingStep, SaveListedStep, RecordInstallStep DEF P!CommunityStep
<1>5. ASSUME NEW o \in P!Origins, P!RemoteMoves(o) PROVE PackageInv'
  BY <1>5, RemoteMovesStep
<1>6. ASSUME NEW u \in Users, NEW n \in Names,
             (\E v \in P!Versions, src \in Claims \cup {P!Local} : P!SaveLocal(u, n, v, src)) \/ P!Delete(u, n) \/ P!Unpublish(u, n)
      PROVE  PackageInv'
  BY <1>6, SaveLocalStep, DeletePackageStep, UnpublishStep
<1>7. ASSUME NEW u \in Users, P!Leave(u) PROVE PackageInv'
  BY <1>7, LeaveStep
<1>8. ASSUME NEW i \in 1 .. MaxEntries, P!Expire(i) PROVE PackageInv'
  BY <1>8, ExpireStep
<1>9. QED  BY <1>1, <1>2, <1>3, <1>4, <1>5, <1>6, <1>7, <1>8 DEF P!Next

(* A saved pin is what the page showed, a kept entry what its commit holds, and what moves is no older than the call. *)
LEMMA PackagesServe == ASSUME P!PackagesConstants, PackageInv PROVE FetchedIsAsked
<1>1. PackageTypes
  BY DEF PackageInv
<1>2. ASSUME NEW p \in Execs, call[p].pc = "done", call[p].src.kind \in P!Origins
      PROVE  \E v \in P!Versions :
                /\ call[p].src.ref # None => v = call[p].src.ref
                /\ call[p].src.ref = None => call[p].began <= v
                /\ call[p].files.ver = v
                /\ call[p].op # "fork" => call[p].files = P!FilesOf(call[p].src, v)
  <2>1. PICK v \in P!Versions :
           /\ call[p].src.ref # None => v = call[p].src.ref
           /\ call[p].src.ref = None => call[p].began <= v
           /\ \/ call[p].files = P!FilesOf(call[p].src, v)
              \/ call[p].op = "fork" /\ call[p].files = [P!FilesOf(call[p].src, v) EXCEPT !.name = ForkName]
    BY <1>2 DEF PackageInv, PackageCallFits, Downloaded
  <2>2. \A src : P!FilesOf(src, v).ver = v /\ [P!FilesOf(src, v) EXCEPT !.name = ForkName].ver = v
    BY DEF P!FilesOf
  <2>3. call[p].files.ver = v
    <3>1. PICK a : a = call[p].src
      OBVIOUS
    <3>2. call[p].files = P!FilesOf(a, v) \/ call[p].files = [P!FilesOf(a, v) EXCEPT !.name = ForkName]
      BY <2>1, <3>1
    <3>3. QED  BY <2>2, <3>2
  <2>4. QED  BY <2>1, <2>3
<1>3. P!PreviewedIsInstalled
  <2>1. SUFFICES ASSUME NEW p \in Execs, call[p].pc = "done", call[p].shown # None, P!Pinned(call[p].src)
                 PROVE  call[p].files = call[p].shown
    BY DEF P!PreviewedIsInstalled
  <2>2. call[p].op = "install" /\ call[p].shown = P!FilesOf(call[p].src, call[p].src.ref)
    BY <2>1 DEF PackageInv, PackageCallFits, ShowsPin
  <2>3. call[p].src.kind \in P!Origins /\ call[p].src.ref # None
    BY <2>1 DEF P!Pinned, P!Origins
  <2>4. PICK v \in P!Versions : /\ call[p].src.ref # None => v = call[p].src.ref
                                /\ call[p].op # "fork" => call[p].files = P!FilesOf(call[p].src, v)
    BY <1>2, <2>1, <2>3
  <2>5. QED  BY <2>2, <2>3, <2>4
<1>4. P!KeptIsPinned
  <2>1. SUFFICES ASSUME NEW i \in DOMAIN cache, cache[i].key.kind = "git"
                 PROVE  P!Pinned(cache[i].key) /\ cache[i].files = P!FilesOf(cache[i].key, cache[i].key.ref)
    BY DEF P!KeptIsPinned
  <2>2. DOMAIN cache = 1 .. Len(cache)
    BY <1>1 DEF PackageTypes
  <2>3. QED  BY <2>1, <2>2 DEF PackageInv, KeptFits, P!Pinned
<1>5. P!SavesTheLatest
  <2>1. SUFFICES ASSUME NEW p \in Execs, call[p].pc = "done", call[p].src.kind \in P!Origins, call[p].src.ref = None
                 PROVE  call[p].files.ver >= call[p].began
    BY DEF P!SavesTheLatest
  <2>2. PICK v \in P!Versions : call[p].began <= v /\ call[p].files.ver = v
    BY <1>2, <2>1
  <2>3. QED  BY <2>2
<1>6. QED  BY <1>3, <1>4, <1>5 DEF FetchedIsAsked, P!FetchedIsAsked

(* A saved package and a listing say where their files are from. *)
LEMMA PackagesOrigin == ASSUME P!PackagesConstants, PackageInv PROVE ProvenanceHolds
<1>1. PackageTypes /\ Len(cache) <= MaxEntries
  BY DEF PackageInv
<1>2. P!TypeOK
  <2>1. \A u \in Users, n \in Names : saved[u][n] # None => saved[u][n].files \in P!Files /\ saved[u][n].source \in P!Source
    BY <1>1 DEF PackageTypes, SavedRows
  <2>2. \A n \in Names : listings[n] # None => listings[n].files \in P!Files /\ listings[n].owner \in Users
    BY <1>1 DEF PackageTypes, ListingRows
  <2>3. \A p \in Execs : /\ call[p].pc \in CallPcs
                         /\ call[p].files # None => call[p].files \in P!Files
                         /\ call[p].src # None => call[p].src \in P!Source
    BY <1>1 DEF PackageTypes, PackageCalls
  <2>4. QED  BY <1>1, <2>1, <2>2, <2>3 DEF P!TypeOK, PackageTypes, CallPcs
<1>3. P!SourceIsOrigin
  <2>1. SUFFICES ASSUME NEW u \in Users, NEW n \in Names, saved[u][n] # None, <<u, n>> \notin claimed
                 PROVE  LET f == saved[u][n].files
                            s == saved[u][n].source
                        IN  CASE s.kind = "community" -> \E g \in listed[s.ref] : f = [g EXCEPT !.name = f.name]
                              [] s.kind = "local" -> f.origin = "local"
                              [] OTHER -> f.origin = s.kind /\ f.sub = s.sub /\ (s.ref # None => f.ver = s.ref)
    BY DEF P!SourceIsOrigin
  <2>2. PICK f \in P!Files, s \in P!Source : f = saved[u][n].files /\ s = saved[u][n].source
    BY <1>1, <2>1 DEF PackageTypes, SavedRows
  <2>3. ComesFrom(f, s)
    BY <2>1, <2>2 DEF PackageInv, SavedFits
  <2>4. s.kind \in P!Origins \cup {"local", "community"}
    BY DEF P!Source
  <2>5. CASE s.kind = "community"
    BY <2>2, <2>3, <2>5 DEF ComesFrom, Listed
  <2>6. CASE s.kind = "local"
    BY <2>2, <2>3, <2>6 DEF ComesFrom
  <2>7. CASE s.kind \in P!Origins
    BY <2>2, <2>3, <2>7 DEF ComesFrom, P!Origins
  <2>8. QED  BY <2>4, <2>5, <2>6, <2>7
<1>4. P!ListingIsOwners
  BY DEF P!ListingIsOwners, PackageInv, ListingFits
<1>5. QED  BY <1>2, <1>3, <1>4 DEF ProvenanceHolds, P!ProvenanceHolds

(* An install from a previewed pin saves the previewed files, the cache holds no moving head, and an unpinned install or
   update saves nothing older than its call, however calls and pushes interleave (packages/install.ts fetchPackageSource,
   packages/fetched-package-cache.ts fetchPackageSourceCached). *)
THEOREM FetchesAreAsked == ASSUME P!PackagesConstants PROVE P!Spec => []FetchedIsAsked
<1>1. P!Init => PackageInv
  BY PackageStart
<1>2. PackageInv /\ [P!Next]_P!vars => PackageInv'
  BY PackageStep
<1>3. PackageInv => FetchedIsAsked
  BY PackagesServe
<1>4. QED  BY <1>1, <1>2, <1>3, PTL DEF P!Spec

(* A saved package's files are from where its source says, unless its source is one a caller of packageSave merely
   claimed, and a listing holds what its owner published, in any order of saves, installs, updates and publications
   (cells/user-cell.ts packageSave, packages/community-store.ts publish). *)
THEOREM ProvenanceKept == ASSUME P!PackagesConstants PROVE P!Spec => []ProvenanceHolds
<1>1. P!Init => PackageInv
  BY PackageStart
<1>2. PackageInv /\ [P!Next]_P!vars => PackageInv'
  BY PackageStep
<1>3. PackageInv => ProvenanceHolds
  BY PackagesOrigin
<1>4. QED  BY <1>1, <1>2, <1>3, PTL DEF P!Spec
=============================================================================
