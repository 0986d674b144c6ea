------------------------------- MODULE MCJobs -------------------------------
(* Jobs for TLC: a few manifests of a package with one or two jobs. *)
EXTENDS Jobs, TLC

CONSTANTS j1, j2

Cron(n) == [type |-> "cron", n |-> n]
Interval(n) == [type |-> "interval", n |-> n]
Once(n) == [type |-> "once", n |-> n]
Declare(s, e) == [declared |-> TRUE, schedule |-> s, enabled |-> e]
Undeclared == [declared |-> FALSE, schedule |-> Once(1), enabled |-> "unset"]

\* A cron and an interval job; then one-time jobs, the first disabled unless it was enabled.
TwoJobManifests ==
    {j1 :> Declare(Cron(2), "unset") @@ j2 :> Declare(Interval(1), "yes"),
     j1 :> Declare(Once(1), "no") @@ j2 :> Undeclared}

\* Every kind of schedule for one job; the cron expression is a rare one, accepted shortly before it
\* matches, and claiming it then throws.
OneJobManifests ==
    {j1 :> d @@ j2 :> Undeclared :
        d \in {Declare(Interval(2), "unset"), Declare(Cron(3), "no"), Declare(Once(2), "yes"), Undeclared}}

\* Explored side by side: two jobs and dispatchers that do not fail; one job for longer, whose
\* dispatchers crash or whose runs throw.
VARIABLE part
Failing == INSTANCE Jobs WITH Manifests <- OneJobManifests, Failures <- {"throw", "crash"}, MaxTime <- 3

MCInit == Init /\ part \in {"two", "failing"}
MCNext ==
    /\ UNCHANGED part
    /\ \/ part = "two" /\ Next
       \/ part = "failing" /\ Failing!Next
MCSpec == MCInit /\ [][MCNext]_<<part, vars>>

\* Dispatchers are interchangeable.
Symmetry == Permutations(Dispatchers)

(***************************************************************************)
(* The loop of jobs/schedule.ts, for comparison with computeNextRun: from  *)
(* the anchor, add the interval until the time is past t.                  *)
(***************************************************************************)
FirstAfter(every, anchor, t) ==
    LET loop[k \in Nat] == IF anchor + k * every > t THEN anchor + k * every ELSE loop[k + 1]
    IN  loop[1]

\* The closed form of an interval's next turn is what the loop returns.
ASSUME IntervalLoop ==
    \A every \in 1..4, anchor \in 0..6, t \in 0..8 :
        anchor <= t => computeNextRun(Interval(every), t, anchor) = FirstAfter(every, anchor, t)
=============================================================================
