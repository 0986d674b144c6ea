---------------------------- MODULE RunLifecycle ----------------------------
(***************************************************************************)
(* What the run history promises, without its table: a run is created in   *)
(* order, settles once as a success or an error, and may then be dropped   *)
(* by the retention policy.  A settled run never changes its status, and a *)
(* run that has not settled is never dropped by another run's activity.    *)
(***************************************************************************)
EXTENDS Integers

CONSTANT Ids

VARIABLE state

States == {"absent", "running", "success", "error", "gone"}
Settled(s) == s \in {"success", "error"}

\* The retention policy may drop settled runs in the same step as anything else.
WithPurge(st) ==
    \E P \in SUBSET {i \in Ids : Settled(st[i])} :
        state' = [i \in Ids |-> IF i \in P THEN "gone" ELSE st[i]]

Init == state = [i \in Ids |-> "absent"]

Create(i) ==
    /\ state[i] = "absent"
    /\ \A j \in Ids : j < i => state[j] # "absent"
    /\ WithPurge([state EXCEPT ![i] = "running"])

Settle(i) ==
    /\ state[i] = "running"
    /\ \E s \in {"success", "error"} : WithPurge([state EXCEPT ![i] = s])

Purge == WithPurge(state)

Next == (\E i \in Ids : Create(i) \/ Settle(i)) \/ Purge

Spec == Init /\ [][Next]_state
=============================================================================
