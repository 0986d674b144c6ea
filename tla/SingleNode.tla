----------------------------- MODULE SingleNode -----------------------------
(***************************************************************************)
(* The container of a single node (docker/entrypoint.sh,                   *)
(* docker/single-local.mjs): it reads or makes the operator's values, has  *)
(* celld.dev write the deployment, stops it and becomes the node itself.   *)
(*                                                                         *)
(* The state directory survives a crash, the processes do not.  celld.dev  *)
(* (supervisor and devNode) is external: it writes the deployment, starts  *)
(* a node of its own and gives up when that is slow.  Values are numbers;  *)
(* a number is used for one value only.                                    *)
(***************************************************************************)
EXTENDS Naturals

CONSTANTS MaxStarts,   \* bound: starts of the container
          MaxKeys,     \* bound: values the operator or random_hex come up with
          None

\* No value is None: a value is a number from 1.
NodeConstants == None \notin Nat \ {0}

Vars == {"admin", "master"}      \* KODY_ADMIN_TOKEN, KODY_MASTER_KEY
Keys == 1..MaxKeys

VARIABLES starts,
          lastKey,
          file,        \* kody.env: [exists] and a line for each of Vars or None
          store,       \* objects.sqlite3: the etag of deploy/current.json and the master key deployed
          pc,
          given,       \* the environment of this start
          values,      \* the values in use
          priorEtag,
          supervisor,  \* celld.dev
          devNode,     \* the node celld.dev starts
          outcome,     \* what deployLocal returns once celld.dev is stopped
          node,        \* the master key the direct node runs with
          promised,    \* history: the master key of the last start that settled on one
          changed,     \* history: a start settled on another without the operator's doing
          torn,        \* history: the writing of kody.env was cut off
          blind,       \* history: the deployment of an earlier start could not be read
          orphaned     \* history: celld.dev had to be killed

files == <<file, store>>
deployVars == <<priorEtag, supervisor, devNode, outcome>>
history == <<promised, changed, torn, blind, orphaned>>
vars == <<starts, lastKey, files, pc, given, values, deployVars, node, history>>

Unset == [v \in Vars |-> None]
Held(v) == file.lines[v] # None

----------------------------------------------------------------------------
(* The operator's values *)

\* The operator starts the container, with values of his own or without.
Start ==
    /\ pc = "down" /\ starts < MaxStarts
    /\ starts' = starts + 1
    /\ pc' = "load"
    /\ \E g \in [Vars -> {None} \cup 1 .. lastKey + 1] :
         /\ given' = g
         /\ lastKey' = IF \E v \in Vars : g[v] = lastKey + 1 THEN lastKey + 1 ELSE lastKey
    /\ lastKey' <= MaxKeys
    /\ UNCHANGED <<files, values, deployVars, node, history>>

\* The environment goes before the file, the file before a generated value.
Generated == [admin |-> lastKey + 1, master |-> lastKey + 2]
Effective == [v \in Vars |-> IF given[v] # None THEN given[v] ELSE IF Held(v) THEN file.lines[v] ELSE Generated[v]]
Missing == {v \in Vars : given[v] = None /\ ~Held(v)}
Overridden == {v \in Vars : given[v] # None /\ Held(v) /\ given[v] # file.lines[v]}

\* A line the file lacks and the environment has is no reason to write it.
WritesFile == Missing \cup Overridden # {} \/ ~file.exists

\* History: the values are settled for this start, with the master key k.
Settled(k) ==
    /\ promised' = k
    /\ changed' = (changed \/ (given["master"] = None /\ promised # None /\ promised # k))

\* load_or_generate_operator_values, up to the write.
Load ==
    /\ pc = "load"
    /\ values' = Effective
    /\ lastKey' = IF Missing = {} THEN lastKey ELSE lastKey + 2
    /\ lastKey' <= MaxKeys
    /\ IF WritesFile THEN pc' = "truncate" /\ UNCHANGED <<promised, changed>> ELSE pc' = "prior" /\ Settled(Effective["master"])
    /\ UNCHANGED <<starts, files, given, deployVars, node, torn, blind, orphaned>>

\* The file is opened for writing, which empties it, and gets its lines one by one.
Truncate ==
    /\ pc = "truncate"
    /\ file' = [exists |-> TRUE, lines |-> Unset]
    /\ pc' = "admin"
    /\ UNCHANGED <<starts, lastKey, store, given, values, deployVars, node, history>>

WriteLine(v) ==
    /\ pc = v
    /\ file' = [file EXCEPT !.lines[v] = values[v]]
    /\ IF v = "admin" THEN pc' = "master" /\ UNCHANGED <<promised, changed>> ELSE pc' = "prior" /\ Settled(values[v])
    /\ UNCHANGED <<starts, lastKey, store, given, values, deployVars, node, torn, blind, orphaned>>

----------------------------------------------------------------------------
(* celld.dev, which writes the deployment *)

\* It bakes .dev.vars, written anew by every start, into the deployment; the pointer is written last.
DevDeploys ==
    /\ supervisor = "started"
    /\ store' = [etag |-> store.etag + 1, master |-> values["master"]]
    /\ supervisor' = "deployed"
    /\ UNCHANGED <<starts, lastKey, file, pc, given, values, priorEtag, devNode, outcome, node, history>>

DevNodeStarts ==
    /\ supervisor = "deployed" /\ devNode = "none"
    /\ devNode' = "starting"
    /\ UNCHANGED <<starts, lastKey, files, pc, given, values, priorEtag, supervisor, outcome, node, history>>

DevNodeListens ==
    /\ devNode = "starting"
    /\ devNode' = "listening"
    /\ UNCHANGED <<starts, lastKey, files, pc, given, values, priorEtag, supervisor, outcome, node, history>>

\* It fails, misses its announce deadline or obeys a SIGTERM, and takes its node with it.
DevExits ==
    /\ supervisor \in {"started", "deployed", "terminating"}
    /\ supervisor' = "gone" /\ devNode' = "none"
    /\ UNCHANGED <<starts, lastKey, files, pc, given, values, priorEtag, outcome, node, history>>

----------------------------------------------------------------------------
(* deployLocal *)

\* readDeployPointerEtag: null (0) without a deployment, and whenever the store cannot be read.
Reads(e) == e \in {0, store.etag}

\* Mutant: any deployment is taken for the new one.
MovedAny(e) == e # 0

\* etag != null && etag !== priorEtag
Moved(e) == e # 0 /\ e # priorEtag

ReadPrior ==
    /\ pc = "prior"
    /\ Reads(priorEtag')
    /\ blind' = (priorEtag' # store.etag)
    /\ pc' = "poll"
    /\ supervisor' \in {"started", "unstarted"}
    /\ UNCHANGED <<starts, lastKey, files, given, values, devNode, outcome, node, promised, changed, torn, orphaned>>

Stops(result) == pc' = "stop" /\ outcome' = result

\* One turn of the loop: the spawn failed, the pointer moved, or celld.dev is looked at.
Poll ==
    /\ pc = "poll"
    /\ \E e \in {0, store.etag} :
         IF supervisor = "unstarted" THEN Stops("failed")
         ELSE IF Moved(e) THEN Stops("deployed")
         ELSE pc' = "child" /\ UNCHANGED outcome
    /\ UNCHANGED <<starts, lastKey, files, given, values, priorEtag, supervisor, devNode, node, history>>

\* celld.dev has exited, before or after it moved the pointer; otherwise the next turn.
PollChild ==
    /\ pc = "child"
    /\ \E e \in {0, store.etag} :
         IF supervisor = "gone" THEN Stops(IF Moved(e) THEN "deployed" ELSE "failed")
         ELSE pc' = "poll" /\ UNCHANGED outcome
    /\ UNCHANGED <<starts, lastKey, files, given, values, priorEtag, supervisor, devNode, node, history>>

\* KODY_SINGLE_DEPLOY_TIMEOUT_MS: a last look.
PollTimeout ==
    /\ pc = "poll"
    /\ \E e \in {0, store.etag} : Stops(IF Moved(e) THEN "deployed" ELSE "failed")
    /\ UNCHANGED <<starts, lastKey, files, given, values, priorEtag, supervisor, devNode, node, history>>

Running == supervisor \in {"started", "deployed", "terminating"}

\* stopProcess: SIGTERM, unless it is gone.
StopTerm ==
    /\ pc = "stop"
    /\ supervisor' = IF Running THEN "terminating" ELSE supervisor
    /\ pc' = "exit"
    /\ UNCHANGED <<starts, lastKey, files, given, values, priorEtag, devNode, outcome, node, history>>

StopExited ==
    /\ pc = "exit" /\ ~Running
    /\ pc' = "port"
    /\ UNCHANGED <<starts, lastKey, files, given, values, deployVars, node, history>>

\* After 40 seconds SIGKILL: a node in a process group of its own stays.
StopKill ==
    /\ pc = "exit" /\ Running
    /\ supervisor' = "gone" /\ orphaned' = (devNode # "none")
    /\ pc' = "port"
    /\ UNCHANGED <<starts, lastKey, files, given, values, priorEtag, devNode, outcome, node, promised, changed, torn, blind>>

\* waitForListenFree: nobody answers at the port, or the start fails.
PortFree ==
    /\ pc = "port" /\ devNode # "listening"
    /\ pc' = IF outcome = "deployed" THEN "exec" ELSE "failed"
    /\ UNCHANGED <<starts, lastKey, files, given, values, deployVars, node, history>>

PortTaken ==
    /\ pc = "port" /\ devNode = "listening"
    /\ pc' = "failed"
    /\ UNCHANGED <<starts, lastKey, files, given, values, deployVars, node, history>>

\* exec celld: the node runs what the pointer points to.
Exec ==
    /\ pc = "exec"
    /\ node' = store.master
    /\ pc' = "up"
    /\ UNCHANGED <<starts, lastKey, files, given, values, deployVars, history>>

----------------------------------------------------------------------------

\* The container stops, at any point: its processes are gone, its files are as they are.
Crash ==
    /\ pc # "down"
    /\ pc' = "down"
    /\ torn' = (torn \/ pc \in Vars)
    /\ supervisor' = "none" /\ devNode' = "none" /\ node' = None
    /\ priorEtag' = 0 /\ outcome' = "none" /\ values' = Unset /\ given' = Unset
    /\ blind' = FALSE /\ orphaned' = FALSE
    /\ UNCHANGED <<starts, lastKey, files, promised, changed>>

Init ==
    /\ starts = 0 /\ lastKey = 0
    /\ file = [exists |-> FALSE, lines |-> Unset]
    /\ store = [etag |-> 0, master |-> None]
    /\ pc = "down" /\ given = Unset /\ values = Unset
    /\ priorEtag = 0 /\ supervisor = "none" /\ devNode = "none" /\ outcome = "none"
    /\ node = None
    /\ promised = None /\ changed = FALSE /\ torn = FALSE /\ blind = FALSE /\ orphaned = FALSE

Next ==
    \/ Start \/ Load \/ Truncate \/ WriteLine("admin") \/ WriteLine("master")
    \/ DevDeploys \/ DevNodeStarts \/ DevNodeListens \/ DevExits
    \/ ReadPrior \/ Poll \/ PollChild \/ PollTimeout
    \/ StopTerm \/ StopExited \/ StopKill \/ PortFree \/ PortTaken \/ Exec
    \/ Crash

Spec == Init /\ [][Next]_vars

----------------------------------------------------------------------------
(* Properties *)

\* The master key changes only by the operator's hand, even when starts are cut off: a start without one has the
\* key of the start before it, unless a crash cut off the writing of kody.env
\* (docker/entrypoint.sh load_or_generate_operator_values).
KeyKept == changed => torn

\* The node runs what this start deployed, with the operator's values of this start, however celld.dev ended,
\* unless the store could not be read before (docker/single-local.mjs deployLocal).
DeployedIsNew == pc = "up" /\ ~blind => node = values["master"]

\* The node that celld.dev started is gone before the direct one runs, unless celld.dev had to be killed
\* (docker/single-local.mjs stopProcess).
StoreIsFree == pc = "up" /\ ~orphaned => devNode = "none"

\* A start of the container gives one node with the master key of the start before it and its own deployment, but for the
\* three accidents named above: a torn kody.env, an unreadable store, a celld.dev that was killed (docker/entrypoint.sh
\* run_single).
StartSound == KeyKept /\ DeployedIsNew /\ StoreIsFree
=============================================================================
