------------------------------- MODULE MCLive -------------------------------
(***************************************************************************)
(* What must eventually happen, for TLC: Runs, Jobs, Integrations and      *)
(* Webhooks under the fairness of their calls, timers and dispatchers, and *)
(* ModuleGraph, whose steps follow one another.  They share nothing here,  *)
(* so they are explored side by side: part says which system moves.        *)
(***************************************************************************)
EXTENDS Naturals, Sequences, FiniteSets, TLC

CONSTANTS Calls, caller, job, a, b, f1, f2, None

VARIABLES part, runs, lastId, horizon, usage, exec, now, jobs, jobRuns, disp, left,
          imports, saved, provider, entry, sealed, included, sealedOff, stack, links, broken, phase,
          row, connects, lastConnect, describing, calls, inFlight, browsers, given, origin, honours, spent, old, reseal, lost, raced,
          clock, declared, hooks, rate, overtaken, ledger, claims, deliveries, sender, issued, owner, req

\* Runs: two concurrent calls without crashes, retention by age.
R == INSTANCE Runs WITH Execs <- Calls, Keys <- {"key"}, NoKey <- "no key", Jobs <- {}, NoJob <- None,
         RetentionCount <- 1, AgeRetention <- TRUE, RunsPerDay <- 0, ExecuteMsPerDay <- 2, BulkLimit <- 1,
         Crashes <- FALSE, MaxRuns <- 2

\* Jobs: one job under every kind of schedule and two dispatchers that do not fail.
Declare(type, n, enabled) == job :> [declared |-> TRUE, schedule |-> [type |-> type, n |-> n], enabled |-> enabled]
Undeclare == job :> [declared |-> FALSE, schedule |-> [type |-> "once", n |-> 1], enabled |-> "unset"]
J == INSTANCE Jobs WITH JobIds <- {job}, Dispatchers <- Calls, Failures <- {}, JobRunKeep <- 1, CronScan <- 2, MaxTime <- 2, MaxJobRuns <- 3,
         Manifests <- {Declare("interval", 2, "unset"), Declare("cron", 2, "no"), Declare("once", 2, "yes"), Undeclare}

\* ModuleGraph: two packages of two files with an import each, entries in both.
Modules == {a, b} \X {f1, f2}
MCPrograms == {g \in [Modules -> {<<>>} \cup {<<m>> : m \in Modules}] : g[<<b, f2>>] = <<>>}
G == INSTANCE ModuleGraph WITH Packages <- {a, b}, FileNames <- {f1, f2}, Programs <- MCPrograms

\* Integrations: one app, one connect link, two calls that refresh.
I == INSTANCE Integrations WITH Apps <- {a}, Mint <- {}, Browsers <- {caller}, Restarts <- FALSE, Rekeys <- FALSE,
         MaxConnects <- 1, MaxTokens <- 3, owner <- describing, issued <- given

\* Webhooks: two deliveries under one key, none of which crashes, to a webhook that may be deleted.
W == INSTANCE Webhooks WITH Names <- {a}, Owners <- {caller}, Requests <- Calls, DeliveryKeys <- {}, ClientKeys <- {b},
         NoKey <- None, ResponseModes <- {"sync"}, Payloads <- {f1}, RateLimit <- 2, Quota <- 0, Grace <- 2, LedgerKeep <- 1,
         DeliveryKeep <- 1, Crashes <- FALSE, MaxIssued <- 1, MaxTime <- 0,
         now <- clock, provider <- sender
Delivering ==
    /\ owner'[caller].pc # "rotating"
    /\ owner'[caller].pc = "applying" => sender[a].handle = 0
    /\ hooks'[a].handle # 0 => hooks'[a].enabled /\ declared'[a] # "none"

runVars == <<runs, lastId, horizon, usage, exec>>
jobVars == <<now, jobs, jobRuns, disp, left>>
graphVars == <<imports, saved, provider, entry, sealed, included, sealedOff, stack, links, broken, phase>>
integrationVars == <<row, connects, lastConnect, describing, calls, inFlight, browsers, given, origin, honours, spent, old, reseal, lost, raced>>
webhookVars == <<clock, declared, hooks, rate, overtaken, ledger, claims, deliveries, sender, issued, owner, req>>

Unbuilt ==
    /\ imports = [m \in Modules |-> <<>>] /\ saved = {} /\ provider = [p \in {a, b} |-> None]
    /\ entry = <<a, f1>> /\ sealed = FALSE

ToBuild == entry[2] = f1 /\ saved = {a, b} /\ ~sealed

MCInit ==
    /\ part \in {"runs", "jobs", "graph", "integrations", "webhooks"}
    /\ R!Init /\ J!Init /\ I!Init /\ W!Init
    /\ G!Init /\ (IF part = "graph" THEN ToBuild ELSE Unbuilt)

MCNext ==
    /\ UNCHANGED part
    /\ \/ part = "runs" /\ R!Next /\ UNCHANGED <<jobVars, graphVars, integrationVars, webhookVars>>
       \/ part = "jobs" /\ J!Next /\ UNCHANGED <<runVars, graphVars, integrationVars, webhookVars>>
       \/ part = "graph" /\ G!Next /\ UNCHANGED <<runVars, jobVars, integrationVars, webhookVars>>
       \/ part = "integrations" /\ I!Next /\ UNCHANGED <<runVars, jobVars, graphVars, webhookVars>>
       \/ part = "webhooks" /\ W!Next /\ Delivering /\ UNCHANGED <<runVars, jobVars, graphVars, integrationVars>>

\* The fairness of each system, as long as it is the one that moves.
RunsFairness ==
    \A c \in Calls :
        /\ WF_runVars(part = "runs" /\ (R!GraphBuilt(c) \/ R!GraphFails(c) \/ R!LoadThrows(c)))
        /\ WF_runVars(part = "runs" /\ R!Timeout(c))
        /\ WF_runVars(part = "runs" /\ R!runFinish(c))

JobsFairness ==
    \A c \in Calls :
        /\ SF_jobVars(part = "jobs" /\ J!DispatchBegin(c))
        /\ WF_jobVars(part = "jobs" /\ (J!jobsClaimDue(c) \/ J!ClaimThrows(c)))
        /\ WF_jobVars(part = "jobs" /\ J!DispatchEnd(c))
        /\ WF_jobVars(part = "jobs" /\ J!jobRunStart(c))
        /\ WF_jobVars(part = "jobs" /\ \E o \in {"success", "error"} : J!jobRunFinish(c, o))

GraphFairness == WF_graphVars(part = "graph" /\ G!Next)

IntegrationsFairness ==
    \A c \in Calls :
        /\ WF_integrationVars(part = "integrations" /\ I!Task(c))
        /\ WF_integrationVars(part = "integrations" /\ I!ProviderFails(c))

WebhooksFairness == \A c \in Calls : WF_webhookVars(part = "webhooks" /\ W!Ingress(c))

MCSpec ==
    /\ MCInit
    /\ [][MCNext]_<<part, runVars, jobVars, graphVars, integrationVars, webhookVars>>
    /\ RunsFairness /\ JobsFairness /\ GraphFairness /\ IntegrationsFairness /\ WebhooksFairness

\* A run settles, also when the isolate never answers, unless the body of its answer never ends (execute/engine.ts
\* executeRun).
RunSettles == R!RunSettles

\* A due job is claimed as long as the cron trigger fires (jobs/dispatcher.ts dispatchDueJobs).
DueJobIsClaimed == J!DueJobIsClaimed

\* Every build ends, whatever the packages import from each other (execute/module-graph.ts buildModuleGraph).
BuildEnds == part = "graph" ~> phase # "building"

\* Everyone who waits for a shared refresh is answered (integrations/store.ts inFlightRefresh).
WaitersAnswered == I!WaitersAnswered

\* A claimed delivery key is settled or dropped (webhooks/ingress.ts).
KeySettles == W!KeySettles
=============================================================================
