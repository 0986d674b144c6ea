----------------------------- MODULE MCWebhooks -----------------------------
(***************************************************************************)
(* Webhooks for TLC, in three parts: "secrets", a webhook that is minted,  *)
(* rotated and deleted over two minutes while two deliveries without keys  *)
(* come in; "ledger", two deliveries of one minute each with delivery ids  *)
(* and client keys, to a webhook minted once; and "clocks", three          *)
(* deliveries that overtake each other up to their admission.              *)
(***************************************************************************)
EXTENDS Webhooks, TLC

VARIABLE part

\* Deliveries and the owner's calls are interchangeable.
Symmetry == Permutations(Requests) \cup Permutations(Owners)

\* Between its admission and its end a delivery has nothing to do with secrets.
Served(r) == req'[r].pc \notin {"new", "arrived", "hashing", "admitted", "done"}

\* Deliveries without keys, served one at a time while neither the clock moves nor the package is saved,
\* to a webhook that is not both disabled and undeclared, by a provider that takes every URL.
Secrets ==
    /\ Cardinality({r \in Requests : req'[r].pc # "new"}) <= 2
    /\ \A r \in Requests : req'[r].key = NoKey
    /\ Cardinality({r \in Requests : Served(r)}) <= 1
    /\ \A o \in Owners : owner'[o].reply # "provider_rejected"
    /\ UNCHANGED <<now, declared>> \/ \A r \in Requests : ~Served(r)
    /\ \A w \in Names : declared'[w] # "sync" /\ (hooks'[w] = NoHook \/ hooks'[w].enabled \/ declared'[w] # "none")

\* Keys at even times only, the clock moving while nothing but a run is under way, to a webhook that stays
\* enabled, whose URL is given out once.
Ledger ==
    /\ Cardinality({r \in Requests : req'[r].pc # "new"}) <= 2
    /\ issued' <= 1 /\ (declared' = declared \/ Minted = {})
    /\ \A w \in Names :
          /\ declared'[w] # "ack" /\ hooks'[w].enabled = (hooks'[w] # NoHook)
          /\ owner' = owner \/ provider[w] = NoUrl
    /\ \A r \in Requests : req'[r].at # 1 /\ (now' = now \/ req[r].pc \in {"new", "executing"})

\* A webhook minted once and not changed, whose URL is given out once; no delivery goes on once it is decided.
Clocks ==
    /\ issued' <= 1 /\ (declared' = declared \/ Minted = {})
    /\ \A w \in Names :
          /\ declared'[w] # "sync" /\ hooks'[w].enabled = (hooks'[w] # NoHook)
          /\ owner' = owner \/ provider[w] = NoUrl
          /\ now' = now \/ provider[w] # NoUrl
    /\ \A r \in Requests : req'[r].key = NoKey /\ req'[r].pc \in {"new", "arrived", "hashing", "rejecting", "admitted"}

MCInit == Init /\ part \in {"secrets", "ledger", "clocks"}

MCNext ==
    /\ UNCHANGED part
    /\ Next
    /\ CASE part = "secrets" -> Secrets [] part = "ledger" -> Ledger [] part = "clocks" -> Clocks

MCSpec == MCInit /\ [][MCNext]_<<part, vars>>
=============================================================================
