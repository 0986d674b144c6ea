----------------------------- MODULE MCOutside -----------------------------
(***************************************************************************)
(* Outside for TLC: part says which of the systems moves, and how.         *)
(* "apps": several apps, some of them with client credentials, one connect *)
(* link and restarts of the cell; "reconnect": the other apps, with a      *)
(* second link to reconnect; "rekey": the tokens sealed again under a new  *)
(* master key; "npm", "limits": overlapping resolutions, which import each *)
(* other or pass a limit.                                                  *)
(***************************************************************************)
EXTENDS Outside, TLC

VARIABLE part

Reconnect == INSTANCE Integrations WITH Apps <- Apps \ Mint, Mint <- {}, Restarts <- FALSE
Rekey == INSTANCE Integrations WITH Apps <- Apps \ Mint, Mint <- {}, Restarts <- FALSE, Rekeys <- TRUE

\* Four modules, of which the first two import each other; the first will import a large third one too.
MCImports == << << <<2>>, <<2, 3>> >>, << <<1>>, <<1>> >>, << <<>>, <<>> >>, << <<>>, <<>> >> >>
MCBytes == <<1, 1, 2, 1>>
MCSpecifiers == {<<1>>, <<4, 2>>}
Cycle == INSTANCE NpmModules WITH Resolutions <- Calls, Specifiers <- {<<1>>}
Limits == INSTANCE NpmModules WITH Resolutions <- Calls, Specifiers <- {<<4, 2>>}

ASSUME NpmConstantsHold == Npm!NpmConstants

npmVars == <<cdn, memo, rows, time, res>>

\* Calls are interchangeable.
Symmetry == Permutations(Calls)

MCInit == Init /\ Npm!Init /\ part \in {"apps", "reconnect", "rekey", "npm", "limits"}

MCNext ==
    /\ UNCHANGED part
    /\ \/ part = "apps" /\ Next /\ lastConnect' <= 1 /\ UNCHANGED npmVars
       \/ part = "reconnect" /\ Reconnect!Next /\ UNCHANGED npmVars
       \/ part = "rekey" /\ Rekey!Next /\ (owner'.pc = "starting" => lastConnect = 0) /\ UNCHANGED npmVars
       \/ part = "npm" /\ Cycle!Next /\ (\A u \in 2 .. 4 : cdn'[u] = 1) /\ UNCHANGED vars
       \/ part = "limits" /\ Limits!Next /\ (\A u \in 2 .. 4 : cdn'[u] = 1) /\ UNCHANGED vars

MCSpec == MCInit /\ [][MCNext]_<<part, vars, npmVars>>
=============================================================================
