------------------------------- MODULE MCRuns -------------------------------
(***************************************************************************)
(* Execution for TLC: part says which of the systems moves.                *)
(***************************************************************************)
EXTENDS Execution, Sequences, TLC

CONSTANTS a, b, u1, u2, f1, f2

VARIABLE part

\* Packages: a repository and a directory of an archive, whose root holds another package.
From(kind, sub) == [kind |-> kind, ref |-> None, sub |-> sub, fork |-> FALSE]
MCSources == {From("git", FALSE), From("url", TRUE)}
MCClaims == {From("git", FALSE), [From("community", FALSE) EXCEPT !.ref = a]}
MCNamed == [place \in {"git", "url"} \X BOOLEAN |-> IF place[2] THEN b ELSE a]

\* Previews of a repository and of an archive and what is installed from them; installs, forks and
\* updates of one user; the same with files saved under a source that is only claimed; the catalogue
\* of two.  Each part takes steps of P and leaves others out.
Repository == INSTANCE Packages WITH Users <- {u1}, Calls <- Execs, Ops <- {"preview"}, Sources <- {From("git", FALSE)}, Claims <- {}
Archive == INSTANCE Packages WITH Users <- {u1}, Calls <- Execs, Ops <- {"preview"}, Sources <- {From("url", TRUE)}, Claims <- {}
Install == INSTANCE Packages WITH Users <- {u1}, Calls <- Execs, Claims <- {}, Ops <- {"save", "delete", "install", "fork", "update"}
Claiming == INSTANCE Packages WITH Users <- {u1}, Calls <- Execs, Sources <- {From("git", FALSE)}, Ops <- {"save", "install", "update"}
Catalogue == INSTANCE Packages WITH Calls <- Execs, Sources <- {}, Claims <- Claims \ {From("git", FALSE)}, MaxVersion <- 1,
               Ops <- {"save", "publish", "unpublish", "obtain", "leave", "update"}

ASSUME ExecutionConstants == P!PackagesConstants /\ Graph!GraphConstants /\ Apps!AppConstants

\* ModuleGraph: two packages of two files, of which b may be missing; one file with two imports, two with
\* one.  A sealed run is started with a provider's entry.
Modules == {a, b} \X {f1, f2}
MCPrograms ==
    LET one == {<<>>} \cup {<<m>> : m \in Modules}
        two == one \cup {<<m, n>> : m, n \in Modules}
    IN  {g \in [Modules -> two] : g[<<b, f2>>] = <<>> /\ g[<<a, f2>>] \in one /\ g[<<b, f1>>] \in one}
ToBuild == entry[2] = f1 /\ a \in present /\ (sealed => entry = provider[entry[1]])
Unbuilt ==
    /\ imports = [m \in Modules |-> <<>>] /\ present = {} /\ provider = [p \in {a, b} |-> None]
    /\ entry = <<a, f1>> /\ sealed = FALSE

\* AppGraph: an app that imports one package, from its entry or from a file loaded by a dynamic import; two requests.
MCDeps == <<b>>
Eager == INSTANCE AppGraph WITH Requests <- Execs, Lazy <- {}

packageVars == <<remote, saved, claimed, listings, listed, cache, call>>
graphVars == <<imports, present, provider, entry, sealed, included, sealedOff, stack, links, broken, phase>>
appVars == <<stamp, lastStamp, entries, order, reqs>>

Symmetry == Permutations(Execs) \cup Permutations({u1, u2})

MCInit ==
    /\ part \in {"runs", "repository", "archive", "install", "claiming", "catalogue", "graph", "apps", "lazy apps"}
    /\ Init /\ P!Init
    /\ Graph!Init /\ (IF part = "graph" THEN ToBuild ELSE Unbuilt)
    /\ Apps!Init

MCNext ==
    /\ UNCHANGED part
    /\ \/ part = "runs" /\ Next /\ UNCHANGED <<packageVars, graphVars, appVars>>
       \/ part = "repository" /\ Repository!Next /\ UNCHANGED <<vars, graphVars, appVars>>
       \/ part = "archive" /\ Archive!Next /\ UNCHANGED <<vars, graphVars, appVars>>
       \/ part = "install" /\ Install!Next /\ UNCHANGED <<vars, graphVars, appVars>>
       \/ part = "claiming" /\ Claiming!Next /\ UNCHANGED <<vars, graphVars, appVars>>
       \/ part = "catalogue" /\ Catalogue!Next /\ UNCHANGED <<vars, graphVars, appVars>>
       \/ part = "graph" /\ Graph!Next /\ UNCHANGED <<vars, packageVars, appVars>>
       \/ part = "apps" /\ Eager!Next /\ UNCHANGED <<vars, packageVars, graphVars>>
       \/ part = "lazy apps" /\ Apps!Next /\ UNCHANGED <<vars, packageVars, graphVars>>

MCSpec == MCInit /\ [][MCNext]_<<part, vars, packageVars, graphVars, appVars>>
=============================================================================
