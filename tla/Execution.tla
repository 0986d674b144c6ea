----------------------------- MODULE Execution -----------------------------
(***************************************************************************)
(* What runs and where it comes from: Runs, with Packages, ModuleGraph and *)
(* AppGraph at its side.  They share no table here; a run explores them    *)
(* side by side, and a proof is about each on its own.                     *)
(***************************************************************************)
EXTENDS Runs

CONSTANTS Users, Names, Ops, Sources, Claims, Named, ForkName, MaxVersion, MaxPackages, MaxEntries,  \* of Packages
          FileNames, Programs,                                                               \* of ModuleGraph
          App, Deps, Lazy, Entries, MaxStamp, CacheLimit,                                          \* of AppGraph
          None

VARIABLES remote, saved, claimed, listings, listed, cache, call,
          imports, present, provider, entry, sealed, included, sealedOff, stack, links, broken, phase,
          stamp, lastStamp, entries, order, reqs

P == INSTANCE Packages WITH Calls <- Execs

Graph == INSTANCE ModuleGraph WITH Packages <- Names, saved <- present

Apps == INSTANCE AppGraph WITH Requests <- Execs

\* What is saved is what was previewed, pinned or asked for (packages/install.ts fetchPackageSource).
FetchedIsAsked == P!FetchedIsAsked

\* Packages and listings come from where they say (cells/user-cell.ts packageSave, packages/community-store.ts publish).
ProvenanceHolds == P!ProvenanceHolds

\* An update re-installs the package from where it came from (capabilities/packages.ts packageUpdate).
UpdateFromSamePlace == P!UpdateFromSamePlace

\* A graph has what its entry needs and no provider entry (execute/module-graph.ts buildModuleGraph).
GraphExact == Graph!GraphExact

\* A request is served by packages no older than it, unless one was saved during the build or is a stub (apps/serve.ts
\* cachedGraph).
ServedIsCurrent == Apps!TypeOK /\ Apps!ServedIsCurrent
=============================================================================
