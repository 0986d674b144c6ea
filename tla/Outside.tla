------------------------------ MODULE Outside ------------------------------
(***************************************************************************)
(* What is fetched from services outside: Integrations, with NpmModules at *)
(* its side.  They share nothing; a run explores them side by side, and a  *)
(* proof is about each on its own.                                         *)
(***************************************************************************)
EXTENDS Integrations

CONSTANTS Urls, Specifiers, Imports, Bytes, Isolates, MaxModules, MaxTotalBytes, MemoMax,
          CacheMaxBytes, MaxModuleBytes, CacheTtl, MaxVersion, MaxTime                      \* of NpmModules

VARIABLES cdn, memo, rows, time, res

Npm == INSTANCE NpmModules WITH Resolutions <- Calls

\* A resolution has all its sources import and leaves the shared cache within its size (execute/npm-resolver.ts).
ResolutionSound == Npm!ResolutionSound
=============================================================================
