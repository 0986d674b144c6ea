---------------------------- MODULE Connections ----------------------------
(***************************************************************************)
(* What links a node to what is outside it: McpClient, GitClone, and the   *)
(* container in which SingleNode starts the node.  They share nothing; a   *)
(* run explores them side by side, and a proof is about each on its own.   *)
(***************************************************************************)
EXTENDS McpClient

CONSTANTS Object, Packs, Adverts, Asked, CloneUrls, Allowed, Home, MaxRedirects, MaxFiles, MaxTotalBytes,    \* of GitClone
          MaxStarts, MaxKeys    \* of SingleNode

VARIABLES remote, moved, ask, clonePc, hops, contacted, want, pack, objects, root, stack, files, fileCount, totalBytes, failure,
          starts, lastKey, file, store, startPc, given, values, priorEtag, supervisor, devNode, outcome, node,
          promised, changed, torn, blind, orphaned

Clone == INSTANCE GitClone WITH pc <- clonePc, Urls <- CloneUrls
Container == INSTANCE SingleNode WITH pc <- startPc

\* A clone has the files of the commit asked for, or a reason why not (packages/git-smart-http.ts cloneGitSmartHttp).
CloneExact == Clone!CloneExact

\* A start gives one node with the right master key and the right deployment (docker/entrypoint.sh run_single).
StartSound == Container!StartSound
=============================================================================
