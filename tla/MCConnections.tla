--------------------------- MODULE MCConnections ---------------------------
(***************************************************************************)
(* What the program reaches outside itself, for TLC: McpClient, GitClone   *)
(* and SingleNode, in parts that share nothing: part says which one moves. *)
(* McpClient has three parts.  "grants": one server, two authorizations of *)
(* registered clients or one of the operator's client.  "moves": one       *)
(* authorization while the name is removed, added again or given another   *)
(* URL.  "bearers": bearers, tools and rekeying.  States after an overlap  *)
(* the fences do not cover are not left.                                   *)
(***************************************************************************)
EXTENDS Connections, Sequences, TLC

VARIABLE part

\* What the theorems about GitClone and SingleNode assume of their constants.
ASSUME ClonesOfGit == Clone!CloneConstants
ASSUME NoneIsNoValue == Container!NodeConstants

cloneVars == <<remote, moved, ask, clonePc, hops, contacted, want, pack, objects, root, stack, files, fileCount, totalBytes, failure>>
startVars == <<starts, lastKey, file, store, startPc, given, values, priorEtag, supervisor, devNode, outcome, node,
               promised, changed, torn, blind, orphaned>>

Symmetry == Permutations(Calls)

----------------------------------------------------------------------------
(* GitClone: two commits, a tag and a tag of that tag.  c1 has four files, with one tree in two places, c2 one    *)
(* more than the limit.  A pack is complete or lacks one object.                                                  *)

Entry(n, m, i) == [name |-> n, mode |-> m, id |-> i]
Tree(es) == [type |-> "tree", entries |-> es]
Blob(t) == [type |-> "blob", text |-> t, size |-> 1]
MCObject ==
    [c1 |-> [type |-> "commit", tree |-> "t1"], c2 |-> [type |-> "commit", tree |-> "t3"],
     g1 |-> [type |-> "tag", object |-> "c1"], g2 |-> [type |-> "tag", object |-> "g1"],
     t1 |-> Tree(<<Entry("lib", "dir", "t2"), Entry("node_modules", "dir", "t2"), Entry("package.json", "file", "b1"),
                   Entry("src", "dir", "t4")>>),
     t2 |-> Tree(<<Entry("img", "file", "b2"), Entry("mod", "submodule", "c1"), Entry("package.json", "symlink", "b1")>>),
     t3 |-> Tree(<<Entry("deep", "dir", "t1"), Entry("package.json", "file", "b1")>>),
     t4 |-> Tree(<<Entry("a", "executable", "b1")>>),
     b1 |-> Blob(TRUE), b2 |-> Blob(FALSE)]

Sent ==
    LET files1 == <<"t1", "t2", "t4", "b1", "b2">>
    IN  [c1 |-> <<"c1">> \o files1, c2 |-> <<"c2", "t3">> \o files1,
         g1 |-> <<"g1", "c1">> \o files1, g2 |-> <<"g2", "g1", "c1">> \o files1]
Without(s, i) == [j \in 1 .. Len(s) - 1 |-> IF j < i THEN s[j] ELSE s[j + 1]]
MCPacks == [id \in DOMAIN MCObject |-> IF id \in DOMAIN Sent THEN {Sent[id]} \cup {Without(Sent[id], i) : i \in DOMAIN Sent[id]} ELSE {}]

NoRefs == [n \in {"heads/master", "heads/main", "r", "heads/r", "tags/r", "tags/r peeled"} |-> None]
MCAdverts ==
    {[head |-> "c1", sym |-> "heads/main", refs |-> [NoRefs EXCEPT !["heads/main"] = "c1", !["tags/r"] = "g1", !["tags/r peeled"] = "c1"]],
     [head |-> None, sym |-> None, refs |-> [NoRefs EXCEPT !["heads/master"] = "c2", !["r"] = "g2"]],
     [head |-> None, sym |-> "heads/r", refs |-> [NoRefs EXCEPT !["heads/r"] = "c2"]]}

MCAsked == [ref : {"HEAD", "r", "c1"}, sub : {None, "lib", "src"}]
MCCloneUrls == {"home", "mirror", "private"}
MCAllowed == {"home", "mirror"}
MCHome == "home"

----------------------------------------------------------------------------

Only(goals) == \A c \in Calls : calls'[c].goal \in goals
NotAt(pcs) == \A c \in Calls : calls'[c].pc \notin pcs
FirstUrl == CHOOSE u \in Urls : TRUE

Grants ==
    /\ oneOrigin /\ server'.id = 1 /\ server'.usable /\ server'.status # "ready"
    /\ \A c \in Calls : calls'[c].url \in {None, FirstUrl}
    /\ Only({"none", "discover", "set", "remove"}) /\ NotAt({"saving", "resealing"})
    /\ lastAttempt' = 2 => oauth'.client # Preregistered

Moves ==
    /\ ~oneOrigin /\ server'.usable = (server'.id # 0) /\ server'.status # "ready"
    /\ lastAttempt' <= 1
    /\ Only({"none", "discover", "reconnect"}) /\ NotAt({"resealing"})

Bearers ==
    /\ lastAttempt' = 0
    /\ Only({"none", "discover", "tool", "find"})

Servers ==
    /\ late = {}
    /\ Next
    /\ part = "grants" => Grants
    /\ part = "moves" => Moves
    /\ part = "bearers" => Bearers

MCInit ==
    /\ part \in {"grants", "moves", "bearers", "clone", "container"}
    /\ Init /\ (part \in {"clone", "container"} => oneOrigin)
    /\ Clone!Init /\ (part # "clone" => remote.head = "c1" /\ ask = [ref |-> "HEAD", sub |-> None])
    /\ Container!Init

MCNext ==
    /\ UNCHANGED part
    /\ \/ part \in {"grants", "moves", "bearers"} /\ Servers /\ UNCHANGED <<cloneVars, startVars>>
       \/ part = "clone" /\ Clone!Next /\ UNCHANGED <<vars, startVars>>
       \/ part = "container" /\ Container!Next /\ UNCHANGED <<vars, cloneVars>>

MCSpec == MCInit /\ [][MCNext]_<<part, vars, cloneVars, startVars>>
=============================================================================
