------------------------------ MODULE GitClone ------------------------------
(***************************************************************************)
(* One read-only clone over smart HTTP (packages/git-smart-http.ts): the   *)
(* advertisement of the remote, the ref it resolves to, the pack and the   *)
(* walk that turns its objects into package files.  The remote is asked    *)
(* twice and may move in between; either request may be redirected.        *)
(*                                                                         *)
(* An object is named by its hash, so its content is a constant.  A pack   *)
(* is unpacked entry by entry in the order the server chose.               *)
(***************************************************************************)
EXTENDS Naturals, Sequences, FiniteSets, FiniteSetsExt, SequencesExt

CONSTANTS Object,      \* id -> [type, object | tree | entries | text, size]
          Packs,       \* id -> the packs a server may send for it: sequences of ids
          Adverts,     \* what the remote may advertise: [head, sym, refs]
          Asked,       \* what callers ask for: [ref, sub]
          Urls,        \* where requests may be sent
          Allowed,     \* the URLs assertAllowed accepts
          Home,        \* the URL of the repository
          MaxRedirects, MaxFiles, MaxTotalBytes,
          None

VARIABLES remote,      \* the advertisement of the moment
          moved,       \* bound: the remote moves once
          ask,
          pc,
          hops,        \* redirects of the request followed so far
          contacted,   \* history: URLs a request was sent to
          want,
          pack,        \* the entries that follow
          objects,     \* unpacked so far, by hash
          root,        \* the tree the files are taken from
          stack,       \* frames of walk: [tree, dir, at]
          files,       \* [path, blob] of the text files
          fileCount, totalBytes,
          failure

vars == <<remote, moved, ask, pc, hops, contacted, want, pack, objects, root, stack, files, fileCount, totalBytes, failure>>
walkVars == <<root, stack, files, fileCount, totalBytes>>

Ids == DOMAIN Object
Is(id, type) == id \in Ids /\ Object[id].type = type
Has(id, type) == id \in objects /\ Object[id].type = type
Trees == {id \in Ids : Is(id, "tree")}
skipped == {".git", "node_modules"}
Regular == {"file", "executable", "symlink"}

\* Assumed of the constants: objects as git makes them, where the entries of a tree have different names and no tree
\* lies below itself (its hash covers the hashes of its entries); advertisements and packs that name objects; and the
\* URL asked for is allowed, since another one is refused before anything is sent.
ObjectsSound ==
    /\ IsFiniteSet(Ids)
    /\ \A id \in Ids :
         /\ Is(id, "commit") => Object[id].tree \in Ids
         /\ Is(id, "tag") => Object[id].object \in Ids
         /\ Is(id, "blob") => Object[id].size \in Nat
    /\ \A id \in Trees :
         LET es == Object[id].entries
         IN  /\ es \in Seq({es[i] : i \in DOMAIN es})
             /\ \A i \in DOMAIN es : es[i].mode = "dir" => es[i].id \in Ids
             /\ \A i, j \in DOMAIN es : es[i].name = es[j].name => i = j
    /\ \E rank \in [Trees -> 1 .. Cardinality(Trees)] :
         \A id \in Trees : \A i \in DOMAIN Object[id].entries :
            LET e == Object[id].entries[i] IN e.mode = "dir" /\ e.id \in Trees => rank[e.id] < rank[id]

CloneConstants ==
    /\ ObjectsSound
    /\ Packs \in [Ids -> SUBSET Seq(Ids)]
    /\ \A adv \in Adverts :
         /\ adv.head \in Ids \cup {None} /\ adv.sym \in DOMAIN adv.refs \cup {None}
         /\ {"heads/master", "heads/main", "r", "heads/r", "tags/r", "tags/r peeled"} \subseteq DOMAIN adv.refs
         /\ \A n \in DOMAIN adv.refs : adv.refs[n] \in Ids \cup {None}
    /\ Home \in Allowed
    /\ MaxFiles \in Nat /\ MaxTotalBytes \in Nat
    /\ None \notin Regular \cup {"dir", "limit", "nomanifest", "nocommit"}

Fails(why) == pc' = "failed" /\ failure' = why

----------------------------------------------------------------------------
(* The two requests *)

\* fetchGit: the answer, a refusal of the server, or a redirect, which has to be allowed as the first URL had to be.
Redirected ==
    /\ pc \in {"discover", "upload"}
    /\ \E u \in Urls :
         IF u \notin Allowed \/ hops = MaxRedirects
         THEN Fails("refused") /\ UNCHANGED <<hops, contacted>>
         ELSE hops' = hops + 1 /\ contacted' = contacted \cup {u} /\ UNCHANGED <<pc, failure>>
    /\ UNCHANGED <<remote, moved, ask, want, pack, objects, walkVars>>

\* An error status, a body over maxDownloadBytes, a timeout, a malformed answer.
RequestFails ==
    /\ pc \in {"discover", "upload"}
    /\ Fails("remote")
    /\ UNCHANGED <<remote, moved, ask, hops, contacted, want, pack, objects, walkVars>>

\* resolveGitRef: a hash is taken as it is; the full name of a ref goes before a branch, a branch before a tag.
FirstOf(adv, names) ==
    LET found == {i \in DOMAIN names : adv.refs[names[i]] # None}
    IN  IF found = {} THEN None ELSE adv.refs[names[Min(found)]]

resolveGitRef(adv, ref) ==
    IF ref = "HEAD"
    THEN IF adv.head # None THEN adv.head
         ELSE IF adv.sym # None /\ adv.refs[adv.sym] # None THEN adv.refs[adv.sym]
         ELSE FirstOf(adv, <<"heads/master", "heads/main">>)
    ELSE IF ref \in Ids THEN ref
    ELSE FirstOf(adv, <<"r", "heads/r", "tags/r", "tags/r peeled">>)

\* discoverGitRefs; the second request starts at the repository's own URL again.
Discover ==
    LET id == resolveGitRef(remote, ask.ref)
    IN  /\ pc = "discover"
        /\ IF id = None THEN Fails("noref") /\ UNCHANGED <<want, hops, contacted>>
           ELSE /\ want' = id /\ pc' = "upload" /\ hops' = 0 /\ contacted' = contacted \cup {Home}
                /\ UNCHANGED failure
        /\ UNCHANGED <<remote, moved, ask, pack, objects, walkVars>>

\* demuxUploadPack: a pack follows; ERR and the error band are RequestFails.
Upload ==
    /\ pc = "upload"
    /\ pc' = "unpack" /\ hops' = 0
    /\ pack' \in Packs[want]
    /\ UNCHANGED <<remote, moved, ask, contacted, want, objects, walkVars, failure>>

----------------------------------------------------------------------------
(* The pack *)

\* unpackGitPack, one entry: whole, or a delta of an object of its type that came before (applyDelta).
UnpackEntry ==
    /\ pc = "unpack" /\ pack # <<>>
    /\ \E base \in Ids \cup {None} :
         /\ base # None => base # Head(pack) /\ Object[base].type = Object[Head(pack)].type
         /\ IF base # None /\ base \notin objects
            THEN Fails("base") /\ UNCHANGED <<pack, objects>>
            ELSE objects' = objects \cup {Head(pack)} /\ pack' = Tail(pack) /\ UNCHANGED <<pc, failure>>
    /\ UNCHANGED <<remote, moved, ask, hops, contacted, want, walkVars>>

\* A size, a version or a delta that does not fit.
UnpackFails ==
    /\ pc = "unpack"
    /\ Fails("pack")
    /\ UNCHANGED <<remote, moved, ask, hops, contacted, want, pack, objects, walkVars>>

----------------------------------------------------------------------------
(* The files *)

\* The tip: the wanted commit, or the object of the wanted tag, one level deep.
Tip == IF Has(want, "tag") THEN Object[want].object ELSE want

SubtreeOf(id, name) ==
    LET entries == Object[id].entries
        dirs == {i \in DOMAIN entries : entries[i].name = name /\ entries[i].mode = "dir"}
    IN  IF dirs = {} THEN None ELSE entries[Min(dirs)].id

\* filesFromGitObjects up to the walk: the directory asked for is found segment by segment (here at most one).
Locate ==
    LET tree == Object[Tip].tree
        below == IF ask.sub = None THEN tree ELSE IF Has(tree, "tree") THEN SubtreeOf(tree, ask.sub) ELSE None
    IN  /\ pc = "unpack" /\ pack = <<>>
        /\ IF want \notin objects \/ Tip \notin objects THEN Fails("missing") /\ UNCHANGED walkVars
           ELSE IF ~Has(Tip, "commit") THEN Fails("nocommit") /\ UNCHANGED walkVars
           ELSE IF below = None THEN Fails("nosub") /\ UNCHANGED walkVars
           ELSE /\ pc' = "walk" /\ root' = below /\ stack' = <<[tree |-> below, dir |-> <<>>, at |-> 1]>>
                /\ UNCHANGED <<files, fileCount, totalBytes, failure>>
        /\ UNCHANGED <<remote, moved, ask, hops, contacted, want, pack, objects>>

Frame == Last(stack)
Advanced == [stack EXCEPT ![Len(stack)].at = @ + 1]

\* Mutant: a text is taken once, wherever else it appears.
TakeFileOnce(e, path) ==
    /\ fileCount' = fileCount + 1 /\ totalBytes' = totalBytes + Object[e.id].size
    /\ files' = IF Object[e.id].text /\ \A f \in files : f.blob # e.id THEN files \cup {[path |-> path, blob |-> e.id]} ELSE files
    /\ IF fileCount' > MaxFiles \/ totalBytes' > MaxTotalBytes THEN Fails("limit") ELSE UNCHANGED <<pc, failure>>

\* A file counts towards the limits before it turns out not to be text.
TakeFile(e, path) ==
    /\ fileCount' = fileCount + 1 /\ totalBytes' = totalBytes + Object[e.id].size
    /\ files' = IF Object[e.id].text THEN files \cup {[path |-> path, blob |-> e.id]} ELSE files
    /\ IF fileCount' > MaxFiles \/ totalBytes' > MaxTotalBytes THEN Fails("limit") ELSE UNCHANGED <<pc, failure>>

\* walk, one entry of the innermost tree.
WalkEntry ==
    LET t == Object[Frame.tree]
        e == t.entries[Frame.at]
        path == Append(Frame.dir, e.name)
    IN  /\ pc = "walk" /\ stack # <<>>
        /\ IF ~Has(Frame.tree, "tree") THEN Fails("missing") /\ UNCHANGED walkVars
           ELSE IF Frame.at > Len(t.entries)
           THEN stack' = Front(stack) /\ UNCHANGED <<pc, root, files, fileCount, totalBytes, failure>>
           ELSE IF e.name \in skipped \/ e.mode \notin Regular \cup {"dir"}
           THEN stack' = Advanced /\ UNCHANGED <<pc, root, files, fileCount, totalBytes, failure>>
           ELSE IF e.mode = "dir"
           THEN /\ stack' = Append(Advanced, [tree |-> e.id, dir |-> path, at |-> 1])
                /\ UNCHANGED <<pc, root, files, fileCount, totalBytes, failure>>
           ELSE IF ~Has(e.id, "blob") THEN Fails("missing") /\ UNCHANGED walkVars
           ELSE TakeFile(e, path) /\ stack' = Advanced /\ UNCHANGED root
        /\ UNCHANGED <<remote, moved, ask, hops, contacted, want, pack, objects>>

\* The files must hold a package.json at their root.
Finish ==
    /\ pc = "walk" /\ stack = <<>>
    /\ IF \E f \in files : f.path = <<"package.json">> THEN pc' = "done" /\ UNCHANGED failure ELSE Fails("nomanifest")
    /\ UNCHANGED <<remote, moved, ask, hops, contacted, want, pack, objects, walkVars>>

----------------------------------------------------------------------------

\* A push to the remote; once the pack is there it changes nothing.
RemoteMoves ==
    /\ pc \in {"discover", "upload"} /\ ~moved
    /\ moved' = TRUE
    /\ remote' \in Adverts
    /\ UNCHANGED <<ask, pc, hops, contacted, want, pack, objects, walkVars, failure>>

Init ==
    /\ remote \in Adverts /\ moved = FALSE
    /\ ask \in Asked
    /\ pc = "discover" /\ hops = 0 /\ contacted = {Home}
    /\ want = None /\ pack = <<>> /\ objects = {}
    /\ root = None /\ stack = <<>> /\ files = {} /\ fileCount = 0 /\ totalBytes = 0
    /\ failure = None

Next ==
    \/ RemoteMoves \/ Redirected \/ RequestFails \/ Discover \/ Upload
    \/ UnpackEntry \/ UnpackFails \/ Locate \/ WalkEntry \/ Finish

Spec == Init /\ [][Next]_vars

----------------------------------------------------------------------------
(* Properties *)

Names == UNION {{Object[id].entries[i].name : i \in DOMAIN Object[id].entries} : id \in Trees}
Paths == UNION {[1 .. n -> Names \ skipped] : n \in 1 .. Cardinality(Trees)}

\* What git shows at a path below a tree.
Nothing == [name |-> None, mode |-> None, id |-> None]
Child(id, name) ==
    IF Is(id, "tree") /\ \E i \in DOMAIN Object[id].entries : Object[id].entries[i].name = name
    THEN Object[id].entries[CHOOSE i \in DOMAIN Object[id].entries : Object[id].entries[i].name = name]
    ELSE Nothing
Along(id, path) ==
    LET at[n \in 0 .. Len(path)] ==
          IF n = 0 THEN [name |-> None, mode |-> "dir", id |-> id]
          ELSE IF at[n - 1].mode = "dir" THEN Child(at[n - 1].id, path[n]) ELSE Nothing
    IN  at
EntryAt(id, path) == Along(id, path)[Len(path)]

IsFile(e) == e.mode \in Regular /\ Is(e.id, "blob")
Below(id) == {path \in Paths : IsFile(EntryAt(id, path))}

\* The tree asked for: of the commit the ref resolved to, or of the commit its tag names.
AskedTree ==
    LET commit == IF Is(want, "tag") THEN Object[want].object ELSE want
        top == Object[commit].tree
    IN  IF ask.sub = None THEN top ELSE EntryAt(top, <<ask.sub>>).id

Size(paths, id) == MapThenSumSet(LAMBDA path : Object[EntryAt(id, path).id].size, paths)
TooLarge(id) == Cardinality(Below(id)) > MaxFiles \/ Size(Below(id), id) > MaxTotalBytes
Texts(id) == {path \in Below(id) : Object[EntryAt(id, path).id].text}

\* A clone that ends well holds every text file of the tree asked for and nothing else, within the limits
\* (packages/git-smart-http.ts filesFromGitObjects).
FilesExact ==
    pc = "done" =>
        /\ files = {[path |-> path, blob |-> EntryAt(AskedTree, path).id] : path \in Texts(AskedTree)}
        /\ ~TooLarge(AskedTree)

\* A clone is refused for its size or for a missing package.json only when the repository is so, and for the ref
\* only when it does not lead to a commit (packages/git-smart-http.ts).
RefusedForCause ==
    /\ failure = "limit" => TooLarge(AskedTree)
    /\ failure = "nomanifest" => <<"package.json">> \notin Texts(AskedTree)
    /\ failure = "nocommit" => ~Is(want, "commit") /\ ~(Is(want, "tag") /\ Is(Object[want].object, "commit"))

\* No request goes to a URL that was not allowed, after any redirects (packages/git-smart-http.ts fetchGit).
AllowedOnly == contacted \subseteq Allowed

\* The files are those of the commit asked for or there is a reason why not (packages/git-smart-http.ts cloneGitSmartHttp).
CloneExact == FilesExact /\ RefusedForCause /\ AllowedOnly
=============================================================================
