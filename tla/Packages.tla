------------------------------ MODULE Packages ------------------------------
(* Saved packages and where they come from.  A package is saved in a user's
   cell from files the caller hands in, from a remote source (a git
   repository whose head moves, an archive whose URL keeps changing content)
   or from the community catalogue; it can be updated from its recorded
   source.  The console's explorer previews a source first, through an
   in-memory cache of fetched packages, and offers to install what it shows.

   Every step between two awaits is one action; what a call has read stays in
   its record until it is used.                                             *)
EXTENDS Naturals, Sequences, FiniteSets, SequencesExt

CONSTANTS
    Users,          \* accounts, each with its own cell
    Names,          \* package.json names
    Calls,          \* calls that may be under way at once
    Ops,            \* the operations started, a subset of AllOps
    Sources,        \* the remote sources callers name
    Claims,         \* the sources callers claim for files of their own
    Named,          \* [origin, sub] -> the name in that place's package.json
    ForkName,       \* the name given to a fork
    MaxVersion,     \* bound on the versions of a remote and of local edits
    MaxPackages,    \* quota: saved packages of a user
    MaxEntries,     \* fetched-package-cache.ts maxEntries
    None            \* no value

VARIABLES
    remote,     \* per origin, the version at its head
    saved,      \* per user and name, the saved package or None
    claimed,    \* history: the packages saved with a source only claimed
    listings,   \* per name, the community listing or None
    listed,     \* history: the files ever listed under a name
    cache,      \* settled fetches, least recently used first
    call        \* per call, where it is and what it has read

vars == <<remote, saved, claimed, listings, listed, cache, call>>

AllOps == {"save", "delete", "install", "fork", "update", "preview",
           "publish", "unpublish", "obtain", "leave"}
Origins == {"git", "url"}
Versions == 1 .. MaxVersion

(* The files of a package, by where and when they were written.            *)
Files == [name : Names, origin : Origins \cup {"local"}, ver : Versions,
          sub : BOOLEAN]

(* A source: its kind, the pinned commit, whether it names a directory
   inside the archive, and whether the text ends in "(fork)".               *)
Source == [kind : Origins \cup {"local", "community"},
           ref : Versions \cup Names \cup {None},
           sub : BOOLEAN, fork : BOOLEAN]
Local == [kind |-> "local", ref |-> None, sub |-> FALSE, fork |-> FALSE]
Community(n) == [Local EXCEPT !.kind = "community", !.ref = n]
Pinned(src) == src.kind = "git" /\ src.ref # None

(* Assumed of the constants: callers name repositories and archives, which
   have a name, and the cache has room.                                     *)
PackagesConstants ==
    /\ Named \in [Origins \X BOOLEAN -> Names] /\ ForkName \in Names
    /\ MaxVersion \in Nat \ {0} /\ MaxEntries \in Nat \ {0}
    /\ \A s \in Sources : s \in Source /\ s.kind \in Origins /\ s.ref \in Versions \cup {None}
    /\ \A s \in Claims :
          /\ s \in Source
          /\ s.kind \in Origins => s.ref \in Versions \cup {None}
          /\ s.kind = "community" => s.ref \in Names

Idle == [op |-> None, user |-> None, pc |-> "idle", src |-> None,
         commit |-> None, files |-> None, began |-> 0, shown |-> None,
         was |-> None]

TypeOK ==
    /\ remote \in [Origins -> Versions]
    /\ \A u \in Users, n \in Names :
          saved[u][n] # None => /\ saved[u][n].files \in Files
                                /\ saved[u][n].source \in Source
    /\ claimed \subseteq Users \X Names
    /\ \A n \in Names : listings[n] # None =>
          listings[n].files \in Files /\ listings[n].owner \in Users
    /\ Len(cache) <= MaxEntries
    /\ \A p \in Calls :
          /\ call[p].pc \in {"idle", "resolve", "download", "join", "follow",
                             "shown", "save", "listing", "publish", "record",
                             "done"}
          /\ call[p].files # None => call[p].files \in Files
          /\ call[p].src # None => call[p].src \in Source

Init ==
    /\ remote = [o \in Origins |-> 1]
    /\ saved = [u \in Users |-> [n \in Names |-> None]]
    /\ claimed = {}
    /\ listings = [n \in Names |-> None]
    /\ listed = [n \in Names |-> {}]
    /\ cache = <<>>
    /\ call = [p \in Calls |-> Idle]

(* ------------------------------------------------- the text of a source *)

(* parsePackageSource of a recorded text.  A fork of a repository does not
   parse; the text of an archive keeps its directory in the fragment, which
   parsing drops, and with it the "(fork)" written after it.                *)
ParseSource(src) ==
    CASE src.kind = "git" /\ ~src.fork -> src
      [] src.kind = "url" /\ (src.sub \/ ~src.fork) ->
            [src EXCEPT !.sub = FALSE, !.fork = FALSE]
      [] OTHER -> None

(* pinPackageSourceToCommit: only a git source can be pinned.               *)
Pin(src, commit) ==
    IF src.kind = "git" /\ commit # None THEN [src EXCEPT !.ref = commit] ELSE src

(* The files a place holds in a version: filesFromTarEntries, filesFromJson
   and filesFromGitObjects take the part of the archive below the directory. *)
FilesOf(src, v) ==
    [name |-> Named[src.kind, src.sub], origin |-> src.kind, ver |-> v,
     sub |-> src.sub]

(* The world's side: a push to the repository, an upload to the URL.        *)
RemoteMoves(o) ==
    /\ remote[o] < MaxVersion
    /\ remote' = [remote EXCEPT ![o] = @ + 1]
    /\ UNCHANGED <<saved, claimed, listings, listed, cache, call>>

(* -------------------------------------------------------- saved packages *)

SavedNames(u) == {n \in Names : saved[u][n] # None}
SaveOK(u, files) ==
    saved[u][files.name] # None \/ Cardinality(SavedNames(u)) < MaxPackages

\* Mutant: the row keeps the source it had.
PackageSaveKeepsSource(u, files, src) ==
    saved' = IF SaveOK(u, files)
             THEN [saved EXCEPT ![u][files.name] =
                      [files |-> files,
                       source |-> IF @ = None THEN src ELSE @.source]]
             ELSE saved

(* UserCell.packageSave: the row and its files replace what was saved under
   the name, or the quota refuses a new one.                                *)
PackageSave(u, files, src) ==
    saved' = IF SaveOK(u, files)
             THEN [saved EXCEPT ![u][files.name] =
                      [files |-> files, source |-> src]]
             ELSE saved

\* History: the source of the row is what its caller claims, or where its files are from.
NowClaimed(u, n) == claimed' = claimed \cup {<<u, n>>}
NowGenuine(u, n) == claimed' = claimed \ {<<u, n>>}

(* packageSave with files of the caller's own and a source, recorded as it is
   given: none, which is recorded as local, or any text the caller claims.  *)
SaveLocal(u, n, v, src) ==
    LET files == [name |-> n, origin |-> "local", ver |-> v, sub |-> FALSE]
    IN  /\ "save" \in Ops
        /\ PackageSave(u, files, src)
        /\ IF src # Local /\ SaveOK(u, files) THEN NowClaimed(u, n) ELSE NowGenuine(u, n)
        /\ UNCHANGED <<remote, listings, listed, cache, call>>

Delete(u, n) ==
    /\ "delete" \in Ops
    /\ saved[u][n] # None
    /\ saved' = [saved EXCEPT ![u][n] = None]
    /\ NowGenuine(u, n)
    /\ UNCHANGED <<remote, listings, listed, cache, call>>

(* ------------------------------------------- fetching a remote source *)

Start(p, c) ==
    /\ c.op \in Ops
    /\ call[p].pc = "idle"
    /\ call' = [call EXCEPT ![p] = c]

(* fetchPackageSource: a mutable git ref is resolved first, the rest is
   downloaded at once.                                                      *)
FetchPc(src) == IF src.kind = "git" /\ src.ref = None THEN "resolve" ELSE "download"

FetchStart(p, op, u, src, pkg) ==
    Start(p, [Idle EXCEPT !.op = op, !.user = u, !.src = src, !.was = pkg,
                          !.pc = FetchPc(src), !.commit = src.ref,
                          !.began = remote[src.kind]])

(* packageInstall, with "as" for a fork.                                    *)
Install(p, u, src) ==
    /\ \E op \in {"install", "fork"} : FetchStart(p, op, u, src, None)
    /\ UNCHANGED <<remote, saved, claimed, listings, listed, cache>>

(* resolveGithubCommitSha and discoverGitRefs: the commit at the head, or
   none when the host does not say.                                         *)
Resolve(p) ==
    /\ call[p].pc = "resolve"
    /\ \E c \in {remote["git"], None} :
          call' = [call EXCEPT ![p].commit = c, ![p].pc = "download"]
    /\ UNCHANGED <<remote, saved, claimed, listings, listed, cache>>

\* Mutant: the head is asked for after the download.
FetchedHeadLater(c) ==
    {[files |-> FilesOf(c.src, v), commit |-> k] :
        v \in {IF c.commit = None THEN remote[c.src.kind] ELSE c.commit},
        k \in IF c.src.kind = "git" THEN {remote["git"]} ELSE {None}}

(* What a download answers: the pinned tree, or what is there now; the
   commit of an unresolved repository may still show in the final URL.     *)
Fetched(c) ==
    IF c.commit # None
    THEN {[files |-> FilesOf(c.src, c.commit), commit |-> c.commit]}
    ELSE {[files |-> FilesOf(c.src, remote[c.src.kind]), commit |-> k] :
              k \in {None} \cup (IF c.src.kind = "git" THEN {remote["git"]} ELSE {})}

(* The download of an install or an update ends: the files are to be saved,
   a fork under its own name.                                               *)
Download(p) ==
    /\ call[p].pc = "download"
    /\ call[p].op # "preview"
    /\ \E f \in Fetched(call[p]) :
          call' = [call EXCEPT ![p].pc = "save", ![p].commit = f.commit,
                      ![p].files = IF call[p].op = "fork"
                                   THEN [f.files EXCEPT !.name = ForkName]
                                   ELSE f.files]
    /\ UNCHANGED <<remote, saved, claimed, listings, listed, cache>>

(* The host refuses, the archive is too large or holds no package.json.     *)
DownloadFails(p) ==
    /\ call[p].pc = "download"
    /\ call' = [q \in Calls |->
                  IF q = p \/ (call[p].op = "preview" /\ call[q].pc = "join"
                               /\ call[q].src = call[p].src)
                  THEN Idle ELSE call[q]]
    /\ UNCHANGED <<remote, saved, claimed, listings, listed, cache>>

(* The files are saved with the source they were asked for, then audited.
   An update whose files now have another name saves both and complains.    *)
SaveFetched(p) ==
    LET c == call[p]
        fork == c.op = "fork" /\ c.files.name # Named[c.src.kind, c.src.sub]
    IN  /\ c.pc = "save"
        /\ c.src.kind # "community"
        /\ PackageSave(c.user, c.files, [c.src EXCEPT !.fork = fork])
        /\ NowGenuine(c.user, c.files.name)
        /\ call' = [call EXCEPT ![p] = IF SaveOK(c.user, c.files)
                                       THEN [@ EXCEPT !.pc = "done"] ELSE Idle]
        /\ UNCHANGED <<remote, listings, listed, cache>>

(* packageUpdate reads the package and its source; one saved from a file map
   or forked from a repository is refused.                                  *)
Update(p, u, n) ==
    /\ saved[u][n] # None
    /\ LET pkg == saved[u][n]
           src == ParseSource(pkg.source)
       IN  \/ /\ pkg.source.kind = "community" /\ ~pkg.source.fork
              /\ Start(p, [Idle EXCEPT !.op = "update", !.user = u, !.pc = "listing",
                                    !.was = pkg, !.src = pkg.source])
           \/ /\ src # None
              /\ FetchStart(p, "update", u, src, pkg)
    /\ UNCHANGED <<remote, saved, claimed, listings, listed, cache>>

Finish(p) ==
    /\ call[p].pc = "done"
    /\ call' = [call EXCEPT ![p] = Idle]
    /\ UNCHANGED <<remote, saved, claimed, listings, listed, cache>>

(* ------------------------------------------------- preview and its cache *)

Keyed(key) == {i \in DOMAIN cache : cache[i].key = key}
WithoutKey(key) == IF Keyed(key) = {} THEN cache
                   ELSE RemoveAt(cache, CHOOSE i \in Keyed(key) : TRUE)

(* putSettled: a commit-pinned entry, or that of an archive, is kept as the
   most recently used; one over the limit drops the oldest.                 *)
PutSettled(src, f) ==
    LET key == Pin(src, f.commit)
        rest == IF Keyed(key) = {} /\ Len(cache) >= MaxEntries
                THEN Tail(cache) ELSE WithoutKey(key)
    IN  IF f.commit = None /\ src.kind # "url" THEN cache
        ELSE Append(rest, [key |-> key, files |-> f.files, commit |-> f.commit,
                           fresh |-> TRUE])
(* The page: an unpinned link redirects to the pinned one, a pinned or
   unpinnable one is shown with its install form.                           *)
Answer(c, f) ==
    IF Pin(c.src, f.commit) # c.src
    THEN [c EXCEPT !.pc = "follow", !.src = Pin(c.src, f.commit)]
    ELSE [c EXCEPT !.pc = "shown", !.shown = f.files]

(* fetchPackageSourceCached up to its first await: a settled hit, another
   call's fetch of the same key, or a fetch of its own.                     *)
Lookup(p, c) ==
    LET hit == {i \in Keyed(c.src) : cache[i].fresh}
        flight == {q \in Calls \ {p} : /\ call[q].op = "preview"
                                       /\ call[q].pc \in {"resolve", "download"}
                                       /\ call[q].src = c.src}
    IN  IF hit # {}
        THEN \E i \in hit :
                /\ cache' = Append(WithoutKey(c.src), cache[i])
                /\ call' = [call EXCEPT ![p] = Answer(c, cache[i])]
        ELSE /\ cache' = WithoutKey(c.src)
             /\ call' = [call EXCEPT ![p] =
                   [c EXCEPT !.commit = c.src.ref,
                             !.pc = IF flight # {} THEN "join" ELSE FetchPc(c.src)]]

OpenPreview(p, u, src) ==
    /\ "preview" \in Ops
    /\ call[p].pc = "idle"
    /\ Lookup(p, [Idle EXCEPT !.op = "preview", !.user = u, !.src = src])
    /\ UNCHANGED <<remote, saved, claimed, listings, listed>>

FollowPin(p) ==
    /\ call[p].pc = "follow"
    /\ Lookup(p, call[p])
    /\ UNCHANGED <<remote, saved, claimed, listings, listed>>

(* The fetch of a preview settles: it is kept, and everyone who waits for it
   is answered.                                                             *)
PreviewSettles(p) ==
    /\ call[p].pc = "download"
    /\ call[p].op = "preview"
    /\ \E f \in Fetched(call[p]) :
          /\ cache' = PutSettled(call[p].src, f)
          /\ call' = [q \in Calls |->
                IF q = p \/ (call[q].pc = "join" /\ call[q].src = call[p].src)
                THEN Answer(call[q], f) ELSE call[q]]
    /\ UNCHANGED <<remote, saved, claimed, listings, listed>>

(* A minute passes over an archive's entry.                                 *)
Expire(i) ==
    /\ i \in DOMAIN cache
    /\ cache[i].key.kind = "url"
    /\ cache[i].fresh
    /\ cache' = [cache EXCEPT ![i].fresh = FALSE]
    /\ UNCHANGED <<remote, saved, claimed, listings, listed, call>>

(* The install form of the page posts the source the page shows.            *)
InstallShown(p) ==
    LET src == call[p].src
    IN  /\ call[p].pc = "shown"
        /\ call' = [call EXCEPT ![p] = [@ EXCEPT !.op = "install", !.pc = FetchPc(src),
                                          !.commit = src.ref, !.began = remote[src.kind]]]
        /\ UNCHANGED <<remote, saved, claimed, listings, listed, cache>>

(* ------------------------------------------------- community catalogue *)

(* communityPublish reads the saved package, then asks the registry.        *)
Publish(p, u, n) ==
    /\ saved[u][n] # None
    /\ Start(p, [Idle EXCEPT !.op = "publish", !.user = u, !.pc = "publish",
                             !.files = saved[u][n].files])
    /\ UNCHANGED <<remote, saved, claimed, listings, listed, cache>>

(* CommunityStore.publish: the first to publish a name owns it.             *)
MayPublish(u, n) == listings[n] = None \/ listings[n].owner = u

PublishListing(p) ==
    LET c == call[p]
        n == c.files.name
        may == MayPublish(c.user, n)
    IN  /\ c.pc = "publish"
        /\ listings' = IF ~may THEN listings
                       ELSE [listings EXCEPT ![n] =
                              IF @ = None
                              THEN [owner |-> c.user, by |-> c.user,
                                    files |-> c.files, installs |-> 0]
                              ELSE [@ EXCEPT !.files = c.files, !.by = c.user]]
        /\ listed' = IF may THEN [listed EXCEPT ![n] = @ \cup {c.files}] ELSE listed
        /\ call' = [call EXCEPT ![p] = Idle]
        /\ UNCHANGED <<remote, saved, claimed, cache>>

Unpublish(u, n) ==
    /\ "unpublish" \in Ops
    /\ listings[n] # None
    /\ listings[n].owner = u
    /\ listings' = [listings EXCEPT ![n] = None]
    /\ UNCHANGED <<remote, saved, claimed, listed, cache, call>>

(* unpublishAll, when the account goes.                                     *)
Leave(u) ==
    /\ "leave" \in Ops
    /\ \E n \in Names : listings[n] # None /\ listings[n].owner = u
    /\ listings' = [n \in Names |->
          IF listings[n] # None /\ listings[n].owner = u THEN None ELSE listings[n]]
    /\ UNCHANGED <<remote, saved, claimed, listed, cache, call>>

(* communityInstall reads the listing, saves a copy (a fork under its own
   name) and counts the install if the listing is still there.              *)
Obtain(p, u, n, fork) ==
    /\ listings[n] # None
    /\ fork => ForkName # n
    /\ Start(p, [Idle EXCEPT !.op = "obtain", !.user = u, !.pc = "save",
                !.src = [Community(n) EXCEPT !.fork = fork],
                !.files = IF fork THEN [listings[n].files EXCEPT !.name = ForkName]
                          ELSE listings[n].files])
    /\ UNCHANGED <<remote, saved, claimed, listings, listed, cache>>

(* updateFromCommunity: the listing as it is now, if there is one.          *)
ReadListing(p) ==
    LET n == call[p].src.ref
    IN  /\ call[p].pc = "listing"
        /\ call' = [call EXCEPT ![p] =
              IF listings[n] = None \/ listings[n].files.name # call[p].was.files.name
              THEN Idle
              ELSE [@ EXCEPT !.pc = "save", !.files = listings[n].files]]
        /\ UNCHANGED <<remote, saved, claimed, listings, listed, cache>>

SaveListed(p) ==
    LET c == call[p]
    IN  /\ c.pc = "save"
        /\ c.src.kind = "community"
        /\ PackageSave(c.user, c.files, c.src)
        /\ NowGenuine(c.user, c.files.name)
        /\ call' = [call EXCEPT ![p] =
              IF ~SaveOK(c.user, c.files) THEN Idle
              ELSE [@ EXCEPT !.pc = IF c.op = "obtain" THEN "record" ELSE "done"]]
        /\ UNCHANGED <<remote, listings, listed, cache>>

RecordInstall(p) ==
    LET n == call[p].src.ref
    IN  /\ call[p].pc = "record"
        /\ listings' = IF listings[n] = None \/ listings[n].installs >= MaxVersion
                       THEN listings
                       ELSE [listings EXCEPT ![n].installs = @ + 1]
        /\ call' = [call EXCEPT ![p] = Idle]
        /\ UNCHANGED <<remote, saved, claimed, listed, cache>>

(* ------------------------------------------------------------------ Next *)

SourceStep(p) ==
    \/ \E u \in Users, src \in Sources : Install(p, u, src)
    \/ Resolve(p) \/ Download(p) \/ DownloadFails(p) \/ SaveFetched(p)
    \/ \E u \in Users, n \in Names : Update(p, u, n)
    \/ Finish(p)

PreviewStep(p) ==
    \/ \E u \in Users, src \in Sources : OpenPreview(p, u, src)
    \/ FollowPin(p) \/ PreviewSettles(p) \/ InstallShown(p)

CommunityStep(p) ==
    \/ \E u \in Users, n \in Names : Publish(p, u, n)
    \/ PublishListing(p)
    \/ \E u \in Users, n \in Names, fork \in BOOLEAN : Obtain(p, u, n, fork)
    \/ ReadListing(p) \/ SaveListed(p) \/ RecordInstall(p)

Next ==
    \/ \E p \in Calls : SourceStep(p) \/ PreviewStep(p) \/ CommunityStep(p)
    \/ \E o \in Origins : RemoteMoves(o)
    \/ \E u \in Users, n \in Names :
          (\E v \in Versions, src \in Claims \cup {Local} : SaveLocal(u, n, v, src)) \/ Delete(u, n) \/ Unpublish(u, n)
    \/ \E u \in Users : Leave(u)
    \/ \E i \in 1 .. MaxEntries : Expire(i)

Spec == Init /\ [][Next]_vars

(* ------------------------------------------------------------ properties *)

(* What a user installs from a previewed, pinned page is what the page
   showed, however often the head moved and whatever the cache held.        *)
PreviewedIsInstalled ==
    \A p \in Calls :
        /\ call[p].pc = "done"
        /\ call[p].shown # None
        /\ Pinned(call[p].src)
        => call[p].files = call[p].shown

(* An entry kept under a commit is that commit's tree; nothing is kept under
   a moving ref of a repository, which would go on being served.            *)
KeptIsPinned ==
    \A i \in DOMAIN cache :
        cache[i].key.kind = "git" =>
            /\ Pinned(cache[i].key)
            /\ cache[i].files = FilesOf(cache[i].key, cache[i].key.ref)

(* An install or update of a moving source saves what was there when the
   call began, or something newer: never what a cache kept.                 *)
SavesTheLatest ==
    \A p \in Calls :
        /\ call[p].pc = "done"
        /\ call[p].src.kind \in Origins
        /\ call[p].src.ref = None
        => call[p].files.ver >= call[p].began

(* The recorded source says where the files of a saved package come from, in
   any order of saves, installs, updates and publications: an update relies
   on it.  packageSave records what its caller claims, so a row last written
   with a claimed source is left out, until an install or an update replaces
   it; claims leave every other row as it is.                               *)
SourceIsOrigin ==
    \A u \in Users, n \in Names : saved[u][n] # None /\ <<u, n>> \notin claimed =>
        LET f == saved[u][n].files
            s == saved[u][n].source
        IN  CASE s.kind = "community" ->
                    \E g \in listed[s.ref] : f = [g EXCEPT !.name = f.name]
              [] s.kind = "local" -> f.origin = "local"
              [] OTHER -> /\ f.origin = s.kind
                          /\ f.sub = s.sub
                          /\ s.ref # None => f.ver = s.ref

(* A listing holds what its owner published, whoever else tried to publish
   under the name meanwhile.                                                *)
ListingIsOwners ==
    \A n \in Names : listings[n] # None => listings[n].by = listings[n].owner

(* An update re-installs the package from where it came from.               *)
UpdateFromSamePlace ==
    \A p \in Calls :
        /\ call[p].pc = "done"
        /\ call[p].op = "update"
        /\ call[p].src.kind \in Origins
        => /\ call[p].files.origin = call[p].was.files.origin
           /\ call[p].files.sub = call[p].was.files.sub

(* What is saved is what was asked for: the previewed tree, the pinned commit,
   or for a moving source nothing older than the call.                      *)
FetchedIsAsked == PreviewedIsInstalled /\ KeptIsPinned /\ SavesTheLatest

(* Where a package or a listing says it comes from is where its files are
   from, a source merely claimed to packageSave aside.                      *)
ProvenanceHolds == TypeOK /\ SourceIsOrigin /\ ListingIsOwners
=============================================================================
