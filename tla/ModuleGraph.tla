----------------------------- MODULE ModuleGraph -----------------------------
(***************************************************************************)
(* buildModuleGraph: the modules handed to an isolate.  Starting from the  *)
(* entry, saved packages are included depth first, one file and one import *)
(* after the other; imports of a package's secret-provider entry are       *)
(* pointed at a module that throws, and a file that cannot be linked is    *)
(* replaced by one that throws.  Only kody: imports and relative imports   *)
(* inside one package are modelled.                                        *)
(***************************************************************************)
EXTENDS Naturals, Sequences, FiniteSets, SequencesExt

CONSTANTS
    Packages,       \* package names
    FileNames,      \* the code files of each package
    Programs,       \* import lists: functions from modules to sequences of modules
    None

Modules == Packages \X FileNames
PackageOf(m) == m[1]
FilesOf(p) == {m \in Modules : PackageOf(m) = p}
Stub == <<None, None>>      \* SEALED_MODULE_PATH

VARIABLES
    imports,    \* the program: per module, what it imports in order
    saved,      \* the packages that are saved
    provider,   \* per package, its secret-provider entry or None
    entry,      \* the module the graph is built for
    sealed,     \* a provider run, whose entry may be a provider
    included,   \* includedPackages
    sealedOff,  \* providerEntryPaths
    stack,      \* the packages being included, innermost last
    links,      \* per finished module, what its imports now name
    broken,     \* unreadable: modules replaced by one that throws
    phase       \* "building", "built" or "failed"

vars == <<imports, saved, provider, entry, sealed, included, sealedOff, stack, links, broken, phase>>
given == <<imports, saved, provider, entry, sealed>>

\* Assumed of the constants: finitely many packages of finitely many files, and nothing is none of them.
GraphConstants ==
    /\ IsFiniteSet(Packages) /\ IsFiniteSet(FileNames) /\ FileNames # {}
    /\ Programs \subseteq [Modules -> Seq(Modules)]
    /\ None \notin Packages /\ None \notin Modules \cup {Stub}

\* A package being included: the files still to do, the imports of the first one still to
\* rewrite, and the targets already computed for it.
Frame(p) == LET todo == SetToSeq(FilesOf(p))
            IN  [todo |-> todo, left |-> imports[Head(todo)], to |-> {}]
Top == Last(stack)
Current == Head(Top.todo)

TypeOK ==
    /\ included \subseteq saved \cup {PackageOf(entry)}
    /\ sealedOff \subseteq Modules
    /\ \A m \in Modules : links[m] \subseteq Modules \cup {Stub}
    /\ broken \subseteq Modules
    /\ Len(stack) <= Cardinality(Packages)
    /\ phase \in {"building", "built", "failed"}

Init ==
    /\ imports \in Programs
    /\ saved \in SUBSET Packages
    /\ provider \in {f \in [Packages -> Modules \cup {None}] :
                        \A p \in Packages : f[p] = None \/ PackageOf(f[p]) = p}
    /\ entry \in Modules
    /\ sealed \in BOOLEAN
    /\ included = {} /\ sealedOff = {} /\ stack = <<>>
    /\ links = [m \in Modules |-> {}]
    /\ broken = {}
    /\ phase = "building"

Provider(p) == {provider[p]} \ {None}

\* Mutant: a package's provider entry is noted after its files were linked.
NoteLate(p) == sealedOff' = sealedOff

\* includePackage up to its files.
NoteProvider(p) == sealedOff' = sealedOff \cup Provider(p)

include(p) ==
    /\ included' = included \cup {p}
    /\ NoteProvider(p)

\* The entry's package is loaded; a package that is not saved fails the build.
Begin ==
    /\ phase = "building" /\ included = {}
    /\ IF PackageOf(entry) \in saved
       THEN include(PackageOf(entry)) /\ stack' = <<Frame(PackageOf(entry))>> /\ UNCHANGED phase
       ELSE phase' = "failed" /\ UNCHANGED <<included, sealedOff, stack>>
    /\ UNCHANGED <<given, links, broken>>

\* importTarget.
importTarget(m) == IF m \in sealedOff THEN Stub ELSE m

\* Mutant: a file that cannot be linked is published as it was written.
PublishOriginal(m) == links' = [links EXCEPT ![m] = ToSet(imports[m])]

\* deferredModuleFailureSource: nothing of the file is published.
PublishStub(m) == links' = [links EXCEPT ![m] = {}]

\* The first file of a frame is done: on to the next, or the package is included and the
\* import that asked for it is looked at again.
NextFile(frame) ==
    IF Len(frame.todo) = 1 THEN Front(stack)
    ELSE Append(Front(stack), [todo |-> Tail(frame.todo), left |-> imports[frame.todo[2]], to |-> {}])

\* Mutant: an import waits until its package is linked.
AvailableWhenLinked(p) ==
    /\ p \in saved \cap included
    /\ \A i \in 1..(Len(stack) - 1) : PackageOf(Head(stack[i].todo)) # p

\* includePackage returns at once for a package that is included, or is being included further out.
Available(p) == p \in saved \cap included

\* rewriter: the next import of the current file.
RewriteImport ==
    /\ stack # <<>> /\ Top.left # <<>>
    /\ LET t == Head(Top.left)
           p == PackageOf(t)
       IN  \/ /\ p \notin saved
              /\ PublishStub(Current)
              /\ broken' = broken \cup {Current}
              /\ stack' = NextFile(Top)
              /\ UNCHANGED <<included, sealedOff>>
           \/ /\ p \in saved \ included
              /\ include(p)
              /\ stack' = Append(stack, Frame(p))
              /\ UNCHANGED <<links, broken>>
           \/ /\ Available(p)
              /\ stack' = Append(Front(stack), [Top EXCEPT !.left = Tail(@), !.to = @ \cup {importTarget(t)}])
              /\ UNCHANGED <<included, sealedOff, links, broken>>
    /\ UNCHANGED <<given, phase>>

\* rewriteModule ends: the file is published with its new imports.
PublishFile ==
    /\ stack # <<>> /\ Top.left = <<>>
    /\ links' = [links EXCEPT ![Current] = Top.to]
    /\ stack' = NextFile(Top)
    /\ UNCHANGED <<given, included, sealedOff, broken, phase>>

Reached(ms) == ms \cup UNION {links[m] : m \in ms \cap Modules}
\* assertReachableImportsResolve: what the entry loads, in as many steps as there are modules.
Reachable ==
    LET from[n \in 0..Cardinality(Modules)] == IF n = 0 THEN {entry} ELSE Reached(from[n - 1])
    IN  from[Cardinality(Modules)]

\* A provider entry may only start a sealed run; what the entry reaches must be readable.
End ==
    /\ phase = "building" /\ included # {} /\ stack = <<>>
    /\ phase' = IF (~sealed /\ entry \in sealedOff) \/ Reachable \cap broken # {} THEN "failed" ELSE "built"
    /\ UNCHANGED <<given, included, sealedOff, stack, links, broken>>

Next == Begin \/ RewriteImport \/ PublishFile \/ End

Spec == Init /\ [][Next]_vars

(***************************************************************************)
(* "it may only ever be the entry of a sealed run": in a finished graph no *)
(* module, of its own package or another, imports a provider entry,        *)
(* whatever the cycles of imports and whatever failed to link; outside a   *)
(* sealed run the entry is none either.                                    *)
(***************************************************************************)
ProviderOnlyEntry ==
    phase = "built" =>
        /\ \A p \in included, m \in Modules : provider[p] \notin links[m]
        /\ entry = provider[PackageOf(entry)] => sealed

(***************************************************************************)
(* A finished graph lacks nothing the entry loads: every module it reaches *)
(* was linked, with all of its imports, though packages import each other. *)
(***************************************************************************)
ReachedIsLinked ==
    phase = "built" =>
        \A m \in Reachable \cap Modules :
            /\ PackageOf(m) \in included
            /\ Len(imports[m]) > 0 => links[m] # {}

(***************************************************************************)
(* A finished graph has every import the entry needs, and none that the    *)
(* sealing of provider entries forbids.                                    *)
(***************************************************************************)
GraphExact == TypeOK /\ ProviderOnlyEntry /\ ReachedIsLinked
=============================================================================
