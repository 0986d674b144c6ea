--------------------------- MODULE PackageStorage ---------------------------
(***************************************************************************)
(* packageStorage(): the cell of one package of one user                   *)
(* (cells/package-storage-cell.ts), as code in isolates reaches it through *)
(* RuntimeHost (execute/runtime-host.ts).  Every call is one step of the   *)
(* cell; a listing is many, with the writes of other runs in between.      *)
(*                                                                         *)
(* Keys are numbers in the order SQLite sorts them, 0 being before all.    *)
(***************************************************************************)
EXTENDS Naturals, Sequences, SequencesExt

CONSTANTS MaxKey,      \* keys are 1..MaxKey
          PrefixSets,  \* sets of neighbouring keys: those that share a prefix
          Values,
          Tables,      \* tables the package's own SQL may create
          Scans,       \* listings under way
          Limits,      \* page sizes asked for
          None

\* There may be no key at all; a caller asks for a page of any size, none included.
StorageConstants == MaxKey \in Nat /\ Limits \subseteq Nat

VARIABLES kv,          \* __kody_kv
          tables,      \* the package's own tables
          scan,        \* per listing: its prefix, cursor and what it has been given
          steady       \* history: per listing, the keys that were there all along

vars == <<kv, tables, scan, steady>>
AllKeys == 1..MaxKey
Stored == {k \in AllKeys : kv[k] # None}
Idle == [state |-> "idle", prefix |-> {}, limit |-> 1, cursor |-> 0, given |-> <<>>]

\* What a write leaves of the keys that were always there.
StillThere == steady' = [s \in Scans |-> steady[s] \cap {k \in AllKeys : kv'[k] # None}]

\* set, and delete, which a value of undefined is too.
set(k, v) ==
    /\ kv' = [kv EXCEPT ![k] = v]
    /\ StillThere
    /\ UNCHANGED <<tables, scan>>

\* sql: a statement of the package's own; one that writes a reserved table is refused.
sql ==
    /\ tables' \in {tables \cup {t} : t \in Tables} \cup {tables \ {t} : t \in Tables}
    /\ UNCHANGED <<kv, scan, steady>>

\* clear: the rows and the package's tables, or nothing when a table cannot be dropped.
clear ==
    /\ kv' = [k \in AllKeys |-> None] /\ tables' = {}
    /\ StillThere
    /\ UNCHANGED scan

\* A listing starts without a cursor.
ListBegin(s) ==
    /\ scan[s].state # "open"
    /\ \E p \in PrefixSets, limit \in Limits :
         /\ scan' = [scan EXCEPT ![s] = [Idle EXCEPT !.state = "open", !.prefix = p, !.limit = limit]]
         /\ steady' = [steady EXCEPT ![s] = Stored \cap p]
    /\ UNCHANGED <<kv, tables>>

Ascending(q) == \A i, j \in DOMAIN q : i < j => q[i] < q[j]

\* ORDER BY key.
InOrder(ks) == CHOOSE q \in UNION {[1 .. n -> ks] : n \in 0 .. MaxKey} : ToSet(q) = ks /\ Ascending(q)

Matching(s) == InOrder({k \in Stored \cap scan[s].prefix : k > scan[s].cursor})

\* Mutant: the cursor is the row read to see whether there is more.
CursorPast(rows, limit) == rows[limit + 1]

\* The cursor of a page that is not the last: its last key.
CursorOf(rows, limit) == rows[limit]

\* A page has at least one row, whatever limit was asked for.
Clamped(limit) == IF limit < 1 THEN 1 ELSE limit

\* list: one page.
list(s) ==
    LET rows == Matching(s)
        limit == Clamped(scan[s].limit)
        page == SubSeq(rows, 1, IF Len(rows) > limit THEN limit ELSE Len(rows))
    IN  /\ scan[s].state = "open"
        /\ scan' = [scan EXCEPT ![s].given = @ \o page,
                                ![s].state = IF Len(rows) > limit THEN "open" ELSE "done",
                                ![s].cursor = IF Len(rows) > limit THEN CursorOf(rows, limit) ELSE @]
        /\ UNCHANGED <<kv, tables, steady>>

Init ==
    /\ kv \in [AllKeys -> Values \cup {None}] /\ tables = {}
    /\ scan = [s \in Scans |-> Idle]
    /\ steady = [s \in Scans |-> {}]

Next ==
    \/ \E k \in AllKeys, v \in Values \cup {None} : set(k, v)
    \/ sql \/ clear
    \/ \E s \in Scans : ListBegin(s) \/ list(s)

Spec == Init /\ [][Next]_vars

\* A finished listing gave every key that was there all along, none twice and all in order, whatever was written
\* between its pages (cells/package-storage-cell.ts list).
PagesExact ==
    \A s \in Scans : scan[s].state # "idle" =>
        LET given == scan[s].given
        IN  /\ Ascending(given)
            /\ scan[s].state = "done" => steady[s] \subseteq ToSet(given)
=============================================================================
