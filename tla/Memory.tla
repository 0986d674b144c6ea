------------------------------- MODULE Memory -------------------------------
(***************************************************************************)
(* A user's memories (MemoryCell): rows in SQLite, which are the truth,    *)
(* and a vector per row in a store that lags behind.  Writing a row clears *)
(* its mark; indexing embeds rows it read before, stores their vectors and *)
(* marks them, with other calls of the cell running in between.  A search  *)
(* repairs the unmarked rows first, asks the vector store, and keeps from  *)
(* what it finds the rows that still fit and were not yet shown in the     *)
(* conversation.                                                           *)
(***************************************************************************)
EXTENDS Naturals, FiniteSets

CONSTANTS
    Ids,            \* memory ids, random and used once
    Conversations,
    Calls,          \* calls that may be under way at once
    MaxText,        \* bound on the texts written
    ReindexBatch,   \* lazyReindexBatch
    SearchLimit,    \* matches a search returns
    None

Statuses == {"active", "archived", "deleted"}

\* The bound is a number, and no row is taken for a missing one.
MemoryConstants ==
    /\ MaxText \in Nat
    /\ None \notin [text : Nat, status : Statuses, marked : BOOLEAN] /\ None \notin [text : Nat, status : Statuses]

VARIABLES
    rows,       \* per id, its text, status and whether its vector is marked as made, or None
    used,       \* ids given out
    lastText,
    vectors,    \* per id, the text and the status it was stored with, or None
    shown,      \* memory_suppressions: pairs of a conversation and an id
    calls,      \* per call, where it is and what it has read
    forgotten,  \* history: ids whose forced deletion was answered while nobody was indexing them
    crossed,    \* history: ids whose last writing came while a call was indexing them
    repeated    \* history: pairs surfaced again while they were suppressed

vars == <<rows, used, lastText, vectors, shown, calls, forgotten, crossed, repeated>>

Idle == [op |-> None, pc |-> "idle", batch |-> {}, ask |-> {}, conv |-> None, seen |-> {},
         found |-> {}, id |-> None, answer |-> {}]

Saved == {i \in Ids : rows[i] # None}
Unmarked == {i \in Saved : ~rows[i].marked}
\* What indexing keeps of a row it has read.
Copy(i) == [id |-> i, text |-> rows[i].text, status |-> rows[i].status]

TypeOK ==
    /\ \A i \in Saved : rows[i].text \in 1..lastText /\ rows[i].status \in Statuses
    /\ Saved \subseteq used
    /\ lastText \in 0..MaxText
    /\ \A i \in Ids : vectors[i] # None => i \in used /\ vectors[i].text \in 1..lastText
    /\ shown \subseteq Conversations \X Ids
    /\ \A c \in Calls :
          /\ calls[c].pc \in {"idle", "store", "mark", "query", "answer", "answered", "drop"}
          /\ \A b \in calls[c].batch : b.id \in used

Init ==
    /\ rows = [i \in Ids |-> None]
    /\ used = {} /\ lastText = 0
    /\ vectors = [i \in Ids |-> None]
    /\ shown = {}
    /\ calls = [c \in Calls |-> Idle]
    /\ forgotten = {} /\ crossed = {} /\ repeated = {}

BatchIds(c) == {b.id : b \in calls[c].batch}

\* For the history: the row changes while its earlier form may be on its way to the vector store, or does not.
Crosses(i) == crossed' = IF \E d \in Calls : i \in BatchIds(d) THEN crossed \cup {i} ELSE crossed \ {i}

\* A row is written: its vector is no longer its own.
Write(i, status) ==
    /\ lastText < MaxText
    /\ lastText' = lastText + 1
    /\ rows' = [rows EXCEPT ![i] = [text |-> lastText + 1, status |-> status, marked |-> FALSE]]

\* The row as written is read back and goes to be indexed.
IndexWritten(c, op, i) ==
    calls' = [calls EXCEPT ![c] = [Idle EXCEPT !.op = op, !.pc = "store",
                 !.batch = {[id |-> i, text |-> rows'[i].text, status |-> rows'[i].status]}]]

\* Mutant: an id that names no row is written all the same.
MayWriteAny(i) == TRUE

\* A row named by its id must be there; a new one gets an id of its own.
MayWrite(i) == i \in Saved \/ i \notin used

\* memoryUpsert: a new row, or one named by its id or its dedupe key.  Without a status given a
\* deleted row comes back as active.
memoryUpsert(c, i) ==
    /\ calls[c].pc = "idle"
    /\ MayWrite(i)
    /\ \E status \in Statuses : Write(i, status)
    /\ used' = used \cup {i}
    /\ IndexWritten(c, "upsert", i) /\ Crosses(i)
    /\ UNCHANGED <<vectors, shown, forgotten, repeated>>

\* memoryDelete: the row stays, as deleted, and is indexed as such.
SoftDelete(c, i) ==
    /\ calls[c].pc = "idle"
    /\ i \in Saved
    /\ rows' = [rows EXCEPT ![i].status = "deleted", ![i].marked = FALSE]
    /\ IndexWritten(c, "delete", i) /\ Crosses(i)
    /\ UNCHANGED <<used, lastText, vectors, shown, forgotten, repeated>>

\* With force the row goes at once and its vector after an await.
ForceDelete(c, i) ==
    /\ calls[c].pc = "idle"
    /\ i \in Saved
    /\ rows' = [rows EXCEPT ![i] = None]
    /\ shown' = {s \in shown : s[2] # i}
    /\ calls' = [calls EXCEPT ![c] = [Idle EXCEPT !.op = "force", !.pc = "drop", !.id = i]]
    /\ UNCHANGED <<used, lastText, vectors, forgotten, crossed, repeated>>

DropVector(c) ==
    /\ calls[c].pc = "drop"
    /\ vectors' = [vectors EXCEPT ![calls[c].id] = None]
    /\ forgotten' = forgotten \cup {i \in {calls[c].id} : \A d \in Calls : i \notin BatchIds(d)}
    /\ calls' = [calls EXCEPT ![c] = Idle]
    /\ UNCHANGED <<rows, used, lastText, shown, crossed, repeated>>

\* A store that cannot be reached: the deletion fails, the row is gone all the same.
DropFails(c) ==
    /\ calls[c].pc = "drop"
    /\ calls' = [calls EXCEPT ![c] = Idle]
    /\ UNCHANGED <<rows, used, lastText, vectors, shown, forgotten, crossed, repeated>>

(***************************************************************************)
(* indexMemories: the provider embeds the texts that were read, the store  *)
(* takes the vectors, the rows are marked: two awaits.                     *)
(***************************************************************************)
StoreVectors(c) ==
    /\ calls[c].pc = "store"
    /\ vectors' = [i \in Ids |-> IF i \in BatchIds(c)
                                 THEN LET b == CHOOSE b \in calls[c].batch : b.id = i
                                      IN  [text |-> b.text, status |-> b.status]
                                 ELSE vectors[i]]
    /\ calls' = [calls EXCEPT ![c].pc = "mark"]
    /\ UNCHANGED <<rows, used, lastText, shown, forgotten, crossed, repeated>>

\* What a call does once its rows are indexed: a search asks the store, a reindex goes on while
\* its batches are full, a write is answered.
AfterIndex(c, unmarked) ==
    CASE calls[c].op = "search" -> [calls[c] EXCEPT !.pc = "query", !.batch = {}]
      [] calls[c].op = "reindex" /\ Cardinality(calls[c].batch) >= ReindexBatch -> [calls[c] EXCEPT !.pc = "store", !.batch = unmarked]
      [] OTHER -> Idle

Batches(ids) == {s \in SUBSET ids : Cardinality(s) = IF Cardinality(ids) < ReindexBatch
                                                     THEN Cardinality(ids) ELSE ReindexBatch}

MarkRows(c) ==
    LET marked == [i \in Ids |-> IF i \in BatchIds(c) \cap Saved THEN [rows[i] EXCEPT !.marked = TRUE] ELSE rows[i]]
    IN  /\ calls[c].pc = "mark"
        /\ rows' = marked
        /\ \E s \in Batches(Unmarked \ BatchIds(c)) :
              calls' = [calls EXCEPT ![c] = AfterIndex(c, {Copy(i) : i \in s})]
        /\ UNCHANGED <<used, lastText, vectors, shown, forgotten, crossed, repeated>>

\* A failure leaves the rows as they are, to be repaired by a later search.
FailUnmarked(c) == UNCHANGED rows

\* The provider or the store fails: a write is answered with a warning, a search goes on with
\* what it found by words, a reindex fails.
IndexFails(c) ==
    /\ calls[c].pc = "store"
    /\ FailUnmarked(c)
    /\ calls' = [calls EXCEPT ![c] = IF calls[c].op = "search" THEN [calls[c] EXCEPT !.pc = "answer", !.batch = {}] ELSE Idle]
    /\ UNCHANGED <<used, lastText, vectors, shown, forgotten, crossed, repeated>>

\* memoryReindex: every mark is cleared, then batch after batch is indexed.
memoryReindex(c) ==
    /\ calls[c].pc = "idle"
    /\ rows' = [i \in Ids |-> IF i \in Saved THEN [rows[i] EXCEPT !.marked = FALSE] ELSE None]
    /\ \E s \in Batches(Saved) :
          calls' = [calls EXCEPT ![c] = [Idle EXCEPT !.op = "reindex", !.pc = "store", !.batch = {Copy(i) : i \in s}]]
    /\ UNCHANGED <<used, lastText, vectors, shown, forgotten, crossed, repeated>>

(***************************************************************************)
(* memorySearch.                                                           *)
(***************************************************************************)

\* What the words match is taken from the rows at once, then the unmarked rows are repaired.
memorySearch(c, conv, ask) ==
    /\ calls[c].pc = "idle"
    /\ \E words \in SUBSET {i \in Saved : rows[i].status \in ask}, s \in Batches(Unmarked) :
          calls' = [calls EXCEPT ![c] = [Idle EXCEPT !.op = "search", !.pc = "store", !.conv = conv, !.ask = ask,
                       !.found = words, !.batch = {Copy(i) : i \in s},
                       !.seen = {i \in Ids : <<conv, i>> \in shown}]]
    /\ UNCHANGED <<rows, used, lastText, vectors, shown, forgotten, crossed, repeated>>

\* The store answers with vectors whose own status fits.
Query(c) ==
    /\ calls[c].pc = "query"
    /\ \E hits \in SUBSET {i \in Ids : vectors[i] # None /\ vectors[i].status \in calls[c].ask} :
          calls' = [calls EXCEPT ![c].pc = "answer", ![c].found = @ \cup hits]
    /\ UNCHANGED <<rows, used, lastText, vectors, shown, forgotten, crossed, repeated>>

\* Mutant: what was shown is looked up when the search begins.
SeenBefore(c) == calls[c].seen

\* "The vector store can lag SQLite; SQLite is the truth."
Fits(c, i) == i \in Saved /\ rows[i].status \in calls[c].ask
Suppressed(c) == {i \in Ids : <<calls[c].conv, i>> \in shown}

\* No await from here on: the rows are looked up, the suppressed ones left out unless the caller
\* includes them, the best returned and, unless it does not acknowledge them, noted as shown.
Answer(c) ==
    /\ calls[c].pc = "answer"
    /\ \E include, acknowledge \in BOOLEAN :
         LET visible == {i \in calls[c].found : Fits(c, i)} \ (IF include THEN {} ELSE Suppressed(c))
         IN  \E top \in SUBSET visible :
               LET pairs == {<<calls[c].conv, i>> : i \in top}
               IN  /\ Cardinality(top) = IF Cardinality(visible) < SearchLimit THEN Cardinality(visible) ELSE SearchLimit
                   /\ shown' = IF acknowledge THEN shown \cup pairs ELSE shown
                   /\ repeated' = IF include THEN repeated ELSE repeated \cup (pairs \cap shown)
                   /\ calls' = [calls EXCEPT ![c].pc = "answered", ![c].found = {}, ![c].seen = {},
                                             ![c].answer = {Copy(i) : i \in top}]
    /\ UNCHANGED <<rows, used, lastText, vectors, forgotten, crossed>>

\* The caller has its answer, before any other call of the cell runs.
Answered(c) ==
    /\ calls[c].pc = "answered"
    /\ calls' = [calls EXCEPT ![c] = Idle]
    /\ UNCHANGED <<rows, used, lastText, vectors, shown, forgotten, crossed, repeated>>

\* Hours later a suppression is pruned.
pruneSuppressions(s) ==
    /\ s \in shown
    /\ shown' = shown \ {s}
    /\ repeated' = repeated \ {s}
    /\ UNCHANGED <<rows, used, lastText, vectors, calls, forgotten, crossed>>

\* The memory capabilities.
MemoryCall(c) ==
    \/ \E i \in Ids : memoryUpsert(c, i) \/ SoftDelete(c, i) \/ ForceDelete(c, i)
    \/ \E conv \in Conversations, ask \in {{"active"}, {"active", "archived"}} : memorySearch(c, conv, ask)
    \/ memoryReindex(c)

Pending(c) ==
    \/ DropVector(c) \/ DropFails(c)
    \/ StoreVectors(c) \/ MarkRows(c) \/ IndexFails(c)
    \/ Query(c) \/ Answer(c) \/ Answered(c)

Settled == \A c \in Calls : calls[c].pc # "answered"

Next ==
    \/ \E c \in Calls : Pending(c)
    \/ Settled /\ \E c \in Calls : MemoryCall(c)
    \/ Settled /\ \E s \in shown : pruneSuppressions(s)

Spec == Init /\ [][Next]_vars

(***************************************************************************)
(* A marked row has a vector: an interrupted or failed indexing leaves the *)
(* row to be repaired (indexMemories, repairStaleVectors).                 *)
(***************************************************************************)
MarkedIsIndexed == \A i \in Saved : rows[i].marked => vectors[i] # None

(***************************************************************************)
(* And it is the vector of the present text and status, unless the row was *)
(* last written while an indexing that had read it was under way: that one *)
(* may store the older text last, and marks the row all the same.          *)
(***************************************************************************)
MarkedIsCurrent ==
    \A i \in Saved \ crossed : rows[i].marked => vectors[i] = [text |-> rows[i].text, status |-> rows[i].status]

(***************************************************************************)
(* A search answers with rows as they are now, in the statuses asked for,  *)
(* whatever the vectors still say and whatever was changed or deleted      *)
(* while it waited for the provider and the store.                         *)
(***************************************************************************)
AnswerIsCurrent ==
    \A c \in Calls : calls[c].pc = "answered" =>
        \A a \in calls[c].answer : a.id \in Saved /\ a = Copy(a.id) /\ a.status \in calls[c].ask

(***************************************************************************)
(* A memory shown in a conversation is not shown in it again while it is   *)
(* suppressed and the caller does not include those, by no overlap of      *)
(* searches.                                                               *)
(***************************************************************************)
ShownOnce == repeated = {}

(***************************************************************************)
(* "force=true removes the record and its vector permanently": no write,   *)
(* repair or reindex brings back a vector that was dropped while nobody    *)
(* was indexing its row.  A drop that failed, or one during an indexing,   *)
(* does leave a vector behind.                                             *)
(***************************************************************************)
ForgottenIsGone == \A i \in forgotten : vectors[i] = None

(***************************************************************************)
(* The vector store follows the table: what is marked has a vector, that   *)
(* of its text unless written during an indexing; what was deleted by      *)
(* force, undisturbed and without failure, has none.                       *)
(***************************************************************************)
VectorsFollowRows == TypeOK /\ MarkedIsIndexed /\ MarkedIsCurrent /\ ForgottenIsGone

(***************************************************************************)
(* A search answers what is there now and was not shown before.            *)
(***************************************************************************)
AnswerSound == AnswerIsCurrent /\ ShownOnce
=============================================================================
