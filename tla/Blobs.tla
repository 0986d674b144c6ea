------------------------------- MODULE Blobs -------------------------------
(***************************************************************************)
(* Per-user blob storage: BlobService (one object per request, in the      *)
(* Worker), the blob index and its quotas (the `blobs` table of the user's *)
(* UserCell) and the object bucket (R2 binding or S3).                      *)
(*                                                                         *)
(* A method of the cell runs to completion before another one starts, but  *)
(* every call from the service to the cell or to the bucket is an await:   *)
(* the requests in flight interleave between them.                         *)
(*                                                                         *)
(* A body stands for its bytes, and so for its sha256 and etag; Size gives *)
(* its length.  A row of the index is the body it was written for.         *)
(***************************************************************************)
EXTENDS Integers, FiniteSets, FiniteSetsExt, Functions

CONSTANTS Keys,      \* normalised blob keys
          Requests,  \* calls of BlobService that may be in flight at once
          Bodies,    \* contents a client uploads
          Size,      \* byte length of each body
          MaxBytes,  \* KODY_BLOB_MAX_BYTES
          Quotas,    \* the quotas an administrator may put in force
          Faults,    \* the faults of the environment this model includes
          None       \* no row, no object

FaultKinds == {"store", "crash", "outOfBand"}

ASSUME NoneAssumption == None \notin Bodies
ASSUME SizeAssumption == Size \in [Bodies -> Nat] /\ MaxBytes \in Nat
ASSUME QuotasAssumption == Quotas # {} /\ Quotas \subseteq [blobs : Nat, blobBytes : Nat]
ASSUME FaultsAssumption == Faults \subseteq FaultKinds
ASSUME KeysAssumption == Keys # {} /\ IsFiniteSet(Keys)

VARIABLES index,    \* the blobs table: the body each key's row describes
          bucket,   \* the object stored under each key
          quota,    \* quotas in force (0 means unlimited)
          req,      \* the state of each request
          tainted   \* history: keys with overlapping requests or a fault

vars == <<index, bucket, quota, req, tainted>>

Steps == {"idle", "storing", "indexing", "undoing", "fetching", "dropping", "deleting"}
Rows == Bodies \cup {None}
ReqStates == [pc : Steps, key : Keys, body : Rows, previous : Rows]

Idle == [pc |-> "idle", key |-> CHOOSE k \in Keys : TRUE, body |-> None, previous |-> None]

----------------------------------------------------------------------------
(* The index and its quotas *)

Indexed(ix) == {k \in Keys : ix[k] # None}
SizeOf(row) == IF row = None THEN 0 ELSE Size[row]

count(ix) == Cardinality(Indexed(ix))
blobBytes(ix) == MapThenSumSet(LAMBDA k : SizeOf(ix[k]), Keys)

withinQuota(limit, used) == limit = 0 \/ used < limit

\* Mutant: the byte quota is checked for new keys only, an overwrite may grow past it.
assertBlobQuotaNoBytes(k, b) ==
    /\ index[k] = None => withinQuota(quota.blobs, count(index))
    /\ index[k] = None /\ quota.blobBytes # 0 => blobBytes(index) + Size[b] <= quota.blobBytes

\* True when assertBlobQuota({key, size}) does not throw.
assertBlobQuota(k, b) ==
    /\ index[k] = None => withinQuota(quota.blobs, count(index))
    /\ \/ quota.blobBytes = 0
       \/ blobBytes(index) - SizeOf(index[k]) + Size[b] <= quota.blobBytes

----------------------------------------------------------------------------
InFlight(k) == {r \in Requests : req[r].pc # "idle" /\ req[r].key = k}

\* History: a request entering a key that another request is working on.
Enter(k) == tainted' = IF InFlight(k) = {} THEN tainted ELSE tainted \cup {k}
Taint(k) == tainted' = tainted \cup {k}

At(r, step) == req[r].pc = step
Goto(r, step) == req' = [req EXCEPT ![r].pc = step]
Finish(r) == req' = [req EXCEPT ![r] = Idle]

----------------------------------------------------------------------------
(* put *)

PutReserve(r, k, b) ==
    /\ At(r, "idle")
    /\ Size[b] <= MaxBytes
    /\ assertBlobQuota(k, b)
    /\ req' = [req EXCEPT ![r] = [pc |-> "storing", key |-> k, body |-> b, previous |-> index[k]]]
    /\ Enter(k)
    /\ UNCHANGED <<index, bucket, quota>>

PutStore(r) ==
    /\ At(r, "storing")
    /\ bucket' = [bucket EXCEPT ![req[r].key] = req[r].body]
    /\ Goto(r, "indexing")
    /\ UNCHANGED <<index, quota, tainted>>

\* The bucket's PUT throws; over S3 the object may have been written all the same.
PutStoreFails(r) ==
    /\ "store" \in Faults
    /\ At(r, "storing")
    /\ \/ bucket' = bucket
       \/ bucket' = [bucket EXCEPT ![req[r].key] = req[r].body]
    /\ Finish(r)
    /\ Taint(req[r].key)
    /\ UNCHANGED <<index, quota>>

\* Mutant: the index write trusts the reservation.
PutIndexUnchecked(r) ==
    /\ At(r, "indexing")
    /\ index' = [index EXCEPT ![req[r].key] = req[r].body]
    /\ Finish(r)
    /\ UNCHANGED <<bucket, quota, tainted>>

PutIndex(r) ==
    /\ At(r, "indexing")
    /\ assertBlobQuota(req[r].key, req[r].body)
    /\ index' = [index EXCEPT ![req[r].key] = req[r].body]
    /\ Finish(r)
    /\ UNCHANGED <<bucket, quota, tainted>>

\* Mutant: the object of a rejected put is left behind.
PutIndexRejectedKeeps(r) ==
    /\ At(r, "indexing")
    /\ ~assertBlobQuota(req[r].key, req[r].body)
    /\ Finish(r)
    /\ UNCHANGED <<index, bucket, quota, tainted>>

\* The re-check fails; only a put that found no previous row deletes its object.
PutIndexRejected(r) ==
    /\ At(r, "indexing")
    /\ ~assertBlobQuota(req[r].key, req[r].body)
    /\ IF req[r].previous = None THEN Goto(r, "undoing") ELSE Finish(r)
    /\ UNCHANGED <<index, bucket, quota, tainted>>

PutUndo(r) ==
    /\ At(r, "undoing")
    /\ bucket' = [bucket EXCEPT ![req[r].key] = None]
    /\ Finish(r)
    /\ UNCHANGED <<index, quota, tainted>>

(* get *)

\* A get of a key without a row answers null at once and changes nothing.
GetIndex(r, k) ==
    /\ At(r, "idle")
    /\ index[k] # None
    /\ req' = [req EXCEPT ![r] = [Idle EXCEPT !.pc = "fetching", !.key = k]]
    /\ Enter(k)
    /\ UNCHANGED <<index, bucket, quota>>

GetFetch(r) ==
    /\ At(r, "fetching")
    /\ IF bucket[req[r].key] = None THEN Goto(r, "dropping") ELSE Finish(r)
    /\ UNCHANGED <<index, bucket, quota, tainted>>

GetDrop(r) ==
    /\ At(r, "dropping")
    /\ index' = [index EXCEPT ![req[r].key] = None]
    /\ Finish(r)
    /\ UNCHANGED <<bucket, quota, tainted>>

(* delete *)

DeleteIndex(r, k) ==
    /\ At(r, "idle")
    /\ index' = [index EXCEPT ![k] = None]
    /\ req' = [req EXCEPT ![r] = [Idle EXCEPT !.pc = "deleting", !.key = k]]
    /\ Enter(k)
    /\ UNCHANGED <<bucket, quota>>

DeleteObject(r) ==
    /\ At(r, "deleting")
    /\ bucket' = [bucket EXCEPT ![req[r].key] = None]
    /\ Finish(r)
    /\ UNCHANGED <<index, quota, tainted>>

----------------------------------------------------------------------------
(* The administrator and the environment *)

quotaSet(q) ==
    /\ q # quota
    /\ quota' = q
    /\ UNCHANGED <<index, bucket, req, tainted>>

\* A DELETE sent to the bucket throws: delete() rethrows, put()'s clean-up swallows it.
DeleteObjectFails(r) ==
    /\ "store" \in Faults
    /\ req[r].pc \in {"deleting", "undoing"}
    /\ Finish(r)
    /\ Taint(req[r].key)
    /\ UNCHANGED <<index, bucket, quota>>

\* The Worker stops between two awaits of a request.
Crash(r) ==
    /\ "crash" \in Faults
    /\ req[r].pc # "idle"
    /\ Finish(r)
    /\ Taint(req[r].key)
    /\ UNCHANGED <<index, bucket, quota>>

\* "bucket restored from an older snapshot, object removed out-of-band"
LoseObject(k) ==
    /\ "outOfBand" \in Faults
    /\ bucket[k] # None
    /\ bucket' = [bucket EXCEPT ![k] = None]
    /\ Taint(k)
    /\ UNCHANGED <<index, quota, req>>

----------------------------------------------------------------------------
Init ==
    /\ index = [k \in Keys |-> None]
    /\ bucket = [k \in Keys |-> None]
    /\ quota \in Quotas
    /\ req = [r \in Requests |-> Idle]
    /\ tainted = {}

Put(r) ==
    \/ \E k \in Keys, b \in Bodies : PutReserve(r, k, b)
    \/ PutStore(r) \/ PutStoreFails(r)
    \/ PutIndex(r) \/ PutIndexRejected(r) \/ PutUndo(r)

Get(r) == (\E k \in Keys : GetIndex(r, k)) \/ GetFetch(r) \/ GetDrop(r)

Delete(r) == (\E k \in Keys : DeleteIndex(r, k)) \/ DeleteObject(r) \/ DeleteObjectFails(r)

Next ==
    \/ \E r \in Requests : Put(r) \/ Get(r) \/ Delete(r) \/ Crash(r)
    \/ \E q \in Quotas : quotaSet(q)
    \/ \E k \in Keys : LoseObject(k)

Spec == Init /\ [][Next]_vars

----------------------------------------------------------------------------
(* Every variable keeps its shape; a request past its first step knows its key. *)
TypeOK ==
    /\ index \in [Keys -> Rows]
    /\ bucket \in [Keys -> Rows]
    /\ quota \in Quotas
    /\ req \in [Requests -> ReqStates]
    /\ tainted \subseteq Keys

(***************************************************************************)
(* "blobIndexPut re-checks against the index, which is what makes the      *)
(* quota hold when two puts race" (user-cell.ts:1700): no step makes the   *)
(* index hold more rows than the quota in force allows.  Lowering the      *)
(* quota may leave the index above it, growing never does.                 *)
(***************************************************************************)
CountQuotaStep ==
    count(index') > count(index) => quota.blobs = 0 \/ count(index') <= quota.blobs
CountQuotaHolds == [][CountQuotaStep]_vars

(***************************************************************************)
(* The same for the byte quota: whatever puts, overwrites and deletes race *)
(* between the reservation and the index write, a step that makes the      *)
(* index account for more bytes stays within the quota in force.           *)
(***************************************************************************)
BytesQuotaStep ==
    blobBytes(index') > blobBytes(index)
        => quota.blobBytes = 0 \/ blobBytes(index') <= quota.blobBytes
BytesQuotaHolds == [][BytesQuotaStep]_vars

(***************************************************************************)
(* On a key no two requests ever worked on at once and no fault ever hit,  *)
(* an idle key has an index row exactly when it has an object, whatever    *)
(* requests on other keys did to the quota in the meantime.                *)
(***************************************************************************)
IsolatedKeyAgrees ==
    \A k \in Keys \ tainted :
        InFlight(k) = {} => (index[k] = None <=> bucket[k] = None)

(***************************************************************************)
(* The inductive strengthening of IsolatedKeyAgrees: an isolated key has   *)
(* at most one request, and what that request still has to do explains any *)
(* difference between the row and the object.                              *)
(***************************************************************************)
Working(r, k) == req[r].pc # "idle" /\ req[r].key = k
Agree(k) == index[k] = None <=> bucket[k] = None
Explained(r, k) ==
    CASE req[r].pc = "storing"  -> Agree(k) /\ index[k] = req[r].previous /\ req[r].body # None
      [] req[r].pc = "indexing" -> bucket[k] # None /\ index[k] = req[r].previous /\ req[r].body # None
      [] req[r].pc = "undoing"  -> index[k] = None
      [] req[r].pc = "fetching" -> Agree(k) /\ index[k] # None
      [] req[r].pc = "deleting" -> index[k] = None
      [] OTHER -> FALSE
IsolationInv ==
    \A k \in Keys \ tainted :
        /\ \A r, s \in Requests : Working(r, k) /\ Working(s, k) => r = s
        /\ (\A r \in Requests : ~Working(r, k)) => Agree(k)
        /\ \A r \in Requests : Working(r, k) => Explained(r, k)
=============================================================================
