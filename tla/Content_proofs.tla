--------------------------- MODULE Content_proofs ---------------------------
(***************************************************************************)
(* Proofs about what a user keeps, modules Blobs, Secrets, Memory and      *)
(* PackageStorage, which share no table: for any keys, requests and        *)
(* bodies, any provider packages, calls and saves, any memories,           *)
(* conversations and searches, any stored keys and listings of them.       *)
(***************************************************************************)
EXTENDS Content, Sequences, FiniteSetTheorems, TLAPS

----------------------------------------------------------------------------
(* Blobs: types and the count quota *)

(* The idle state of a request is one of its states. *)
LEMMA IdleType == Idle \in ReqStates
  BY KeysAssumption DEF Idle, ReqStates, Steps, Rows

(* Every variable of the blob service keeps its type in every reachable state. *)
THEOREM TypeCorrect == Spec => []TypeOK
<1> USE DEF TypeOK, ReqStates, Rows, Steps
<1>1. Init => TypeOK
  BY IdleType DEF Init
<1>2. TypeOK /\ [Next]_vars => TypeOK'
  <2> SUFFICES ASSUME TypeOK, [Next]_vars PROVE TypeOK'
    OBVIOUS
  <2> USE IdleType DEF Goto, Finish, Enter, Taint, At
  <2>1. ASSUME NEW r \in Requests, Put(r) PROVE TypeOK'
    BY <2>1 DEF Put, PutReserve, PutStore, PutStoreFails, PutIndex, PutIndexRejected, PutUndo
  <2>2. ASSUME NEW r \in Requests, Get(r) PROVE TypeOK'
    <3>1. CASE \E k \in Keys : GetIndex(r, k)
      <4> PICK k \in Keys : GetIndex(r, k)
        BY <3>1
      <4>1. [Idle EXCEPT !.pc = "fetching", !.key = k] \in ReqStates
        BY DEF Idle
      <4> QED
        BY <4>1 DEF GetIndex
    <3>2. CASE GetFetch(r)
      BY <3>2 DEF GetFetch
    <3>3. CASE GetDrop(r)
      BY <3>3 DEF GetDrop
    <3> QED
      BY <2>2, <3>1, <3>2, <3>3 DEF Get
  <2>3. ASSUME NEW r \in Requests, Delete(r) PROVE TypeOK'
    <3>1. CASE \E k \in Keys : DeleteIndex(r, k)
      <4> PICK k \in Keys : DeleteIndex(r, k)
        BY <3>1
      <4>1. [Idle EXCEPT !.pc = "deleting", !.key = k] \in ReqStates
        BY DEF Idle
      <4> QED
        BY <4>1 DEF DeleteIndex
    <3>2. CASE DeleteObject(r)
      BY <3>2 DEF DeleteObject
    <3>3. CASE DeleteObjectFails(r)
      BY <3>3 DEF DeleteObjectFails
    <3> QED
      BY <2>3, <3>1, <3>2, <3>3 DEF Delete
  <2>4. ASSUME NEW r \in Requests, Crash(r) PROVE TypeOK'
    BY <2>4 DEF Crash
  <2>5. ASSUME NEW q \in Quotas, quotaSet(q) PROVE TypeOK'
    BY <2>5 DEF quotaSet
  <2>6. ASSUME NEW k \in Keys, LoseObject(k) PROVE TypeOK'
    BY <2>6 DEF LoseObject
  <2>7. CASE UNCHANGED vars
    BY <2>7 DEF vars
  <2> QED
    BY <2>1, <2>2, <2>3, <2>4, <2>5, <2>6, <2>7 DEF Next
<1> QED
  BY <1>1, <1>2, PTL DEF Spec

----------------------------------------------------------------------------
(* Writing one row adds at most one row to the index, none if the key had one. *)
LEMMA CountAfterWrite ==
  ASSUME NEW ix \in [Keys -> Rows], NEW k \in Keys, NEW b \in Rows
  PROVE  LET iy == [ix EXCEPT ![k] = b]
         IN  /\ count(ix) \in Nat /\ count(iy) \in Nat
             /\ ix[k] # None \/ b = None => count(iy) <= count(ix)
             /\ count(iy) <= count(ix) + 1
<1> DEFINE iy == [ix EXCEPT ![k] = b]
<1>1. IsFiniteSet(Indexed(ix)) /\ IsFiniteSet(Indexed(iy))
  BY KeysAssumption, FS_Subset DEF Indexed
<1>2. Cardinality(Indexed(ix)) \in Nat /\ Cardinality(Indexed(iy)) \in Nat
  BY <1>1, FS_CardinalityType
<1>3. Indexed(iy) \subseteq Indexed(ix) \cup {k}
  BY DEF Indexed
<1>4. ix[k] # None \/ b = None => Indexed(iy) \subseteq Indexed(ix)
  BY DEF Indexed
<1>5. IsFiniteSet(Indexed(ix) \cup {k}) /\ Cardinality(Indexed(ix) \cup {k}) <= Cardinality(Indexed(ix)) + 1
  <2> DEFINE D == Indexed(ix)
  <2>1. IsFiniteSet(D)
    BY <1>1
  <2>2. Cardinality(D) \in Nat
    BY <1>2
  <2> HIDE DEF D
  <2>3. /\ IsFiniteSet(D \cup {k})
        /\ Cardinality(D \cup {k}) = IF k \in D THEN Cardinality(D) ELSE Cardinality(D) + 1
    BY <2>1, FS_AddElement
  <2>4. Cardinality(D \cup {k}) <= Cardinality(D) + 1
    BY <2>2, <2>3
  <2> QED
    BY <2>3, <2>4 DEF D
<1>6. Cardinality(Indexed(iy)) <= Cardinality(Indexed(ix) \cup {k})
  BY <1>3, <1>5, FS_Subset
<1>7. Indexed(iy) \subseteq Indexed(ix) => Cardinality(Indexed(iy)) <= Cardinality(Indexed(ix))
  BY <1>1, FS_Subset
<1>8. Cardinality(Indexed(ix) \cup {k}) \in Nat
  BY <1>5, FS_CardinalityType
<1> HIDE DEF iy
<1>9. Cardinality(Indexed(iy)) <= Cardinality(Indexed(ix)) + 1
  BY <1>2, <1>5, <1>6, <1>8
<1> QED
  BY <1>2, <1>4, <1>7, <1>9 DEF count, iy

(* No race of puts, deletes and reads makes the index exceed the count quota in force. *)
THEOREM CountQuota == Spec => CountQuotaHolds
<1>1. TypeOK /\ [Next]_vars => [CountQuotaStep]_vars
  <2> SUFFICES ASSUME TypeOK, Next PROVE CountQuotaStep
    BY DEF CountQuotaStep, vars
  <2> USE DEF TypeOK
  <2>1. quota.blobs \in Nat
    BY QuotasAssumption
  <2>2. ASSUME NEW r \in Requests, PutIndex(r) PROVE CountQuotaStep
    <3> DEFINE k == req[r].key
               b == req[r].body
    <3>1. k \in Keys /\ b \in Rows
      BY DEF ReqStates
    <3>2. index' = [index EXCEPT ![k] = b]
      BY <2>2 DEF PutIndex
    <3>3. index[k] = None => quota.blobs = 0 \/ count(index) < quota.blobs
      BY <2>2 DEF PutIndex, assertBlobQuota, withinQuota
    <3> HIDE DEF k, b
    <3>4. /\ count(index) \in Nat /\ count(index') \in Nat
          /\ index[k] # None => count(index') <= count(index)
          /\ count(index') <= count(index) + 1
      BY <3>1, <3>2, CountAfterWrite
    <3> QED
      BY <2>1, <3>3, <3>4 DEF CountQuotaStep
  <2>3. ASSUME NEW k \in Keys, index' = [index EXCEPT ![k] = None] PROVE CountQuotaStep
    <3>1. None \in Rows
      BY DEF Rows
    <3>2. count(index) \in Nat /\ count(index') \in Nat /\ count(index') <= count(index)
      BY <2>3, <3>1, CountAfterWrite
    <3> QED
      BY <3>2 DEF CountQuotaStep
  <2>4. CASE UNCHANGED index
    <3>1. count(index') = count(index) /\ count(index) \in Nat
      <4>1. PICK k \in Keys : TRUE
        BY KeysAssumption
      <4>2. None \in Rows
        BY DEF Rows
      <4> QED
        BY <2>4, <4>1, <4>2, CountAfterWrite
    <3> QED
      BY <3>1 DEF CountQuotaStep
  <2>5. ASSUME NEW r \in Requests, Put(r) PROVE CountQuotaStep
    BY <2>5, <2>2, <2>4 DEF Put, PutReserve, PutStore, PutStoreFails, PutIndexRejected, PutUndo
  <2>6. ASSUME NEW r \in Requests, Get(r) PROVE CountQuotaStep
    <3>1. req[r].key \in Keys
      BY DEF ReqStates
    <3> QED
      BY <2>6, <3>1, <2>3, <2>4 DEF Get, GetIndex, GetFetch, GetDrop
  <2>7. ASSUME NEW r \in Requests, Delete(r) PROVE CountQuotaStep
    BY <2>7, <2>3, <2>4 DEF Delete, DeleteIndex, DeleteObject, DeleteObjectFails
  <2> QED
    BY <2>4, <2>5, <2>6, <2>7 DEF Next, Crash, quotaSet, LoseObject
<1> QED
  BY <1>1, TypeCorrect, PTL DEF Spec, CountQuotaHolds

----------------------------------------------------------------------------
(* Blobs: the byte quota *)

(* A set of numbers has a least one. *)
LEMMA LeastOf == ASSUME NEW T \in SUBSET Nat, T # {} PROVE \E m \in T : \A k \in T : m <= k
<1>1. PICK m \in T : \A k \in T : ~(<<k, m>> \in OpToRel(<, Nat))
  BY NatLessThanWellFounded, WFMin
<1>2. \A k \in T : ~(k < m)
  BY <1>1 DEF OpToRel
<1>3. \A k \in T : m <= k
  BY <1>2
<1>4. QED  BY <1>3

(* The library's fold: g gives the sum of f over each of the sets ks, taking away one chosen element after the other. *)
OneOf(s) == CHOOSE x \in s : TRUE
SumOver(f, g, ks) == g = [s \in ks |-> IF s = {} THEN 0 ELSE f[OneOf(s)] + g[s \ {OneOf(s)}]]
UpTo(n) == {s \in SUBSET Keys : Cardinality(s) <= n}

(* What is taken from a set leaves a smaller one. *)
LEMMA OneLess ==
    ASSUME NEW n \in Nat, NEW s \in UpTo(n), s # {}
    PROVE  /\ OneOf(s) \in s /\ OneOf(s) \in Keys
           /\ n # 0 /\ s \ {OneOf(s)} \in UpTo(n - 1) /\ s \ {OneOf(s)} \in UpTo(n)
<1>1. OneOf(s) \in s
  BY DEF OneOf
<1>2. IsFiniteSet(s)
  BY KeysAssumption, FS_Subset DEF UpTo
<1>3. /\ Cardinality(s) \in Nat /\ Cardinality(s) <= n
      /\ Cardinality(s \ {OneOf(s)}) = Cardinality(s) - 1 /\ Cardinality(s \ {OneOf(s)}) \in Nat
  BY <1>1, <1>2, FS_CardinalityType, FS_RemoveElement DEF UpTo
<1>4. QED  BY <1>1, <1>3 DEF UpTo

(* The sums exist and are numbers: there is no least size of sets without them. *)
LEMMA SumExists ==
    ASSUME NEW f \in [Keys -> Nat]
    PROVE  \E g \in [SUBSET Keys -> Nat] : SumOver(f, g, SUBSET Keys)
<1> DEFINE Has(n) == \E g \in [UpTo(n) -> Nat] : SumOver(f, g, UpTo(n))
           Bad == {n \in Nat : ~Has(n)}
<1>1. Has(0)
  <2> DEFINE g == [s \in UpTo(0) |-> 0]
  <2>1. \A s \in UpTo(0) : s = {}
    BY OneLess
  <2>2. SumOver(f, g, UpTo(0))
    BY <2>1 DEF SumOver
  <2>3. g \in [UpTo(0) -> Nat]
    OBVIOUS
  <2>4. QED  BY <2>2, <2>3
<1>2. ASSUME NEW n \in Nat, n # 0, Has(n - 1) PROVE Has(n)
  <2>1. PICK g \in [UpTo(n - 1) -> Nat] : SumOver(f, g, UpTo(n - 1))
    BY <1>2
  <2> DEFINE h == [s \in UpTo(n) |-> IF s = {} THEN 0 ELSE f[OneOf(s)] + g[s \ {OneOf(s)}]]
  <2>2. h \in [UpTo(n) -> Nat]
    BY OneLess
  <2>3. \A s \in UpTo(n - 1) : s \in UpTo(n) /\ g[s] = h[s]
    <3>1. \A s \in UpTo(n - 1) : Cardinality(s) \in Nat
      BY KeysAssumption, FS_Subset, FS_CardinalityType DEF UpTo
    <3>2. \A s \in UpTo(n - 1) : s \in UpTo(n)
      BY <3>1 DEF UpTo
    <3>3. \A s \in UpTo(n - 1) : g[s] = IF s = {} THEN 0 ELSE f[OneOf(s)] + g[s \ {OneOf(s)}]
      BY <2>1 DEF SumOver
    <3>4. QED  BY <3>2, <3>3
  <2>4. \A s \in UpTo(n) : s # {} => g[s \ {OneOf(s)}] = h[s \ {OneOf(s)}]
    BY <2>3, OneLess
  <2>5. SumOver(f, h, UpTo(n))
    BY <2>4 DEF SumOver
  <2>6. QED  BY <2>2, <2>5
<1>3. Bad = {}
  <2>1. SUFFICES ASSUME Bad # {} PROVE FALSE
    OBVIOUS
  <2>2. PICK n \in Bad : \A m \in Bad : n <= m
    BY <2>1, LeastOf
  <2>3. n # 0 /\ n - 1 \in Nat /\ n - 1 \notin Bad
    BY <1>1, <2>2
  <2> HIDE DEF Has
  <2>4. QED  BY <1>2, <2>2, <2>3
<1>4. UpTo(Cardinality(Keys)) = SUBSET Keys /\ Cardinality(Keys) \in Nat
  BY KeysAssumption, FS_Subset, FS_CardinalityType DEF UpTo
<1>5. Has(Cardinality(Keys))
  BY <1>3, <1>4
<1>6. QED  BY <1>4, <1>5

(* Whatever gives the sums gives numbers. *)
LEMMA SumIsNumber ==
    ASSUME NEW f \in [Keys -> Nat], NEW g, SumOver(f, g, SUBSET Keys)
    PROVE  g \in [SUBSET Keys -> Nat]
<1> DEFINE Bad == {n \in Nat : \E s \in UpTo(n) : g[s] \notin Nat}
<1>1. SUFFICES Bad = {}
  <2>1. \A s \in SUBSET Keys : Cardinality(s) \in Nat /\ s \in UpTo(Cardinality(s))
    BY KeysAssumption, FS_Subset, FS_CardinalityType DEF UpTo
  <2>2. \A s \in SUBSET Keys : g[s] \in Nat
    BY <2>1
  <2>3. g = [s \in SUBSET Keys |-> g[s]]
    BY DEF SumOver
  <2>4. QED  BY <2>2, <2>3
<1>2. SUFFICES ASSUME Bad # {} PROVE FALSE
  OBVIOUS
<1>3. PICK n \in Bad : \A m \in Bad : n <= m
  BY <1>2, LeastOf
<1>4. PICK s \in UpTo(n) : g[s] \notin Nat
  BY <1>3
<1>5. s \in SUBSET Keys /\ s # {}
  BY <1>4 DEF SumOver, UpTo
<1>6. OneOf(s) \in Keys /\ n # 0 /\ s \ {OneOf(s)} \in UpTo(n - 1)
  BY <1>5, OneLess
<1>7. g[s \ {OneOf(s)}] \in Nat
  <2>1. n - 1 \in Nat /\ n - 1 \notin Bad
    BY <1>3, <1>6
  <2>2. QED  BY <1>6, <2>1
<1>8. g[s] = f[OneOf(s)] + g[s \ {OneOf(s)}] /\ f[OneOf(s)] \in Nat
  BY <1>5, <1>6 DEF SumOver
<1>9. QED  BY <1>4, <1>7, <1>8

Moved(g, h, f, k, v) == h[Keys] = g[Keys] - f[k] + v
(* Sums of values that differ on one key differ by as much: there is no least size of sets on which they do not. *)
LEMMA SumAfterChange ==
    ASSUME NEW f \in [Keys -> Nat], NEW k \in Keys, NEW v \in Nat,
           NEW g \in [SUBSET Keys -> Nat], SumOver(f, g, SUBSET Keys),
           NEW e \in [Keys -> Nat], \A j \in Keys : e[j] = IF j = k THEN v ELSE f[j],
           NEW h \in [SUBSET Keys -> Nat], SumOver(e, h, SUBSET Keys)
    PROVE  Moved(g, h, f, k, v)
<1> USE DEF Moved
<1> DEFINE Differs(s) == h[s] = IF k \in s THEN g[s] - f[k] + v ELSE g[s]
           Bad == {n \in Nat : \E s \in UpTo(n) : ~Differs(s)}
<1>1. SUFFICES Bad = {}
  <2>1. Cardinality(Keys) \in Nat /\ Keys \in UpTo(Cardinality(Keys))
    BY KeysAssumption, FS_CardinalityType DEF UpTo
  <2>2. QED  BY <2>1
<1>2. SUFFICES ASSUME Bad # {} PROVE FALSE
  OBVIOUS
<1>3. PICK n \in Bad : \A m \in Bad : n <= m
  BY <1>2, LeastOf
<1>4. PICK s \in UpTo(n) : ~Differs(s)
  BY <1>3
<1>5. s \in SUBSET Keys
  BY DEF UpTo
<1>6. s # {}
  BY <1>4, <1>5 DEF SumOver
<1> DEFINE x == OneOf(s)
           t == s \ {x}
<1>7. x \in s /\ x \in Keys /\ n # 0 /\ t \in UpTo(n - 1)
  BY <1>6, OneLess
<1>8. Differs(t)
  <2>1. n - 1 \in Nat /\ n - 1 \notin Bad
    BY <1>3, <1>7
  <2>2. QED  BY <1>7, <2>1
<1>9. g[s] = f[x] + g[t] /\ h[s] = e[x] + h[t] /\ t \in SUBSET Keys
  BY <1>5, <1>6 DEF SumOver
<1>10. f[x] \in Nat /\ f[k] \in Nat /\ g[t] \in Nat /\ h[t] \in Nat /\ e[x] = IF x = k THEN v ELSE f[x]
  BY <1>7, <1>9
<1>11. k \in t <=> k \in s /\ k # x
  OBVIOUS
<1> HIDE DEF x, t
<1>12. QED  BY <1>4, <1>7, <1>8, <1>9, <1>10, <1>11

Bytes(ix) == [k \in Keys |-> SizeOf(ix[k])]
(* The bytes of the index are such a sum. *)
LEMMA BytesAreSum ==
    ASSUME NEW ix \in [Keys -> Rows]
    PROVE  /\ Bytes(ix) \in [Keys -> Nat]
           /\ \E g \in [SUBSET Keys -> Nat] : SumOver(Bytes(ix), g, SUBSET Keys) /\ blobBytes(ix) = g[Keys]
<1>1. Bytes(ix) \in [Keys -> Nat]
  BY SizeAssumption DEF Bytes, SizeOf, Rows
<1> DEFINE Iter(iter) == iter = [s \in SUBSET Keys |-> IF s = {} THEN 0 ELSE SizeOf(ix[CHOOSE x \in s : TRUE]) + iter[s \ {CHOOSE x \in s : TRUE}]]
<1>2. blobBytes(ix) = (CHOOSE iter : Iter(iter))[Keys]
  BY DEF blobBytes, MapThenSumSet, MapThenFoldSet
<1>3. \A g : Iter(g) <=> SumOver(Bytes(ix), g, SUBSET Keys)
  <2>1. \A s \in SUBSET Keys : s # {} => Bytes(ix)[OneOf(s)] = SizeOf(ix[CHOOSE x \in s : TRUE])
    BY DEF Bytes, OneOf
  <2>2. QED  BY <2>1 DEF SumOver, OneOf
<1>4. PICK g \in [SUBSET Keys -> Nat] : SumOver(Bytes(ix), g, SUBSET Keys)
  BY <1>1, SumExists
<1>5. Iter(CHOOSE iter : Iter(iter))
  <2> HIDE DEF Iter
  <2>1. Iter(g)
    BY <1>3, <1>4
  <2>2. QED  BY <2>1
<1> DEFINE c == CHOOSE iter : Iter(iter)
<1>6. SumOver(Bytes(ix), c, SUBSET Keys)
  BY <1>3, <1>5
<1>7. c \in [SUBSET Keys -> Nat]
  BY <1>1, <1>6, SumIsNumber
<1> HIDE DEF c
<1>8. QED  BY <1>1, <1>2, <1>6, <1>7 DEF c

(* Writing one row changes the bytes by what that row gains or loses. *)
LEMMA BytesAfterWrite ==
    ASSUME NEW ix \in [Keys -> Rows], NEW k \in Keys, NEW b \in Rows
    PROVE  /\ blobBytes(ix) \in Nat /\ blobBytes([ix EXCEPT ![k] = b]) \in Nat
           /\ SizeOf(ix[k]) \in Nat /\ SizeOf(b) \in Nat
           /\ blobBytes([ix EXCEPT ![k] = b]) = blobBytes(ix) - SizeOf(ix[k]) + SizeOf(b)
<1> DEFINE iy == [ix EXCEPT ![k] = b]
<1>1. iy \in [Keys -> Rows] /\ SizeOf(ix[k]) \in Nat /\ SizeOf(b) \in Nat
  BY SizeAssumption DEF SizeOf, Rows
<1>2. Bytes(iy) = [Bytes(ix) EXCEPT ![k] = SizeOf(b)] /\ Bytes(ix)[k] = SizeOf(ix[k])
  BY DEF Bytes
<1> HIDE DEF iy
<1>3. PICK g \in [SUBSET Keys -> Nat] : SumOver(Bytes(ix), g, SUBSET Keys) /\ blobBytes(ix) = g[Keys]
  BY BytesAreSum
<1>4. PICK h \in [SUBSET Keys -> Nat] : SumOver(Bytes(iy), h, SUBSET Keys) /\ blobBytes(iy) = h[Keys]
  BY <1>1, BytesAreSum
<1>5. Bytes(ix) \in [Keys -> Nat]
  BY BytesAreSum
<1>6. h[Keys] = g[Keys] - Bytes(ix)[k] + SizeOf(b)
  <2>1. PICK f \in [Keys -> Nat] : f = Bytes(ix)
    BY <1>5
  <2>2. PICK e \in [Keys -> Nat] : e = Bytes(iy)
    BY <1>1, BytesAreSum
  <2>3. PICK v \in Nat : v = SizeOf(b)
    BY <1>1
  <2>4. SumOver(f, g, SUBSET Keys) /\ SumOver(e, h, SUBSET Keys)
    BY <1>3, <1>4, <2>1, <2>2
  <2>5. \A j \in Keys : e[j] = IF j = k THEN v ELSE f[j]
    BY <1>2, <2>1, <2>2, <2>3
  <2>6. Moved(g, h, f, k, v)
    BY <2>4, <2>5, SumAfterChange
  <2>7. QED  BY <2>1, <2>3, <2>6 DEF Moved
<1>7. g[Keys] \in Nat /\ h[Keys] \in Nat
  OBVIOUS
<1>8. QED  BY <1>1, <1>2, <1>3, <1>4, <1>6, <1>7 DEF iy

(* No race of puts, overwrites and deletes makes a step that adds bytes exceed the byte quota in force. *)
THEOREM BytesQuota == Spec => BytesQuotaHolds
<1>1. TypeOK /\ [Next]_vars => [BytesQuotaStep]_vars
  <2> SUFFICES ASSUME TypeOK, Next PROVE BytesQuotaStep
    BY DEF BytesQuotaStep, vars
  <2> USE DEF TypeOK
  <2>1. quota.blobBytes \in Nat /\ index \in [Keys -> Rows]
    BY QuotasAssumption DEF Rows
  <2>2. ASSUME NEW r \in Requests, PutIndex(r) PROVE BytesQuotaStep
    <3> DEFINE k == req[r].key
               b == req[r].body
    <3>1. k \in Keys /\ b \in Rows
      BY DEF ReqStates, Rows
    <3>2. index' = [index EXCEPT ![k] = b]
      BY <2>2 DEF PutIndex
    <3>3. quota.blobBytes = 0 \/ blobBytes(index) - SizeOf(index[k]) + Size[b] <= quota.blobBytes
      BY <2>2 DEF PutIndex, assertBlobQuota
    <3>4. IF b = None THEN SizeOf(b) = 0 ELSE SizeOf(b) = Size[b]
      BY DEF SizeOf
    <3> HIDE DEF k, b
    <3>5. /\ blobBytes(index) \in Nat /\ blobBytes(index') \in Nat
          /\ SizeOf(index[k]) \in Nat /\ SizeOf(b) \in Nat
          /\ blobBytes(index') = blobBytes(index) - SizeOf(index[k]) + SizeOf(b)
      BY <2>1, <3>1, <3>2, BytesAfterWrite
    <3> QED
      BY <2>1, <3>3, <3>4, <3>5 DEF BytesQuotaStep
  <2>3. ASSUME NEW k \in Keys, index' = [index EXCEPT ![k] = None] PROVE BytesQuotaStep
    <3>1. None \in Rows /\ SizeOf(None) = 0
      BY DEF Rows, SizeOf
    <3>2. /\ blobBytes(index) \in Nat /\ blobBytes(index') \in Nat /\ SizeOf(index[k]) \in Nat
          /\ blobBytes(index') = blobBytes(index) - SizeOf(index[k]) + SizeOf(None)
      BY <2>1, <2>3, <3>1, BytesAfterWrite
    <3> QED
      BY <3>1, <3>2 DEF BytesQuotaStep
  <2>4. CASE UNCHANGED index
    <3>1. PICK k \in Keys : TRUE
      BY KeysAssumption
    <3>2. blobBytes(index) \in Nat /\ blobBytes(index') = blobBytes(index)
      BY <2>1, <2>4, <3>1, BytesAfterWrite DEF Rows
    <3> QED
      BY <3>2 DEF BytesQuotaStep
  <2>5. ASSUME NEW r \in Requests, Put(r) PROVE BytesQuotaStep
    BY <2>5, <2>2, <2>4 DEF Put, PutReserve, PutStore, PutStoreFails, PutIndexRejected, PutUndo
  <2>6. ASSUME NEW r \in Requests, Get(r) PROVE BytesQuotaStep
    <3>1. req[r].key \in Keys
      BY DEF ReqStates
    <3> QED
      BY <2>6, <3>1, <2>3, <2>4 DEF Get, GetIndex, GetFetch, GetDrop
  <2>7. ASSUME NEW r \in Requests, Delete(r) PROVE BytesQuotaStep
    BY <2>7, <2>3, <2>4 DEF Delete, DeleteIndex, DeleteObject, DeleteObjectFails
  <2> QED
    BY <2>4, <2>5, <2>6, <2>7 DEF Next, Crash, quotaSet, LoseObject
<1> QED
  BY <1>1, TypeCorrect, PTL DEF Spec, BytesQuotaHolds

----------------------------------------------------------------------------
(* Blobs: the agreement of index and bucket *)

(* On a key without overlapping requests and without faults, index and bucket agree. *)
THEOREM IsolatedAgreement == Spec => []IsolatedKeyAgrees
<1> USE DEF Working, Agree, Explained, At
<1>1. Init => IsolationInv
  BY DEF Init, IsolationInv, Idle
<1>2. TypeOK /\ TypeOK' /\ IsolationInv /\ [Next]_vars => IsolationInv'
  <2> SUFFICES ASSUME TypeOK, TypeOK', IsolationInv, [Next]_vars PROVE IsolationInv'
    OBVIOUS
  <2> USE DEF TypeOK, ReqStates, Rows, Steps
  <2>1. ASSUME NEW r \in Requests, Put(r) PROVE IsolationInv'
    <3>1. ASSUME NEW k \in Keys, NEW b \in Bodies, PutReserve(r, k, b) PROVE IsolationInv'
      BY <3>1, NoneAssumption DEF PutReserve, Enter, InFlight, IsolationInv
    <3>2. CASE PutStore(r)
      BY <3>2 DEF PutStore, Goto, IsolationInv
    <3>3. CASE PutStoreFails(r)
      BY <3>3 DEF PutStoreFails, Finish, Idle, Taint, IsolationInv
    <3>4. CASE PutIndex(r)
      BY <3>4 DEF PutIndex, Finish, Idle, IsolationInv
    <3>5. CASE PutIndexRejected(r)
      <4>1. CASE req[r].previous = None
        <5>1. /\ req[r].pc = "indexing" /\ req'[r].pc = "undoing" /\ req'[r].key = req[r].key /\ \A s \in Requests \ {r} : req'[s] = req[s]
              /\ UNCHANGED <<index, bucket, tainted>>
          BY <3>5, <4>1 DEF PutIndexRejected, Goto
        <5>2. req[r].key \in Keys \ tainted => index[req[r].key] = None
          BY <4>1, <5>1 DEF IsolationInv
        <5>3. \A s \in Requests, k \in Keys : (req'[s].pc # "idle" /\ req'[s].key = k) <=> (req[s].pc # "idle" /\ req[s].key = k)
          BY <5>1
        <5>4. QED  BY <5>1, <5>2, <5>3 DEF IsolationInv
      <4>2. CASE req[r].previous # None
        BY <3>5, <4>2, SMTT(30) DEF PutIndexRejected, Finish, Idle, IsolationInv
      <4>3. QED  BY <4>1, <4>2
    <3>6. CASE PutUndo(r)
      BY <3>6 DEF PutUndo, Finish, Idle, IsolationInv
    <3> QED
      BY <2>1, <3>1, <3>2, <3>3, <3>4, <3>5, <3>6 DEF Put
  <2>2. ASSUME NEW r \in Requests, Get(r) PROVE IsolationInv'
    <3>1. ASSUME NEW k \in Keys, GetIndex(r, k) PROVE IsolationInv'
      BY <3>1 DEF GetIndex, Enter, InFlight, Idle, IsolationInv
    <3>2. CASE GetFetch(r)
      BY <3>2 DEF GetFetch, Goto, Finish, Idle, IsolationInv
    <3>3. CASE GetDrop(r)
      BY <3>3 DEF GetDrop, Finish, Idle, IsolationInv
    <3> QED
      BY <2>2, <3>1, <3>2, <3>3 DEF Get
  <2>3. ASSUME NEW r \in Requests, Delete(r) PROVE IsolationInv'
    <3>1. ASSUME NEW k \in Keys, DeleteIndex(r, k) PROVE IsolationInv'
      BY <3>1 DEF DeleteIndex, Enter, InFlight, Idle, IsolationInv
    <3>2. CASE DeleteObject(r)
      BY <3>2 DEF DeleteObject, Finish, Idle, IsolationInv
    <3>3. CASE DeleteObjectFails(r)
      BY <3>3 DEF DeleteObjectFails, Finish, Idle, Taint, IsolationInv
    <3> QED
      BY <2>3, <3>1, <3>2, <3>3 DEF Delete
  <2>4. ASSUME NEW r \in Requests, Crash(r) PROVE IsolationInv'
    BY <2>4 DEF Crash, Finish, Idle, Taint, IsolationInv
  <2>5. ASSUME NEW q \in Quotas, quotaSet(q) PROVE IsolationInv'
    BY <2>5 DEF quotaSet, IsolationInv
  <2>6. ASSUME NEW k \in Keys, LoseObject(k) PROVE IsolationInv'
    BY <2>6 DEF LoseObject, Taint, IsolationInv
  <2>7. CASE UNCHANGED vars
    BY <2>7 DEF vars, IsolationInv
  <2> QED
    BY <2>1, <2>2, <2>3, <2>4, <2>5, <2>6, <2>7 DEF Next
<1>3. IsolationInv => IsolatedKeyAgrees
  BY DEF IsolationInv, IsolatedKeyAgrees, InFlight
<1> QED
  BY <1>1, <1>2, <1>3, TypeCorrect, PTL DEF Spec

----------------------------------------------------------------------------
(* Secrets: what is stored, what the provider cache holds, what a call knows at its stage *)

SecretRows == [value : Nat, key : {"old", "new"}]
BindingRows == [pkg : Providers \cup {None}, locked : BOOLEAN]
CacheRows == [item : S!Items \cup {None}, pkg : Providers \cup {None}, late : BOOLEAN]
Named == {<<"user">>, <<"package">>, <<"user", "package">>}
CallRows == [pc : {"idle", "sealing", "rekeying", "resolving", "forward", "authorize", "run", "put", "recheck", "inject"},
             scope : S!Scopes \cup {None}, held : [S!Scopes -> Nat], pkg : BOOLEAN, approved : BOOLEAN,
             refs : Named \cup {<<>>}, got : Nat, ref : S!Refs \cup {None}, by : Providers \cup {None},
             provisional : BOOLEAN, item : S!Items \cup {None}, allowed : SUBSET S!Items]

SecretTypes ==
    /\ secrets \in [S!Scopes -> SecretRows] /\ lastSave \in Nat
    /\ latest \in [S!Scopes -> Nat] /\ overlap \subseteq S!Scopes
    /\ keys \in {"old", "both", "new"} /\ reported \in BOOLEAN
    /\ approved \in BOOLEAN /\ declares \subseteq Providers /\ binding \in BindingRows /\ grants \subseteq S!Items
    /\ cache \in [S!Refs -> CacheRows]
    /\ calls \in [Calls -> CallRows]

\* Every value opens with the new key; a value nobody overlapped is the one last saved.
AllNew == \A s \in S!Scopes : secrets[s].value # 0 => secrets[s].key = "new"
StoredFits ==
    /\ keys = "old" => ~reported
    /\ keys = "both" /\ reported => AllNew
    /\ keys = "new" => AllNew
    /\ \A s \in S!Scopes \ overlap : secrets[s].value = latest[s]

CacheFits(r) == cache[r] = S!NotCached \/ (cache[r].item \in S!Items /\ (cache[r].late \/ cache[r].pkg = binding.pkg))

\* What a call knows at its stage: a rekey, a request for a secret, a request for an item.
Gateway == {"authorize", "run", "put", "recheck", "inject"}
CallFits(c) ==
    LET q == calls[c]
    IN  /\ q.pc = "rekeying" => \A s \in S!Scopes \ overlap : q.held[s] # 0 => secrets[s].value = q.held[s]
        /\ q.pc = "sealing" => q.scope \in S!Scopes
        /\ q.pc = "resolving" => q.refs \in Named
        /\ q.pc \in Gateway => q.ref \in S!Refs /\ S!Permitted(binding, grants, q.pkg) \subseteq q.allowed
        /\ q.pc \in {"run", "put"} /\ ~q.provisional /\ q.ref \in S!Items => q.ref \in q.allowed
        /\ q.pc \in {"put", "recheck", "inject"} => q.item \in S!Items
        /\ q.pc = "inject" => q.item \in q.allowed

SecretInv ==
    /\ SecretTypes /\ StoredFits
    /\ \A r \in S!Refs : CacheFits(r)
    /\ \A c \in Calls : CallFits(c)

(* A binding permits items only, and no more when it permits fewer. *)
LEMMA PermittedItems ==
    ASSUME NEW b \in BindingRows, NEW gs \in SUBSET S!Items, NEW pkg \in BOOLEAN
    PROVE  /\ S!Permitted(b, gs, pkg) \subseteq S!Items
           /\ b.pkg = None => S!Permitted(b, gs, pkg) = {}
           /\ b.pkg # None /\ ~b.locked => S!Permitted(b, gs, pkg) = S!Items
           /\ \A hs \in SUBSET gs : S!Permitted(b, hs, pkg) \subseteq S!Permitted(b, gs, pkg)
  BY DEF S!Permitted

(* Idle calls know nothing. *)
LEMMA IdleCall == S!NoCall \in CallRows /\ S!NoCall.pc = "idle"
  BY DEF S!NoCall, CallRows

(* No secret, no binding, nothing cached, no call. *)
LEMMA SecretInit == ASSUME S!Init PROVE SecretInv
<1>1. SecretTypes
  BY IdleCall DEF S!Init, SecretTypes, SecretRows, BindingRows, CacheRows, S!NoSecret, S!Unbound, S!NotCached
<1>2. StoredFits
  BY DEF S!Init, StoredFits, AllNew, S!NoSecret
<1>3. \A c \in Calls : CallFits(c)
  BY IdleCall DEF S!Init, CallFits, Gateway
<1>4. QED  BY <1>1, <1>2, <1>3 DEF SecretInv, CacheFits, S!Init

(* A step of one call leaves the others as they are. *)
LEMMA OneCall ==
    ASSUME calls \in [Calls -> CallRows], NEW c \in Calls, NEW q \in CallRows, calls' = [calls EXCEPT ![c] = q]
    PROVE  calls' \in [Calls -> CallRows] /\ calls'[c] = q /\ \A d \in Calls \ {c} : calls'[d] = calls[d]
  OBVIOUS

(* A step of one call that writes no value, binding or grant. *)
LEMMA CallMoves ==
    ASSUME SecretInv, NEW c \in Calls, NEW q \in CallRows, calls' = [calls EXCEPT ![c] = q], CallFits(c)',
           UNCHANGED <<S!stored, approved, declares, binding, grants>>,
           cache' \in [S!Refs -> CacheRows], \A r \in S!Refs : CacheFits(r)'
    PROVE  SecretInv'
<1>1. calls' \in [Calls -> CallRows] /\ calls'[c] = q /\ \A d \in Calls \ {c} : calls'[d] = calls[d]
  BY OneCall DEF SecretInv, SecretTypes
<1>2. SecretTypes' /\ StoredFits'
  BY <1>1 DEF SecretInv, SecretTypes, StoredFits, AllNew, S!stored
<1>3. ASSUME NEW d \in Calls PROVE CallFits(d)'
  <2>1. CASE d = c
    BY <2>1
  <2>2. CASE d # c
    BY <1>1, <2>2 DEF SecretInv, CallFits, S!stored
  <2>3. QED  BY <2>1, <2>2
<1>4. QED  BY <1>2, <1>3 DEF SecretInv

(* The same of a step that leaves the cache alone. *)
LEMMA CallGoes ==
    ASSUME SecretInv, NEW c \in Calls, NEW q \in CallRows, calls' = [calls EXCEPT ![c] = q], CallFits(c)',
           UNCHANGED <<S!stored, S!provider>>
    PROVE  SecretInv'
<1>1. UNCHANGED <<approved, declares, binding, grants, cache>>
  BY DEF S!provider
<1>2. cache' \in [S!Refs -> CacheRows] /\ \A r \in S!Refs : CacheFits(r)'
  BY <1>1 DEF SecretInv, SecretTypes, CacheFits
<1>3. QED  BY <1>1, <1>2, CallMoves

(* A call that ends. *)
LEMMA CallEnds ==
    ASSUME SecretInv, NEW c \in Calls, S!Ends(c), UNCHANGED <<S!stored, S!provider>>
    PROVE  SecretInv'
<1>1. calls' = [calls EXCEPT ![c] = S!NoCall] /\ S!NoCall \in CallRows
  BY IdleCall DEF S!Ends
<1>2. calls'[c] = S!NoCall
  BY <1>1, OneCall DEF SecretInv, SecretTypes
<1>3. CallFits(c)'
  BY <1>2, IdleCall DEF CallFits, Gateway
<1>4. QED  BY <1>1, <1>3, CallGoes

(* Nothing happens. *)
LEMMA SecretStay == ASSUME SecretInv, UNCHANGED S!vars PROVE SecretInv'
  BY DEF SecretInv, SecretTypes, StoredFits, AllNew, CacheFits, CallFits, S!vars

(* A call begins: a save, a rekey, a request that names a secret or an item (secrets/fetch-gateway.ts). *)
LEMMA BeginStep ==
    ASSUME SecretInv, NEW c \in Calls,
           \/ \E s \in S!Scopes : S!secretSave(c, s)
           \/ S!secretRekey(c)
           \/ \E pkg \in BOOLEAN, refs \in Named : S!RequestSecret(c, pkg, refs)
           \/ \E pkg \in BOOLEAN, ref \in S!Refs : S!RequestItem(c, pkg, ref)
    PROVE  SecretInv'
<1>1. SecretTypes /\ UNCHANGED <<S!stored, S!provider>>
  BY DEF SecretInv, S!secretSave, S!secretRekey, S!RequestSecret, S!RequestItem
<1>2. ASSUME NEW s \in S!Scopes, S!secretSave(c, s) PROVE SecretInv'
  <2> DEFINE q == [S!NoCall EXCEPT !.pc = "sealing", !.scope = s]
  <2>1. calls' = [calls EXCEPT ![c] = q]
    BY <1>2 DEF S!secretSave
  <2>2. q \in CallRows /\ q.pc = "sealing" /\ q.scope = s
    BY DEF S!NoCall, CallRows
  <2> HIDE DEF q
  <2>3. calls'[c] = q
    BY <1>1, <2>1, <2>2, OneCall DEF SecretTypes
  <2>4. CallFits(c)'
    BY <2>2, <2>3 DEF CallFits, Gateway
  <2>5. QED  BY <1>1, <2>1, <2>2, <2>4, CallGoes
<1>3. CASE S!secretRekey(c)
  <2> DEFINE h == [s \in S!Scopes |-> IF secrets[s].key # S!currentKey THEN secrets[s].value ELSE 0]
             q == [S!NoCall EXCEPT !.pc = "rekeying", !.held = h]
  <2>1. calls' = [calls EXCEPT ![c] = q]
    BY <1>3 DEF S!secretRekey
  <2>2. h \in [S!Scopes -> Nat] /\ \A s \in S!Scopes : h[s] # 0 => h[s] = secrets[s].value
    BY <1>1 DEF SecretTypes, SecretRows
  <2> HIDE DEF h
  <2>3. q \in CallRows /\ q.pc = "rekeying" /\ q.held = h
    BY <2>2 DEF S!NoCall, CallRows
  <2> HIDE DEF q
  <2>4. calls'[c] = q
    BY <1>1, <2>1, <2>3, OneCall DEF SecretTypes
  <2>5. CallFits(c)'
    BY <1>1, <2>2, <2>3, <2>4 DEF CallFits, Gateway, S!stored
  <2>6. QED  BY <1>1, <2>1, <2>3, <2>5, CallGoes
<1>4. ASSUME NEW pkg \in BOOLEAN, NEW refs \in Named, S!RequestSecret(c, pkg, refs) PROVE SecretInv'
  <2> DEFINE q == [S!NoCall EXCEPT !.pc = "resolving", !.pkg = pkg, !.refs = refs]
  <2>1. calls' = [calls EXCEPT ![c] = q] \/ UNCHANGED calls
    BY <1>4 DEF S!RequestSecret
  <2>2. q \in CallRows /\ q.pc = "resolving" /\ q.refs = refs
    BY DEF S!NoCall, CallRows
  <2> HIDE DEF q
  <2>3. CASE UNCHANGED calls
    BY <1>1, <2>3, SecretStay DEF S!vars, S!stored, S!provider
  <2>4. CASE calls' = [calls EXCEPT ![c] = q]
    <3>1. calls'[c] = q
      BY <1>1, <2>2, <2>4, OneCall DEF SecretTypes
    <3>2. CallFits(c)'
      BY <2>2, <3>1 DEF CallFits, Gateway
    <3>3. QED  BY <1>1, <2>2, <2>4, <3>2, CallGoes
  <2>5. QED  BY <2>1, <2>3, <2>4
<1>5. ASSUME NEW pkg \in BOOLEAN, NEW ref \in S!Refs, S!RequestItem(c, pkg, ref) PROVE SecretInv'
  <2> DEFINE P == S!Permitted(binding, grants, pkg)
             q == [S!NoCall EXCEPT !.pc = "authorize", !.pkg = pkg, !.ref = ref, !.approved = approved, !.allowed = P]
  <2>1. calls' = [calls EXCEPT ![c] = q]
    BY <1>5 DEF S!RequestItem
  <2>2. P \subseteq S!Items
    BY <1>1, PermittedItems DEF SecretTypes
  <2>3. UNCHANGED <<binding, grants>>
    BY <1>1 DEF S!provider
  <2> HIDE DEF P
  <2>4. q \in CallRows /\ q.pc = "authorize" /\ q.pkg = pkg /\ q.ref = ref /\ q.allowed = P
    BY <1>1, <2>2 DEF S!NoCall, CallRows, SecretTypes
  <2> HIDE DEF q
  <2>5. calls'[c] = q
    BY <1>1, <2>1, <2>4, OneCall DEF SecretTypes
  <2>6. CallFits(c)'
    BY <2>3, <2>4, <2>5 DEF CallFits, Gateway, P
  <2>7. QED  BY <1>1, <2>1, <2>4, <2>6, CallGoes
<1>6. QED  BY <1>2, <1>3, <1>4, <1>5

----------------------------------------------------------------------------
(* Secrets: the steps *)

(* The secrets a request names are resolved, the last scope named wins. *)
LEMMA ResolveStep == ASSUME SecretInv, NEW c \in Calls, S!secretResolveValues(c) PROVE SecretInv'
<1>1. SecretTypes /\ calls[c] \in CallRows /\ CallFits(c) /\ UNCHANGED <<S!stored, S!provider>> /\ calls[c].pc = "resolving"
  BY DEF SecretInv, SecretTypes, S!secretResolveValues, S!At
<1>2. CASE S!Ends(c)
  BY <1>1, <1>2, CallEnds
<1>3. CASE ~S!Ends(c)
  <2> DEFINE v == secrets[calls[c].refs[Len(calls[c].refs)]].value
             q == [calls[c] EXCEPT !.pc = "forward", !.got = v]
  <2>1. calls' = [calls EXCEPT ![c] = q]
    BY <1>3 DEF S!secretResolveValues
  <2>2. calls[c].refs[Len(calls[c].refs)] \in S!Scopes
    <3>1. calls[c].refs \in Named
      BY <1>1 DEF CallFits
    <3>2. CASE calls[c].refs = <<"user">>
      BY <3>2 DEF S!Scopes
    <3>3. CASE calls[c].refs = <<"package">>
      BY <3>3 DEF S!Scopes
    <3>4. CASE calls[c].refs = <<"user", "package">>
      BY <3>4 DEF S!Scopes
    <3>5. QED  BY <3>1, <3>2, <3>3, <3>4 DEF Named
  <2>3. v \in Nat
    BY <1>1, <2>2 DEF SecretTypes, SecretRows
  <2> HIDE DEF v
  <2>4. q \in CallRows /\ q.pc = "forward"
    BY <1>1, <2>3 DEF CallRows
  <2> HIDE DEF q
  <2>5. calls'[c] = q
    BY <1>1, <2>1, <2>4, OneCall DEF SecretTypes
  <2>6. CallFits(c)'
    BY <2>4, <2>5 DEF CallFits, Gateway
  <2>7. QED  BY <1>1, <2>1, <2>4, <2>6, CallGoes
<1>4. QED  BY <1>2, <1>3

(* The cell authorizes an item: a value of the cache goes on, otherwise the provider runs. *)
LEMMA AuthorizeStep == ASSUME SecretInv, NEW c \in Calls, S!secretProviderAuthorize(c) PROVE SecretInv'
<1> DEFINE p == calls[c]
           hit == cache[p.ref]
           item == IF hit = S!NotCached THEN p.ref ELSE hit.item
           P == S!Permitted(binding, grants, p.pkg)
           permits == item \in P \/ (binding.pkg # None /\ ~binding.locked)
<1>1. SecretTypes /\ p \in CallRows /\ CallFits(c) /\ UNCHANGED <<S!stored, S!provider>> /\ p.pc = "authorize"
  BY DEF SecretInv, SecretTypes, S!secretProviderAuthorize, S!At
<1>2. p.ref \in S!Refs /\ P \subseteq p.allowed /\ UNCHANGED <<binding, grants>>
  BY <1>1 DEF CallFits, Gateway, S!provider
<1>3. permits /\ item \in S!Items => item \in p.allowed
  <2>1. binding.pkg # None /\ ~binding.locked => P = S!Items
    BY DEF S!Permitted
  <2>2. QED  BY <1>2, <2>1
<1>4. CASE S!Ends(c)
  BY <1>1, <1>4, CallEnds
<1>5. CASE permits /\ hit # S!NotCached /\ calls' = [calls EXCEPT ![c].pc = "inject", ![c].item = hit.item]
  <2> DEFINE q == [p EXCEPT !.pc = "inject", !.item = hit.item]
  <2>1. hit.item \in S!Items
    BY <1>2, <1>5 DEF SecretInv, CacheFits
  <2>2. hit.item \in p.allowed
    BY <1>3, <1>5, <2>1
  <2>3. calls' = [calls EXCEPT ![c] = q]
    BY <1>5
  <2>4. q \in CallRows /\ q.pc = "inject" /\ q.item = hit.item /\ q.allowed = p.allowed /\ q.pkg = p.pkg /\ q.ref = p.ref
    BY <1>1, <2>1 DEF CallRows
  <2> HIDE DEF q
  <2>5. calls'[c] = q
    BY <1>1, <2>3, <2>4, OneCall DEF SecretTypes
  <2>6. CallFits(c)'
    BY <1>2, <2>1, <2>2, <2>4, <2>5 DEF CallFits, Gateway
  <2>7. QED  BY <1>1, <2>3, <2>4, <2>6, CallGoes
<1>6. CASE ~(permits /\ hit # S!NotCached) /\ calls' = [calls EXCEPT ![c].pc = "run", ![c].by = binding.pkg, ![c].provisional = ~permits]
  <2> DEFINE b == ~permits
             q == [p EXCEPT !.pc = "run", !.by = binding.pkg, !.provisional = b]
  <2>1. b \in BOOLEAN /\ (~b => permits /\ hit = S!NotCached)
    BY <1>6
  <2>2. calls' = [calls EXCEPT ![c] = q]
    BY <1>6
  <2>3. ~b /\ p.ref \in S!Items => p.ref \in p.allowed
    BY <1>3, <2>1
  <2> HIDE DEF b
  <2>4. q \in CallRows /\ q.pc = "run" /\ q.provisional = b /\ q.allowed = p.allowed /\ q.pkg = p.pkg /\ q.ref = p.ref
    BY <1>1, <2>1 DEF CallRows, SecretTypes, BindingRows
  <2> HIDE DEF q
  <2>5. calls'[c] = q
    BY <1>1, <2>2, <2>4, OneCall DEF SecretTypes
  <2>6. CallFits(c)'
    BY <1>2, <2>3, <2>4, <2>5 DEF CallFits, Gateway
  <2>7. QED  BY <1>1, <2>2, <2>4, <2>6, CallGoes
<1>7. QED  BY <1>4, <1>5, <1>6 DEF S!secretProviderAuthorize

(* The provider answers for the item its reference canonically names. *)
LEMMA RunStep == ASSUME SecretInv, NEW c \in Calls, S!ProviderRun(c) PROVE SecretInv'
<1> DEFINE p == calls[c]
<1>1. SecretTypes /\ p \in CallRows /\ CallFits(c) /\ UNCHANGED <<S!stored, S!provider>> /\ p.pc = "run"
  BY DEF SecretInv, SecretTypes, S!ProviderRun, S!At
<1>2. CASE S!Ends(c)
  BY <1>1, <1>2, CallEnds
<1>3. CASE calls' = [calls EXCEPT ![c].pc = "put", ![c].item = S!canonicalRef(p.ref)]
  <2> DEFINE i == S!canonicalRef(p.ref)
             q == [p EXCEPT !.pc = "put", !.item = i]
  <2>1. i \in S!Items /\ UNCHANGED <<binding, grants>>
    BY <1>1 DEF CallFits, Gateway, S!canonicalRef, S!Refs, S!Items, S!provider
  <2>2. calls' = [calls EXCEPT ![c] = q]
    BY <1>3
  <2> HIDE DEF i
  <2>3. q \in CallRows /\ q.pc = "put" /\ q.item = i /\ q.allowed = p.allowed /\ q.pkg = p.pkg /\ q.ref = p.ref /\ q.provisional = p.provisional
    BY <1>1, <2>1 DEF CallRows
  <2> HIDE DEF q
  <2>4. calls'[c] = q
    BY <1>1, <2>2, <2>3, OneCall DEF SecretTypes
  <2>5. CallFits(c)'
    BY <1>1, <2>1, <2>3, <2>4 DEF CallFits, Gateway
  <2>6. QED  BY <1>1, <2>2, <2>3, <2>5, CallGoes
<1>4. QED  BY <1>2, <1>3 DEF S!ProviderRun

(* The value goes to the cache, late when the binding has changed meanwhile. *)
LEMMA PutStep == ASSUME SecretInv, NEW c \in Calls, S!cachePut(c) PROVE SecretInv'
<1> DEFINE p == calls[c]
           pc == IF S!NeedsRecheck(p) THEN "recheck" ELSE "inject"
           q == [p EXCEPT !.pc = pc]
<1>1. /\ SecretTypes /\ p \in CallRows /\ CallFits(c) /\ p.pc = "put"
      /\ UNCHANGED <<S!stored, approved, declares, binding, grants>>
  BY DEF SecretInv, SecretTypes, S!cachePut, S!At
<1>2. pc = "inject" => ~p.provisional /\ p.item = p.ref
  BY DEF S!NeedsRecheck
<1>3. calls' = [calls EXCEPT ![c] = q] /\ pc \in {"recheck", "inject"}
  BY DEF S!cachePut, S!Goes
<1> HIDE DEF pc
<1>4. q \in CallRows /\ q.pc = pc /\ q.item = p.item /\ q.allowed = p.allowed /\ q.pkg = p.pkg /\ q.ref = p.ref
  BY <1>1, <1>3 DEF CallRows
<1> HIDE DEF q
<1>5. calls'[c] = q
  BY <1>1, <1>3, <1>4, OneCall DEF SecretTypes
<1>6. CallFits(c)'
  BY <1>1, <1>2, <1>3, <1>4, <1>5 DEF CallFits, Gateway
<1>7. cache' \in [S!Refs -> CacheRows] /\ \A r \in S!Refs : CacheFits(r)'
  <2> DEFINE late == p.by # binding.pkg
             kept == [item |-> p.item, pkg |-> p.by, late |-> late]
  <2>1. late \in BOOLEAN /\ (~late => p.by = binding.pkg) /\ p.item \in S!Items
    BY <1>1 DEF CallFits
  <2>2. cache' = [r \in S!Refs |-> IF r \in {p.ref, p.item} THEN kept ELSE cache[r]] \/ UNCHANGED cache
    BY DEF S!cachePut
  <2> HIDE DEF late
  <2>3. kept \in CacheRows /\ kept.item = p.item /\ kept.pkg = p.by /\ kept.late = late
    BY <1>1, <2>1 DEF CacheRows, CallRows
  <2> HIDE DEF kept
  <2>4. \A r \in S!Refs : cache'[r] = kept \/ cache'[r] = cache[r]
    BY <2>2
  <2>5. cache' \in [S!Refs -> CacheRows]
    BY <1>1, <2>2, <2>3 DEF SecretTypes
  <2>6. ASSUME NEW r \in S!Refs PROVE CacheFits(r)'
    BY <1>1, <2>1, <2>3, <2>4 DEF CacheFits, SecretInv
  <2>7. QED  BY <2>5, <2>6
<1>8. QED  BY <1>1, <1>3, <1>4, <1>6, <1>7, CallMoves

(* What was provisional, or went by an alias, is asked for again. *)
LEMMA RecheckStep == ASSUME SecretInv, NEW c \in Calls, S!Recheck(c) PROVE SecretInv'
<1> DEFINE p == calls[c]
           q == [p EXCEPT !.pc = "inject"]
<1>1. SecretTypes /\ p \in CallRows /\ CallFits(c) /\ UNCHANGED <<S!stored, S!provider>> /\ p.pc = "recheck"
  BY DEF SecretInv, SecretTypes, S!Recheck, S!At
<1>2. CASE S!Ends(c)
  BY <1>1, <1>2, CallEnds
<1>3. CASE ~S!Ends(c)
  <2>1. p.item \in S!Permitted(binding, grants, p.pkg) /\ calls' = [calls EXCEPT ![c] = q] /\ UNCHANGED <<binding, grants>>
    BY <1>1, <1>3 DEF S!Recheck, S!Goes, S!provider
  <2>2. q \in CallRows /\ q.pc = "inject" /\ q.item = p.item /\ q.allowed = p.allowed /\ q.pkg = p.pkg /\ q.ref = p.ref
    BY <1>1 DEF CallRows
  <2> HIDE DEF q
  <2>3. calls'[c] = q
    BY <1>1, <2>1, <2>2, OneCall DEF SecretTypes
  <2>4. CallFits(c)'
    BY <1>1, <2>1, <2>2, <2>3 DEF CallFits, Gateway
  <2>5. QED  BY <1>1, <2>1, <2>2, <2>4, CallGoes
<1>4. QED  BY <1>2, <1>3

(* A value is written or deleted, under the key of the day, and on record where a rekey holds an older one. *)
LEMMA ValueWritten ==
    ASSUME SecretInv, NEW s \in S!Scopes, NEW v \in Nat, NEW k \in {"old", "new"}, v # 0 => k = S!currentKey,
           secrets' = [secrets EXCEPT ![s] = [value |-> v, key |-> k]], latest' = [latest EXCEPT ![s] = v],
           overlap' = S!Overlaps({s}), lastSave' \in Nat, UNCHANGED <<keys, reported, S!provider>>,
           calls' \in [Calls -> CallRows], \A d \in Calls : calls'[d] = calls[d] \/ calls'[d] = S!NoCall
    PROVE  SecretInv'
<1>1. SecretTypes /\ StoredFits
  BY DEF SecretInv
<1>2. [value |-> v, key |-> k] \in SecretRows
  BY DEF SecretRows
<1>3. /\ secrets' \in [S!Scopes -> SecretRows] /\ secrets'[s].value = v /\ secrets'[s].key = k
      /\ latest' \in [S!Scopes -> Nat] /\ latest'[s] = v
      /\ \A t \in S!Scopes \ {s} : secrets'[t] = secrets[t] /\ latest'[t] = latest[t]
  BY <1>1, <1>2 DEF SecretTypes
<1>4. /\ overlap \subseteq overlap' /\ overlap' \subseteq S!Scopes
      /\ \A d \in Calls : calls[d].pc = "rekeying" /\ calls[d].held[s] # 0 => s \in overlap'
  BY <1>1 DEF S!Overlaps, S!At, SecretTypes
<1>5. UNCHANGED <<approved, declares, binding, grants, cache>>
  BY DEF S!provider
<1>6. SecretTypes'
  BY <1>1, <1>3, <1>4, <1>5 DEF SecretTypes
<1>7. StoredFits'
  BY <1>1, <1>3, <1>4 DEF StoredFits, AllNew, S!currentKey, SecretTypes
<1>8. \A r \in S!Refs : CacheFits(r)'
  BY <1>5 DEF SecretInv, CacheFits
<1>9. ASSUME NEW d \in Calls PROVE CallFits(d)'
  <2>1. CASE calls'[d] = S!NoCall
    BY <2>1, IdleCall DEF CallFits, Gateway
  <2>2. CASE calls'[d] = calls[d]
    <3> DEFINE p == calls[d]
    <3>1. CallFits(d) /\ p \in CallRows
      BY <1>1 DEF SecretInv, SecretTypes
    <3>2. p.pc = "rekeying" => \A t \in S!Scopes \ overlap' : p.held[t] # 0 => secrets'[t].value = p.held[t]
      <4>1. ASSUME p.pc = "rekeying", NEW t \in S!Scopes \ overlap', p.held[t] # 0 PROVE secrets'[t].value = p.held[t]
        <5>1. t \notin overlap /\ t # s /\ secrets'[t] = secrets[t]
          BY <1>3, <1>4, <4>1
        <5>2. QED  BY <3>1, <4>1, <5>1 DEF CallFits
      <4>2. QED  BY <4>1
    <3>3. QED  BY <1>5, <2>2, <3>1, <3>2 DEF CallFits
  <2>3. QED  BY <2>1, <2>2
<1>10. QED  BY <1>6, <1>7, <1>8, <1>9 DEF SecretInv

(* The sealed value is written. *)
LEMMA SaveStep == ASSUME SecretInv, NEW c \in Calls, S!SaveWrite(c) PROVE SecretInv'
<1>1. SecretTypes /\ calls[c].scope \in S!Scopes /\ lastSave + 1 \in Nat \ {0}
  BY DEF SecretInv, SecretTypes, S!SaveWrite, S!At, CallFits
<1>2. calls' \in [Calls -> CallRows] /\ \A d \in Calls : calls'[d] = calls[d] \/ calls'[d] = S!NoCall
  BY <1>1, OneCall, IdleCall DEF S!SaveWrite, S!Ends, SecretTypes
<1>3. S!currentKey \in {"old", "new"}
  BY DEF S!currentKey
<1>4. QED  BY <1>1, <1>2, <1>3, ValueWritten DEF S!SaveWrite

(* A secret is deleted. *)
LEMMA DeleteStep == ASSUME SecretInv, NEW s \in S!Scopes, S!secretDelete(s) PROVE SecretInv'
<1>1. secrets' = [secrets EXCEPT ![s] = [value |-> 0, key |-> "old"]] /\ latest' = [latest EXCEPT ![s] = 0]
  BY DEF S!secretDelete, S!NoSecret
<1>2. lastSave' \in Nat /\ calls' \in [Calls -> CallRows] /\ \A d \in Calls : calls'[d] = calls[d]
  BY DEF S!secretDelete, SecretInv, SecretTypes
<1>3. QED  BY <1>1, <1>2, ValueWritten DEF S!secretDelete

(* A rekey writes back the value it held under the current key, whatever was saved meanwhile (secretRekey). *)
LEMMA RekeyWriteStep == ASSUME SecretInv, NEW c \in Calls, NEW s \in S!Scopes, S!RekeyWrite(c, s) PROVE SecretInv'
<1> DEFINE p == calls[c]
           q == [p EXCEPT !.held = [p.held EXCEPT ![s] = 0]]
           k == S!currentKey
<1>1. /\ SecretTypes /\ StoredFits /\ p \in CallRows /\ CallFits(c) /\ p.pc = "rekeying" /\ p.held[s] # 0
      /\ UNCHANGED <<lastSave, latest, overlap, keys, reported, S!provider>>
  BY DEF SecretInv, SecretTypes, S!RekeyWrite, S!At
<1>2. UNCHANGED <<approved, declares, binding, grants, cache>>
  BY <1>1 DEF S!provider
<1>3. calls' = [calls EXCEPT ![c] = q]
  BY DEF S!RekeyWrite
<1>4. q \in CallRows /\ q.pc = "rekeying" /\ q.held[s] = 0 /\ \A t \in S!Scopes \ {s} : q.held[t] = p.held[t]
  BY <1>1 DEF CallRows
<1> HIDE DEF q
<1>5. calls' \in [Calls -> CallRows] /\ calls'[c] = q /\ \A d \in Calls \ {c} : calls'[d] = calls[d]
  BY <1>1, <1>3, <1>4, OneCall DEF SecretTypes
<1>6. p.held[s] \in Nat /\ k \in {"old", "new"} /\ (keys # "old" => k = "new")
  BY <1>1 DEF CallRows, S!currentKey
<1>7. /\ secrets' \in [S!Scopes -> SecretRows]
      /\ \A t \in S!Scopes \ {s} : secrets'[t] = secrets[t]
      /\ \/ secrets[s].value = 0 /\ secrets'[s] = secrets[s]
         \/ secrets[s].value # 0 /\ secrets'[s].value = p.held[s] /\ secrets'[s].key = k
  <2> DEFINE w == [value |-> p.held[s], key |-> k]
             r == IF secrets[s].value = 0 THEN secrets[s] ELSE w
  <2>1. secrets' = [secrets EXCEPT ![s] = r]
    BY DEF S!RekeyWrite, S!Resealed
  <2> HIDE DEF k
  <2>2. w \in SecretRows /\ w.value = p.held[s] /\ w.key = k
    BY <1>6 DEF SecretRows
  <2> HIDE DEF w
  <2>3. r \in SecretRows
    BY <1>1, <2>2 DEF SecretTypes
  <2>4. QED  BY <1>1, <2>1, <2>2, <2>3 DEF SecretTypes
<1> HIDE DEF k
<1>8. SecretTypes'
  BY <1>1, <1>2, <1>5, <1>7 DEF SecretTypes
<1>9. s \notin overlap => secrets[s].value = p.held[s]
  BY <1>1 DEF CallFits
<1>10. \A t \in S!Scopes \ overlap : secrets'[t].value = secrets[t].value
  BY <1>1, <1>7, <1>9
<1>11. StoredFits'
  <2>1. AllNew /\ keys # "old" => AllNew'
    BY <1>6, <1>7 DEF AllNew
  <2>2. QED  BY <1>1, <1>10, <2>1 DEF StoredFits
<1>12. \A r \in S!Refs : CacheFits(r)'
  BY <1>2 DEF SecretInv, CacheFits
<1>13. ASSUME NEW d \in Calls PROVE CallFits(d)'
  <2>1. CASE d = c
    BY <1>1, <1>4, <1>5, <1>10, <2>1 DEF CallFits, Gateway
  <2>2. CASE d # c
    BY <1>1, <1>2, <1>5, <1>10, <2>2 DEF SecretInv, CallFits
  <2>3. QED  BY <2>1, <2>2
<1>14. QED  BY <1>8, <1>11, <1>12, <1>13 DEF SecretInv

(* A rekey reports what is left under the old key. *)
LEMMA ReportStep == ASSUME SecretInv, NEW c \in Calls, S!RekeyReport(c) PROVE SecretInv'
<1>1. /\ SecretTypes /\ StoredFits /\ calls' = [calls EXCEPT ![c] = S!NoCall]
      /\ UNCHANGED <<secrets, lastSave, latest, overlap, keys, S!provider>>
  BY DEF SecretInv, S!RekeyReport, S!Ends
<1>2. UNCHANGED <<approved, declares, binding, grants, cache>>
  BY <1>1 DEF S!provider
<1>3. calls' \in [Calls -> CallRows] /\ calls'[c] = S!NoCall /\ \A d \in Calls \ {c} : calls'[d] = calls[d]
  BY <1>1, OneCall, IdleCall DEF SecretTypes
<1>4. reported' \in BOOLEAN /\ (reported' => keys = "both" /\ AllNew)
  <2>1. reported' = (keys = "both" /\ S!Remaining(c) = {})
    BY DEF S!RekeyReport
  <2>2. keys = "both" /\ S!Remaining(c) = {} => AllNew
    BY DEF S!Remaining, S!currentKey, AllNew
  <2>3. QED  BY <2>1, <2>2
<1>5. SecretTypes' /\ StoredFits'
  BY <1>1, <1>2, <1>3, <1>4 DEF SecretTypes, StoredFits, AllNew
<1>6. \A r \in S!Refs : CacheFits(r)'
  BY <1>2 DEF SecretInv, CacheFits
<1>7. ASSUME NEW d \in Calls PROVE CallFits(d)'
  <2>1. CASE d = c
    BY <1>3, <2>1, IdleCall DEF CallFits, Gateway
  <2>2. CASE d # c
    BY <1>1, <1>2, <1>3, <2>2 DEF SecretInv, CallFits
  <2>3. QED  BY <2>1, <2>2
<1>8. QED  BY <1>5, <1>6, <1>7 DEF SecretInv

(* A deploy changes the keys and empties the isolate: no call and no cache survive it. *)
LEMMA DeployStep == ASSUME SecretInv, S!Deploy PROVE SecretInv'
<1>1. /\ SecretTypes /\ StoredFits
      /\ UNCHANGED <<secrets, lastSave, latest, overlap, reported, approved, declares, binding, grants>>
      /\ \A d \in Calls : calls'[d] = S!NoCall
      /\ \A r \in S!Refs : cache'[r] = S!NotCached
  BY DEF SecretInv, S!Deploy
<1>2. calls' \in [Calls -> CallRows] /\ cache' \in [S!Refs -> CacheRows]
  BY IdleCall DEF S!Deploy, S!NotCached, CacheRows
<1>3. keys' \in {"both", "new"} /\ (keys' = "both" => keys = "old") /\ (keys' = "new" => keys = "both" /\ reported)
  BY DEF S!Deploy
<1>4. SecretTypes' /\ StoredFits'
  BY <1>1, <1>2, <1>3 DEF SecretTypes, StoredFits, AllNew
<1>5. QED  BY <1>1, <1>4, IdleCall DEF SecretInv, CacheFits, CallFits, Gateway

(* A binding or a grant changes: a call under way has been allowed what is permitted now, and cached values are of the binding. *)
LEMMA ProviderChanges ==
    ASSUME SecretInv, UNCHANGED <<S!stored, approved>>,
           declares' \subseteq Providers, binding' \in BindingRows, grants' \subseteq S!Items,
           \/ cache' = [r \in S!Refs |-> S!NotCached]
           \/ UNCHANGED <<cache, binding>>,
           \/ calls' = S!Widened(binding', grants')
           \/ UNCHANGED calls /\ \A d \in Calls : S!Permitted(binding', grants', calls[d].pkg) \subseteq S!Permitted(binding, grants, calls[d].pkg)
    PROVE  SecretInv'
<1>1. SecretTypes /\ StoredFits /\ UNCHANGED <<secrets, lastSave, latest, overlap, keys, reported>>
  BY DEF SecretInv, S!stored
<1>2. cache' \in [S!Refs -> CacheRows] /\ \A r \in S!Refs : CacheFits(r)'
  <2>1. S!NotCached \in CacheRows
    BY DEF S!NotCached, CacheRows
  <2>2. CASE cache' = [r \in S!Refs |-> S!NotCached]
    BY <2>1, <2>2 DEF CacheFits
  <2>3. CASE UNCHANGED <<cache, binding>>
    BY <1>1, <2>3 DEF SecretInv, SecretTypes, CacheFits
  <2>4. QED  BY <2>2, <2>3
<1>3. ASSUME NEW d \in Calls PROVE calls'[d] \in CallRows /\ CallFits(d)'
  <2> DEFINE p == calls[d]
             P == S!Permitted(binding', grants', p.pkg)
             q == [p EXCEPT !.allowed = p.allowed \cup P]
  <2>1. p \in CallRows /\ CallFits(d)
    BY <1>1 DEF SecretInv, SecretTypes
  <2>2. P \subseteq S!Items
    BY <2>1, PermittedItems DEF CallRows
  <2>3. CASE UNCHANGED calls
    <3>1. p.pc \in Gateway => P \subseteq p.allowed
      <4>1. CASE UNCHANGED calls /\ \A e \in Calls : S!Permitted(binding', grants', calls[e].pkg) \subseteq S!Permitted(binding, grants, calls[e].pkg)
        BY <2>1, <4>1 DEF CallFits
      <4>2. CASE calls' = S!Widened(binding', grants')
        <5>1. CASE p.pc = "idle"
          BY <5>1 DEF Gateway
        <5>2. CASE p.pc # "idle"
          <6>1. calls'[d] = q
            BY <4>2, <5>2 DEF S!Widened, S!Idle
          <6>2. q.allowed = p.allowed \cup P
            BY <2>1 DEF CallRows
          <6> HIDE DEF q, P
          <6>3. QED  BY <2>3, <6>1, <6>2
        <5>3. QED  BY <5>1, <5>2
      <4>3. QED  BY <4>1, <4>2
    <3>2. QED  BY <1>1, <2>1, <2>3, <3>1 DEF CallFits
  <2>4. CASE calls' = S!Widened(binding', grants')
    <3>1. CASE p.pc = "idle"
      <4>1. calls'[d] = p
        BY <2>4, <3>1 DEF S!Widened, S!Idle
      <4>2. QED  BY <2>1, <3>1, <4>1 DEF CallFits, Gateway
    <3>2. CASE p.pc # "idle"
      <4>1. calls'[d] = q
        BY <2>4, <3>2 DEF S!Widened, S!Idle
      <4>2. /\ q \in CallRows /\ q.allowed = p.allowed \cup P /\ q.pc = p.pc /\ q.held = p.held /\ q.scope = p.scope /\ q.refs = p.refs
            /\ q.ref = p.ref /\ q.pkg = p.pkg /\ q.item = p.item /\ q.provisional = p.provisional
        BY <2>1, <2>2 DEF CallRows
      <4> HIDE DEF q
      <4>3. QED  BY <1>1, <2>1, <4>1, <4>2 DEF CallFits
    <3>3. QED  BY <3>1, <3>2
  <2>5. QED  BY <2>3, <2>4
<1>4. calls' \in [Calls -> CallRows]
  BY <1>1, <1>3 DEF S!Widened, SecretTypes
<1>5. SecretTypes' /\ StoredFits'
  BY <1>1, <1>2, <1>4 DEF SecretTypes, StoredFits, AllNew
<1>6. QED  BY <1>2, <1>3, <1>5 DEF SecretInv

(* Without a binding nothing is permitted. *)
LEMMA Unbinds ==
    ASSUME SecretInv, S!unbind, declares' \subseteq Providers, UNCHANGED <<S!stored, approved, calls>>
    PROVE  SecretInv'
<1>1. binding' \in BindingRows /\ grants' \subseteq S!Items /\ cache' = [r \in S!Refs |-> S!NotCached] /\ binding'.pkg = None
  BY DEF S!unbind, S!Unbound, S!invalidate, BindingRows
<1>2. \A d \in Calls : S!Permitted(binding', grants', calls[d].pkg) = {}
  BY <1>1 DEF S!Permitted
<1>3. QED  BY <1>1, <1>2, ProviderChanges

(* The capabilities that bind, lock, grant and revoke. *)
LEMMA ManageStep == ASSUME SecretInv, S!ManageProvider PROVE SecretInv'
<1>1. SecretTypes
  BY DEF SecretInv
<1>2. CASE S!secretProviderUnbind
  BY <1>1, <1>2, Unbinds DEF S!secretProviderUnbind, SecretTypes
<1>3. ASSUME NEW p \in Providers, NEW locked \in BOOLEAN, S!secretProviderBind(p, locked) PROVE SecretInv'
  <2>1. binding' \in BindingRows /\ grants' \subseteq S!Items
    BY <1>1, <1>3 DEF S!secretProviderBind, BindingRows, SecretTypes
  <2>2. QED  BY <1>1, <1>3, <2>1, ProviderChanges DEF S!secretProviderBind, S!invalidate, SecretTypes
<1>4. ASSUME NEW locked \in BOOLEAN, S!secretProviderSetLocked(locked) PROVE SecretInv'
  <2>1. binding' \in BindingRows /\ grants' = grants /\ calls' = S!Widened(binding', grants')
    BY <1>1, <1>4 DEF S!secretProviderSetLocked, BindingRows, SecretTypes
  <2>2. QED  BY <1>1, <1>4, <2>1, ProviderChanges DEF S!secretProviderSetLocked, S!invalidate, SecretTypes
<1>5. ASSUME NEW i \in S!Items, S!secretProviderGrant(i) PROVE SecretInv'
  <2>1. grants' \subseteq S!Items /\ binding' = binding /\ calls' = S!Widened(binding', grants')
    BY <1>1, <1>5 DEF S!secretProviderGrant, SecretTypes
  <2>2. QED  BY <1>1, <1>5, <2>1, ProviderChanges DEF S!secretProviderGrant, SecretTypes
<1>6. ASSUME NEW i \in S!Items, S!secretProviderRevoke(i) PROVE SecretInv'
  <2>1. grants' \subseteq grants /\ binding' = binding
    BY <1>6 DEF S!secretProviderRevoke
  <2>2. \A d \in Calls : S!Permitted(binding', grants', calls[d].pkg) \subseteq S!Permitted(binding, grants, calls[d].pkg)
    BY <2>1 DEF S!Permitted
  <2>3. QED  BY <1>1, <1>6, <2>1, <2>2, ProviderChanges DEF S!secretProviderRevoke, S!invalidate, SecretTypes
<1>7. QED  BY <1>2, <1>3, <1>4, <1>5, <1>6 DEF S!ManageProvider

(* A package that serves the provider is saved, or no longer declares it. *)
LEMMA PackageStep == ASSUME SecretInv, NEW p \in Providers, S!packageSave(p) \/ S!packageDrops(p) PROVE SecretInv'
<1>1. SecretTypes
  BY DEF SecretInv
<1>2. CASE S!packageSave(p)
  BY <1>1, <1>2, ProviderChanges DEF S!packageSave, S!invalidate, SecretTypes
<1>3. CASE S!packageDrops(p) /\ binding.pkg = p
  BY <1>1, <1>3, Unbinds DEF S!packageDrops, SecretTypes
<1>4. CASE S!packageDrops(p) /\ binding.pkg # p
  BY <1>1, <1>4, ProviderChanges DEF S!packageDrops, SecretTypes
<1>5. QED  BY <1>2, <1>3, <1>4

(* The cache expires. *)
LEMMA ExpireStep == ASSUME SecretInv, S!CacheExpires PROVE SecretInv'
<1>1. SecretTypes
  BY DEF SecretInv
<1>2. QED  BY <1>1, ProviderChanges DEF S!CacheExpires, S!invalidate, SecretTypes

(* A host is approved or revoked. *)
LEMMA HostStep == ASSUME SecretInv, S!secretHostApprove \/ S!secretHostRevoke PROVE SecretInv'
<1>1. approved' \in BOOLEAN /\ UNCHANGED <<secrets, lastSave, latest, overlap, keys, reported, declares, binding, grants, cache, calls>>
  BY DEF S!secretHostApprove, S!secretHostRevoke, S!stored
<1>2. QED  BY <1>1 DEF SecretInv, SecretTypes, StoredFits, AllNew, CacheFits, CallFits

(* Every step of the secrets and their gateway keeps the invariant. *)
LEMMA SecretStep == ASSUME SecretInv, S!Next PROVE SecretInv'
<1>1. CASE S!KeepSecrets
  BY <1>1, DeleteStep, SaveStep, BeginStep DEF S!KeepSecrets
<1>2. CASE S!Administer
  BY <1>2, DeployStep, HostStep, BeginStep, ReportStep, RekeyWriteStep DEF S!Administer
<1>3. ASSUME NEW c \in Calls, S!secretResolveValues(c) PROVE SecretInv'
  BY <1>3, ResolveStep
<1>4. ASSUME NEW c \in Calls, NEW pkg \in BOOLEAN, NEW refs \in Named, S!RequestSecret(c, pkg, refs) PROVE SecretInv'
  BY <1>4, BeginStep
<1>5. CASE S!Values
  BY <1>1, <1>2, <1>3, <1>4, <1>5 DEF S!Values, Named
<1>6. ASSUME NEW c \in Calls, S!Inject(c) PROVE SecretInv'
  BY <1>6, CallEnds DEF S!Inject
<1>7. ASSUME NEW c \in Calls, NEW pkg \in BOOLEAN, NEW ref \in S!Refs, S!RequestItem(c, pkg, ref) PROVE SecretInv'
  BY <1>7, BeginStep
<1>8. CASE S!Provided
  BY <1>7, <1>8, ManageStep, ExpireStep, PackageStep, AuthorizeStep, RunStep, PutStep, RecheckStep DEF S!Provided
<1>9. QED  BY <1>5, <1>6, <1>8 DEF S!Next

(* What is stored opens with a configured key, what is cached is of the binding, and a call under way holds an item
   it was permitted when it was authorized or later (cells/user-cell.ts secretRekey, secrets/fetch-gateway.ts). *)
THEOREM SecretsKept == S!Spec => []SecretInv
<1>1. SecretInv /\ [S!Next]_S!vars => SecretInv'
  BY SecretStep, SecretStay
<1>2. QED  BY SecretInit, <1>1, PTL DEF S!Spec

(* A rekey loses no value, and once it reports nothing left the old key may go (cells/user-cell.ts secretRekey). *)
THEOREM NoValueLost == S!Spec => []RekeySafe
<1>1. SecretInv => RekeySafe
  BY DEF SecretInv, StoredFits, AllNew, RekeySafe, S!RekeySafe, S!OldKeyUnneeded, S!ValueKept
<1>2. QED  BY SecretsKept, <1>1, PTL

(* What a provider resolves goes where it is permitted, from the package that is bound (secrets/fetch-gateway.ts). *)
THEOREM ValuesFitTheProvider == S!Spec => []ProviderValueFits
<1>1. SecretInv => S!ItemPermitted
  BY DEF SecretInv, CallFits, Gateway, S!ItemPermitted, S!At
<1>2. SecretInv => S!CacheOfBinding
  BY DEF SecretInv, CacheFits, S!CacheOfBinding
<1>3. QED  BY SecretsKept, <1>1, <1>2, PTL DEF ProviderValueFits, S!ProviderValueFits

----------------------------------------------------------------------------
(* Memory: rows and vectors, and what a call has read of them *)

RowSet == [text : Nat, status : M!Statuses, marked : BOOLEAN]
VectorSet == [text : Nat, status : M!Statuses]
CopySet == [id : Ids, text : Nat, status : M!Statuses]
Stages == {"idle", "store", "mark", "query", "answer", "answered", "drop"}
MemoryCallRows == [op : {None, "upsert", "delete", "force", "search", "reindex"}, pc : Stages, batch : SUBSET CopySet, ask : SUBSET M!Statuses,
                   conv : Conversations \cup {None}, seen : SUBSET Ids, found : SUBSET Ids, id : Ids \cup {None}, answer : SUBSET CopySet]

RowsTyped ==
    /\ rows \in [Ids -> RowSet \cup {None}] /\ used \subseteq Ids /\ lastText \in 0..MaxText
    /\ \A i \in M!Saved : i \in used /\ rows[i].text \in 1..lastText
    /\ vectors \in [Ids -> VectorSet \cup {None}]
    /\ \A i \in Ids : vectors[i] # None => i \in used /\ vectors[i].text \in 1..lastText
    /\ shown \subseteq Conversations \X Ids

\* What a call knows: the rows it embeds were there, the one it drops is gone for good, its answer is current.
MemoryFits(c) ==
    LET q == memoryCalls[c]
    IN  /\ \A b \in q.batch : b.id \in used /\ b.text \in 1..lastText
        /\ q.pc \in {"query", "answer"} => q.op = "search"
        /\ q.pc # "idle" /\ q.op = "search" => q.conv \in Conversations
        /\ q.pc = "mark" => \A i \in M!BatchIds(c) \cap M!Saved : vectors[i] # None
        /\ q.pc = "drop" => q.id \in used \ M!Saved
        /\ q.pc = "answered" => \A a \in q.answer : a.id \in M!Saved /\ a = M!Copy(a.id) /\ a.status \in q.ask

Forgotten == \A i \in forgotten : i \in used \ M!Saved /\ vectors[i] = None /\ \A c \in Searches : i \notin M!BatchIds(c)

MemoryInv ==
    /\ RowsTyped /\ memoryCalls \in [Searches -> MemoryCallRows]
    /\ M!MarkedIsIndexed /\ Forgotten /\ M!ShownOnce
    /\ \A c \in Searches : MemoryFits(c)

(* An idle call embeds nothing. *)
LEMMA MemoryIdle ==
    /\ M!Idle \in MemoryCallRows /\ M!Idle.pc = "idle" /\ M!Idle.batch = {}
  BY DEF M!Idle, MemoryCallRows, Stages

(* No row, no vector, no call. *)
LEMMA MemoryInit == ASSUME M!MemoryConstants, M!Init PROVE MemoryInv
<1>1. RowsTyped /\ M!Saved = {}
  BY DEF M!MemoryConstants, M!Init, RowsTyped, M!Saved
<1>2. \A c \in Searches : memoryCalls[c] = M!Idle
  BY DEF M!Init
<1>3. memoryCalls \in [Searches -> MemoryCallRows]
  BY MemoryIdle DEF M!Init
<1>4. \A c \in Searches : MemoryFits(c)
  BY <1>2, MemoryIdle DEF MemoryFits
<1>5. QED  BY <1>1, <1>3, <1>4 DEF MemoryInv, M!MarkedIsIndexed, Forgotten, M!ShownOnce, M!Init

(* A step of one call leaves the others as they are. *)
LEMMA OneSearch ==
    ASSUME memoryCalls \in [Searches -> MemoryCallRows], NEW c \in Searches, NEW q \in MemoryCallRows,
           memoryCalls' = [memoryCalls EXCEPT ![c] = q]
    PROVE  memoryCalls' \in [Searches -> MemoryCallRows] /\ memoryCalls'[c] = q /\ \A d \in Searches \ {c} : memoryCalls'[d] = memoryCalls[d]
  OBVIOUS

(* A step of one call, in what it does to rows and vectors other calls have read. *)
LEMMA MemoryMoves ==
    ASSUME MemoryInv, NEW c \in Searches, NEW q \in MemoryCallRows, memoryCalls' = [memoryCalls EXCEPT ![c] = q],
           RowsTyped', MemoryFits(c)', used \subseteq used', lastText <= lastText',
           \A i \in M!Saved' : i \in used => i \in M!Saved,
           \A i \in M!Saved' : /\ vectors[i] # None => vectors'[i] # None
                               /\ rows'[i].marked => vectors'[i] # None,
           \/ M!Settled
           \/ \A i \in M!Saved : i \in M!Saved' /\ rows'[i].text = rows[i].text /\ rows'[i].status = rows[i].status,
           \A i \in forgotten' : /\ i \in used' /\ i \notin M!Saved' /\ vectors'[i] = None /\ i \notin {b.id : b \in q.batch}
                                 /\ i \in forgotten \/ \A d \in Searches : i \notin M!BatchIds(d),
           repeated' = {}
    PROVE  MemoryInv'
<1>1. memoryCalls' \in [Searches -> MemoryCallRows] /\ memoryCalls'[c] = q /\ \A d \in Searches \ {c} : memoryCalls'[d] = memoryCalls[d]
  BY OneSearch DEF MemoryInv
<1>2. M!MarkedIsIndexed' /\ M!ShownOnce'
  BY DEF M!MarkedIsIndexed, M!ShownOnce
<1>3. \A d \in Searches : M!BatchIds(d)' = IF d = c THEN {b.id : b \in q.batch} ELSE M!BatchIds(d)
  BY <1>1 DEF M!BatchIds
<1>4. Forgotten'
  BY <1>3 DEF MemoryInv, Forgotten
<1>5. ASSUME NEW d \in Searches, d # c PROVE MemoryFits(d)'
  <2> DEFINE p == memoryCalls[d]
  <2>1. memoryCalls'[d] = p /\ MemoryFits(d) /\ p \in MemoryCallRows /\ M!BatchIds(d)' = M!BatchIds(d)
    BY <1>1, <1>3, <1>5 DEF MemoryInv
  <2>2. /\ \A b \in p.batch : b.id \in used' /\ b.text \in 1..lastText'
        /\ p.pc \in {"query", "answer"} => p.op = "search"
        /\ p.pc # "idle" /\ p.op = "search" => p.conv \in Conversations
    BY <2>1 DEF MemoryFits, RowsTyped, MemoryInv
  <2>3. p.pc = "mark" => \A i \in M!BatchIds(d) \cap M!Saved' : vectors'[i] # None
    BY <2>1 DEF MemoryFits, M!BatchIds
  <2>4. p.pc = "drop" => p.id \in used' /\ p.id \notin M!Saved'
    BY <2>1 DEF MemoryFits
  <2>5. p.pc = "answered" => \A a \in p.answer : a.id \in M!Saved' /\ a = M!Copy(a.id)' /\ a.status \in p.ask
    <3>1. ASSUME p.pc = "answered", NEW a \in p.answer PROVE a.id \in M!Saved' /\ a = M!Copy(a.id)' /\ a.status \in p.ask
      <4>1. a.id \in M!Saved /\ a = M!Copy(a.id) /\ a.status \in p.ask /\ ~M!Settled
        BY <2>1, <3>1 DEF MemoryFits, M!Settled
      <4>2. QED  BY <4>1 DEF M!Copy
    <3>2. QED  BY <3>1
  <2>6. QED  BY <2>1, <2>2, <2>3, <2>4, <2>5 DEF MemoryFits
<1>6. \A d \in Searches : MemoryFits(d)'
  BY <1>5
<1>7. QED  BY <1>1, <1>2, <1>4, <1>6 DEF MemoryInv

----------------------------------------------------------------------------
(* Memory: the steps *)

(* A row is written and goes to be indexed. *)
LEMMA RowWritten ==
    ASSUME M!MemoryConstants, MemoryInv, M!Settled, NEW c \in Searches, memoryCalls[c].pc = "idle",
           NEW op \in {"upsert", "delete"}, NEW i \in Ids, i \in M!Saved \/ i \notin used,
           NEW r \in RowSet, ~r.marked, rows' = [rows EXCEPT ![i] = r], used' = used \cup {i},
           lastText' \in lastText..MaxText, r.text \in 1..lastText',
           M!IndexWritten(c, op, i), UNCHANGED <<vectors, shown, forgotten, repeated>>
    PROVE  MemoryInv'
<1> DEFINE b == [id |-> i, text |-> r.text, status |-> r.status]
           q == [M!Idle EXCEPT !.op = op, !.pc = "store", !.batch = {b}]
<1>1. RowsTyped /\ lastText \in Nat /\ lastText' \in 0..MaxText /\ lastText <= lastText'
  BY DEF MemoryInv, RowsTyped, M!MemoryConstants
<1>2. rows' \in [Ids -> RowSet \cup {None}] /\ rows'[i] = r /\ \A j \in Ids \ {i} : rows'[j] = rows[j]
  BY <1>1 DEF RowsTyped
<1>3. memoryCalls' = [memoryCalls EXCEPT ![c] = q]
  BY <1>2 DEF M!IndexWritten
<1>4. b \in CopySet /\ b.id = i /\ b.text = r.text
  BY DEF CopySet, RowSet
<1> HIDE DEF b
<1>5. q \in MemoryCallRows /\ q.pc = "store" /\ q.batch = {b} /\ q.op = op
  BY <1>4 DEF M!Idle, MemoryCallRows, Stages
<1> HIDE DEF q
<1>6. memoryCalls'[c] = q
  BY <1>3, <1>5, OneSearch DEF MemoryInv
<1>7. \A j \in M!Saved' : j \in Ids /\ (j = i \/ j \in M!Saved)
  BY <1>2 DEF M!Saved
<1>8. RowsTyped'
  <2>1. \A j \in M!Saved' : j \in used' /\ rows'[j].text \in 1..lastText'
    <3>1. ASSUME NEW j \in M!Saved' PROVE j \in used' /\ rows'[j].text \in 1..lastText'
      <4>1. CASE j = i
        BY <1>2, <4>1
      <4>2. CASE j # i
        BY <1>1, <1>2, <1>7, <4>2 DEF RowsTyped
      <4>3. QED  BY <4>1, <4>2
    <3>2. QED  BY <3>1
  <2>2. \A j \in Ids : vectors'[j] # None => j \in used' /\ vectors'[j].text \in 1..lastText'
    BY <1>1 DEF RowsTyped
  <2>3. QED  BY <1>1, <1>2, <2>1, <2>2 DEF RowsTyped
<1>9. MemoryFits(c)'
  BY <1>4, <1>5, <1>6 DEF MemoryFits
<1>10. \A j \in M!Saved' : (j \in used => j \in M!Saved) /\ (rows'[j].marked => vectors'[j] # None)
  BY <1>2, <1>7 DEF MemoryInv, M!MarkedIsIndexed
<1>11. \A j \in forgotten' : j \in used' /\ j \notin M!Saved' /\ vectors'[j] = None /\ j \notin {a.id : a \in q.batch}
  BY <1>4, <1>5, <1>7 DEF MemoryInv, Forgotten
<1>12. QED  BY <1>1, <1>3, <1>5, <1>8, <1>9, <1>10, <1>11, MemoryMoves DEF MemoryInv, M!ShownOnce

(* memoryUpsert writes a row and goes to index it. *)
LEMMA UpsertStep == ASSUME M!MemoryConstants, MemoryInv, M!Settled, NEW c \in Searches, NEW i \in Ids, M!memoryUpsert(c, i) PROVE MemoryInv'
<1>1. PICK status \in M!Statuses : M!Write(i, status)
  BY DEF M!memoryUpsert
<1> DEFINE no == FALSE
           r == [text |-> lastText + 1, status |-> status, marked |-> no]
<1>2. lastText \in Nat /\ lastText < MaxText /\ MaxText \in Nat /\ lastText' = lastText + 1 /\ rows' = [rows EXCEPT ![i] = r]
  BY <1>1 DEF M!Write, MemoryInv, RowsTyped, M!MemoryConstants
<1>3. ~no /\ no \in BOOLEAN
  OBVIOUS
<1> HIDE DEF no
<1>4. r \in RowSet /\ ~r.marked /\ r.text = lastText + 1
  BY <1>2, <1>3 DEF RowSet
<1> HIDE DEF r
<1>5. memoryCalls[c].pc = "idle" /\ (i \in M!Saved \/ i \notin used) /\ used' = used \cup {i} /\ M!IndexWritten(c, "upsert", i)
      /\ UNCHANGED <<vectors, shown, forgotten, repeated>>
  BY DEF M!memoryUpsert, M!MayWrite
<1>6. lastText' \in lastText..MaxText /\ r.text \in 1..lastText'
  BY <1>2, <1>4
<1>7. QED  BY <1>2, <1>4, <1>5, <1>6, RowWritten

(* A row that is there. *)
LEMMA SavedRow == ASSUME MemoryInv, NEW i \in M!Saved PROVE rows[i] \in RowSet /\ i \in used /\ rows[i].text \in 1..lastText /\ i \in Ids
  BY DEF MemoryInv, RowsTyped, M!Saved

(* memoryDelete leaves the row, as deleted, and goes to index it. *)
LEMMA SoftDeleteStep == ASSUME M!MemoryConstants, MemoryInv, M!Settled, NEW c \in Searches, NEW i \in Ids, M!SoftDelete(c, i) PROVE MemoryInv'
<1> DEFINE no == FALSE
           r == [rows[i] EXCEPT !.status = "deleted", !.marked = no]
<1>1. memoryCalls[c].pc = "idle" /\ i \in M!Saved /\ rows' = [rows EXCEPT ![i] = r] /\ M!IndexWritten(c, "delete", i)
      /\ UNCHANGED <<used, lastText, vectors, shown, forgotten, repeated>>
  BY DEF M!SoftDelete
<1>2. ~no /\ no \in BOOLEAN
  OBVIOUS
<1> HIDE DEF no
<1>3. rows[i] \in RowSet /\ i \in used /\ rows[i].text \in 1..lastText
  BY <1>1, SavedRow
<1>4. r \in RowSet /\ ~r.marked /\ r.text = rows[i].text
  BY <1>2, <1>3 DEF RowSet, M!Statuses
<1> HIDE DEF r
<1>5. used' = used \cup {i} /\ lastText' \in lastText..MaxText /\ r.text \in 1..lastText'
  BY <1>1, <1>3, <1>4 DEF MemoryInv, RowsTyped, M!MemoryConstants
<1>6. QED  BY <1>1, <1>4, <1>5, RowWritten

(* With force the row goes at once, its vector later; no search has an answer to give at that moment. *)
LEMMA ForceDeleteStep == ASSUME M!MemoryConstants, MemoryInv, M!Settled, NEW c \in Searches, NEW i \in Ids, M!ForceDelete(c, i) PROVE MemoryInv'
<1> DEFINE q == [M!Idle EXCEPT !.op = "force", !.pc = "drop", !.id = i]
<1>1. /\ i \in M!Saved /\ rows' = [rows EXCEPT ![i] = None] /\ memoryCalls' = [memoryCalls EXCEPT ![c] = q]
      /\ shown' = {s \in shown : s[2] # i} /\ UNCHANGED <<used, lastText, vectors, forgotten, repeated>>
  BY DEF M!ForceDelete
<1>2. q \in MemoryCallRows /\ q.pc = "drop" /\ q.batch = {} /\ q.id = i /\ q.op = "force"
  BY DEF M!Idle, MemoryCallRows, Stages
<1> HIDE DEF q
<1>3. memoryCalls'[c] = q
  BY <1>1, <1>2, OneSearch DEF MemoryInv
<1>4. RowsTyped
  BY DEF MemoryInv
<1>5. rows' \in [Ids -> RowSet \cup {None}] /\ rows'[i] = None /\ \A j \in Ids \ {i} : rows'[j] = rows[j]
  BY <1>1, <1>4 DEF RowsTyped
<1>6. M!Saved' = M!Saved \ {i}
  BY <1>5 DEF M!Saved
<1>7. \A j \in M!Saved' : j \in M!Saved /\ rows'[j] = rows[j]
  BY <1>5, <1>6 DEF M!Saved
<1>8. RowsTyped'
  BY <1>1, <1>4, <1>5, <1>7 DEF RowsTyped
<1>9. i \in used
  BY <1>1, SavedRow
<1>10. MemoryFits(c)'
  BY <1>1, <1>2, <1>3, <1>6, <1>9 DEF MemoryFits
<1>11. lastText <= lastText'
  BY <1>1, <1>4 DEF RowsTyped
<1>12. \A j \in M!Saved' : rows'[j].marked => vectors'[j] # None
  BY <1>1, <1>7 DEF MemoryInv, M!MarkedIsIndexed
<1>13. \A j \in forgotten' : j \in used' /\ j \notin M!Saved' /\ vectors'[j] = None /\ j \notin {b.id : b \in q.batch} /\ j \in forgotten
  BY <1>1, <1>2, <1>6 DEF MemoryInv, Forgotten
<1>14. QED  BY <1>1, <1>2, <1>7, <1>8, <1>10, <1>11, <1>12, <1>13, MemoryMoves DEF MemoryInv, M!ShownOnce

(* A step of one call that changes no row and no vector. *)
LEMMA MemoryGoes ==
    ASSUME M!MemoryConstants, MemoryInv, NEW c \in Searches, NEW q \in MemoryCallRows, memoryCalls' = [memoryCalls EXCEPT ![c] = q],
           UNCHANGED <<rows, used, lastText, vectors, forgotten>>, shown' \subseteq Conversations \X Ids, repeated' = {},
           MemoryFits(c)', \A b \in q.batch : b.id \in M!Saved \/ b \in memoryCalls[c].batch
    PROVE  MemoryInv'
<1>1. RowsTyped' /\ lastText <= lastText' /\ M!Saved' = M!Saved
  BY DEF MemoryInv, RowsTyped, M!Saved
<1>2. \A i \in M!Saved' : rows'[i].marked => vectors'[i] # None
  BY <1>1 DEF MemoryInv, M!MarkedIsIndexed
<1>3. \A i \in forgotten' : i \in used' /\ i \notin M!Saved' /\ vectors'[i] = None /\ i \notin {b.id : b \in q.batch} /\ i \in forgotten
  BY <1>1 DEF MemoryInv, Forgotten, M!BatchIds
<1>4. QED  BY <1>1, <1>2, <1>3, MemoryMoves

(* A call that ends. *)
LEMMA MemoryEnds ==
    ASSUME M!MemoryConstants, MemoryInv, NEW c \in Searches, memoryCalls' = [memoryCalls EXCEPT ![c] = M!Idle],
           UNCHANGED <<rows, used, lastText, vectors, shown, forgotten, repeated>>
    PROVE  MemoryInv'
<1>1. memoryCalls'[c] = M!Idle
  BY MemoryIdle, OneSearch DEF MemoryInv
<1>2. MemoryFits(c)'
  BY <1>1, MemoryIdle DEF MemoryFits
<1>3. shown' \subseteq Conversations \X Ids /\ repeated' = {}
  BY DEF MemoryInv, RowsTyped, M!ShownOnce
<1>4. QED  BY <1>2, <1>3, MemoryIdle, MemoryGoes

(* What indexing keeps of rows that are there. *)
LEMMA Copies ==
    ASSUME MemoryInv, NEW s \in SUBSET M!Saved
    PROVE  /\ {M!Copy(i) : i \in s} \subseteq CopySet
           /\ \A b \in {M!Copy(i) : i \in s} : b.id \in s /\ b.id \in used /\ b.text \in 1..lastText
<1>1. ASSUME NEW i \in s PROVE M!Copy(i) \in CopySet /\ M!Copy(i).id = i /\ i \in used /\ M!Copy(i).text \in 1..lastText
  BY SavedRow DEF M!Copy, CopySet, RowSet
<1>2. QED  BY <1>1

(* The vector of a row deleted by force goes. *)
LEMMA DropStep == ASSUME M!MemoryConstants, MemoryInv, NEW c \in Searches, M!DropVector(c) PROVE MemoryInv'
<1> DEFINE i == memoryCalls[c].id
           N == {j \in {i} : \A d \in Searches : j \notin M!BatchIds(d)}
<1>1. /\ memoryCalls[c].pc = "drop" /\ vectors' = [vectors EXCEPT ![i] = None] /\ forgotten' = forgotten \cup N
      /\ memoryCalls' = [memoryCalls EXCEPT ![c] = M!Idle] /\ UNCHANGED <<rows, used, lastText, shown, repeated>>
  BY DEF M!DropVector
<1>2. i \in used /\ i \notin M!Saved /\ RowsTyped
  BY <1>1 DEF MemoryInv, MemoryFits
<1>3. vectors' \in [Ids -> VectorSet \cup {None}] /\ vectors'[i] = None /\ \A j \in Ids \ {i} : vectors'[j] = vectors[j]
  BY <1>1, <1>2 DEF RowsTyped
<1>4. M!Saved' = M!Saved /\ M!Saved \subseteq Ids /\ lastText <= lastText'
  BY <1>1, <1>2 DEF M!Saved, RowsTyped
<1>5. RowsTyped'
  BY <1>1, <1>2, <1>3, <1>4 DEF RowsTyped
<1>6. memoryCalls'[c] = M!Idle
  BY <1>1, MemoryIdle, OneSearch DEF MemoryInv
<1>7. MemoryFits(c)'
  BY <1>6, MemoryIdle DEF MemoryFits
<1>8. \A j \in M!Saved' : /\ j \in used => j \in M!Saved
                          /\ vectors[j] # None => vectors'[j] # None
                          /\ rows'[j].marked => vectors'[j] # None
  BY <1>1, <1>2, <1>3, <1>4 DEF MemoryInv, M!MarkedIsIndexed
<1>9. \A j \in forgotten' : /\ j \in used' /\ j \notin M!Saved' /\ vectors'[j] = None /\ j \notin {b.id : b \in M!Idle.batch}
                            /\ j \in forgotten \/ \A d \in Searches : j \notin M!BatchIds(d)
  <2>1. ASSUME NEW j \in forgotten'
        PROVE  /\ j \in used' /\ j \notin M!Saved' /\ vectors'[j] = None /\ j \notin {b.id : b \in M!Idle.batch}
               /\ j \in forgotten \/ \A d \in Searches : j \notin M!BatchIds(d)
    <3>1. j \in forgotten \/ (j = i /\ \A d \in Searches : j \notin M!BatchIds(d))
      BY <1>1, <2>1
    <3>2. j \in forgotten => j \in Ids /\ j \in used /\ j \notin M!Saved /\ vectors[j] = None
      BY <1>2 DEF MemoryInv, Forgotten, RowsTyped
    <3>3. QED  BY <1>1, <1>2, <1>3, <1>4, <3>1, <3>2, MemoryIdle
  <2>2. QED  BY <2>1
<1>10. \A j \in M!Saved : j \in M!Saved' /\ rows'[j].text = rows[j].text /\ rows'[j].status = rows[j].status
  BY <1>1, <1>4
<1>11. QED  BY <1>1, <1>4, <1>5, <1>7, <1>8, <1>9, <1>10, MemoryIdle, MemoryMoves DEF MemoryInv, M!ShownOnce

(* The store takes the vectors of the rows that were read, of which some may be gone. *)
LEMMA StoreStep == ASSUME M!MemoryConstants, MemoryInv, NEW c \in Searches, M!StoreVectors(c) PROVE MemoryInv'
<1> DEFINE p == memoryCalls[c]
           q == [p EXCEPT !.pc = "mark"]
           of(i) == CHOOSE b \in p.batch : b.id = i
<1>1. /\ p.pc = "store" /\ memoryCalls' = [memoryCalls EXCEPT ![c] = q] /\ UNCHANGED <<rows, used, lastText, shown, forgotten, repeated>>
      /\ vectors' = [i \in Ids |-> IF i \in M!BatchIds(c) THEN [text |-> of(i).text, status |-> of(i).status] ELSE vectors[i]]
  BY DEF M!StoreVectors
<1>2. RowsTyped /\ p \in MemoryCallRows /\ MemoryFits(c)
  BY DEF MemoryInv
<1>3. q \in MemoryCallRows /\ q.pc = "mark" /\ q.batch = p.batch /\ q.op = p.op /\ q.conv = p.conv
  BY <1>2 DEF MemoryCallRows, Stages
<1> HIDE DEF q
<1>4. memoryCalls'[c] = q /\ M!BatchIds(c)' = M!BatchIds(c)
  BY <1>1, <1>3, OneSearch DEF MemoryInv, M!BatchIds
<1>5. ASSUME NEW i \in Ids, i \in M!BatchIds(c)
      PROVE  vectors'[i] \in VectorSet /\ vectors'[i] # None /\ i \in used /\ vectors'[i].text \in 1..lastText
  <2>1. \E b \in p.batch : b.id = i
    BY <1>5 DEF M!BatchIds
  <2>2. of(i) \in p.batch /\ of(i).id = i
    BY <2>1
  <2>3. vectors'[i] = [text |-> of(i).text, status |-> of(i).status]
    BY <1>1, <1>5
  <2> HIDE DEF of
  <2>4. of(i) \in CopySet /\ i \in used /\ of(i).text \in 1..lastText
    BY <1>2, <2>2 DEF MemoryFits, MemoryCallRows
  <2>5. vectors'[i] \in VectorSet /\ vectors'[i].text = of(i).text
    BY <2>3, <2>4 DEF CopySet, VectorSet
  <2>6. None \notin VectorSet
    BY DEF M!MemoryConstants, VectorSet
  <2>7. QED  BY <2>4, <2>5, <2>6
<1>6. \A i \in Ids : i \notin M!BatchIds(c) => vectors'[i] = vectors[i]
  BY <1>1
<1>7. vectors' \in [Ids -> VectorSet \cup {None}]
  <2>1. \A i \in Ids : vectors'[i] \in VectorSet \cup {None}
    BY <1>2, <1>5, <1>6 DEF RowsTyped
  <2> HIDE DEF of
  <2>2. QED  BY <1>1, <2>1
<1>8. M!Saved' = M!Saved /\ M!Saved \subseteq Ids /\ lastText <= lastText'
  BY <1>1, <1>2 DEF M!Saved, RowsTyped
<1> HIDE DEF of
<1>9. RowsTyped'
  BY <1>1, <1>2, <1>5, <1>6, <1>7, <1>8 DEF RowsTyped
<1>10. \A i \in Ids : vectors[i] # None => vectors'[i] # None
  BY <1>5, <1>6
<1>11. MemoryFits(c)'
  BY <1>1, <1>2, <1>3, <1>4, <1>5, <1>8 DEF MemoryFits
<1>12. \A i \in M!Saved' : /\ i \in used => i \in M!Saved
                           /\ vectors[i] # None => vectors'[i] # None
                           /\ rows'[i].marked => vectors'[i] # None
  BY <1>1, <1>8, <1>10 DEF MemoryInv, M!MarkedIsIndexed
<1>13. \A i \in forgotten' : i \in used' /\ i \notin M!Saved' /\ vectors'[i] = None /\ i \notin {b.id : b \in q.batch} /\ i \in forgotten
  BY <1>1, <1>2, <1>3, <1>6, <1>8 DEF MemoryInv, Forgotten, M!BatchIds, RowsTyped
<1>14. \A j \in M!Saved : j \in M!Saved' /\ rows'[j].text = rows[j].text /\ rows'[j].status = rows[j].status
  BY <1>1, <1>8
<1>15. QED  BY <1>1, <1>3, <1>8, <1>9, <1>11, <1>12, <1>13, <1>14, MemoryMoves DEF MemoryInv, M!ShownOnce

(* What a call does next is a call, and embeds rows that are there. *)
LEMMA AfterIndexed ==
    ASSUME MemoryInv, NEW c \in Searches, memoryCalls[c].pc = "mark", NEW s \in SUBSET M!Saved
    PROVE  LET q == M!AfterIndex(c, {M!Copy(i) : i \in s})
           IN  /\ q \in MemoryCallRows /\ q.pc \in {"query", "store", "idle"}
               /\ q.pc = "query" => q.op = "search"
               /\ q.pc # "idle" /\ q.op = "search" => q.conv \in Conversations
               /\ \A b \in q.batch : b.id \in s /\ b.id \in used /\ b.text \in 1..lastText
<1> DEFINE C == {M!Copy(i) : i \in s}
           p == memoryCalls[c]
<1>1. p.pc = "mark" /\ (p.op = "search" => p.conv \in Conversations)
  BY DEF MemoryInv, MemoryFits
<1>2. p \in MemoryCallRows /\ C \subseteq CopySet /\ \A b \in C : b.id \in s /\ b.id \in used /\ b.text \in 1..lastText
  BY Copies DEF MemoryInv
<1> HIDE DEF C
<1> DEFINE full == Cardinality(p.batch) >= ReindexBatch
<1>3. \/ M!AfterIndex(c, C) = [p EXCEPT !.pc = "query", !.batch = {}] /\ p.op = "search"
      \/ M!AfterIndex(c, C) = [p EXCEPT !.pc = "store", !.batch = C] /\ p.op = "reindex"
      \/ M!AfterIndex(c, C) = M!Idle
  <2> HIDE DEF full
  <2>1. CASE p.op = "search"
    BY <2>1 DEF M!AfterIndex
  <2>2. CASE p.op = "reindex" /\ full
    BY <2>2 DEF M!AfterIndex, full
  <2>3. CASE p.op # "search" /\ ~(p.op = "reindex" /\ full)
    BY <2>3 DEF M!AfterIndex, full
  <2>4. QED  BY <2>1, <2>2, <2>3
<1>4. CASE M!AfterIndex(c, C) = [p EXCEPT !.pc = "query", !.batch = {}] /\ p.op = "search"
  <2> DEFINE q == [p EXCEPT !.pc = "query", !.batch = {}]
  <2>1. q \in MemoryCallRows /\ q.pc = "query" /\ q.batch = {} /\ q.op = p.op /\ q.conv = p.conv
    BY <1>2 DEF MemoryCallRows, Stages
  <2> HIDE DEF q
  <2>2. M!AfterIndex(c, C) = q
    BY <1>4 DEF q
  <2>3. QED  BY <1>1, <1>4, <2>1, <2>2 DEF C
<1>5. CASE M!AfterIndex(c, C) = [p EXCEPT !.pc = "store", !.batch = C] /\ p.op = "reindex"
  <2> DEFINE q == [p EXCEPT !.pc = "store", !.batch = C]
  <2>1. q \in MemoryCallRows /\ q.pc = "store" /\ q.batch = C /\ q.op = p.op
    BY <1>2 DEF MemoryCallRows, Stages
  <2> HIDE DEF q
  <2>2. M!AfterIndex(c, C) = q
    BY <1>5 DEF q
  <2>3. QED  BY <1>2, <1>5, <2>1, <2>2 DEF C
<1>6. CASE M!AfterIndex(c, C) = M!Idle
  BY <1>6, MemoryIdle DEF C
<1>7. QED  BY <1>3, <1>4, <1>5, <1>6

(* The rows are marked, whose vectors were stored one await before. *)
LEMMA MarkStep == ASSUME M!MemoryConstants, MemoryInv, NEW c \in Searches, M!MarkRows(c) PROVE MemoryInv'
<1> DEFINE p == memoryCalls[c]
           yes == TRUE
           marks(i) == [rows[i] EXCEPT !.marked = yes]
<1>1. /\ p.pc = "mark" /\ UNCHANGED <<used, lastText, vectors, shown, forgotten, repeated>>
      /\ rows' = [i \in Ids |-> IF i \in M!BatchIds(c) \cap M!Saved THEN marks(i) ELSE rows[i]]
  BY DEF M!MarkRows
<1>2. PICK s \in SUBSET M!Saved : memoryCalls' = [memoryCalls EXCEPT ![c] = M!AfterIndex(c, {M!Copy(i) : i \in s})]
  BY DEF M!MarkRows, M!Batches, M!Unmarked
<1> DEFINE q == M!AfterIndex(c, {M!Copy(i) : i \in s})
<1>3. /\ q \in MemoryCallRows /\ q.pc \in {"query", "store", "idle"} /\ \A b \in q.batch : b.id \in M!Saved /\ b.id \in used /\ b.text \in 1..lastText
      /\ q.pc = "query" => q.op = "search"
      /\ q.pc # "idle" /\ q.op = "search" => q.conv \in Conversations
  BY <1>1, AfterIndexed
<1> HIDE DEF q
<1>4. memoryCalls' = [memoryCalls EXCEPT ![c] = q]
  BY <1>2 DEF q
<1>5. memoryCalls'[c] = q
  BY <1>3, <1>4, OneSearch DEF MemoryInv
<1>6. RowsTyped
  BY DEF MemoryInv
<1>7. yes \in BOOLEAN
  OBVIOUS
<1> HIDE DEF yes
<1>8. ASSUME NEW i \in M!Saved
      PROVE  marks(i) \in RowSet /\ marks(i).text = rows[i].text /\ marks(i).status = rows[i].status
  BY <1>7, <1>8, SavedRow DEF RowSet
<1> HIDE DEF marks
<1>9. M!Saved \subseteq Ids /\ \A i \in Ids : rows[i] # None <=> i \in M!Saved
  BY DEF M!Saved
<1>10. None \notin RowSet
  BY DEF M!MemoryConstants, RowSet
<1>11. \A i \in Ids : IF i \in M!BatchIds(c) \cap M!Saved THEN rows'[i] = marks(i) ELSE rows'[i] = rows[i]
  BY <1>1
<1>12. \A i \in Ids : rows'[i] # None <=> i \in M!Saved
  BY <1>8, <1>9, <1>10, <1>11
<1>13. M!Saved' = M!Saved
  BY <1>9, <1>12 DEF M!Saved
<1>14. \A i \in M!Saved : rows'[i].text = rows[i].text /\ rows'[i].status = rows[i].status
  BY <1>8, <1>9, <1>11
<1>15. RowsTyped'
  <2>1. \A i \in Ids : rows'[i] \in RowSet \cup {None}
    BY <1>6, <1>8, <1>11 DEF RowsTyped
  <2>2. rows' \in [Ids -> RowSet \cup {None}]
    BY <1>1, <2>1
  <2>3. QED  BY <1>1, <1>6, <1>13, <1>14, <2>2 DEF RowsTyped
<1>16. MemoryFits(c)'
  BY <1>1, <1>3, <1>5 DEF MemoryFits
<1>17. \A i \in M!Saved' : rows'[i].marked => vectors'[i] # None
  <2>1. \A i \in M!Saved : i \in M!BatchIds(c) => vectors[i] # None
    BY <1>1 DEF MemoryInv, MemoryFits
  <2>2. QED  BY <1>1, <1>9, <1>11, <1>13, <2>1 DEF MemoryInv, M!MarkedIsIndexed
<1>18. \A i \in forgotten' : i \in used' /\ i \notin M!Saved' /\ vectors'[i] = None /\ i \notin {b.id : b \in q.batch} /\ i \in forgotten
  BY <1>1, <1>3, <1>13 DEF MemoryInv, Forgotten
<1>19. lastText <= lastText'
  BY <1>1, <1>6 DEF RowsTyped
<1>20. QED  BY <1>1, <1>3, <1>4, <1>13, <1>14, <1>15, <1>16, <1>17, <1>18, <1>19, MemoryMoves DEF MemoryInv, M!ShownOnce

(* The provider or the store fails. *)
LEMMA FailStep == ASSUME M!MemoryConstants, MemoryInv, NEW c \in Searches, M!IndexFails(c) PROVE MemoryInv'
<1> DEFINE p == memoryCalls[c]
           q == [p EXCEPT !.pc = "answer", !.batch = {}]
<1>1. UNCHANGED <<rows, used, lastText, vectors, shown, forgotten, repeated>>
  BY DEF M!IndexFails, M!FailUnmarked
<1>2. CASE memoryCalls' = [memoryCalls EXCEPT ![c] = M!Idle]
  BY <1>1, <1>2, MemoryEnds
<1>3. CASE memoryCalls' = [memoryCalls EXCEPT ![c] = q] /\ p.op = "search" /\ p.pc = "store"
  <2>1. q \in MemoryCallRows /\ q.pc = "answer" /\ q.batch = {} /\ q.op = p.op /\ q.conv = p.conv
    BY DEF MemoryInv, MemoryCallRows, Stages
  <2> HIDE DEF q
  <2>2. memoryCalls'[c] = q
    BY <1>3, <2>1, OneSearch DEF MemoryInv
  <2>3. p.conv \in Conversations
    BY <1>3 DEF MemoryInv, MemoryFits
  <2>4. MemoryFits(c)'
    BY <1>3, <2>3, <2>1, <2>2 DEF MemoryFits
  <2>5. shown' \subseteq Conversations \X Ids /\ repeated' = {}
    BY <1>1 DEF MemoryInv, RowsTyped, M!ShownOnce
  <2>6. QED  BY <1>1, <1>3, <2>1, <2>4, <2>5, MemoryGoes
<1>4. QED  BY <1>2, <1>3 DEF M!IndexFails

(* memoryReindex clears every mark and begins its first batch. *)
LEMMA ReindexStep == ASSUME M!MemoryConstants, MemoryInv, M!Settled, NEW c \in Searches, M!memoryReindex(c) PROVE MemoryInv'
<1> DEFINE no == FALSE
           clear(i) == [rows[i] EXCEPT !.marked = no]
<1>1. /\ UNCHANGED <<used, lastText, vectors, shown, forgotten, repeated>>
      /\ rows' = [i \in Ids |-> IF i \in M!Saved THEN clear(i) ELSE None]
  BY DEF M!memoryReindex
<1>2. PICK s \in SUBSET M!Saved :
         memoryCalls' = [memoryCalls EXCEPT ![c] = [M!Idle EXCEPT !.op = "reindex", !.pc = "store", !.batch = {M!Copy(i) : i \in s}]]
  BY DEF M!memoryReindex, M!Batches
<1> DEFINE C == {M!Copy(i) : i \in s}
           q == [M!Idle EXCEPT !.op = "reindex", !.pc = "store", !.batch = C]
<1>3. C \subseteq CopySet /\ \A b \in C : b.id \in M!Saved /\ b.id \in used /\ b.text \in 1..lastText
  BY Copies
<1>4. memoryCalls' = [memoryCalls EXCEPT ![c] = q]
  BY <1>2
<1> HIDE DEF C
<1>5. q \in MemoryCallRows /\ q.pc = "store" /\ q.batch = C /\ q.op = "reindex"
  BY <1>3 DEF M!Idle, MemoryCallRows, Stages
<1> HIDE DEF q
<1>6. memoryCalls'[c] = q
  BY <1>4, <1>5, OneSearch DEF MemoryInv
<1>7. RowsTyped
  BY DEF MemoryInv
<1>8. ~no /\ no \in BOOLEAN
  OBVIOUS
<1> HIDE DEF no
<1>9. ASSUME NEW i \in M!Saved
      PROVE  clear(i) \in RowSet /\ clear(i).text = rows[i].text /\ clear(i).status = rows[i].status /\ ~clear(i).marked
  BY <1>8, <1>9, SavedRow DEF RowSet
<1> HIDE DEF clear
<1>10. M!Saved \subseteq Ids /\ \A i \in Ids : IF i \in M!Saved THEN rows'[i] = clear(i) ELSE rows'[i] = None
  BY <1>1 DEF M!Saved
<1>11. None \notin RowSet
  BY DEF M!MemoryConstants, RowSet
<1>12. \A i \in Ids : rows'[i] # None <=> i \in M!Saved
  BY <1>9, <1>10, <1>11
<1>13. M!Saved' = M!Saved
  BY <1>10, <1>12 DEF M!Saved
<1>14. \A i \in M!Saved : rows'[i].text = rows[i].text /\ rows'[i].status = rows[i].status /\ ~rows'[i].marked
  BY <1>9, <1>10
<1>15. RowsTyped'
  <2>1. \A i \in Ids : rows'[i] \in RowSet \cup {None}
    BY <1>9, <1>10
  <2>2. rows' \in [Ids -> RowSet \cup {None}]
    BY <1>1, <2>1
  <2>3. QED  BY <1>1, <1>7, <1>13, <1>14, <2>2 DEF RowsTyped
<1>16. MemoryFits(c)'
  BY <1>1, <1>3, <1>5, <1>6 DEF MemoryFits
<1>17. \A i \in forgotten' : i \in used' /\ i \notin M!Saved' /\ vectors'[i] = None /\ i \notin {b.id : b \in q.batch} /\ i \in forgotten
  BY <1>1, <1>3, <1>5, <1>13 DEF MemoryInv, Forgotten
<1>18. lastText <= lastText'
  BY <1>1, <1>7 DEF RowsTyped
<1>19. QED  BY <1>1, <1>4, <1>5, <1>13, <1>14, <1>15, <1>16, <1>17, <1>18, MemoryMoves DEF MemoryInv, M!ShownOnce

(* memorySearch takes what the words match and begins to repair. *)
LEMMA SearchStep ==
    ASSUME M!MemoryConstants, MemoryInv, NEW c \in Searches, NEW conv \in Conversations, NEW ask \in SUBSET M!Statuses,
           M!memorySearch(c, conv, ask)
    PROVE  MemoryInv'
<1>1. PICK words \in SUBSET M!Saved, s \in SUBSET M!Saved :
         memoryCalls' = [memoryCalls EXCEPT ![c] = [M!Idle EXCEPT !.op = "search", !.pc = "store", !.conv = conv, !.ask = ask,
             !.found = words, !.batch = {M!Copy(i) : i \in s}, !.seen = {i \in Ids : <<conv, i>> \in shown}]]
  BY DEF M!memorySearch, M!Batches, M!Unmarked
<1> DEFINE C == {M!Copy(i) : i \in s}
           seen == {i \in Ids : <<conv, i>> \in shown}
           q == [M!Idle EXCEPT !.op = "search", !.pc = "store", !.conv = conv, !.ask = ask, !.found = words, !.batch = C, !.seen = seen]
<1>2. C \subseteq CopySet /\ \A b \in C : b.id \in M!Saved /\ b.id \in used /\ b.text \in 1..lastText
  BY Copies
<1>3. seen \subseteq Ids /\ words \subseteq Ids
  BY DEF M!Saved
<1>4. memoryCalls' = [memoryCalls EXCEPT ![c] = q]
  BY <1>1
<1> HIDE DEF C, seen
<1>5. q \in MemoryCallRows /\ q.pc = "store" /\ q.batch = C /\ q.conv = conv
  BY <1>2, <1>3 DEF M!Idle, MemoryCallRows, Stages
<1> HIDE DEF q
<1>6. memoryCalls'[c] = q
  BY <1>4, <1>5, OneSearch DEF MemoryInv
<1>7. UNCHANGED <<rows, used, lastText, vectors, shown, forgotten, repeated>>
  BY DEF M!memorySearch
<1>8. MemoryFits(c)'
  BY <1>2, <1>5, <1>6, <1>7 DEF MemoryFits
<1>9. shown' \subseteq Conversations \X Ids /\ repeated' = {}
  BY <1>7 DEF MemoryInv, RowsTyped, M!ShownOnce
<1>10. QED  BY <1>2, <1>4, <1>5, <1>7, <1>8, <1>9, MemoryGoes

(* The store answers a search. *)
LEMMA QueryStep == ASSUME M!MemoryConstants, MemoryInv, NEW c \in Searches, M!Query(c) PROVE MemoryInv'
<1> DEFINE p == memoryCalls[c]
<1>1. PICK hits \in SUBSET Ids : memoryCalls' = [memoryCalls EXCEPT ![c].pc = "answer", ![c].found = @ \cup hits]
  BY DEF M!Query
<1> DEFINE found == p.found \cup hits
           q == [p EXCEPT !.pc = "answer", !.found = found]
<1>2. p \in MemoryCallRows /\ MemoryFits(c) /\ UNCHANGED <<rows, used, lastText, vectors, shown, forgotten, repeated>> /\ p.pc = "query"
  BY DEF M!Query, MemoryInv
<1>3. found \subseteq Ids
  BY <1>2 DEF MemoryCallRows
<1>4. memoryCalls' = [memoryCalls EXCEPT ![c] = q]
  BY <1>1
<1> HIDE DEF found
<1>5. q \in MemoryCallRows /\ q.pc = "answer" /\ q.batch = p.batch /\ q.op = p.op /\ q.conv = p.conv
  BY <1>2, <1>3 DEF MemoryCallRows, Stages
<1> HIDE DEF q
<1>6. memoryCalls'[c] = q
  BY <1>4, <1>5, OneSearch DEF MemoryInv
<1>7. MemoryFits(c)'
  BY <1>2, <1>5, <1>6 DEF MemoryFits
<1>8. shown' \subseteq Conversations \X Ids /\ repeated' = {}
  BY <1>2 DEF MemoryInv, RowsTyped, M!ShownOnce
<1>9. QED  BY <1>2, <1>4, <1>5, <1>7, <1>8, MemoryGoes

(* The answer is made of rows looked up at that moment, those suppressed by then left out. *)
LEMMA AnswerStep == ASSUME M!MemoryConstants, MemoryInv, NEW c \in Searches, M!Answer(c) PROVE MemoryInv'
<1> DEFINE p == memoryCalls[c]
           visible(include) == {i \in p.found : M!Fits(c, i)} \ (IF include THEN {} ELSE M!Suppressed(c))
<1>0. PICK include \in BOOLEAN, acknowledge \in BOOLEAN : \E top \in SUBSET visible(include) :
         /\ shown' = IF acknowledge THEN shown \cup {<<p.conv, i>> : i \in top} ELSE shown
         /\ repeated' = IF include THEN repeated ELSE repeated \cup ({<<p.conv, i>> : i \in top} \cap shown)
         /\ memoryCalls' = [memoryCalls EXCEPT ![c].pc = "answered", ![c].found = {}, ![c].seen = {},
                                               ![c].answer = {M!Copy(i) : i \in top}]
  BY DEF M!Answer
<1>1. PICK top \in SUBSET visible(include) :
         /\ shown' = IF acknowledge THEN shown \cup {<<p.conv, i>> : i \in top} ELSE shown
         /\ repeated' = IF include THEN repeated ELSE repeated \cup ({<<p.conv, i>> : i \in top} \cap shown)
         /\ memoryCalls' = [memoryCalls EXCEPT ![c].pc = "answered", ![c].found = {}, ![c].seen = {},
                                               ![c].answer = {M!Copy(i) : i \in top}]
  BY <1>0
<1> DEFINE C == {M!Copy(i) : i \in top}
           q == [p EXCEPT !.pc = "answered", !.found = {}, !.seen = {}, !.answer = C]
<1>2. p \in MemoryCallRows /\ MemoryFits(c) /\ UNCHANGED <<rows, used, lastText, vectors, forgotten>> /\ p.pc = "answer"
  BY DEF M!Answer, MemoryInv
<1>3. memoryCalls' = [memoryCalls EXCEPT ![c] = q]
  BY <1>1
<1>4. top \subseteq M!Saved /\ top \subseteq Ids /\ \A i \in top : rows[i].status \in p.ask /\ (include \/ <<p.conv, i>> \notin shown)
  BY <1>1 DEF M!Fits, M!Suppressed, M!Saved
<1>5. C \subseteq CopySet
  BY <1>4, Copies
<1>6. \A a \in C : \E i \in top : a = M!Copy(i) /\ a.id = i /\ a.status = rows[i].status
  BY DEF M!Copy
<1> HIDE DEF C
<1>7. q \in MemoryCallRows /\ q.pc = "answered" /\ q.batch = p.batch /\ q.op = p.op /\ q.conv = p.conv /\ q.answer = C /\ q.ask = p.ask
  BY <1>2, <1>5 DEF MemoryCallRows, Stages
<1> HIDE DEF q
<1>8. memoryCalls'[c] = q
  BY <1>3, <1>7, OneSearch DEF MemoryInv
<1>9. \A a \in C : a.id \in M!Saved' /\ a = M!Copy(a.id)' /\ a.status \in p.ask
  BY <1>2, <1>4, <1>6 DEF M!Saved, M!Copy
<1>10. MemoryFits(c)'
  BY <1>2, <1>7, <1>8, <1>9 DEF MemoryFits
<1>11. repeated' = {}
  BY <1>1, <1>4 DEF MemoryInv, M!ShownOnce
<1>12. shown' \subseteq Conversations \X Ids
  <2>1. p.conv \in Conversations
    BY <1>2 DEF MemoryFits
  <2>2. QED  BY <1>1, <1>4, <2>1 DEF MemoryInv, RowsTyped
<1>13. QED  BY <1>2, <1>3, <1>7, <1>10, <1>11, <1>12, MemoryGoes

(* A suppression that is pruned leaves fewer of them. *)
LEMMA PruneStep == ASSUME M!MemoryConstants, MemoryInv, M!Settled, NEW s \in shown, M!pruneSuppressions(s) PROVE MemoryInv'
<1>1. shown' \subseteq shown /\ repeated' = {} /\ UNCHANGED <<rows, used, lastText, vectors, memoryCalls, forgotten>>
  BY DEF M!pruneSuppressions, MemoryInv, M!ShownOnce
<1>2. RowsTyped' /\ M!Saved' = M!Saved
  BY <1>1 DEF MemoryInv, RowsTyped, M!Saved
<1>3. \A c \in Searches : MemoryFits(c)'
  BY <1>1, <1>2 DEF MemoryInv, MemoryFits, M!BatchIds, M!Copy
<1>4. QED  BY <1>1, <1>2, <1>3 DEF MemoryInv, M!MarkedIsIndexed, Forgotten, M!ShownOnce, M!BatchIds

(* Every step of the memories keeps the invariant. *)
LEMMA MemoryStep == ASSUME M!MemoryConstants, MemoryInv, [M!Next]_M!vars PROVE MemoryInv'
<1>1. CASE \E c \in Searches : M!Pending(c)
  <2>1. PICK c \in Searches : M!Pending(c)
    BY <1>1
  <2>2. CASE M!DropVector(c)
    BY <2>2, DropStep
  <2>3. CASE M!DropFails(c)
    BY <2>3, MemoryEnds DEF M!DropFails
  <2>4. CASE M!StoreVectors(c)
    BY <2>4, StoreStep
  <2>5. CASE M!MarkRows(c)
    BY <2>5, MarkStep
  <2>6. CASE M!IndexFails(c)
    BY <2>6, FailStep
  <2>7. CASE M!Query(c)
    BY <2>7, QueryStep
  <2>8. CASE M!Answer(c)
    BY <2>8, AnswerStep
  <2>9. CASE M!Answered(c)
    BY <2>9, MemoryEnds DEF M!Answered
  <2>10. QED  BY <2>1, <2>2, <2>3, <2>4, <2>5, <2>6, <2>7, <2>8, <2>9 DEF M!Pending
<1>2. CASE M!Settled /\ \E c \in Searches : M!MemoryCall(c)
  <2>1. PICK c \in Searches : M!MemoryCall(c)
    BY <1>2
  <2>2. ASSUME NEW i \in Ids, M!memoryUpsert(c, i) PROVE MemoryInv'
    BY <1>2, <2>2, UpsertStep
  <2>3. ASSUME NEW i \in Ids, M!SoftDelete(c, i) PROVE MemoryInv'
    BY <1>2, <2>3, SoftDeleteStep
  <2>4. ASSUME NEW i \in Ids, M!ForceDelete(c, i) PROVE MemoryInv'
    BY <1>2, <2>4, ForceDeleteStep
  <2>5. ASSUME NEW conv \in Conversations, NEW ask \in {{"active"}, {"active", "archived"}}, M!memorySearch(c, conv, ask) PROVE MemoryInv'
    <3>1. ask \in SUBSET M!Statuses
      BY DEF M!Statuses
    <3>2. QED  BY <2>5, <3>1, SearchStep
  <2>6. CASE M!memoryReindex(c)
    BY <1>2, <2>6, ReindexStep
  <2>7. QED  BY <2>1, <2>2, <2>3, <2>4, <2>5, <2>6 DEF M!MemoryCall
<1>3. CASE M!Settled /\ \E s \in shown : M!pruneSuppressions(s)
  BY <1>3, PruneStep
<1>4. CASE UNCHANGED M!vars
  <2>1. RowsTyped' /\ M!Saved' = M!Saved
    BY <1>4 DEF M!vars, MemoryInv, RowsTyped, M!Saved
  <2>2. \A c \in Searches : MemoryFits(c)'
    BY <1>4, <2>1 DEF M!vars, MemoryInv, MemoryFits, M!BatchIds, M!Copy
  <2>3. QED  BY <1>4, <2>1, <2>2 DEF M!vars, MemoryInv, M!MarkedIsIndexed, Forgotten, M!ShownOnce, M!BatchIds
<1>5. QED  BY <1>1, <1>2, <1>3, <1>4 DEF M!Next

(* A call that embeds a row knows it by an id that is never given out again, so no vector comes back for a row deleted
   by force while nobody held a copy of it (cells/memory-cell.ts indexMemories, memoryDelete). *)
THEOREM MemoryKept == ASSUME M!MemoryConstants PROVE M!Spec => []MemoryInv
<1>1. M!Init => MemoryInv
  BY MemoryInit
<1>2. MemoryInv /\ [M!Next]_M!vars => MemoryInv'
  BY MemoryStep
<1>3. QED  BY <1>1, <1>2, PTL DEF M!Spec

\* Of a row not crossed, whoever indexes it has its present text and status, and so has the vector once it is stored or marked.
VectorIsOwn(i) == vectors[i] = [text |-> rows[i].text, status |-> rows[i].status]

CurrentInv ==
    \A i \in M!Saved \ crossed :
        /\ rows[i].marked => VectorIsOwn(i)
        /\ \A c \in Searches : \A b \in memoryCalls[c].batch :
              b.id = i => b.text = rows[i].text /\ b.status = rows[i].status /\ (memoryCalls[c].pc = "mark" => VectorIsOwn(i))

\* Outside W no row is written or marked and no vector stored; a call reads only what is there now; what W is then.
StaysOutside(W) ==
    /\ crossed \subseteq crossed' \cup W /\ M!Saved' \subseteq M!Saved \cup W
    /\ \A i \in M!Saved' \ W : /\ rows'[i].text = rows[i].text /\ rows'[i].status = rows[i].status
                             /\ vectors'[i] = vectors[i] /\ (rows'[i].marked => rows[i].marked)

ReadsPresent(W, p, q) ==
    \A b \in q.batch : \/ b \in p.batch /\ (q.pc = "mark" => p.pc = "mark")
                       \/ b.id \in W
                       \/ q.pc # "mark" /\ b.text = rows[b.id].text /\ b.status = rows[b.id].status

OwnThen(i) ==
    /\ rows'[i].marked => VectorIsOwn(i)'
    /\ \A d \in Searches : \A b \in memoryCalls'[d].batch :
          b.id = i => b.text = rows'[i].text /\ b.status = rows'[i].status /\ (memoryCalls'[d].pc = "mark" => VectorIsOwn(i)')

(* Rows that are neither written nor marked stay current, as long as whoever indexes them has read them since
   (cells/memory-cell.ts indexMemories). *)
LEMMA CurrentMoves ==
    ASSUME MemoryInv, CurrentInv, NEW c \in Searches, NEW q \in MemoryCallRows, memoryCalls' = [memoryCalls EXCEPT ![c] = q],
           NEW W, StaysOutside(W), ReadsPresent(W, memoryCalls[c], q), \A i \in (M!Saved' \ crossed') \cap W : OwnThen(i)
    PROVE  CurrentInv'
<1>1. memoryCalls'[c] = q /\ \A d \in Searches \ {c} : memoryCalls'[d] = memoryCalls[d]
  BY OneSearch DEF MemoryInv
<1>2. ASSUME NEW i \in M!Saved' \ crossed', i \notin W PROVE OwnThen(i)
  <2>1. i \in M!Saved \ crossed /\ (VectorIsOwn(i) => VectorIsOwn(i)')
    BY <1>2 DEF VectorIsOwn, StaysOutside
  <2>2. ASSUME NEW d \in Searches, NEW b \in memoryCalls'[d].batch, b.id = i
        PROVE  b.text = rows'[i].text /\ b.status = rows'[i].status /\ (memoryCalls'[d].pc = "mark" => VectorIsOwn(i)')
    BY <1>1, <1>2, <2>1, <2>2 DEF CurrentInv, StaysOutside, ReadsPresent
  <2>3. QED  BY <1>2, <2>1, <2>2 DEF CurrentInv, StaysOutside, OwnThen
<1>3. \A i \in M!Saved' \ crossed' : OwnThen(i)
  BY <1>2
<1>4. QED  BY <1>3 DEF CurrentInv, OwnThen

(* A row that is written is unmarked and in the hands of its writer alone, or crossed (cells/memory-cell.ts memoryUpsert, memoryDelete). *)
LEMMA CurrentWritten ==
    ASSUME M!MemoryConstants, MemoryInv, MemoryInv', CurrentInv, NEW c \in Searches, memoryCalls[c].pc = "idle",
           NEW op \in {"upsert", "delete"}, NEW i \in Ids, NEW row \in RowSet, ~row.marked, rows' = [rows EXCEPT ![i] = row],
           M!IndexWritten(c, op, i), M!Crosses(i), UNCHANGED vectors
    PROVE  CurrentInv'
<1> DEFINE b0 == [id |-> i, text |-> rows'[i].text, status |-> rows'[i].status]
           q == [M!Idle EXCEPT !.op = op, !.pc = "store", !.batch = {b0}]
<1>1. RowsTyped /\ memoryCalls \in [Searches -> MemoryCallRows] /\ memoryCalls' \in [Searches -> MemoryCallRows]
  BY DEF MemoryInv
<1>2. rows'[i] = row /\ \A j \in Ids \ {i} : rows'[j] = rows[j]
  BY <1>1 DEF RowsTyped
<1>3. memoryCalls' = [memoryCalls EXCEPT ![c] = q]
  BY DEF M!IndexWritten
<1>4. q.pc = "store" /\ q.batch = {b0}
  BY DEF M!Idle
<1> HIDE DEF q
<1>5. memoryCalls'[c] = q /\ q \in MemoryCallRows /\ \A d \in Searches \ {c} : memoryCalls'[d] = memoryCalls[d]
  BY <1>1, <1>3
<1>6. crossed \subseteq crossed' \cup {i} /\ M!Saved' \subseteq M!Saved \cup {i}
  BY <1>2 DEF M!Crosses, M!Saved
<1>7. \A j \in M!Saved' \ {i} : j \in Ids \ {i}
  BY DEF M!Saved
<1>8. i \notin crossed' => \A d \in Searches : \A b \in memoryCalls[d].batch : b.id # i
  BY DEF M!Crosses, M!BatchIds
<1>9. ASSUME i \notin crossed', NEW d \in Searches, NEW b \in memoryCalls'[d].batch, b.id = i
      PROVE  b.text = rows'[i].text /\ b.status = rows'[i].status /\ memoryCalls'[d].pc # "mark"
  <2>1. d = c
    BY <1>5, <1>8, <1>9
  <2>2. b = b0 /\ memoryCalls'[d].pc = "store"
    BY <1>4, <1>5, <1>9, <2>1
  <2>3. QED  BY <2>2
<1>10. b0.id = i
  OBVIOUS
<1> HIDE DEF b0
<1>11. StaysOutside({i})
  BY <1>2, <1>6, <1>7 DEF StaysOutside
<1>12. ReadsPresent({i}, memoryCalls[c], q)
  BY <1>4, <1>10 DEF ReadsPresent
<1>13. \A j \in (M!Saved' \ crossed') \cap {i} : OwnThen(j)
  BY <1>2, <1>9 DEF OwnThen
<1>14. QED  BY <1>3, <1>5, <1>11, <1>12, <1>13, CurrentMoves

(* The other steps of the memories: indexing stores what it read, marks what it stored (cells/memory-cell.ts). *)
LEMMA CurrentStep == ASSUME M!MemoryConstants, MemoryInv, MemoryInv', CurrentInv, [M!Next]_M!vars PROVE CurrentInv'
<1>1. RowsTyped /\ memoryCalls \in [Searches -> MemoryCallRows] /\ memoryCalls' \in [Searches -> MemoryCallRows] /\ M!Saved \subseteq Ids
  BY DEF MemoryInv, M!Saved
<1>2. ASSUME NEW c \in Searches, NEW q, memoryCalls' = [memoryCalls EXCEPT ![c] = q], UNCHANGED <<rows, vectors, crossed>>,
             q.batch \subseteq memoryCalls[c].batch, q.pc = "mark" => memoryCalls[c].pc = "mark"
      PROVE  CurrentInv'
  <2>1. q \in MemoryCallRows
    BY <1>1, <1>2
  <2>2. M!Saved' = M!Saved
    BY <1>2 DEF M!Saved
  <2>3. StaysOutside({}) /\ ReadsPresent({}, memoryCalls[c], q)
    BY <1>2, <2>2 DEF StaysOutside, ReadsPresent
  <2>4. QED  BY <1>2, <2>1, <2>3, CurrentMoves
<1>3. M!Idle.batch = {} /\ M!Idle.pc = "idle"
  BY MemoryIdle
<1>4. CASE \E c \in Searches : M!Pending(c)
  <2>1. PICK c \in Searches : M!Pending(c)
    BY <1>4
  <2> DEFINE p == memoryCalls[c]
  <2>2. p \in MemoryCallRows
    BY <1>1
  <2>3. CASE M!DropVector(c)
    <3>1. p.id \in Ids \ M!Saved
      BY <2>3 DEF M!DropVector, MemoryInv, MemoryFits, RowsTyped
    <3>2. /\ UNCHANGED <<rows, crossed>> /\ vectors' = [vectors EXCEPT ![p.id] = None]
          /\ memoryCalls' = [memoryCalls EXCEPT ![c] = M!Idle]
      BY <2>3 DEF M!DropVector
    <3>3. M!Saved' = M!Saved /\ \A i \in M!Saved : vectors'[i] = vectors[i]
      BY <1>1, <3>1, <3>2 DEF M!Saved, RowsTyped
    <3>4. StaysOutside({}) /\ ReadsPresent({}, p, M!Idle)
      BY <1>3, <3>2, <3>3 DEF StaysOutside, ReadsPresent
    <3>5. QED  BY <3>2, <3>4, MemoryIdle, CurrentMoves
  <2>4. CASE M!DropFails(c) \/ M!Answered(c)
    BY <1>2, <1>3, <2>4 DEF M!DropFails, M!Answered
  <2>5. CASE M!IndexFails(c)
    <3> DEFINE q == [p EXCEPT !.pc = "answer", !.batch = {}]
    <3>1. q.pc = "answer" /\ q.batch = {}
      BY <2>2 DEF MemoryCallRows
    <3>2. /\ UNCHANGED <<rows, vectors, crossed>>
          /\ memoryCalls' = [memoryCalls EXCEPT ![c] = q] \/ memoryCalls' = [memoryCalls EXCEPT ![c] = M!Idle]
      BY <2>5 DEF M!IndexFails, M!FailUnmarked
    <3> HIDE DEF q
    <3>3. QED  BY <1>2, <1>3, <3>1, <3>2
  <2>6. CASE M!Query(c)
    <3>1. PICK hits : memoryCalls' = [memoryCalls EXCEPT ![c] = [p EXCEPT !.pc = "answer", !.found = p.found \cup hits]]
      BY <2>6 DEF M!Query
    <3> DEFINE q == [p EXCEPT !.pc = "answer", !.found = p.found \cup hits]
    <3>2. q.pc = "answer" /\ q.batch = p.batch
      BY <2>2 DEF MemoryCallRows
    <3> HIDE DEF q
    <3>3. QED  BY <1>2, <2>6, <3>1, <3>2 DEF M!Query, q
  <2>7. CASE M!Answer(c)
    <3>1. PICK top : memoryCalls' = [memoryCalls EXCEPT ![c] = [p EXCEPT !.pc = "answered", !.found = {}, !.seen = {}, !.answer = {M!Copy(i) : i \in top}]]
      BY <2>7 DEF M!Answer
    <3> DEFINE q == [p EXCEPT !.pc = "answered", !.found = {}, !.seen = {}, !.answer = {M!Copy(i) : i \in top}]
    <3>2. q.pc = "answered" /\ q.batch = p.batch
      BY <2>2 DEF MemoryCallRows
    <3>3. memoryCalls' = [memoryCalls EXCEPT ![c] = q]
      BY <3>1
    <3> HIDE DEF q
    <3>4. QED  BY <1>2, <2>7, <3>2, <3>3 DEF M!Answer
  <2>8. CASE M!StoreVectors(c)
    <3> DEFINE q == [p EXCEPT !.pc = "mark"]
               W == M!BatchIds(c)
               of(i) == CHOOSE b \in p.batch : b.id = i
    <3>1. q.pc = "mark" /\ q.batch = p.batch
      BY <2>2 DEF MemoryCallRows
    <3>2. /\ memoryCalls' = [memoryCalls EXCEPT ![c] = q] /\ UNCHANGED <<rows, crossed>>
          /\ vectors' = [i \in Ids |-> IF i \in W THEN [text |-> of(i).text, status |-> of(i).status] ELSE vectors[i]]
      BY <2>8 DEF M!StoreVectors
    <3> HIDE DEF q
    <3>3. M!Saved' = M!Saved /\ memoryCalls'[c] = q /\ \A d \in Searches \ {c} : memoryCalls'[d] = memoryCalls[d]
      BY <1>1, <3>2 DEF M!Saved
    <3>4. \A i \in W : of(i) \in p.batch /\ of(i).id = i
      BY DEF M!BatchIds
    <3> HIDE DEF of
    <3>5. ASSUME NEW i \in (M!Saved \ crossed) \cap W
          PROVE  VectorIsOwn(i)' /\ \A d \in Searches : \A b \in memoryCalls'[d].batch : b.id = i => b.text = rows[i].text /\ b.status = rows[i].status
      <4>1. of(i).text = rows[i].text /\ of(i).status = rows[i].status /\ i \in Ids
        BY <1>1, <3>4, <3>5 DEF CurrentInv
      <4>2. VectorIsOwn(i)'
        BY <3>2, <3>5, <4>1 DEF VectorIsOwn
      <4>3. \A d \in Searches : memoryCalls'[d].batch = memoryCalls[d].batch
        BY <3>1, <3>3
      <4>4. QED  BY <3>5, <4>2, <4>3 DEF CurrentInv
    <3>6. \A b \in q.batch : b.id \in W
      BY <3>1 DEF M!BatchIds
    <3> HIDE DEF W
    <3>7. \A i \in M!Saved' \ W : vectors'[i] = vectors[i]
      BY <1>1, <3>2, <3>3
    <3>8. q \in MemoryCallRows
      BY <1>1, <3>3
    <3>9. StaysOutside(W) /\ ReadsPresent(W, p, q)
      BY <3>2, <3>3, <3>6, <3>7 DEF StaysOutside, ReadsPresent
    <3>10. \A i \in (M!Saved' \ crossed') \cap W : OwnThen(i)
      BY <3>2, <3>3, <3>5 DEF OwnThen
    <3>11. QED  BY <3>2, <3>8, <3>9, <3>10, CurrentMoves
  <2>9. CASE M!MarkRows(c)
    <3> DEFINE W == M!BatchIds(c) \cap M!Saved
               mark(i) == [rows[i] EXCEPT !.marked = TRUE]
    <3>1. PICK s \in SUBSET (M!Unmarked \ M!BatchIds(c)) : memoryCalls' = [memoryCalls EXCEPT ![c] = M!AfterIndex(c, {M!Copy(i) : i \in s})]
      BY <2>9 DEF M!MarkRows, M!Batches
    <3> DEFINE C == {M!Copy(i) : i \in s}
               r == M!AfterIndex(c, C)
    <3>2. /\ p.pc = "mark" /\ UNCHANGED <<vectors, crossed>>
          /\ rows' = [i \in Ids |-> IF i \in W THEN mark(i) ELSE rows[i]]
      BY <2>9 DEF M!MarkRows
    <3>3. memoryCalls' = [memoryCalls EXCEPT ![c] = r]
      BY <3>1
    <3>4. r.pc \in {"query", "store", "idle"} /\ (r.batch = {} \/ r.batch = C)
      BY <1>3, <2>2 DEF M!AfterIndex, MemoryCallRows
    <3>5. \A b \in C : b.id \in M!Saved /\ b.text = rows[b.id].text /\ b.status = rows[b.id].status
      BY DEF M!Copy, M!Unmarked
    <3> HIDE DEF C, r
    <3>6. r \in MemoryCallRows /\ memoryCalls'[c] = r /\ \A d \in Searches \ {c} : memoryCalls'[d] = memoryCalls[d]
      BY <1>1, <3>3
    <3>7. \A i \in M!Saved : rows[i] \in RowSet /\ i \in Ids
      BY SavedRow
    <3>8. \A i \in M!Saved : mark(i).text = rows[i].text /\ mark(i).status = rows[i].status
      BY <3>7 DEF RowSet
    <3> HIDE DEF mark
    <3>9. M!Saved' \subseteq M!Saved
      BY <3>2 DEF M!Saved
    <3>10. \A i \in M!Saved' : rows'[i].text = rows[i].text /\ rows'[i].status = rows[i].status /\ (i \notin W => rows'[i] = rows[i])
      BY <3>2, <3>7, <3>8, <3>9
    <3>11. \A i \in (M!Saved \ crossed) \cap W : VectorIsOwn(i)
      BY <3>2 DEF CurrentInv, M!BatchIds
    <3>12. \A i \in M!Saved' : VectorIsOwn(i) => VectorIsOwn(i)'
      BY <3>2, <3>10 DEF VectorIsOwn
    <3>13. ASSUME NEW i \in (M!Saved' \ crossed') \cap W, NEW d \in Searches, NEW b \in memoryCalls'[d].batch, b.id = i
           PROVE  b.text = rows'[i].text /\ b.status = rows'[i].status
      <4>1. CASE d = c
        BY <3>4, <3>5, <3>6, <3>10, <3>13, <4>1
      <4>2. CASE d # c
        BY <3>2, <3>6, <3>9, <3>10, <3>13, <4>2 DEF CurrentInv
      <4>3. QED  BY <4>1, <4>2
    <3> HIDE DEF W
    <3>14. StaysOutside(W)
      BY <3>2, <3>9, <3>10 DEF StaysOutside
    <3>15. ReadsPresent(W, p, r)
      BY <3>4, <3>5 DEF ReadsPresent
    <3>16. \A i \in (M!Saved' \ crossed') \cap W : OwnThen(i)
      BY <3>2, <3>9, <3>11, <3>12, <3>13 DEF OwnThen
    <3>17. QED  BY <3>3, <3>6, <3>14, <3>15, <3>16, CurrentMoves
  <2>10. QED  BY <2>1, <2>3, <2>4, <2>5, <2>6, <2>7, <2>8, <2>9 DEF M!Pending
<1>5. CASE M!Settled /\ \E c \in Searches : M!MemoryCall(c)
  <2>1. PICK c \in Searches : M!MemoryCall(c)
    BY <1>5
  <2>2. ASSUME NEW i \in Ids, M!memoryUpsert(c, i) PROVE CurrentInv'
    <3>1. PICK status \in M!Statuses : M!Write(i, status)
      BY <2>2 DEF M!memoryUpsert
    <3> DEFINE no == FALSE
               row == [text |-> lastText + 1, status |-> status, marked |-> no]
    <3>2. ~no /\ no \in BOOLEAN /\ lastText + 1 \in Nat
      BY <1>1 DEF RowsTyped, M!MemoryConstants
    <3>3. rows' = [rows EXCEPT ![i] = row]
      BY <3>1 DEF M!Write
    <3> HIDE DEF no
    <3>4. row \in RowSet /\ ~row.marked
      BY <3>2 DEF RowSet
    <3> HIDE DEF row
    <3>5. QED  BY <2>2, <3>3, <3>4, CurrentWritten DEF M!memoryUpsert
  <2>3. ASSUME NEW i \in Ids, M!SoftDelete(c, i) PROVE CurrentInv'
    <3> DEFINE no == FALSE
               deleted == "deleted"
               row == [rows[i] EXCEPT !.status = deleted, !.marked = no]
    <3>1. rows' = [rows EXCEPT ![i] = row]
      BY <2>3 DEF M!SoftDelete
    <3>2. ~no /\ no \in BOOLEAN /\ deleted \in M!Statuses
      BY DEF M!Statuses
    <3> HIDE DEF no, deleted
    <3>3. row \in RowSet /\ ~row.marked
      BY <2>3, <3>2, SavedRow DEF RowSet, M!SoftDelete
    <3> HIDE DEF row
    <3>4. QED  BY <2>3, <3>1, <3>3, CurrentWritten DEF M!SoftDelete
  <2>4. ASSUME NEW i \in Ids, M!ForceDelete(c, i) PROVE CurrentInv'
    <3> DEFINE q == [M!Idle EXCEPT !.op = "force", !.pc = "drop", !.id = i]
    <3>1. rows' = [rows EXCEPT ![i] = None] /\ memoryCalls' = [memoryCalls EXCEPT ![c] = q] /\ UNCHANGED <<vectors, crossed>>
      BY <2>4 DEF M!ForceDelete
    <3>2. q.batch = {} /\ q.pc = "drop"
      BY DEF M!Idle
    <3> HIDE DEF q
    <3>3. q \in MemoryCallRows
      BY <1>1, <3>1
    <3>4. M!Saved' \subseteq M!Saved /\ \A j \in M!Saved' : rows'[j] = rows[j]
      BY <1>1, <3>1 DEF M!Saved, RowsTyped
    <3>5. StaysOutside({}) /\ ReadsPresent({}, memoryCalls[c], q)
      BY <3>1, <3>2, <3>4 DEF StaysOutside, ReadsPresent
    <3>6. QED  BY <3>1, <3>3, <3>5, CurrentMoves
  <2>5. ASSUME NEW q, NEW s \in SUBSET M!Saved, memoryCalls' = [memoryCalls EXCEPT ![c] = q], UNCHANGED <<vectors, crossed>>,
               q.pc = "store", q.batch = {M!Copy(i) : i \in s},
               M!Saved' \subseteq M!Saved,
               \A i \in M!Saved' : rows'[i].text = rows[i].text /\ rows'[i].status = rows[i].status /\ (rows'[i].marked => rows[i].marked)
        PROVE  CurrentInv'
    <3>1. \A b \in q.batch : b.text = rows[b.id].text /\ b.status = rows[b.id].status
      BY <2>5 DEF M!Copy
    <3>2. q \in MemoryCallRows
      BY <1>1, <2>5
    <3>3. StaysOutside({}) /\ ReadsPresent({}, memoryCalls[c], q)
      BY <2>5, <3>1 DEF StaysOutside, ReadsPresent
    <3>4. QED  BY <2>5, <3>2, <3>3, CurrentMoves
  <2>6. ASSUME NEW conv \in Conversations, NEW ask, M!memorySearch(c, conv, ask) PROVE CurrentInv'
    <3>1. PICK words, s \in SUBSET M!Saved :
             memoryCalls' = [memoryCalls EXCEPT ![c] = [M!Idle EXCEPT !.op = "search", !.pc = "store", !.conv = conv, !.ask = ask,
                 !.found = words, !.batch = {M!Copy(i) : i \in s}, !.seen = {i \in Ids : <<conv, i>> \in shown}]]
      BY <2>6 DEF M!memorySearch, M!Batches, M!Unmarked
    <3> DEFINE q == [M!Idle EXCEPT !.op = "search", !.pc = "store", !.conv = conv, !.ask = ask,
                 !.found = words, !.batch = {M!Copy(i) : i \in s}, !.seen = {i \in Ids : <<conv, i>> \in shown}]
    <3>2. q.pc = "store" /\ q.batch = {M!Copy(i) : i \in s}
      BY DEF M!Idle
    <3>3. memoryCalls' = [memoryCalls EXCEPT ![c] = q]
      BY <3>1
    <3> HIDE DEF q
    <3>4. UNCHANGED <<rows, vectors, crossed>> /\ M!Saved' = M!Saved
      BY <2>6 DEF M!memorySearch, M!Saved
    <3>5. QED  BY <2>5, <3>2, <3>3, <3>4
  <2>7. CASE M!memoryReindex(c)
    <3>1. PICK s \in SUBSET M!Saved :
             memoryCalls' = [memoryCalls EXCEPT ![c] = [M!Idle EXCEPT !.op = "reindex", !.pc = "store", !.batch = {M!Copy(i) : i \in s}]]
      BY <2>7 DEF M!memoryReindex, M!Batches
    <3> DEFINE q == [M!Idle EXCEPT !.op = "reindex", !.pc = "store", !.batch = {M!Copy(i) : i \in s}]
               clear(i) == [rows[i] EXCEPT !.marked = FALSE]
    <3>2. q.pc = "store" /\ q.batch = {M!Copy(i) : i \in s}
      BY DEF M!Idle
    <3>3. memoryCalls' = [memoryCalls EXCEPT ![c] = q]
      BY <3>1
    <3> HIDE DEF q
    <3>4. UNCHANGED <<vectors, crossed>> /\ rows' = [i \in Ids |-> IF i \in M!Saved THEN clear(i) ELSE None]
      BY <2>7 DEF M!memoryReindex
    <3>5. \A i \in M!Saved : rows[i] \in RowSet /\ i \in Ids
      BY SavedRow
    <3>6. \A i \in M!Saved : clear(i).text = rows[i].text /\ clear(i).status = rows[i].status /\ ~clear(i).marked
      BY <3>5 DEF RowSet
    <3> HIDE DEF clear
    <3>7. M!Saved' \subseteq M!Saved
      BY <3>4 DEF M!Saved
    <3>8. \A i \in M!Saved' : rows'[i] = clear(i)
      BY <3>4, <3>5, <3>7
    <3>9. QED  BY <2>5, <3>2, <3>3, <3>4, <3>6, <3>7, <3>8
  <2>8. QED  BY <2>1, <2>2, <2>3, <2>4, <2>6, <2>7 DEF M!MemoryCall
<1>6. CASE UNCHANGED <<rows, vectors, crossed, memoryCalls>>
  BY <1>6 DEF CurrentInv, VectorIsOwn, M!Saved
<1>7. QED
  <2>1. CASE M!Settled /\ \E s \in shown : M!pruneSuppressions(s)
    BY <1>6, <2>1 DEF M!pruneSuppressions
  <2>2. CASE UNCHANGED M!vars
    BY <1>6, <2>2 DEF M!vars
  <2>3. QED  BY <1>4, <1>5, <2>1, <2>2 DEF M!Next

(* The vector store follows the table of memories: what is marked has a vector, that of its text and status unless it was
   written while an indexing had read it, and what was deleted by force, without failure and while nobody indexed it, has
   none (cells/memory-cell.ts indexMemories, memoryDelete). *)
THEOREM VectorsFollow == ASSUME M!MemoryConstants PROVE M!Spec => []VectorsFollowRows
<1>1. ASSUME MemoryInv, CurrentInv PROVE VectorsFollowRows
  <2>1. M!TypeOK
    <3>1. \A c \in Searches : memoryCalls[c].pc \in Stages /\ \A b \in memoryCalls[c].batch : b.id \in used
      BY <1>1 DEF MemoryInv, MemoryFits, MemoryCallRows
    <3>2. \A i \in M!Saved : rows[i].status \in M!Statuses /\ i \in used
      BY <1>1, SavedRow DEF RowSet
    <3>3. QED  BY <1>1, <3>1, <3>2 DEF MemoryInv, RowsTyped, M!TypeOK, Stages
  <2>2. M!ForgottenIsGone
    BY <1>1 DEF MemoryInv, Forgotten, M!ForgottenIsGone
  <2>3. M!MarkedIsCurrent
    BY <1>1 DEF CurrentInv, VectorIsOwn, M!MarkedIsCurrent
  <2>4. QED  BY <1>1, <2>1, <2>2, <2>3 DEF MemoryInv, VectorsFollowRows, M!VectorsFollowRows
<1>2. M!Init => CurrentInv
  BY DEF M!Init, CurrentInv, M!Saved
<1>3. MemoryInv /\ MemoryInv' /\ CurrentInv /\ [M!Next]_M!vars => CurrentInv'
  BY CurrentStep
<1>4. QED  BY <1>1, <1>2, <1>3, MemoryKept, PTL DEF M!Spec

(* A search answers rows as they are now and shows none twice while it is suppressed (cells/memory-cell.ts memorySearch). *)
THEOREM AnswersSound == ASSUME M!MemoryConstants PROVE M!Spec => []AnswerSound
<1>1. ASSUME MemoryInv PROVE AnswerSound
  BY <1>1 DEF MemoryInv, MemoryFits, AnswerSound, M!AnswerSound, M!AnswerIsCurrent
<1>2. QED  BY <1>1, MemoryKept, PTL

----------------------------------------------------------------------------
(* Package storage: keys in order, and pages of them *)

(* A set of numbers below a bound can be put in order: there is no least bound for which one could not. *)
LEMMA OrderExists ==
    ASSUME NEW max \in Nat, NEW ks \in SUBSET (1 .. max)
    PROVE  \E n \in 0 .. max : \E q \in [1 .. n -> ks] : Pages!ToSet(q) = ks /\ Pages!Ascending(q)
<1> DEFINE Orders(m, s) == \E n \in 0 .. m : \E q \in [1 .. n -> s] : Pages!ToSet(q) = s /\ Pages!Ascending(q)
           Bad == {m \in Nat : ~ \A s \in SUBSET (1 .. m) : Orders(m, s)}
<1>1. SUFFICES ASSUME Bad # {} PROVE FALSE
  <2>1. max \notin Bad
    BY <1>1
  <2>2. QED  BY <2>1
<1>2. PICK m \in Bad : \A k \in Bad : m <= k
  <2>1. Bad \in SUBSET Nat
    OBVIOUS
  <2> HIDE DEF Bad
  <2>2. QED  BY <1>1, <2>1, LeastOf
<1>3. PICK s \in SUBSET (1 .. m) : ~Orders(m, s)
  OBVIOUS
<1>4. m \in Nat
  OBVIOUS
<1>5. CASE m = 0
  <2> DEFINE q == [i \in 1 .. 0 |-> i]
  <2>1. s = {}
    BY <1>5
  <2>2. 1 .. 0 = {} /\ DOMAIN q = {} /\ q \in [1 .. 0 -> s]
    BY <2>1
  <2> HIDE DEF q
  <2>3. Pages!ToSet(q) = s /\ Pages!Ascending(q)
    BY <2>1, <2>2 DEF Pages!ToSet, Pages!Ascending
  <2>4. 0 \in 0 .. m
    BY <1>4
  <2>5. QED  BY <1>3, <2>2, <2>3, <2>4
<1>6. CASE m # 0
  <2> DEFINE r == s \ {m}
  <2>1. m - 1 \in Nat /\ ~(m <= m - 1) /\ r \in SUBSET (1 .. m - 1)
    BY <1>4, <1>6
  <2>2. m - 1 \notin Bad
    BY <1>2, <2>1
  <2>3. Orders(m - 1, r)
    BY <2>1, <2>2
  <2>4. PICK n \in 0 .. m - 1 : \E q \in [1 .. n -> r] : Pages!ToSet(q) = r /\ Pages!Ascending(q)
    BY <2>3
  <2>5. PICK q \in [1 .. n -> r] : Pages!ToSet(q) = r /\ Pages!Ascending(q)
    BY <2>4
  <2>6. n \in Nat /\ n + 1 \in 0 .. m /\ n \in 0 .. m
    BY <1>4, <2>4
  <2>7. CASE m \notin s
    <3>1. r = s
      BY <2>7
    <3>2. QED  BY <1>3, <2>5, <2>6, <3>1
  <2>8. CASE m \in s
    <3> DEFINE w == [i \in 1 .. n + 1 |-> IF i = n + 1 THEN m ELSE q[i]]
    <3>1. \A i \in 1 .. n : i \in 1 .. n + 1 /\ i # n + 1 /\ q[i] \in r
      BY <2>6
    <3>2. w \in [1 .. n + 1 -> s] /\ w[n + 1] = m /\ \A i \in 1 .. n : w[i] = q[i]
      BY <2>6, <2>8, <3>1
    <3>3. Pages!ToSet(w) = s
      <4>1. \A k \in s : \E i \in 1 .. n + 1 : w[i] = k
        <5>1. ASSUME NEW k \in s PROVE \E i \in 1 .. n + 1 : w[i] = k
          <6>1. CASE k = m
            BY <2>6, <3>2, <6>1
          <6>2. CASE k # m
            <7>1. \E i \in 1 .. n : q[i] = k
              BY <2>5, <6>2 DEF Pages!ToSet
            <7>2. QED  BY <3>1, <3>2, <7>1
          <6>3. QED  BY <6>1, <6>2
        <5>2. QED  BY <5>1
      <4>2. DOMAIN w = 1 .. n + 1
        OBVIOUS
      <4> HIDE DEF w
      <4>3. \A i \in 1 .. n + 1 : w[i] \in s
        BY <3>2
      <4>4. Pages!ToSet(w) = {w[i] : i \in 1 .. n + 1}
        BY <4>2 DEF Pages!ToSet
      <4>5. s \subseteq Pages!ToSet(w) /\ Pages!ToSet(w) \subseteq s
        BY <4>1, <4>3, <4>4
      <4>6. QED  BY <4>5
    <3>4. Pages!Ascending(w)
      <4>1. ASSUME NEW i \in 1 .. n + 1, NEW j \in 1 .. n + 1, i < j PROVE w[i] < w[j]
        <5>1. i \in 1 .. n /\ w[i] = q[i] /\ q[i] < m
          <6>1. i \in 1 .. n
            BY <2>6, <4>1
          <6>2. w[i] = q[i] /\ q[i] \in r
            BY <3>1, <3>2, <6>1
          <6>3. \A x \in r : x < m
            BY <1>4
          <6>4. QED  BY <6>1, <6>2, <6>3
        <5>2. CASE j = n + 1
          BY <3>2, <5>1, <5>2
        <5>3. CASE j # n + 1
          <6>1. j \in 1 .. n /\ DOMAIN q = 1 .. n
            BY <2>6, <4>1, <5>3
          <6>2. QED  BY <2>5, <3>2, <4>1, <5>1, <6>1 DEF Pages!Ascending
        <5>4. QED  BY <5>2, <5>3
      <4>2. DOMAIN w = 1 .. n + 1
        OBVIOUS
      <4> HIDE DEF w
      <4>3. QED  BY <4>1, <4>2 DEF Pages!Ascending
    <3> HIDE DEF w
    <3>5. QED  BY <1>3, <2>6, <3>2, <3>3, <3>4
  <2>9. QED  BY <2>7, <2>8
<1>7. QED  BY <1>5, <1>6

ScanRows == [state : {"idle", "open", "done"}, prefix : PrefixSets \cup {{}}, limit : Nat, cursor : 0 .. MaxKey, given : Seq(Pages!AllKeys)]

(* What a listing has given is in order and before its cursor, and it is all that was there all along up to there. *)
ScanFits(s) ==
    LET q == scan[s]
    IN  /\ Pages!Ascending(q.given) /\ steady[s] \subseteq Pages!Stored \cap q.prefix
        /\ q.state = "open" => /\ \A k \in Pages!ToSet(q.given) : k <= q.cursor
                               /\ \A k \in steady[s] : k <= q.cursor => k \in Pages!ToSet(q.given)
        /\ q.state = "done" => steady[s] \subseteq Pages!ToSet(q.given)

StorageInv ==
    /\ scan \in [Scans -> ScanRows] /\ steady \in [Scans -> SUBSET Pages!AllKeys]
    /\ \A s \in Scans : ScanFits(s)

(* A listing that was not begun has given nothing. *)
LEMMA NoScan == ASSUME Pages!StorageConstants PROVE Pages!Idle \in ScanRows /\ Pages!Idle.state = "idle" /\ Pages!Idle.prefix = {} /\ Pages!Ascending(Pages!Idle.given)
  BY DEF Pages!StorageConstants, Pages!Idle, ScanRows, Pages!Ascending

(* No listing was begun. *)
LEMMA StorageInit == ASSUME Pages!StorageConstants, Pages!Init PROVE StorageInv
  BY NoScan DEF Pages!Init, StorageInv, ScanFits

(* What is always there is there after a write of a key, or of all. *)
LEMMA WriteStep == ASSUME Pages!StorageConstants, StorageInv, Pages!StillThere, UNCHANGED scan PROVE StorageInv'
<1>1. \A s \in Scans : steady'[s] = steady[s] \cap Pages!Stored'
  BY DEF Pages!StillThere, Pages!Stored
<1>2. steady' \in [Scans -> SUBSET Pages!AllKeys]
  BY DEF Pages!StillThere, StorageInv
<1>3. \A s \in Scans : ScanFits(s)'
  BY <1>1 DEF StorageInv, ScanFits, Pages!Ascending, Pages!ToSet
<1>4. QED  BY <1>2, <1>3 DEF StorageInv

(* A step of one listing leaves what the others know. *)
LEMMA OneScan ==
    ASSUME StorageInv, NEW s \in Scans, NEW q \in ScanRows, scan' = [scan EXCEPT ![s] = q], UNCHANGED kv,
           steady' \in [Scans -> SUBSET Pages!AllKeys], \A z \in Scans \ {s} : steady'[z] = steady[z], ScanFits(s)'
    PROVE  StorageInv'
<1>1. scan' \in [Scans -> ScanRows] /\ scan'[s] = q /\ \A z \in Scans \ {s} : scan'[z] = scan[z]
  BY DEF StorageInv
<1>2. Pages!Stored' = Pages!Stored
  BY DEF Pages!Stored
<1>3. ASSUME NEW z \in Scans PROVE ScanFits(z)'
  <2>1. CASE z = s
    BY <2>1
  <2>2. CASE z # s
    BY <1>1, <1>2, <2>2 DEF StorageInv, ScanFits, Pages!Ascending, Pages!ToSet
  <2>3. QED  BY <2>1, <2>2
<1>4. QED  BY <1>1, <1>3 DEF StorageInv

(* A listing begins before the first key. *)
LEMMA ListBeginStep == ASSUME Pages!StorageConstants, StorageInv, NEW s \in Scans, Pages!ListBegin(s) PROVE StorageInv'
<1>1. PICK p \in PrefixSets, limit \in Limits :
         /\ scan' = [scan EXCEPT ![s] = [Pages!Idle EXCEPT !.state = "open", !.prefix = p, !.limit = limit]]
         /\ steady' = [steady EXCEPT ![s] = Pages!Stored \cap p]
  BY DEF Pages!ListBegin
<1> DEFINE q == [Pages!Idle EXCEPT !.state = "open", !.prefix = p, !.limit = limit]
<1>2. scan' = [scan EXCEPT ![s] = q] /\ UNCHANGED kv
  BY <1>1 DEF Pages!ListBegin
<1>3. q \in ScanRows /\ q.state = "open" /\ q.prefix = p /\ q.given = <<>> /\ q.cursor = 0
  <2>1. Pages!Idle \in ScanRows /\ p \in PrefixSets \cup {{}} /\ limit \in Nat
    BY NoScan DEF Pages!StorageConstants
  <2>2. Pages!Idle.given = <<>> /\ Pages!Idle.cursor = 0
    BY DEF Pages!Idle
  <2>3. QED  BY <2>1, <2>2 DEF ScanRows
<1> HIDE DEF q
<1>4. Pages!Stored' = Pages!Stored /\ Pages!Stored \subseteq Pages!AllKeys
  BY <1>2 DEF Pages!Stored
<1>5. /\ steady' \in [Scans -> SUBSET Pages!AllKeys] /\ steady'[s] = Pages!Stored \cap p
      /\ \A z \in Scans \ {s} : steady'[z] = steady[z]
  BY <1>1, <1>4 DEF StorageInv
<1>6. scan'[s] = q
  BY <1>2 DEF StorageInv
<1>7. Pages!Ascending(q.given) /\ \A k \in Pages!AllKeys : ~(k <= 0)
  BY <1>3 DEF Pages!Ascending, Pages!AllKeys, Pages!StorageConstants
<1>8. Pages!ToSet(q.given) = {}
  BY <1>3 DEF Pages!ToSet
<1>9. ScanFits(s)'
  BY <1>3, <1>4, <1>5, <1>6, <1>7, <1>8 DEF ScanFits, Pages!Ascending, Pages!ToSet
<1>10. QED  BY <1>2, <1>3, <1>5, <1>9, OneScan

(* The keys of a set, in order. *)
LEMMA InOrderIs ==
    ASSUME MaxKey \in Nat, NEW ks \in SUBSET Pages!AllKeys
    PROVE  /\ Pages!InOrder(ks) \in Seq(Pages!AllKeys) /\ Pages!ToSet(Pages!InOrder(ks)) = ks /\ Pages!Ascending(Pages!InOrder(ks))
           /\ Len(Pages!InOrder(ks)) \in Nat /\ DOMAIN Pages!InOrder(ks) = 1 .. Len(Pages!InOrder(ks))
<1> DEFINE All == UNION {[1 .. n -> ks] : n \in 0 .. MaxKey}
           q == Pages!InOrder(ks)
<1>1. \E x \in All : Pages!ToSet(x) = ks /\ Pages!Ascending(x)
  <2>1. ks \in SUBSET (1 .. MaxKey)
    BY DEF Pages!AllKeys
  <2>2. PICK n \in 0 .. MaxKey : \E x \in [1 .. n -> ks] : Pages!ToSet(x) = ks /\ Pages!Ascending(x)
    BY <2>1, OrderExists
  <2>3. PICK x \in [1 .. n -> ks] : Pages!ToSet(x) = ks /\ Pages!Ascending(x)
    BY <2>2
  <2>4. x \in All
    BY <2>3
  <2>5. QED  BY <2>3, <2>4
<1>2. q \in All /\ Pages!ToSet(q) = ks /\ Pages!Ascending(q)
  BY <1>1 DEF Pages!InOrder
<1> HIDE DEF q
<1>3. PICK n \in 0 .. MaxKey : q \in [1 .. n -> ks]
  BY <1>2
<1>4. n \in Nat /\ q \in [1 .. n -> Pages!AllKeys]
  BY <1>3
<1>5. q \in Seq(Pages!AllKeys) /\ Len(q) = n
  BY <1>4
<1>6. QED  BY <1>2, <1>3, <1>4, <1>5 DEF q

(* The first keys of an order. *)
LEMMA FirstKeys ==
    ASSUME NEW q \in Seq(Pages!AllKeys), Pages!Ascending(q), NEW m \in 0 .. Len(q)
    PROVE  /\ SubSeq(q, 1, m) \in Seq(Pages!AllKeys) /\ Len(SubSeq(q, 1, m)) = m
           /\ \A i \in 1 .. m : SubSeq(q, 1, m)[i] = q[i]
  OBVIOUS

(* A page after what was given before it. *)
LEMMA Longer ==
    ASSUME MaxKey \in Nat, NEW g \in Seq(Pages!AllKeys), NEW p \in Seq(Pages!AllKeys), Pages!Ascending(g), Pages!Ascending(p),
           NEW c \in Nat, \A k \in Pages!ToSet(g) : k <= c, \A k \in Pages!ToSet(p) : k > c
    PROVE  g \o p \in Seq(Pages!AllKeys) /\ Pages!Ascending(g \o p) /\ Pages!ToSet(g \o p) = Pages!ToSet(g) \cup Pages!ToSet(p)
<1> DEFINE w == g \o p
<1>1. /\ w \in Seq(Pages!AllKeys) /\ Len(w) = Len(g) + Len(p) /\ Len(g) \in Nat /\ Len(p) \in Nat
      /\ DOMAIN w = 1 .. Len(g) + Len(p) /\ DOMAIN g = 1 .. Len(g) /\ DOMAIN p = 1 .. Len(p)
  OBVIOUS
<1>2. \A i \in 1 .. Len(g) : w[i] = g[i] /\ g[i] \in Pages!AllKeys
  OBVIOUS
<1>3. \A i \in 1 .. Len(p) : w[Len(g) + i] = p[i] /\ p[i] \in Pages!AllKeys
  OBVIOUS
<1> HIDE DEF w
<1>4. \A i \in 1 .. Len(g) + Len(p) : i \in 1 .. Len(g) \/ (i - Len(g) \in 1 .. Len(p) /\ w[i] = p[i - Len(g)])
  <2>1. Len(g) \in Nat /\ Len(p) \in Nat
    BY <1>1
  <2>2. ASSUME NEW i \in 1 .. Len(g) + Len(p), i \notin 1 .. Len(g) PROVE i - Len(g) \in 1 .. Len(p) /\ w[i] = p[i - Len(g)]
    <3>1. i - Len(g) \in 1 .. Len(p) /\ Len(g) + (i - Len(g)) = i
      BY <2>1, <2>2
    <3>2. QED  BY <1>3, <3>1
  <2>3. QED  BY <2>2
<1>5. Pages!ToSet(w) = Pages!ToSet(g) \cup Pages!ToSet(p)
  <2>1. Pages!ToSet(w) \subseteq Pages!ToSet(g) \cup Pages!ToSet(p)
    BY <1>1, <1>2, <1>4 DEF Pages!ToSet
  <2>2. Pages!ToSet(g) \subseteq Pages!ToSet(w)
    <3>1. \A i \in 1 .. Len(g) : i \in 1 .. Len(g) + Len(p)
      BY <1>1
    <3>2. QED  BY <1>1, <1>2, <3>1 DEF Pages!ToSet
  <2>3. Pages!ToSet(p) \subseteq Pages!ToSet(w)
    <3>1. \A i \in 1 .. Len(p) : Len(g) + i \in 1 .. Len(g) + Len(p)
      BY <1>1
    <3>2. QED  BY <1>1, <1>3, <3>1 DEF Pages!ToSet
  <2>4. QED  BY <2>1, <2>2, <2>3
<1>6. ASSUME NEW i \in 1 .. Len(g) + Len(p), NEW j \in 1 .. Len(g) + Len(p), i < j PROVE w[i] < w[j]
  <2>1. CASE j \in 1 .. Len(g)
    <3>1. i \in 1 .. Len(g)
      BY <1>1, <1>6, <2>1
    <3>2. QED  BY <1>1, <1>2, <1>6, <2>1, <3>1 DEF Pages!Ascending
  <2>2. CASE i \in 1 .. Len(g) /\ j \notin 1 .. Len(g)
    <3>1. w[i] \in Pages!ToSet(g) /\ w[i] \in Pages!AllKeys
      BY <1>1, <1>2, <2>2 DEF Pages!ToSet
    <3>2. w[j] \in Pages!ToSet(p) /\ w[j] \in Pages!AllKeys
      BY <1>1, <1>3, <1>4, <2>2 DEF Pages!ToSet
    <3>3. QED  BY <3>1, <3>2 DEF Pages!AllKeys
  <2>3. CASE i \notin 1 .. Len(g) /\ j \notin 1 .. Len(g)
    <3>1. i - Len(g) \in 1 .. Len(p) /\ j - Len(g) \in 1 .. Len(p) /\ i - Len(g) < j - Len(g)
      BY <1>1, <1>4, <1>6, <2>3
    <3>2. w[i] = p[i - Len(g)] /\ w[j] = p[j - Len(g)]
      BY <1>4, <2>3
    <3>3. QED  BY <1>1, <3>1, <3>2 DEF Pages!Ascending
  <2>4. QED  BY <1>1, <1>6, <2>1, <2>2, <2>3
<1>7. QED  BY <1>1, <1>5, <1>6 DEF Pages!Ascending, w

(* A page continues where the one before it ended, and its last key is where the next one continues. *)
LEMMA ListStep == ASSUME Pages!StorageConstants, StorageInv, NEW s \in Scans, Pages!list(s) PROVE StorageInv'
<1> DEFINE p == scan[s]
           R == {k \in Pages!Stored \cap p.prefix : k > p.cursor}
           rs == Pages!Matching(s)
           limit == Pages!Clamped(p.limit)
           more == Len(rs) > limit
           m == IF more THEN limit ELSE Len(rs)
           page == SubSeq(rs, 1, m)
           state == IF more THEN "open" ELSE "done"
           cursor == IF more THEN rs[limit] ELSE p.cursor
           given == p.given \o page
           q == [p EXCEPT !.given = given, !.state = state, !.cursor = cursor]
<1>1. scan' = [scan EXCEPT ![s] = q] /\ p.state = "open" /\ UNCHANGED <<kv, steady>>
  BY DEF Pages!list, Pages!CursorOf
<1>2. p \in ScanRows /\ ScanFits(s) /\ MaxKey \in Nat /\ p.cursor \in 0 .. MaxKey /\ p.given \in Seq(Pages!AllKeys) /\ p.limit \in Nat
  BY DEF StorageInv, Pages!StorageConstants, ScanRows
<1>3. limit \in Nat \ {0}
  BY <1>2 DEF Pages!Clamped
<1>4. /\ rs \in Seq(Pages!AllKeys) /\ Pages!ToSet(rs) = R /\ Pages!Ascending(rs)
      /\ Len(rs) \in Nat /\ DOMAIN rs = 1 .. Len(rs)
  <2>1. R \in SUBSET Pages!AllKeys
    BY DEF Pages!Stored
  <2>2. rs = Pages!InOrder(R)
    BY DEF Pages!Matching
  <2> HIDE DEF R, rs
  <2>3. QED  BY <1>2, <2>1, <2>2, InOrderIs
<1>5. Len(rs) \in Nat
  BY <1>4
<1>6. \A k \in R : k > p.cursor /\ k \in Pages!AllKeys
  BY DEF Pages!Stored
<1>7. R = {k \in Pages!Stored \cap p.prefix : k > p.cursor}
  OBVIOUS
<1>8. steady[s] \subseteq Pages!Stored \cap p.prefix
  BY <1>2 DEF ScanFits
<1> HIDE DEF R, rs, limit
<1>9. m \in 0 .. Len(rs) /\ (more => m = limit /\ m \in 1 .. Len(rs)) /\ (~more => m = Len(rs))
  <2>1. CASE more
    <3>1. m = limit /\ Len(rs) > limit
      BY <2>1
    <3>2. QED  BY <1>3, <1>5, <2>1, <3>1
  <2>2. CASE ~more
    <3>1. m = Len(rs)
      BY <2>2
    <3>2. QED  BY <1>5, <2>2, <3>1
  <2>3. QED  BY <2>1, <2>2
<1> HIDE DEF m, more
<1>10. page \in Seq(Pages!AllKeys) /\ Len(page) = m /\ \A i \in 1 .. m : page[i] = rs[i]
  BY <1>4, <1>9, FirstKeys
<1>11. DOMAIN page = 1 .. m /\ \A i \in 1 .. m : i \in 1 .. Len(rs)
  <2> HIDE DEF page
  <2>1. DOMAIN page = 1 .. m
    BY <1>10
  <2>2. m \in Nat /\ m <= Len(rs)
    BY <1>5, <1>9
  <2>3. QED  BY <1>5, <2>1, <2>2
<1> HIDE DEF page
<1>12. Pages!Ascending(page)
  BY <1>4, <1>10, <1>11 DEF Pages!Ascending
<1>13. Pages!ToSet(page) \subseteq R /\ Pages!ToSet(page) = {rs[i] : i \in 1 .. m}
  BY <1>4, <1>10, <1>11 DEF Pages!ToSet
<1>14. /\ given \in Seq(Pages!AllKeys) /\ Pages!Ascending(given)
       /\ Pages!ToSet(given) = Pages!ToSet(p.given) \cup Pages!ToSet(page)
  <2>1. Pages!Ascending(p.given) /\ \A k \in Pages!ToSet(p.given) : k <= p.cursor
    BY <1>1, <1>2 DEF ScanFits
  <2>2. p.cursor \in Nat /\ \A k \in Pages!ToSet(page) : k > p.cursor
    BY <1>2, <1>6, <1>13
  <2> HIDE DEF given
  <2>3. given = p.given \o page
    BY DEF given
  <2>4. QED  BY <1>2, <1>10, <1>12, <2>1, <2>2, <2>3, Longer
<1> HIDE DEF given
<1>15. cursor \in 0 .. MaxKey /\ p.cursor <= cursor /\ (more => cursor = rs[m] /\ cursor \in R)
  <2>1. CASE more
    <3>1. rs[m] \in Pages!ToSet(rs)
      BY <1>4, <1>9, <2>1 DEF Pages!ToSet
    <3>2. cursor = rs[m]
      BY <1>9, <2>1 DEF more
    <3>3. QED  BY <1>2, <1>4, <1>6, <3>1, <3>2 DEF Pages!AllKeys
  <2>2. CASE ~more
    BY <1>2, <2>2
  <2>3. QED  BY <2>1, <2>2
<1>16. state \in {"open", "done"} /\ (state = "open" <=> more)
  OBVIOUS
<1> HIDE DEF cursor, state
<1>17. q \in ScanRows /\ q.state = state /\ q.given = given /\ q.cursor = cursor /\ q.prefix = p.prefix
  BY <1>2, <1>14, <1>15, <1>16 DEF ScanRows
<1> HIDE DEF q
<1>18. scan'[s] = q /\ Pages!Stored' = Pages!Stored
  BY <1>1 DEF StorageInv, Pages!Stored
<1>19. more => \A k \in Pages!ToSet(given) : k <= cursor
  <2>1. ASSUME more, NEW k \in Pages!ToSet(p.given) PROVE k <= cursor
    <3>1. k <= p.cursor /\ k \in Pages!AllKeys
      BY <1>1, <1>2, <2>1 DEF ScanFits, Pages!ToSet
    <3>2. QED  BY <1>2, <1>15, <3>1 DEF Pages!AllKeys
  <2>2. ASSUME more, NEW k \in Pages!ToSet(page) PROVE k <= cursor
    <3>1. PICK i \in 1 .. m : k = rs[i]
      BY <1>13
    <3>2. i = m \/ rs[i] < rs[m]
      BY <1>4, <1>9, <1>11, <2>2, <3>1 DEF Pages!Ascending
    <3>3. rs[i] \in Pages!AllKeys
      BY <1>4, <1>11, <3>1
    <3>4. QED  BY <1>15, <2>2, <3>1, <3>2, <3>3 DEF Pages!AllKeys
  <2>3. QED  BY <1>14, <2>1, <2>2
<1>20. ASSUME NEW k \in steady[s], more => k <= cursor PROVE k \in Pages!ToSet(given)
  <2>1. k \in Pages!AllKeys /\ k \in Pages!Stored \cap p.prefix
    BY <1>8, <1>20 DEF Pages!Stored
  <2>2. CASE k <= p.cursor
    BY <1>1, <1>2, <1>14, <2>2 DEF ScanFits
  <2>3. CASE ~(k <= p.cursor)
    <3>1. k \in R
      BY <1>2, <1>7, <2>1, <2>3 DEF Pages!AllKeys
    <3>2. PICK i \in 1 .. Len(rs) : rs[i] = k
      BY <1>4, <3>1 DEF Pages!ToSet
    <3>3. i \in 1 .. m
      <4>1. CASE more
        <5>1. rs[m] \in Pages!AllKeys /\ k <= rs[m]
          BY <1>6, <1>15, <1>20, <4>1
        <5>2. ~(m < i)
          BY <1>4, <1>9, <2>1, <3>2, <4>1, <5>1 DEF Pages!Ascending, Pages!AllKeys
        <5>3. QED  BY <1>4, <1>9, <3>2, <4>1, <5>2
      <4>2. CASE ~more
        BY <1>9, <3>2, <4>2
      <4>3. QED  BY <4>1, <4>2
    <3>4. QED  BY <1>13, <1>14, <3>2, <3>3
  <2>4. QED  BY <2>2, <2>3
<1>21. ScanFits(s)'
  <2>1. steady'[s] \subseteq Pages!Stored' \cap q.prefix
    BY <1>1, <1>8, <1>17, <1>18
  <2>2. QED  BY <1>1, <1>14, <1>16, <1>17, <1>18, <1>19, <1>20, <2>1 DEF ScanFits, Pages!Ascending, Pages!ToSet
<1>22. QED  BY <1>1, <1>17, <1>21, OneScan DEF StorageInv

(* Every call of the storage cell keeps the invariant of its listings. *)
LEMMA StorageStep == ASSUME Pages!StorageConstants, StorageInv, [Pages!Next]_Pages!vars PROVE StorageInv'
<1>1. ASSUME NEW k \in Pages!AllKeys, NEW v \in KvValues \cup {None}, Pages!set(k, v) PROVE StorageInv'
  BY <1>1, WriteStep DEF Pages!set
<1>2. CASE Pages!clear
  BY <1>2, WriteStep DEF Pages!clear
<1>3. CASE UNCHANGED <<kv, scan, steady>>
  BY <1>3 DEF StorageInv, ScanFits, Pages!Stored, Pages!Ascending, Pages!ToSet
<1>4. CASE Pages!sql
  BY <1>3, <1>4 DEF Pages!sql
<1>5. CASE UNCHANGED Pages!vars
  BY <1>3, <1>5 DEF Pages!vars
<1>6. QED  BY <1>1, <1>2, <1>4, <1>5, ListBeginStep, ListStep DEF Pages!Next

(* A finished listing gave every key that was there all along, none twice and all in order, whatever was written
   between its pages (cells/package-storage-cell.ts list). *)
THEOREM ListingsExact == ASSUME Pages!StorageConstants PROVE Pages!Spec => []PagesExact
<1>1. Pages!Init => StorageInv
  BY StorageInit
<1>2. StorageInv /\ [Pages!Next]_Pages!vars => StorageInv'
  BY StorageStep
<1>3. StorageInv => PagesExact
  <2>1. ASSUME StorageInv, NEW s \in Scans PROVE Pages!Ascending(scan[s].given) /\ (scan[s].state = "done" => steady[s] \subseteq Pages!ToSet(scan[s].given))
    BY <2>1 DEF StorageInv, ScanFits
  <2>2. QED  BY <2>1 DEF PagesExact, Pages!PagesExact
<1>4. QED  BY <1>1, <1>2, <1>3, PTL DEF Pages!Spec
=============================================================================
