------------------------------ MODULE DbProofs ------------------------------
(* Proofs about the drivers of the wallet database, for every set of       *)
(* paths, keys and values and any number of transactions and operations:   *)
(* the batch agrees with itself, the flat keys carry a tree of buckets,    *)
(* the leveldb driver implements the bucket store, the rocksdb driver      *)
(* agrees with it, and an iterator shows its bucket.                       *)
EXTENDS DbDrivers, KeyProofs, FiniteSetTheorems

(* The two records that the leveldb driver keeps of a transaction agree:   *)
(* the sequence numbers of batch.puts and batch.deletes say of each key    *)
(* what its last operation in the library batch is.                        *)
BatchShape ==
    /\ DOMAIN b = {"seqNo", "putSeq", "putData", "deletes", "inner"}
    /\ b.seqNo \in Nat
    /\ DOMAIN b.putSeq = FlatKey /\ DOMAIN b.putData = FlatKey
    /\ DOMAIN b.deletes = FlatKey /\ DOMAIN b.inner = FlatKey

LastOperation(k) ==
    /\ b.putSeq[k] \in 0..b.seqNo /\ b.deletes[k] \in 0..b.seqNo
    /\ b.putSeq[k] = b.deletes[k] => b.putSeq[k] = 0 /\ b.inner[k] = Untouched
    /\ b.putSeq[k] > b.deletes[k] => /\ b.inner[k] = b.putData[k]
                                     /\ b.inner[k] \notin {Nil, Untouched}
    /\ b.deletes[k] > b.putSeq[k] => b.inner[k] = Nil

BatchInv == BatchShape /\ \A k \in FlatKey : LastOperation(k)

(* A path is a sequence of names, and its last one is a name. *)
LEMMA LastIs ==
    ASSUME NEW p \in Path
    PROVE  /\ p \in Seq(ByteString) /\ Len(p) \in Nat /\ Len(p) \in 1..Len(p)
           /\ Last(p) \in ByteString /\ Last(p) = p[Len(p)]
           /\ SubSeq(p, 1, Len(p)) = p
<1>1. p \in Seq(ByteString) /\ Len(p) \in 1..8
  BY PathAssumption
<1>2. Len(p) \in 1..Len(p) /\ Len(p) \in Nat
  BY <1>1
<1> QED
  BY <1>1, <1>2 DEF Last

(* What the wallet stores is a byte string: neither nil nor Untouched. *)
LEMMA StoredIsNoMark ==
    /\ \A v \in Value : v \notin {Nil, Untouched}
    /\ \A p \in Path : isValidBucketName(Last(p)) => Last(p) \notin {Nil, Untouched}
<1>1. Untouched \notin ByteString
  BY DEF Untouched, ByteString
<1>2. \A p \in Path : Last(p) \in ByteString
  BY LastIs
<1> QED
  BY <1>1, <1>2, KeyAssumption DEF Nil, isValidBucketName

(* newBatch: no key has been touched. *)
LEMMA NewBatchOK ==
    ASSUME b' = newBatch
    PROVE  BatchInv'
BY DEF newBatch, BatchInv, BatchShape, LastOperation

(* batch.Put gives its key the highest number and the value the library   *)
(* batch is given. *)
LEMMA PutKeepsBatch ==
    ASSUME BatchInv, NEW k \in FlatKey, NEW v, v \notin {Nil, Untouched}, b' = BatchPut(k, v)
    PROVE  BatchInv'
BY DEF BatchPut, BatchInv, BatchShape, LastOperation

(* batch.Delete of every key of a loop. *)
LEMMA DeleteKeepsBatch ==
    ASSUME BatchInv, NEW K \in SUBSET FlatKey, b' = BatchDelete(K)
    PROVE  BatchInv'
BY DEF BatchDelete, BatchInv, BatchShape, LastOperation

(* The keys the driver passes to its batch are keys of the database. *)
LEMMA FlatKeysOf ==
    /\ \A p \in Path : IndexKey[p] \in FlatKey
    /\ \A p \in Path, k \in Key : innerKey[p][k] \in FlatKey
    /\ \A p \in Path : ClearKeys(p) \subseteq FlatKey
BY DEF FlatKey, ClearKeys, Scan, GetNetPutsByPrefix

(* The first batch. *)
LEMMA InitBatchInv == Init => BatchInv
BY DEF Init, newBatch, BatchInv, BatchShape, LastOperation

(* Every call of a client keeps the two records in agreement. *)
LEMMA NextBatchInv ==
    ASSUME BatchInv, [Next]_vars
    PROVE  BatchInv'
<1>1. CASE b' = b
  BY <1>1 DEF BatchInv, BatchShape, LastOperation
<1>2. CASE BeginTx
  BY <1>2, NewBatchOK DEF BeginTx
<1>3. ASSUME NEW p \in Path, NewBucket(p) \/ DeleteBucket(p) \/ Clear(p)
      PROVE  BatchInv'
  <2>1. CASE NewBucket(p)
    BY <2>1, FlatKeysOf, StoredIsNoMark, PutKeepsBatch DEF NewBucket
  <2>2. CASE DeleteBucket(p)
    <3> DEFINE K == UNION {ClearKeys(q) \cup {IndexKey[q]} : q \in SubBuckets(p)}
    <3>1. K \in SUBSET FlatKey
      BY FlatKeysOf DEF SubBuckets
    <3>2. b' = BatchDelete(K)
      BY <2>2 DEF DeleteBucket
    <3> QED
      BY <3>1, <3>2, DeleteKeepsBatch
  <2>3. CASE Clear(p)
    BY <2>3, FlatKeysOf, DeleteKeepsBatch DEF Clear
  <2> QED
    BY <1>3, <2>1, <2>2, <2>3
<1>4. ASSUME NEW p \in Path, NEW k \in Key, Delete(p, k) \/ \E v \in Value : Put(p, k, v)
      PROVE  BatchInv'
  <2>1. CASE Delete(p, k)
    <3>1. {innerKey[p][k]} \in SUBSET FlatKey /\ b' = BatchDelete({innerKey[p][k]})
      BY <2>1, FlatKeysOf DEF Delete
    <3> QED
      BY <3>1, DeleteKeepsBatch
  <2>2. ASSUME NEW v \in Value, Put(p, k, v)
        PROVE  BatchInv'
    BY <2>2, FlatKeysOf, StoredIsNoMark, PutKeepsBatch DEF Put
  <2> QED
    BY <1>4, <2>1, <2>2
<1> QED
  BY <1>1, <1>2, <1>3, <1>4 DEF Next, vars, Commit, Rollback

(* The batch of a transaction at any number of keys, transactions and      *)
(* operations.                                                             *)
THEOREM BatchInvariant == Spec => []BatchInv
BY InitBatchInv, NextBatchInv, PTL DEF Spec

(* What the maps answer is what the library batch will write. *)
LEMMA GetIsWritten ==
    ASSUME BatchInv, NEW k \in FlatKey
    PROVE  GetFlat(k) = Written[k]
<1>1. Written[k] = IF b.inner[k] = Untouched THEN disk[k] ELSE b.inner[k]
  BY DEF Written
<1>2. LastOperation(k)
  BY DEF BatchInv
<1>3. Untouched # Nil
  BY DEF Untouched, Nil
<1>4. CASE b.putSeq[k] = b.deletes[k]
  BY <1>1, <1>2, <1>4 DEF LastOperation, GetFlat, BatchGet, Deleted
<1>5. CASE b.putSeq[k] > b.deletes[k]
  BY <1>1, <1>2, <1>5 DEF LastOperation, GetFlat, BatchGet, Deleted
<1>6. CASE b.deletes[k] > b.putSeq[k]
  BY <1>1, <1>2, <1>3, <1>6 DEF LastOperation, GetFlat, BatchGet, Deleted
<1> QED
  BY <1>2, <1>4, <1>5, <1>6 DEF LastOperation

(* A write transaction reads what its Commit will write. *)
THEOREM ReadsAreWrites == Spec => []ReadsWhatCommits
<1>1. BatchInv => ReadsWhatCommits
  BY GetIsWritten DEF ReadsWhatCommits
<1> QED
  BY <1>1, BatchInvariant, PTL

-----------------------------------------------------------------------------
(* The tree in a flat database: every entry is the index entry of a legal  *)
(* bucket or an entry in one, and the buckets around it are there.         *)
Has(flat, p) == flat[IndexKey[p]] # Nil
There(flat, p) == Legal(p) /\ \A i \in 1..Len(p) : Has(flat, SubSeq(p, 1, i))

BucketEntry(flat, f, p) == There(flat, p) /\ f = IndexKey[p] /\ flat[f] = Last(p)
DataEntry(flat, f, p, k) == There(flat, p) /\ f = innerKey[p][k] /\ flat[f] \in Value

TreeInv(flat) ==
    \A f \in FlatKey : flat[f] # Nil =>
        \/ \E p \in Path : BucketEntry(flat, f, p)
        \/ \E p \in Path, k \in Key : DataEntry(flat, f, p, k)

(* The buckets around a bucket are paths, legal ones if it is. *)
LEMMA PrefixPath ==
    ASSUME NEW p \in Path, NEW i \in 1..Len(p)
    PROVE  /\ SubSeq(p, 1, i) \in Path /\ Len(SubSeq(p, 1, i)) = i
           /\ \A j \in 1..i : SubSeq(p, 1, i)[j] = p[j]
           /\ \A j \in 1..i : SubSeq(SubSeq(p, 1, i), 1, j) = SubSeq(p, 1, j)
           /\ Legal(p) => Legal(SubSeq(p, 1, i))
<1>1. p \in Seq(ByteString) /\ Len(p) \in Nat /\ SubSeq(p, 1, i) \in Path
  BY PathAssumption
<1> DEFINE s == SubSeq(p, 1, i)
<1>2. Len(s) = i /\ \A j \in 1..i : s[j] = p[j]
  BY <1>1
<1>3. \A j \in 1..i : SubSeq(s, 1, j) = SubSeq(p, 1, j)
  BY <1>1
<1>4. ASSUME Legal(p) PROVE Legal(s)
  <2>1. \A j \in 1..i : j \in 1..Len(p)
    BY <1>1
  <2> HIDE DEF s
  <2> QED
    BY <1>2, <1>4, <2>1 DEF Legal
<1> QED
  BY <1>1, <1>2, <1>3, <1>4

(* With a bucket, the buckets around it are there. *)
LEMMA ThereIs ==
    ASSUME NEW flat, NEW p \in Path, There(flat, p)
    PROVE  /\ Has(flat, p) /\ Legal(p)
           /\ \A i \in 1..Len(p) : There(flat, SubSeq(p, 1, i))
<1>1. Has(flat, p) /\ Legal(p)
  BY LastIs DEF There
<1>2. ASSUME NEW i \in 1..Len(p) PROVE There(flat, SubSeq(p, 1, i))
  <2> DEFINE s == SubSeq(p, 1, i)
  <2>1. Len(s) = i /\ (\A j \in 1..i : SubSeq(s, 1, j) = SubSeq(p, 1, j)) /\ Legal(s)
    BY <1>1, PrefixPath
  <2>2. \A j \in 1..i : j \in 1..Len(p)
    BY LastIs
  <2> HIDE DEF s
  <2>3. There(flat, s)
    BY <2>1, <2>2 DEF There
  <2> QED
    BY <2>3 DEF s
<1> QED
  BY <1>1, <1>2

(* A bucket that is found is legal, and its entry is its name. *)
LEMMA BucketOf ==
    ASSUME NEW flat, TreeInv(flat), NEW p \in Path, Has(flat, p)
    PROVE  There(flat, p) /\ flat[IndexKey[p]] = Last(p)
<1>1. IndexKey[p] \in FlatKey
  BY FlatKeysOf
<1>2. \A q \in Path, k \in Key : ~DataEntry(flat, IndexKey[p], q, k)
  BY KindsApart DEF DataEntry
<1>3. PICK q \in Path : BucketEntry(flat, IndexKey[p], q)
  BY <1>1, <1>2 DEF TreeInv, Has
<1>4. q = p
  BY <1>3, ThereIs, IndexKeyUnique DEF BucketEntry
<1> QED
  BY <1>3, <1>4 DEF BucketEntry

(* An entry of a legal bucket lies in a bucket that is there. *)
LEMMA DataOf ==
    ASSUME NEW flat, TreeInv(flat), NEW p \in Path, Legal(p), NEW k \in Key, flat[innerKey[p][k]] # Nil
    PROVE  There(flat, p) /\ flat[innerKey[p][k]] \in Value
<1>1. innerKey[p][k] \in FlatKey
  BY FlatKeysOf
<1>2. \A q \in Path : ~BucketEntry(flat, innerKey[p][k], q)
  BY KindsApart DEF BucketEntry
<1>3. PICK q \in Path, l \in Key : DataEntry(flat, innerKey[p][k], q, l)
  BY <1>1, <1>2 DEF TreeInv
<1>4. q = p
  BY <1>3, ThereIs, InnerUnique DEF DataEntry
<1> QED
  BY <1>3, <1>4 DEF DataEntry

(* The entries found under the prefixes of a legal bucket. *)
LEMMA InnerFound ==
    ASSUME NEW flat, TreeInv(flat), NEW p \in Path, Legal(p), NEW pre \in Key \cup {Nil},
           NEW f \in FlatKey, flat[f] # Nil, IsPrefix(innerKey[p][pre], f)
    PROVE  \E k \in Key : f = innerKey[p][k] /\ IsPrefix(pre, k) /\ There(flat, p)
<1>1. \A q \in Path : ~BucketEntry(flat, f, q)
  BY KindsApart DEF BucketEntry
<1>2. PICK q \in Path, k \in Key : DataEntry(flat, f, q, k)
  BY <1>1 DEF TreeInv
<1>3. q = p /\ IsPrefix(pre, k)
  BY <1>2, ThereIs, InnerScan DEF DataEntry
<1> QED
  BY <1>2, <1>3 DEF DataEntry

(* An index entry under the prefix of p is that of a child of p. *)
LEMMA ChildFound ==
    ASSUME NEW flat, TreeInv(flat), NEW p \in Path, Legal(p),
           NEW f \in FlatKey, flat[f] # Nil, IsPrefix(IndexPrefix[p], f)
    PROVE  \E r \in Path : /\ f = IndexKey[r] /\ flat[f] = Last(r) /\ There(flat, r)
                           /\ Len(r) > 1 /\ Parent(r) = p /\ f = IndexPrefix[p] \o flat[f]
<1>1. \A q \in Path, k \in Key : ~DataEntry(flat, f, q, k)
  BY KindsApart DEF DataEntry
<1>2. PICK r \in Path : BucketEntry(flat, f, r)
  BY <1>1 DEF TreeInv
<1>3. Len(r) > 1 /\ Parent(r) = p
  BY <1>2, ThereIs, IndexScan DEF BucketEntry
<1>4. IndexKey[r] = IndexPrefix[p] \o Last(r)
  BY <1>3, ChildKey
<1> QED
  BY <1>2, <1>3, <1>4 DEF BucketEntry

-----------------------------------------------------------------------------
(* The reads of a transaction, told from what its Commit will write.       *)

(* Scanning, looking up and reading an entry agree on each key. *)
LEMMA KeySeen ==
    ASSUME BatchInv, NEW f \in FlatKey
    PROVE  /\ (disk[f] # Nil /\ ~Deleted(f)) \/ (b.putSeq[f] > 0 /\ (b.deletes[f] = 0 \/ b.putSeq[f] > b.deletes[f]))
                <=> Written[f] # Nil
           /\ Written[f] # Nil => ScanValue(f) = Written[f]
           /\ (disk[f] # Nil \/ BatchGet(f) # Nil) /\ ~Deleted(f) <=> Written[f] # Nil
<1>1. Written[f] = IF b.inner[f] = Untouched THEN disk[f] ELSE b.inner[f]
  BY DEF Written
<1>2. LastOperation(f)
  BY DEF BatchInv
<1>3. Untouched # Nil
  BY DEF Untouched, Nil
<1>4. CASE b.putSeq[f] = b.deletes[f]
  BY <1>1, <1>2, <1>3, <1>4 DEF LastOperation, ScanValue, BatchGet, Deleted
<1>5. CASE b.putSeq[f] > b.deletes[f]
  BY <1>1, <1>2, <1>3, <1>5 DEF LastOperation, ScanValue, BatchGet, Deleted
<1>6. CASE b.deletes[f] > b.putSeq[f]
  BY <1>1, <1>2, <1>3, <1>6 DEF LastOperation, ScanValue, BatchGet, Deleted
<1> QED
  BY <1>2, <1>4, <1>5, <1>6 DEF LastOperation

(* The entries of flat under a prefix. *)
Under(flat, prefix) == {f \in FlatKey : IsPrefix(prefix, f) /\ flat[f] # Nil}

(* Scan finds what Commit will leave under the prefix, with its value. *)
LEMMA ScanIs ==
    ASSUME BatchInv
    PROVE  /\ \A prefix : Scan(prefix) = Under(Written, prefix)
           /\ \A f \in FlatKey : Written[f] # Nil => ScanValue(f) = Written[f]
           /\ \A p \in Path : Opens(p) <=> Has(Written, p)
           /\ \A p \in Path : Has(Written, p) => Found(p)
<1>1. ASSUME NEW prefix PROVE Scan(prefix) = Under(Written, prefix)
  <2>1. ASSUME NEW f PROVE f \in Scan(prefix) <=> f \in Under(Written, prefix)
    BY KeySeen DEF Scan, Under, GetNetPutsByPrefix
  <2> QED
    BY <2>1
<1>2. \A f \in FlatKey : Written[f] # Nil => ScanValue(f) = Written[f]
  BY KeySeen
<1>3. ASSUME NEW p \in Path PROVE Opens(p) <=> Has(Written, p)
  BY KeySeen, FlatKeysOf DEF Opens, Found, Has
<1> QED
  BY <1>1, <1>2, <1>3 DEF Opens

(* BucketNames: the names of the sub buckets, and no entry is refused. *)
LEMMA NamesFound ==
    ASSUME BatchInv, TreeInv(Written), NEW p \in Path, Legal(p)
    PROVE  /\ NamesLegal(p)
           /\ BucketNames(p) = {Last(q) : q \in {q \in Path : Has(Written, q) /\ Len(q) > 1 /\ Parent(q) = p}}
<1> DEFINE W == Written
           S == Under(W, IndexPrefix[p])
           C == {q \in Path : Has(W, q) /\ Len(q) > 1 /\ Parent(q) = p}
<1>1. Scan(IndexPrefix[p]) = S /\ \A f \in S : f \in FlatKey /\ W[f] # Nil /\ IsPrefix(IndexPrefix[p], f) /\ ScanValue(f) = W[f]
  BY ScanIs DEF Under
<1> HIDE DEF W, S
<1>2. ASSUME NEW f \in S
      PROVE  \E r \in C : f = IndexKey[r] /\ W[f] = Last(r) /\ f = IndexPrefix[p] \o W[f]
  <2>1. PICK r \in Path : /\ f = IndexKey[r] /\ W[f] = Last(r) /\ There(W, r)
                          /\ Len(r) > 1 /\ Parent(r) = p /\ f = IndexPrefix[p] \o W[f]
    BY <1>1, <1>2, ChildFound DEF W
  <2>2. r \in C
    BY <2>1, ThereIs
  <2> QED
    BY <2>1, <2>2
<1>3. ASSUME NEW r \in C
      PROVE  IndexKey[r] \in S /\ W[IndexKey[r]] = Last(r)
  <2>1. r \in Path /\ Has(W, r) /\ Len(r) > 1 /\ Parent(r) = p
    BY <1>3
  <2>2. W[IndexKey[r]] = Last(r)
    BY <2>1, BucketOf DEF W
  <2>3. IsPrefix(IndexPrefix[p], IndexKey[r])
    BY <2>1, ChildKey
  <2>4. IndexKey[r] \in FlatKey /\ W[IndexKey[r]] # Nil
    BY <2>1, FlatKeysOf DEF Has
  <2> QED
    BY <2>2, <2>3, <2>4 DEF S, Under
<1>4. NamesLegal(p)
  BY <1>1, <1>2 DEF NamesLegal
<1>5. BucketNames(p) = {W[f] : f \in S}
  BY <1>1 DEF BucketNames
<1>6. {W[f] : f \in S} = {Last(q) : q \in C}
  <2>1. \A f \in S : \E r \in C : W[f] = Last(r)
    BY <1>2
  <2>2. \A r \in C : \E f \in S : W[f] = Last(r)
    BY <1>3
  <2> HIDE DEF C
  <2> QED
    BY <2>1, <2>2
<1> QED
  BY <1>4, <1>5, <1>6 DEF W

(* GetByPrefix: the entries of the bucket under the prefix. *)
LEMMA EntriesFound ==
    ASSUME BatchInv, TreeInv(Written), NEW p \in Path, Legal(p), NEW pre \in Key \cup {Nil}
    PROVE  GetByPrefix(p, pre) =
               {<<k, Written[innerKey[p][k]]>> :
                    k \in {k \in Key : Written[innerKey[p][k]] # Nil /\ IsPrefix(pre, k)}}
<1> DEFINE W == Written
           S == Under(W, innerKey[p][pre])
           D == {k \in Key : W[innerKey[p][k]] # Nil /\ IsPrefix(pre, k)}
<1>1. Scan(innerKey[p][pre]) = S /\ \A f \in S : f \in FlatKey /\ W[f] # Nil /\ IsPrefix(innerKey[p][pre], f) /\ ScanValue(f) = W[f]
  BY ScanIs DEF Under
<1> HIDE DEF W, S
<1>2. ASSUME NEW f \in S
      PROVE  \E k \in D : f = innerKey[p][k]
  <2>1. PICK k \in Key : f = innerKey[p][k] /\ IsPrefix(pre, k)
    BY <1>1, <1>2, InnerFound DEF W
  <2> QED
    BY <1>1, <1>2, <2>1
<1>3. ASSUME NEW k \in D
      PROVE  innerKey[p][k] \in S
  BY <1>3, InnerScan, FlatKeysOf DEF S, Under
<1>4. \A k \in D : OuterKey(p, innerKey[p][k]) = k
  BY OuterIsKey
<1>5. GetByPrefix(p, pre) = {<<OuterKey(p, f), W[f]>> : f \in S}
  BY <1>1 DEF GetByPrefix
<1>6. {<<OuterKey(p, f), W[f]>> : f \in S} = {<<k, W[innerKey[p][k]]>> : k \in D}
  BY <1>2, <1>3, <1>4
<1> QED
  BY <1>5, <1>6 DEF W

-----------------------------------------------------------------------------
(* One call changes what the transaction will write at the keys it names,  *)
(* and the tree stays one.                                                 *)

Puts(flat, next, f, v) == \A g \in FlatKey : next[g] = IF g = f THEN v ELSE flat[g]
Drops(flat, next, K) == \A g \in FlatKey : next[g] = IF g \in K THEN Nil ELSE flat[g]
Same(flat, next) == \A g \in FlatKey : next[g] = flat[g]

(* batch.Put, seen in what Commit will write. *)
LEMMA PutWrites ==
    ASSUME BatchInv, NEW f \in FlatKey, NEW v, v \notin {Nil, Untouched}, b' = BatchPut(f, v), disk' = disk
    PROVE  Puts(Written, Written', f, v)
<1>1. ASSUME NEW g \in FlatKey PROVE b'.inner[g] = IF g = f THEN v ELSE b.inner[g]
  BY DEF BatchPut, BatchInv, BatchShape
<1> QED
  BY <1>1 DEF Puts, Written

(* batch.Delete, seen in what Commit will write. *)
LEMMA DeleteWrites ==
    ASSUME BatchInv, NEW K \in SUBSET FlatKey, b' = BatchDelete(K), disk' = disk
    PROVE  Drops(Written, Written', K)
<1>1. ASSUME NEW g \in FlatKey PROVE b'.inner[g] = IF g \in K THEN Nil ELSE b.inner[g]
  BY DEF BatchDelete, BatchInv, BatchShape
<1>2. Untouched # Nil
  BY DEF Untouched, Nil
<1> QED
  BY <1>1, <1>2 DEF Drops, Written

(* A bucket stays where its index entries and those around it stay. *)
LEMMA ThereStays ==
    ASSUME NEW flat, NEW next, NEW p \in Path, There(flat, p),
           \A i \in 1..Len(p) : Has(flat, SubSeq(p, 1, i)) => Has(next, SubSeq(p, 1, i))
    PROVE  There(next, p)
BY DEF There

(* Databases with the same entries have the same tree. *)
LEMMA SameTree ==
    ASSUME NEW flat, NEW next, Same(flat, next), TreeInv(flat)
    PROVE  TreeInv(next)
<1>1. ASSUME NEW p \in Path, There(flat, p) PROVE There(next, p)
  <2>1. \A i \in 1..Len(p) : SubSeq(p, 1, i) \in Path
    BY PrefixPath
  <2> QED
    BY <1>1, <2>1, ThereStays, FlatKeysOf DEF Same, Has
<1> QED
  BY <1>1 DEF Same, TreeInv, BucketEntry, DataEntry

(* Put into a bucket that is there. *)
LEMMA PutTree ==
    ASSUME NEW flat, NEW next, TreeInv(flat), NEW p \in Path, There(flat, p),
           NEW k \in Key, NEW v \in Value, Puts(flat, next, innerKey[p][k], v)
    PROVE  TreeInv(next)
<1>1. ASSUME NEW q \in Path, There(flat, q) PROVE There(next, q)
  <2>1. \A i \in 1..Len(q) : SubSeq(q, 1, i) \in Path
    BY PrefixPath
  <2>2. \A r \in Path : IndexKey[r] # innerKey[p][k] /\ IndexKey[r] \in FlatKey
    BY KindsApart, FlatKeysOf
  <2> QED
    BY <1>1, <2>1, <2>2, ThereStays DEF Puts, Has
<1> SUFFICES ASSUME NEW f \in FlatKey, next[f] # Nil
             PROVE  \/ \E q \in Path : BucketEntry(next, f, q)
                    \/ \E q \in Path, l \in Key : DataEntry(next, f, q, l)
  BY DEF TreeInv
<1>2. CASE f = innerKey[p][k]
  BY <1>1, <1>2 DEF Puts, DataEntry
<1>3. CASE f # innerKey[p][k]
  <2>1. next[f] = flat[f]
    BY <1>3 DEF Puts
  <2> QED
    BY <1>1, <2>1 DEF TreeInv, BucketEntry, DataEntry
<1> QED
  BY <1>2, <1>3

(* NewBucket in a bucket that is there. *)
LEMMA BucketTree ==
    ASSUME NEW flat, NEW next, TreeInv(flat), NEW p \in Path,
           Len(p) > 1 => There(flat, Parent(p)), isValidBucketName(Last(p)),
           Puts(flat, next, IndexKey[p], Last(p))
    PROVE  TreeInv(next) /\ There(next, p)
<1>1. Last(p) # Nil
  BY StoredIsNoMark
<1>2. ASSUME NEW q \in Path, Has(flat, q) PROVE Has(next, q)
  BY <1>1, <1>2, FlatKeysOf DEF Puts, Has
<1>3. ASSUME NEW q \in Path, There(flat, q) PROVE There(next, q)
  <2>1. \A i \in 1..Len(q) : SubSeq(q, 1, i) \in Path
    BY PrefixPath
  <2> QED
    BY <1>2, <1>3, <2>1, ThereStays
<1>4. Has(next, p)
  BY <1>1, FlatKeysOf DEF Puts, Has
<1>5. There(next, p)
  <2>1. Len(p) \in Nat /\ Len(p) >= 1 /\ p \in Seq(ByteString) /\ Last(p) = p[Len(p)] /\ SubSeq(p, 1, Len(p)) = p
    BY LastIs
  <2>2. ASSUME NEW i \in 1..Len(p), i # Len(p)
        PROVE  isValidBucketName(p[i]) /\ Has(next, SubSeq(p, 1, i))
    <3> DEFINE n == Len(p)
    <3>0. n \in Nat /\ i \in 1..n /\ i # n
      BY <2>1, <2>2
    <3>1. n > 1 /\ i \in 1..(n - 1)
      <4> HIDE DEF n
      <4> QED
        BY <3>0
    <3> DEFINE r == Parent(p)
    <3>2. r \in Path /\ Len(r) = Len(p) - 1 /\ r[i] = p[i] /\ There(flat, r)
      BY <3>1, ParentIs
    <3>3. SubSeq(r, 1, i) = SubSeq(p, 1, i)
      BY <2>1, <3>1 DEF Parent
    <3> HIDE DEF r
    <3>4. Legal(r) /\ There(flat, SubSeq(r, 1, i))
      BY <3>1, <3>2, ThereIs
    <3>5. SubSeq(r, 1, i) \in Path /\ Has(flat, SubSeq(r, 1, i))
      BY <3>1, <3>2, <3>4, PrefixPath, ThereIs
    <3> QED
      BY <1>2, <3>1, <3>2, <3>3, <3>4, <3>5 DEF Legal
  <2> QED
    BY <1>4, <2>1, <2>2 DEF There, Legal
<1>6. TreeInv(next)
  <2> SUFFICES ASSUME NEW f \in FlatKey, next[f] # Nil
               PROVE  \/ \E q \in Path : BucketEntry(next, f, q)
                      \/ \E q \in Path, l \in Key : DataEntry(next, f, q, l)
    BY DEF TreeInv
  <2>1. CASE f = IndexKey[p]
    BY <1>5, <2>1 DEF Puts, BucketEntry
  <2>2. CASE f # IndexKey[p]
    <3>1. next[f] = flat[f]
      BY <2>2 DEF Puts
    <3> QED
      BY <1>3, <3>1 DEF TreeInv, BucketEntry, DataEntry
  <2> QED
    BY <2>1, <2>2
<1> QED
  BY <1>5, <1>6

(* Delete and Clear remove entries and no bucket. *)
LEMMA DropTree ==
    ASSUME NEW flat, NEW next, TreeInv(flat), NEW K, \A q \in Path : IndexKey[q] \notin K,
           Drops(flat, next, K)
    PROVE  TreeInv(next)
<1>1. ASSUME NEW q \in Path, There(flat, q) PROVE There(next, q)
  <2>1. \A i \in 1..Len(q) : SubSeq(q, 1, i) \in Path
    BY PrefixPath
  <2> QED
    BY <1>1, <2>1, FlatKeysOf, ThereStays DEF Drops, Has
<1> SUFFICES ASSUME NEW f \in FlatKey, next[f] # Nil
             PROVE  \/ \E q \in Path : BucketEntry(next, f, q)
                    \/ \E q \in Path, l \in Key : DataEntry(next, f, q, l)
  BY DEF TreeInv
<1>2. next[f] = flat[f]
  BY DEF Drops
<1> QED
  BY <1>1, <1>2 DEF TreeInv, BucketEntry, DataEntry

(* A bucket below p has p among the buckets around it. *)
LEMMA PathPrefix ==
    ASSUME NEW p \in Path, NEW q \in Path
    PROVE  IsPrefix(p, q) <=> (Len(p) \in 1..Len(q) /\ p = SubSeq(q, 1, Len(p)))
<1> DEFINE n == Len(p)
           m == Len(q)
<1>1. p \in Seq(ByteString) /\ q \in Seq(ByteString) /\ n \in Nat /\ m \in Nat /\ n >= 1
  BY LastIs
<1>2. IsPrefix(p, q) <=> (n <= m /\ \A i \in 1..n : p[i] = q[i])
  BY <1>1, PrefixIs
<1>3. n \in 1..m <=> n <= m
  BY <1>1
<1>4. ASSUME n \in 1..m
      PROVE  p = SubSeq(q, 1, n) <=> \A i \in 1..n : p[i] = q[i]
  <2> DEFINE s == SubSeq(q, 1, n)
  <2>1. s \in Path /\ Len(s) = n /\ \A i \in 1..n : s[i] = q[i]
    BY <1>4, PrefixPath
  <2> HIDE DEF s
  <2>2. (\A i \in 1..n : p[i] = q[i]) => p = s
    BY <2>1, SamePath
  <2>3. p = s <=> \A i \in 1..n : p[i] = q[i]
    BY <2>1, <2>2
  <2> QED
    BY <2>3 DEF s
<1> QED
  BY <1>2, <1>3, <1>4

(* What is below a bucket around q is around q as well. *)
LEMMA PrefixOfPrefix ==
    ASSUME NEW p \in Path, NEW q \in Path, NEW i \in 1..Len(q), IsPrefix(p, SubSeq(q, 1, i))
    PROVE  IsPrefix(p, q)
<1> DEFINE s == SubSeq(q, 1, i)
           n == Len(p)
           m == Len(q)
<1>1. s \in Path /\ Len(s) = i /\ \A j \in 1..i : SubSeq(s, 1, j) = SubSeq(q, 1, j)
  BY PrefixPath
<1>2. m \in Nat /\ i \in 1..m
  BY LastIs
<1> HIDE DEF s
<1>3. n \in 1..i /\ p = SubSeq(s, 1, n)
  BY <1>1, PathPrefix DEF s
<1>4. n \in 1..m
  <2> HIDE DEF n, m
  <2> QED
    BY <1>2, <1>3
<1> QED
  BY <1>1, <1>3, <1>4, PathPrefix

(* f is a bucket's entry or an entry of a bucket at p or below it. *)
Below(flat, p, f) ==
    \E q \in Path : /\ IsPrefix(p, q) /\ There(flat, q)
                    /\ f = IndexKey[q] \/ \E k \in Key : f = innerKey[q][k]

(* Of the entries that there are, K holds the ones below p. *)
Cuts(flat, p, K) == \A f \in FlatKey : flat[f] # Nil => (f \in K <=> Below(flat, p, f))

(* deleteBucket takes the index entries below, too. *)
LEMMA CutTree ==
    ASSUME NEW flat, NEW next, TreeInv(flat), NEW p \in Path, NEW K, Cuts(flat, p, K),
           Drops(flat, next, K)
    PROVE  /\ TreeInv(next)
           /\ \A q \in Path : Has(next, q) <=> Has(flat, q) /\ ~IsPrefix(p, q)
<1>1. ASSUME NEW q \in Path
      PROVE  Has(next, q) <=> Has(flat, q) /\ ~IsPrefix(p, q)
  <2>1. IndexKey[q] \in FlatKey
    BY FlatKeysOf
  <2>2. ASSUME Has(flat, q) PROVE Below(flat, p, IndexKey[q]) <=> IsPrefix(p, q)
    <3>1. There(flat, q) /\ Legal(q)
      BY <2>2, BucketOf, ThereIs
    <3>2. \A r \in Path : IndexKey[q] = IndexKey[r] => q = r
      BY <3>1, IndexKeyUnique
    <3>3. \A r \in Path, k \in Key : IndexKey[q] # innerKey[r][k]
      BY KindsApart
    <3> QED
      BY <3>1, <3>2, <3>3 DEF Below
  <2> QED
    BY <2>1, <2>2 DEF Cuts, Drops, Has
<1>2. ASSUME NEW q \in Path, There(flat, q), ~IsPrefix(p, q) PROVE There(next, q)
  <2>1. \A i \in 1..Len(q) : SubSeq(q, 1, i) \in Path /\ ~IsPrefix(p, SubSeq(q, 1, i))
    BY <1>2, PrefixPath, PrefixOfPrefix
  <2> QED
    BY <1>1, <1>2, <2>1, ThereStays
<1>3. TreeInv(next)
  <2> SUFFICES ASSUME NEW f \in FlatKey, next[f] # Nil
               PROVE  \/ \E q \in Path : BucketEntry(next, f, q)
                      \/ \E q \in Path, l \in Key : DataEntry(next, f, q, l)
    BY DEF TreeInv
  <2>1. next[f] = flat[f] /\ ~Below(flat, p, f)
    BY DEF Drops, Cuts
  <2>2. CASE \E q \in Path : BucketEntry(flat, f, q)
    BY <1>2, <2>1, <2>2 DEF BucketEntry, Below
  <2>3. CASE \E q \in Path, l \in Key : DataEntry(flat, f, q, l)
    BY <1>2, <2>1, <2>3 DEF DataEntry, Below
  <2> QED
    BY <2>1, <2>2, <2>3 DEF TreeInv
<1> QED
  BY <1>1, <1>3

(* The bucket around p's last name, and what is known of it from p. *)
LEMMA StepDown ==
    ASSUME NEW flat, TreeInv(flat), NEW q \in Path, There(flat, q), NEW i \in 2..Len(q)
    PROVE  /\ SubSeq(q, 1, i) \in Path /\ Has(flat, SubSeq(q, 1, i))
           /\ SubSeq(q, 1, i - 1) \in Path
           /\ IndexKey[SubSeq(q, 1, i)] \in Under(flat, IndexPrefix[SubSeq(q, 1, i - 1)])
           /\ flat[IndexKey[SubSeq(q, 1, i)]] = q[i]
<1> DEFINE s == SubSeq(q, 1, i)
<1>1. q \in Seq(ByteString) /\ Len(q) \in Nat /\ i \in 1..Len(q) /\ i - 1 \in 1..Len(q) /\ i > 1
  BY LastIs
<1>2. s \in Path /\ Len(s) = i /\ s[i] = q[i] /\ SubSeq(q, 1, i - 1) \in Path
  BY <1>1, PrefixPath
<1>3. Parent(s) = SubSeq(q, 1, i - 1)
  BY <1>1 DEF Parent
<1>4. Has(flat, s)
  BY <1>1, <1>2, ThereIs
<1> HIDE DEF s
<1>5. flat[IndexKey[s]] = q[i]
  BY <1>2, <1>4, BucketOf, LastIs
<1>6. IndexKey[s] \in Under(flat, IndexPrefix[Parent(s)])
  BY <1>1, <1>2, <1>4, ChildKey, FlatKeysOf DEF Under, Has
<1> QED
  BY <1>2, <1>3, <1>4, <1>5, <1>6 DEF s

(* The entries that Clear finds are those of its bucket. *)
LEMMA ClearFinds ==
    ASSUME NEW flat, TreeInv(flat), NEW p \in Path, Legal(p), NEW f \in FlatKey, flat[f] # Nil
    PROVE  f \in Under(flat, innerKey[p][Nil]) <=> \E k \in Key : f = innerKey[p][k]
<1>1. ASSUME f \in Under(flat, innerKey[p][Nil]) PROVE \E k \in Key : f = innerKey[p][k]
  BY <1>1, InnerFound DEF Under
<1>2. ASSUME NEW k \in Key, f = innerKey[p][k] PROVE f \in Under(flat, innerKey[p][Nil])
  <2>1. k \in ByteString /\ Nil \in ByteString /\ Len(Nil) = 0
    BY KeyAssumption DEF Nil, ByteString
  <2>2. Len(k) \in Nat
    BY <2>1 DEF ByteString
  <2>3. IsPrefix(Nil, k)
    BY <2>1, <2>2, PrefixOfString
  <2> QED
    BY <1>2, <2>3, InnerScan DEF Under
<1> QED
  BY <1>1, <1>2

(* Clearing the legal buckets of Q takes what is below p, if Q holds every *)
(* bucket that is there and only buckets from p downwards.                 *)
LEMMA CutAll ==
    ASSUME NEW flat, TreeInv(flat), NEW p \in Path, NEW Q,
           \A q \in Q : q \in Path /\ IsPrefix(p, q) /\ Legal(q),
           \A q \in Path : IsPrefix(p, q) /\ There(flat, q) => q \in Q
    PROVE  Cuts(flat, p, UNION {Under(flat, innerKey[q][Nil]) \cup {IndexKey[q]} : q \in Q})
<1> DEFINE K == UNION {Under(flat, innerKey[q][Nil]) \cup {IndexKey[q]} : q \in Q}
<1> SUFFICES ASSUME NEW f \in FlatKey, flat[f] # Nil
             PROVE  f \in K <=> Below(flat, p, f)
  BY DEF Cuts
<1>1. ASSUME NEW q \in Q, f \in Under(flat, innerKey[q][Nil])
      PROVE  Below(flat, p, f)
  <2>1. \E k \in Key : f = innerKey[q][k] /\ IsPrefix(Nil, k) /\ There(flat, q)
    BY <1>1, InnerFound DEF Under
  <2> QED
    BY <2>1 DEF Below
<1>2. ASSUME NEW q \in Q, f = IndexKey[q]
      PROVE  Below(flat, p, f)
  BY <1>2, BucketOf DEF Has, Below
<1>3. ASSUME NEW q \in Path, IsPrefix(p, q), There(flat, q), f = IndexKey[q]
      PROVE  f \in K
  BY <1>3
<1>4. ASSUME NEW q \in Path, IsPrefix(p, q), There(flat, q), NEW k \in Key, f = innerKey[q][k]
      PROVE  f \in K
  <2>1. q \in Q /\ Legal(q)
    BY <1>4, ThereIs
  <2>2. f \in Under(flat, innerKey[q][Nil])
    BY <1>4, <2>1, ClearFinds
  <2> QED
    BY <2>1, <2>2
<1> QED
  BY <1>1, <1>2, <1>3, <1>4 DEF Below

(* Even a bucket that the transaction has deleted is a legal one. *)
LEMMA FoundLegal ==
    ASSUME BatchInv, TreeInv(disk), TreeInv(Written), NEW p \in Path, Found(p)
    PROVE  Legal(p)
<1>1. CASE disk[IndexKey[p]] # Nil
  BY <1>1, BucketOf, ThereIs DEF Has
<1>2. CASE BatchGet(IndexKey[p]) # Nil
  <2>1. Opens(p)
    BY <1>2 DEF Opens, Found, BatchGet, Nil
  <2> QED
    BY <2>1, ScanIs, BucketOf, ThereIs
<1> QED
  BY <1>1, <1>2 DEF Found

(* The levels between a bucket and one below it. *)
LEMMA Levels ==
    ASSUME NEW p \in Path, NEW q \in Path, IsPrefix(p, q)
    PROVE  /\ \A i \in (Len(p) + 1)..Len(q) : i \in 2..Len(q)
           /\ q = p \/ (Len(q) \in (Len(p) + 1)..Len(q) /\ SubSeq(q, 1, Len(q)) = q)
<1> DEFINE n == Len(p)
           m == Len(q)
<1>1. n \in 1..m /\ p = SubSeq(q, 1, n) /\ n \in Nat /\ m \in Nat /\ SubSeq(q, 1, m) = q
  BY PathPrefix, LastIs
<1>2. CASE n = m
  <2>1. q = p
    BY <1>1, <1>2
  <2>2. \A i \in (n + 1)..m : i \in 2..m
    <3> HIDE DEF n, m
    <3> QED
      BY <1>1, <1>2
  <2> QED
    BY <2>1, <2>2
<1>3. CASE n # m
  <2>1. m \in (n + 1)..m /\ \A i \in (n + 1)..m : i \in 2..m
    <3> HIDE DEF n, m
    <3> QED
      BY <1>1, <1>3
  <2> QED
    BY <1>1, <2>1
<1> QED
  BY <1>2, <1>3

(* deleteBucket of the leveldb driver finds exactly what is below. *)
LEMMA DeletesBelow ==
    ASSUME BatchInv, TreeInv(disk), TreeInv(Written), NEW p \in Path, Found(p)
    PROVE  Cuts(Written, p, UNION {ClearKeys(q) \cup {IndexKey[q]} : q \in SubBuckets(p)})
<1> DEFINE W == Written
<1>1. ASSUME NEW q \in SubBuckets(p) PROVE q \in Path /\ IsPrefix(p, q) /\ Legal(q)
  <2>1. q \in Path /\ IsPrefix(p, q)
        /\ \A i \in (Len(p) + 1)..Len(q) : Found(SubSeq(q, 1, i))
    BY <1>1 DEF SubBuckets
  <2>2. Found(q)
    BY <2>1, Levels
  <2> QED
    BY <2>1, <2>2, FoundLegal
<1>2. ASSUME NEW q \in Path, IsPrefix(p, q), There(W, q) PROVE q \in SubBuckets(p)
  <2>1. ASSUME NEW i \in (Len(p) + 1)..Len(q)
        PROVE  q[i] \in BucketNames(SubSeq(q, 1, i - 1)) /\ Found(SubSeq(q, 1, i))
    <3> DEFINE s == SubSeq(q, 1, i)
               r == SubSeq(q, 1, i - 1)
    <3>1. i \in 2..Len(q)
      BY <1>2, <2>1, Levels
    <3>2. s \in Path /\ Has(W, s) /\ r \in Path /\ IndexKey[s] \in Under(W, IndexPrefix[r]) /\ W[IndexKey[s]] = q[i]
      BY <1>2, <3>1, StepDown
    <3> HIDE DEF s, r
    <3>3. IndexKey[s] \in Scan(IndexPrefix[r]) /\ ScanValue(IndexKey[s]) = q[i] /\ Found(s)
      BY <3>2, ScanIs DEF Under
    <3> QED
      BY <3>3 DEF BucketNames, s, r
  <2> QED
    BY <1>2, <2>1 DEF SubBuckets
<1>3. \A q \in Path : ClearKeys(q) = Under(W, innerKey[q][Nil])
  BY ScanIs DEF ClearKeys
<1> DEFINE Q == SubBuckets(p)
           KL == UNION {ClearKeys(q) \cup {IndexKey[q]} : q \in Q}
           KU == UNION {Under(W, innerKey[q][Nil]) \cup {IndexKey[q]} : q \in Q}
<1>4. KL = KU
  <2>1. \A q \in Q : ClearKeys(q) = Under(W, innerKey[q][Nil])
    BY <1>1, <1>3
  <2> HIDE DEF Q, W
  <2> QED
    BY <2>1
<1>5. Cuts(W, p, KU)
  <2> HIDE DEF Q
  <2>1. /\ \A q \in Q : q \in Path /\ IsPrefix(p, q) /\ Legal(q)
        /\ \A q \in Path : IsPrefix(p, q) /\ There(W, q) => q \in Q
    BY <1>1, <1>2 DEF Q
  <2> QED
    BY <2>1, CutAll
<1> QED
  BY <1>4, <1>5

-----------------------------------------------------------------------------
(* The invariant of the leveldb driver: the database, and in a transaction *)
(* what it will write, stand for trees of buckets.                         *)
TreesInv == BatchInv /\ TreeInv(disk) /\ (locked => TreeInv(Written))

(* What the calls of a transaction do to what it will write. *)
LEMMA NewBucketStep ==
    ASSUME TreesInv, NEW p \in Path, NewBucket(p)
    PROVE  /\ locked /\ locked' /\ locked' = locked /\ disk' = disk
           /\ Len(p) > 1 => Has(Written, Parent(p)) /\ There(Written, Parent(p))
           /\ isValidBucketName(Last(p)) /\ Puts(Written, Written', IndexKey[p], Last(p))
           /\ TreeInv(Written') /\ There(Written', p)
<1>1. locked /\ locked' /\ locked' = locked /\ disk' = disk /\ isValidBucketName(Last(p))
      /\ b' = BatchPut(IndexKey[p], Last(p)) /\ BatchInv /\ TreeInv(Written)
  BY DEF NewBucket, Writes, TreesInv
<1>2. ASSUME Len(p) > 1 PROVE Has(Written, Parent(p)) /\ There(Written, Parent(p))
  <2>1. Parent(p) \in Path /\ Opens(Parent(p))
    BY <1>2, ParentIs DEF NewBucket
  <2> QED
    BY <1>1, <2>1, ScanIs, BucketOf
<1>3. Puts(Written, Written', IndexKey[p], Last(p))
  BY <1>1, PutWrites, FlatKeysOf, StoredIsNoMark
<1>4. TreeInv(Written') /\ There(Written', p)
  BY <1>1, <1>2, <1>3, BucketTree
<1> QED
  BY <1>1, <1>2, <1>3, <1>4

(* Put writes one entry of a bucket that is there. *)
LEMMA PutStep ==
    ASSUME TreesInv, NEW p \in Path, NEW k \in Key, NEW v \in Value, Put(p, k, v)
    PROVE  /\ locked /\ locked' /\ locked' = locked /\ disk' = disk
           /\ Has(Written, p) /\ Legal(p) /\ Puts(Written, Written', innerKey[p][k], v)
           /\ TreeInv(Written')
<1>1. locked /\ locked' /\ locked' = locked /\ disk' = disk /\ Opens(p)
      /\ b' = BatchPut(innerKey[p][k], v) /\ BatchInv /\ TreeInv(Written)
  BY DEF Put, Writes, TreesInv
<1>2. Has(Written, p) /\ There(Written, p) /\ Legal(p)
  BY <1>1, ScanIs, BucketOf, ThereIs
<1>3. Puts(Written, Written', innerKey[p][k], v)
  BY <1>1, PutWrites, FlatKeysOf, StoredIsNoMark
<1> QED
  BY <1>1, <1>2, <1>3, PutTree

(* Delete takes one entry of a bucket that is there. *)
LEMMA DeleteStep ==
    ASSUME TreesInv, NEW p \in Path, NEW k \in Key, Delete(p, k)
    PROVE  /\ locked /\ locked' /\ locked' = locked /\ disk' = disk
           /\ Has(Written, p) /\ Legal(p) /\ Drops(Written, Written', {innerKey[p][k]})
           /\ TreeInv(Written')
<1> DEFINE K == {innerKey[p][k]}
<1>1. locked /\ locked' /\ locked' = locked /\ disk' = disk /\ Opens(p)
      /\ b' = BatchDelete(K) /\ BatchInv /\ TreeInv(Written)
  BY DEF Delete, Writes, TreesInv
<1>2. Has(Written, p) /\ Legal(p)
  BY <1>1, ScanIs, BucketOf, ThereIs
<1>3. K \in SUBSET FlatKey /\ \A q \in Path : IndexKey[q] \notin K
  BY FlatKeysOf, KindsApart
<1> HIDE DEF K
<1>4. Drops(Written, Written', K)
  BY <1>1, <1>3, DeleteWrites
<1>5. TreeInv(Written')
  BY <1>1, <1>3, <1>4, DropTree
<1> QED
  BY <1>1, <1>2, <1>4, <1>5 DEF K

(* Clear takes what its scan finds in a bucket that is there. *)
LEMMA ClearStep ==
    ASSUME TreesInv, NEW p \in Path, Clear(p)
    PROVE  /\ locked /\ locked' /\ locked' = locked /\ disk' = disk
           /\ Has(Written, p) /\ Legal(p) /\ Drops(Written, Written', Under(Written, innerKey[p][Nil]))
           /\ TreeInv(Written')
<1> DEFINE K == Under(Written, innerKey[p][Nil])
<1>1. locked /\ locked' /\ locked' = locked /\ disk' = disk /\ Opens(p)
      /\ b' = BatchDelete(ClearKeys(p)) /\ BatchInv /\ TreeInv(Written)
  BY DEF Clear, Writes, TreesInv
<1>2. Has(Written, p) /\ Legal(p)
  BY <1>1, ScanIs, BucketOf, ThereIs
<1>3. ClearKeys(p) = K
  BY <1>1, ScanIs DEF ClearKeys
<1>4. K \in SUBSET FlatKey /\ \A q \in Path : IndexKey[q] \notin K
  BY KindsApart DEF Under
<1> HIDE DEF K
<1>5. Drops(Written, Written', K)
  BY <1>1, <1>3, <1>4, DeleteWrites
<1>6. TreeInv(Written')
  BY <1>1, <1>4, <1>5, DropTree
<1> QED
  BY <1>1, <1>2, <1>5, <1>6 DEF K

(* DeleteBucket takes what is below its bucket and nothing else. *)
LEMMA DeleteBucketStep ==
    ASSUME TreesInv, NEW p \in Path, DeleteBucket(p)
    PROVE  /\ locked /\ locked' /\ locked' = locked /\ disk' = disk
           /\ \E K : Cuts(Written, p, K) /\ Drops(Written, Written', K)
           /\ TreeInv(Written')
<1> DEFINE K == UNION {ClearKeys(q) \cup {IndexKey[q]} : q \in SubBuckets(p)}
<1>1. locked /\ locked' /\ locked' = locked /\ disk' = disk /\ Found(p)
      /\ b' = BatchDelete(K) /\ BatchInv /\ TreeInv(Written) /\ TreeInv(disk)
  BY DEF DeleteBucket, Writes, TreesInv
<1>2. Cuts(Written, p, K)
  BY <1>1, DeletesBelow
<1>3. K \in SUBSET FlatKey
  BY FlatKeysOf DEF SubBuckets
<1> HIDE DEF K
<1>4. Drops(Written, Written', K)
  BY <1>1, <1>3, DeleteWrites
<1>5. TreeInv(Written')
  BY <1>1, <1>2, <1>4, CutTree
<1> QED
  BY <1>1, <1>2, <1>4, <1>5

(* BeginTx starts from what is committed. *)
LEMMA BeginStep ==
    ASSUME BeginTx
    PROVE  ~locked /\ locked' /\ disk' = disk /\ Same(disk, Written')
<1>1. b' = newBatch /\ disk' = disk /\ ~locked /\ locked'
  BY DEF BeginTx
<1>2. \A f \in FlatKey : b'.inner[f] = Untouched
  BY <1>1 DEF newBatch
<1> QED
  BY <1>1, <1>2 DEF Same, Written

(* Every call keeps the trees trees. *)
LEMMA NextTreesInv ==
    ASSUME TreesInv, [Next]_vars
    PROVE  TreesInv'
<1>0. BatchInv'
  BY NextBatchInv DEF TreesInv
<1>1. ASSUME locked', disk' = disk, TreeInv(Written') PROVE TreesInv'
  BY <1>0, <1>1 DEF TreesInv
<1>2. CASE UNCHANGED vars
  BY <1>0, <1>2 DEF TreesInv, vars, Written
<1>3. CASE BeginTx
  BY <1>1, <1>3, BeginStep, SameTree DEF TreesInv
<1>4. CASE Commit
  <2>1. disk' = Written /\ locked /\ ~locked'
    BY <1>4 DEF Commit
  <2>2. TreeInv(disk')
    BY <2>1 DEF TreesInv
  <2> QED
    BY <1>0, <2>1, <2>2 DEF TreesInv
<1>5. CASE Rollback
  BY <1>0, <1>5 DEF Rollback, TreesInv
<1>6. ASSUME NEW p \in Path, NewBucket(p) \/ DeleteBucket(p) \/ Clear(p)
      PROVE  TreesInv'
  BY <1>1, <1>6, NewBucketStep, DeleteBucketStep, ClearStep
<1>7. ASSUME NEW p \in Path, NEW k \in Key, Delete(p, k) \/ \E v \in Value : Put(p, k, v)
      PROVE  TreesInv'
  <2>1. CASE Delete(p, k)
    <3>1. locked' /\ disk' = disk /\ TreeInv(Written')
      BY <2>1, DeleteStep, Zenon
    <3> QED
      BY <1>1, <3>1
  <2>2. ASSUME NEW v \in Value, Put(p, k, v) PROVE TreesInv'
    <3>1. locked' /\ disk' = disk /\ TreeInv(Written')
      BY <2>2, PutStep
    <3> QED
      BY <1>1, <3>1
  <2> QED
    BY <1>7, <2>1, <2>2
<1> QED
  BY <1>2, <1>3, <1>4, <1>5, <1>6, <1>7 DEF Next

-----------------------------------------------------------------------------
(* What an earlier run has left. *)

(* The assumption on earlier runs, piece by piece. *)
LEMMA TreeIs ==
    ASSUME NEW t \in InitialTrees
    PROVE  /\ \A p \in DOMAIN t : p \in Path /\ Legal(p) /\ \A i \in 1..Len(p) : SubSeq(p, 1, i) \in DOMAIN t
           /\ \A p \in DOMAIN t : \A k \in DOMAIN t[p] : k \in Key /\ t[p][k] \in Value
BY TreesAssumption

(* The flat database has the entries of the tree and no others. *)
LEMMA FlatIs ==
    ASSUME NEW t \in InitialTrees
    PROVE  /\ \A p \in Path : FlatOf(t)[IndexKey[p]] = IF p \in DOMAIN t THEN Last(p) ELSE Nil
           /\ \A p \in Path, k \in Key : Legal(p) =>
                FlatOf(t)[innerKey[p][k]] = IF p \in DOMAIN t /\ k \in DOMAIN t[p] THEN t[p][k] ELSE Nil
           /\ \A f \in FlatKey : FlatOf(t)[f] # Nil =>
                \/ \E p \in DOMAIN t : f = IndexKey[p]
                \/ \E p \in DOMAIN t : \E k \in DOMAIN t[p] : f = innerKey[p][k]
<1> DEFINE D == DOMAIN t
           AtBucket(f) == \E p \in D : f = IndexKey[p]
           AtEntry(f) == \E p \in D : \E k \in DOMAIN t[p] : f = innerKey[p][k]
           Holds(f, v) == \E p \in D : \E k \in DOMAIN t[p] : f = innerKey[p][k] /\ v = t[p][k]
<1>1. \A f \in FlatKey :
        FlatOf(t)[f] = IF AtBucket(f) THEN Last(CHOOSE p \in D : f = IndexKey[p])
                       ELSE IF AtEntry(f) THEN CHOOSE v \in Value : Holds(f, v) ELSE Nil
  BY DEF FlatOf
<1>2. \A p \in D : p \in Path /\ Legal(p) /\ \A k \in DOMAIN t[p] : k \in Key /\ t[p][k] \in Value
  BY TreeIs
<1>3. ASSUME NEW p \in Path
      PROVE  FlatOf(t)[IndexKey[p]] = IF p \in D THEN Last(p) ELSE Nil
  <2>1. \A q \in D : IndexKey[p] = IndexKey[q] => q = p
    BY <1>2, IndexKeyUnique
  <2>2. ~AtEntry(IndexKey[p]) /\ IndexKey[p] \in FlatKey
    BY <1>2, KindsApart, FlatKeysOf
  <2>3. CASE p \in D
    <3>1. AtBucket(IndexKey[p])
      BY <2>3
    <3>2. (CHOOSE q \in D : IndexKey[p] = IndexKey[q]) = p
      BY <2>1, <2>3
    <3> QED
      BY <1>1, <2>2, <2>3, <3>1, <3>2
  <2>4. CASE p \notin D
    <3>1. ~AtBucket(IndexKey[p])
      BY <2>1, <2>4
    <3> QED
      BY <1>1, <2>2, <2>4, <3>1
  <2> QED
    BY <2>3, <2>4
<1>4. ASSUME NEW p \in Path, NEW k \in Key, Legal(p)
      PROVE  FlatOf(t)[innerKey[p][k]] = IF p \in D /\ k \in DOMAIN t[p] THEN t[p][k] ELSE Nil
  <2> DEFINE f == innerKey[p][k]
  <2>1. \A q \in D : \A l \in DOMAIN t[q] : f = innerKey[q][l] => q = p /\ l = k
    BY <1>2, <1>4, InnerUnique
  <2>2. ~AtBucket(f) /\ f \in FlatKey
    BY <1>2, KindsApart, FlatKeysOf
  <2>3. CASE p \in D /\ k \in DOMAIN t[p]
    <3>1. AtEntry(f) /\ Holds(f, t[p][k]) /\ t[p][k] \in Value
      BY <1>2, <2>3
    <3>2. \A v : Holds(f, v) => v = t[p][k]
      BY <2>1
    <3> HIDE DEF Holds
    <3>3. (CHOOSE v \in Value : Holds(f, v)) = t[p][k]
      BY <3>1, <3>2
    <3> HIDE DEF AtEntry, AtBucket, f
    <3>4. FlatOf(t)[f] = t[p][k]
      BY <1>1, <2>2, <3>1, <3>3
    <3> QED
      BY <2>3, <3>4 DEF f
  <2>4. CASE ~(p \in D /\ k \in DOMAIN t[p])
    <3>1. ~AtEntry(f)
      BY <2>1, <2>4
    <3> QED
      BY <1>1, <2>2, <2>4, <3>1
  <2> QED
    BY <2>3, <2>4
<1>5. ASSUME NEW f \in FlatKey, FlatOf(t)[f] # Nil
      PROVE  AtBucket(f) \/ AtEntry(f)
  BY <1>1, <1>5
<1> QED
  BY <1>3, <1>4, <1>5

(* A database made from a tree is one. *)
LEMMA FlatIsTree ==
    ASSUME NEW t \in InitialTrees
    PROVE  TreeInv(FlatOf(t))
<1> DEFINE F == FlatOf(t)
<1>1. ASSUME NEW p \in DOMAIN t PROVE p \in Path /\ There(F, p) /\ F[IndexKey[p]] = Last(p)
  <2>1. p \in Path /\ Legal(p) /\ \A i \in 1..Len(p) : SubSeq(p, 1, i) \in DOMAIN t
    BY <1>1, TreeIs
  <2>2. ASSUME NEW q \in DOMAIN t PROVE Has(F, q) /\ F[IndexKey[q]] = Last(q)
    <3>1. q \in Path /\ Legal(q)
      BY <2>2, TreeIs
    <3>2. Last(q) # Nil
      <4>1. isValidBucketName(Last(q))
        BY <3>1, LastIs DEF Legal
      <4> QED
        BY <3>1, <4>1, StoredIsNoMark
    <3> QED
      BY <2>2, <3>1, <3>2, FlatIs DEF Has
  <2> HIDE DEF F
  <2> QED
    BY <1>1, <2>1, <2>2 DEF There
<1> HIDE DEF F
<1> SUFFICES ASSUME NEW f \in FlatKey, F[f] # Nil
             PROVE  \/ \E p \in Path : BucketEntry(F, f, p)
                    \/ \E p \in Path, k \in Key : DataEntry(F, f, p, k)
  BY DEF TreeInv, F
<1>2. ASSUME NEW p \in DOMAIN t, f = IndexKey[p] PROVE \E q \in Path : BucketEntry(F, f, q)
  BY <1>1, <1>2 DEF BucketEntry
<1>3. ASSUME NEW p \in DOMAIN t, NEW k \in DOMAIN t[p], f = innerKey[p][k]
      PROVE  \E q \in Path, l \in Key : DataEntry(F, f, q, l)
  <2>1. p \in Path /\ Legal(p) /\ k \in Key /\ t[p][k] \in Value
    BY <1>3, TreeIs
  <2>2. F[f] = t[p][k]
    BY <1>3, <2>1, FlatIs DEF F
  <2> QED
    BY <1>1, <1>3, <2>1, <2>2 DEF DataEntry
<1> QED
  BY <1>2, <1>3, FlatIs DEF F

(* The database that is opened is a tree. *)
LEMMA InitTreesInv == Init => TreesInv
<1> SUFFICES ASSUME Init PROVE TreesInv
  OBVIOUS
<1>1. PICK t \in InitialTrees : disk = FlatOf(t)
  BY DEF Init
<1>2. TreeInv(disk)
  BY <1>1, FlatIsTree
<1> QED
  BY <1>2, InitBatchInv DEF Init, TreesInv

(* Committed or in the making, the flat keys carry a tree: each is the     *)
(* index entry of a legal bucket or an entry in one, and the buckets       *)
(* around it are there (NewBucket, Put, Delete, Clear, deleteBucket).      *)
THEOREM TreesInvariant == Spec => []TreesInv
BY InitTreesInv, NextTreesInv, PTL DEF Spec

(* GetByPrefix and BucketNames of a write transaction return the entries   *)
(* and the sub buckets of its tree, and BucketNames refuses none.          *)
THEOREM ScansAreExact == Spec => []ScansMatchTree
<1>1. TreesInv => ScansMatchTree
  <2> SUFFICES ASSUME TreesInv, locked, NEW p \in DOMAIN Work
               PROVE  /\ NamesLegal(p)
                      /\ BucketNames(p) = {Last(q) : q \in {q \in DOMAIN Work : Len(q) > 1 /\ Parent(q) = p}}
                      /\ \A prefix \in Key \cup {Nil} :
                            GetByPrefix(p, prefix) =
                                {<<k, Work[p][k]>> : k \in {k \in DOMAIN Work[p] : IsPrefix(prefix, k)}}
    BY DEF ScansMatchTree
  <2> DEFINE W == Written
             D == DOMAIN Work
  <2>1. BatchInv /\ TreeInv(W) /\ Work = TreeOf(W)
    BY DEF TreesInv, Work
  <2>2. D = {q \in Path : Has(W, q)}
    BY <2>1 DEF TreeOf, Has
  <2>3. Work[p] = [k \in {k \in Key : W[innerKey[p][k]] # Nil} |-> W[innerKey[p][k]]]
    BY <2>1, <2>2 DEF TreeOf, Has
  <2>4. p \in Path /\ Legal(p)
    BY <2>1, <2>2, BucketOf, ThereIs
  <2>5. NamesLegal(p) /\ BucketNames(p) = {Last(q) : q \in {q \in D : Len(q) > 1 /\ Parent(q) = p}}
    <3>1. {q \in Path : Has(W, q) /\ Len(q) > 1 /\ Parent(q) = p} = {q \in D : Len(q) > 1 /\ Parent(q) = p}
      BY <2>2
    <3> QED
      BY <2>1, <2>4, <3>1, NamesFound
  <2>6. ASSUME NEW pre \in Key \cup {Nil}
        PROVE  GetByPrefix(p, pre) = {<<k, Work[p][k]>> : k \in {k \in DOMAIN Work[p] : IsPrefix(pre, k)}}
    <3> DEFINE E == {k \in Key : W[innerKey[p][k]] # Nil /\ IsPrefix(pre, k)}
    <3>1. {k \in DOMAIN Work[p] : IsPrefix(pre, k)} = E /\ \A k \in E : Work[p][k] = W[innerKey[p][k]]
      BY <2>3
    <3>2. GetByPrefix(p, pre) = {<<k, W[innerKey[p][k]]>> : k \in E}
      BY <2>1, <2>4, EntriesFound
    <3> HIDE DEF E, W
    <3> QED
      BY <3>1, <3>2
  <2> QED
    BY <2>5, <2>6
<1> QED
  BY <1>1, TreesInvariant, PTL

-----------------------------------------------------------------------------
(* The driver implements the bucket store. *)

Buckets(flat) == {p \in Path : Has(flat, p)}
Row(flat, p) == [k \in {k \in Key : flat[innerKey[p][k]] # Nil} |-> flat[innerKey[p][k]]]

(* The tree of a flat database, row by row. *)
LEMMA TreeRows ==
    ASSUME NEW flat
    PROVE  TreeOf(flat) = [p \in Buckets(flat) |-> Row(flat, p)]
BY DEF TreeOf, Buckets, Row, Has

(* A row depends on the keys of its bucket only. *)
LEMMA SameRow ==
    ASSUME NEW flat, NEW next, NEW p, \A k \in Key : next[innerKey[p][k]] = flat[innerKey[p][k]]
    PROVE  Row(next, p) = Row(flat, p)
<1> DEFINE S == {k \in Key : flat[innerKey[p][k]] # Nil}
           T == {k \in Key : next[innerKey[p][k]] # Nil}
<1>1. S = T
  OBVIOUS
<1> QED
  BY <1>1 DEF Row

(* Databases with the same entries stand for the same tree. *)
LEMMA SameTreeOf ==
    ASSUME NEW flat, NEW next, Same(flat, next)
    PROVE  TreeOf(next) = TreeOf(flat)
<1>1. Buckets(next) = Buckets(flat)
  BY FlatKeysOf DEF Buckets, Has, Same
<1>2. \A p \in Buckets(flat) : Row(next, p) = Row(flat, p)
  BY SameRow, FlatKeysOf DEF Buckets, Same
<1> QED
  BY <1>1, <1>2, TreeRows

(* Without a transaction there is nothing to work on. *)
LEMMA NoTree == TreeOf([k \in FlatKey |-> Nil]) = BS!Empty
<1> DEFINE F == [k \in FlatKey |-> Nil]
<1>1. Buckets(F) = {}
  BY FlatKeysOf DEF Buckets, Has
<1> QED
  BY <1>1, TreeRows DEF BS!Empty

(* A database made from a tree stands for that tree. *)
LEMMA TreeOfFlat ==
    ASSUME NEW t \in InitialTrees
    PROVE  TreeOf(FlatOf(t)) = t
<1> DEFINE F == FlatOf(t)
           D == DOMAIN t
<1>1. \A p \in D : p \in Path /\ Legal(p)
  BY TreeIs
<1>2. \A p \in D : Last(p) # Nil
  <2>1. ASSUME NEW p \in D PROVE isValidBucketName(Last(p))
    BY <1>1, LastIs DEF Legal
  <2> QED
    BY <1>1, <2>1, StoredIsNoMark
<1>3. Buckets(F) = D
  <2>1. \A p \in Path : F[IndexKey[p]] = IF p \in D THEN Last(p) ELSE Nil
    BY FlatIs
  <2> HIDE DEF F
  <2> QED
    BY <1>1, <1>2, <2>1 DEF Buckets, Has
<1>4. ASSUME NEW p \in D PROVE Row(F, p) = t[p]
  <2>1. p \in Path /\ Legal(p) /\ t[p] = [k \in DOMAIN t[p] |-> t[p][k]]
    BY <1>1, TreesAssumption
  <2>2. \A k \in DOMAIN t[p] : k \in Key /\ t[p][k] # Nil
    BY <1>4, TreeIs, StoredIsNoMark
  <2>3. \A k \in Key : F[innerKey[p][k]] = IF k \in DOMAIN t[p] THEN t[p][k] ELSE Nil
    BY <1>4, <2>1, FlatIs
  <2> HIDE DEF F, D
  <2>4. {k \in Key : F[innerKey[p][k]] # Nil} = DOMAIN t[p]
    BY <2>2, <2>3
  <2>5. Row(F, p) = [k \in DOMAIN t[p] |-> t[p][k]]
    BY <2>2, <2>3, <2>4 DEF Row
  <2> QED
    BY <2>1, <2>5
<1>5. t = [p \in D |-> t[p]]
  BY TreesAssumption
<1> HIDE DEF F
<1>6. TreeOf(F) = [p \in D |-> t[p]]
  BY <1>3, <1>4, TreeRows
<1> QED
  BY <1>5, <1>6 DEF F

(* NewBucket: an empty row, unless the bucket is there already. *)
LEMMA CreateRow ==
    ASSUME NEW flat, NEW next, TreeInv(flat), NEW p \in Path, Legal(p),
           isValidBucketName(Last(p)), Puts(flat, next, IndexKey[p], Last(p))
    PROVE  /\ Has(flat, p) => TreeOf(next) = TreeOf(flat)
           /\ ~Has(flat, p) => TreeOf(next) = BS!With(TreeOf(flat), p, BS!Empty)
<1>1. ASSUME NEW q \in Path, q # p PROVE Has(next, q) <=> Has(flat, q)
  BY <1>1, IndexKeyUnique, FlatKeysOf DEF Puts, Has
<1>2. Has(next, p)
  BY StoredIsNoMark, FlatKeysOf DEF Puts, Has
<1>3. \A q \in Path : Row(next, q) = Row(flat, q)
  <2>1. \A q \in Path, k \in Key : innerKey[q][k] \in FlatKey /\ innerKey[q][k] # IndexKey[p]
    BY KindsApart, FlatKeysOf
  <2>2. \A q \in Path, k \in Key : next[innerKey[q][k]] = flat[innerKey[q][k]]
    BY <2>1 DEF Puts
  <2> QED
    BY <2>2, SameRow
<1>4. Buckets(next) = Buckets(flat) \cup {p}
  BY <1>1, <1>2 DEF Buckets
<1>5. ASSUME Has(flat, p) PROVE TreeOf(next) = TreeOf(flat)
  <2>1. Buckets(next) = Buckets(flat) /\ \A q \in Buckets(flat) : q \in Path
    BY <1>4, <1>5 DEF Buckets
  <2> QED
    BY <1>3, <2>1, TreeRows
<1>6. ASSUME ~Has(flat, p) PROVE TreeOf(next) = BS!With(TreeOf(flat), p, BS!Empty)
  <2>1. \A k \in Key : flat[innerKey[p][k]] = Nil
    BY <1>6, DataOf, ThereIs
  <2>2. Row(flat, p) = BS!Empty
    BY <2>1 DEF Row, BS!Empty
  <2> DEFINE D == Buckets(flat)
  <2>3. p \notin D /\ \A q \in D : q \in Path
    BY <1>6 DEF Buckets
  <2>4. TreeOf(flat) = [q \in D |-> Row(flat, q)] /\ TreeOf(next) = [q \in D \cup {p} |-> Row(next, q)]
    BY <1>4, TreeRows
  <2> HIDE DEF D
  <2>5. TreeOf(next) = [q \in D \cup {p} |-> IF q = p THEN BS!Empty ELSE TreeOf(flat)[q]]
    BY <1>3, <2>2, <2>3, <2>4
  <2>6. DOMAIN TreeOf(flat) = D
    BY <2>4
  <2> QED
    BY <2>5, <2>6 DEF BS!With
<1> QED
  BY <1>5, <1>6

(* Put, Delete and Clear: one row changes. *)
LEMMA OneRow ==
    ASSUME NEW flat, NEW next, TreeInv(flat), NEW p \in Path, NEW row,
           \A q \in Path : Has(next, q) <=> Has(flat, q),
           \A q \in Path : Has(flat, q) /\ q # p => Row(next, q) = Row(flat, q),
           Row(next, p) = row
    PROVE  TreeOf(next) = [TreeOf(flat) EXCEPT ![p] = row]
<1> DEFINE D == Buckets(flat)
<1>1. Buckets(next) = D /\ \A q \in D : q \in Path /\ Has(flat, q)
  BY DEF Buckets
<1>2. TreeOf(flat) = [q \in D |-> Row(flat, q)] /\ TreeOf(next) = [q \in D |-> Row(next, q)]
  BY <1>1, TreeRows
<1> HIDE DEF D
<1> QED
  BY <1>1, <1>2

(* Put changes one entry of one row. *)
LEMMA PutRow ==
    ASSUME NEW flat, NEW next, TreeInv(flat), NEW p \in Path, Legal(p), Has(flat, p),
           NEW k \in Key, NEW v \in Value, Puts(flat, next, innerKey[p][k], v)
    PROVE  TreeOf(next) = [TreeOf(flat) EXCEPT ![p] = BS!With(@, k, v)]
<1>1. \A q \in Path : Has(next, q) <=> Has(flat, q)
  <2>1. \A q \in Path : IndexKey[q] \in FlatKey /\ IndexKey[q] # innerKey[p][k]
    BY KindsApart, FlatKeysOf
  <2> QED
    BY <2>1 DEF Puts, Has
<1>2. ASSUME NEW q \in Path, Has(flat, q), q # p PROVE Row(next, q) = Row(flat, q)
  <2>1. Legal(q)
    BY <1>2, BucketOf, ThereIs
  <2>2. \A l \in Key : innerKey[q][l] \in FlatKey /\ innerKey[q][l] # innerKey[p][k]
    BY <1>2, <2>1, InnerUnique, FlatKeysOf
  <2> QED
    BY <2>2, SameRow DEF Puts
<1> DEFINE row == Row(flat, p)
           F(l) == flat[innerKey[p][l]]
           G(l) == next[innerKey[p][l]]
<1>3. Row(next, p) = BS!With(row, k, v)
  <2>1. \A l \in Key : innerKey[p][l] \in FlatKey /\ (innerKey[p][l] = innerKey[p][k] => l = k)
    BY InnerUnique, FlatKeysOf
  <2>2. \A l \in Key : G(l) = IF l = k THEN v ELSE F(l)
    BY <2>1 DEF Puts
  <2>3. v # Nil
    BY StoredIsNoMark
  <2>4. row = [l \in {l \in Key : F(l) # Nil} |-> F(l)] /\ Row(next, p) = [l \in {l \in Key : G(l) # Nil} |-> G(l)]
    BY DEF Row
  <2> HIDE DEF F, G, row
  <2>5. {l \in Key : G(l) # Nil} = DOMAIN row \cup {k}
    BY <2>2, <2>3, <2>4
  <2>6. \A l \in DOMAIN row \cup {k} : G(l) = IF l = k THEN v ELSE row[l]
    BY <2>2, <2>4
  <2>7. Row(next, p) = [l \in DOMAIN row \cup {k} |-> IF l = k THEN v ELSE row[l]]
    BY <2>4, <2>5, <2>6
  <2> QED
    BY <2>7 DEF BS!With
<1>4. TreeOf(flat)[p] = row
  BY TreeRows DEF Buckets
<1>5. TreeOf(next) = [TreeOf(flat) EXCEPT ![p] = BS!With(row, k, v)]
  BY <1>1, <1>2, <1>3, OneRow
<1> QED
  BY <1>4, <1>5

(* Deleting keys of one bucket. *)
LEMMA DropRow ==
    ASSUME NEW flat, NEW next, TreeInv(flat), NEW p \in Path, Legal(p), Has(flat, p),
           NEW L \in SUBSET Key, NEW K, Drops(flat, next, K),
           \A f \in FlatKey : flat[f] # Nil => (f \in K <=> \E l \in L : f = innerKey[p][l])
    PROVE  TreeOf(next) = [TreeOf(flat) EXCEPT ![p] = BS!Without(@, L)]
<1>1. \A q \in Path : Has(next, q) <=> Has(flat, q)
  <2>1. \A q \in Path : IndexKey[q] \in FlatKey /\ \A l \in L : IndexKey[q] # innerKey[p][l]
    BY KindsApart, FlatKeysOf
  <2> QED
    BY <2>1 DEF Drops, Has
<1>2. ASSUME NEW q \in Path, Has(flat, q), q # p PROVE Row(next, q) = Row(flat, q)
  <2>1. Legal(q)
    BY <1>2, BucketOf, ThereIs
  <2>2. \A m \in Key : innerKey[q][m] \in FlatKey /\ \A l \in L : innerKey[q][m] # innerKey[p][l]
    BY <1>2, <2>1, InnerUnique, FlatKeysOf
  <2>3. \A m \in Key : next[innerKey[q][m]] = flat[innerKey[q][m]]
    BY <2>2 DEF Drops
  <2> QED
    BY <2>3, SameRow
<1> DEFINE row == Row(flat, p)
           F(l) == flat[innerKey[p][l]]
           G(l) == next[innerKey[p][l]]
<1>3. Row(next, p) = BS!Without(row, L)
  <2>1. \A l \in Key : /\ innerKey[p][l] \in FlatKey
                       /\ \A m \in L : innerKey[p][l] = innerKey[p][m] => l = m
    BY InnerUnique, FlatKeysOf
  <2>2. \A l \in Key : G(l) = IF l \in L THEN Nil ELSE F(l)
    BY <2>1 DEF Drops
  <2>3. row = [l \in {l \in Key : F(l) # Nil} |-> F(l)] /\ Row(next, p) = [l \in {l \in Key : G(l) # Nil} |-> G(l)]
    BY DEF Row
  <2> HIDE DEF F, G, row
  <2>4. {l \in Key : G(l) # Nil} = DOMAIN row \ L
    BY <2>2, <2>3
  <2>5. \A l \in DOMAIN row \ L : G(l) = row[l]
    BY <2>2, <2>3
  <2>6. Row(next, p) = [l \in DOMAIN row \ L |-> row[l]]
    BY <2>3, <2>4, <2>5
  <2> QED
    BY <2>6 DEF BS!Without
<1>4. TreeOf(flat)[p] = row
  BY TreeRows DEF Buckets
<1>5. TreeOf(next) = [TreeOf(flat) EXCEPT ![p] = BS!Without(row, L)]
  BY <1>1, <1>2, <1>3, OneRow
<1> QED
  BY <1>4, <1>5

(* deleteBucket: the rows from p downwards go, the others stay. *)
LEMMA CutRows ==
    ASSUME NEW flat, NEW next, TreeInv(flat), NEW p \in Path, NEW K, Cuts(flat, p, K),
           Drops(flat, next, K)
    PROVE  TreeOf(next) = BS!Without(TreeOf(flat), {q \in DOMAIN TreeOf(flat) : IsPrefix(p, q)})
<1> DEFINE D == Buckets(flat)
           T == TreeOf(flat)
           B == {q \in D : IsPrefix(p, q)}
<1>1. T = [q \in D |-> Row(flat, q)] /\ TreeOf(next) = [q \in Buckets(next) |-> Row(next, q)]
  BY TreeRows
<1>2. Buckets(next) = D \ B
  BY CutTree DEF Buckets
<1>3. ASSUME NEW q \in D \ B PROVE Row(next, q) = Row(flat, q)
  <2>1. q \in Path /\ ~IsPrefix(p, q) /\ Legal(q)
    BY <1>3, BucketOf, ThereIs DEF Buckets
  <2>2. ASSUME NEW k \in Key PROVE next[innerKey[q][k]] = flat[innerKey[q][k]]
    <3>1. innerKey[q][k] \in FlatKey /\ \A r \in Path : innerKey[q][k] # IndexKey[r]
      BY <2>1, KindsApart, FlatKeysOf
    <3>2. \A r \in Path, l \in Key : Legal(r) /\ innerKey[q][k] = innerKey[r][l] => q = r
      BY <2>1, InnerUnique
    <3>3. ~Below(flat, p, innerKey[q][k])
      BY <2>1, <3>1, <3>2, ThereIs DEF Below
    <3> QED
      BY <3>1, <3>3 DEF Cuts, Drops
  <2> QED
    BY <2>2, SameRow
<1> HIDE DEF D, T
<1>4. DOMAIN T = D
  BY <1>1
<1>5. TreeOf(next) = [q \in D \ B |-> T[q]]
  BY <1>1, <1>2, <1>3
<1> QED
  BY <1>4, <1>5 DEF BS!Without, T

(* A call of a client is a step of the bucket store, or changes nothing    *)
(* there: making a bucket that the transaction has made already.           *)
LEMMA NextImplements ==
    ASSUME TreesInv, [Next]_vars
    PROVE  [BS!Next]_(BS!vars)
<1> DEFINE T == TreeOf(Written)
<1>1. ASSUME locked, locked', locked' = locked, disk' = disk
      PROVE  Work = T /\ Work' = T' /\ UNCHANGED <<TreeOf(disk), locked>>
  BY <1>1 DEF Work
<1>2. DOMAIN T = Buckets(Written)
  BY TreeRows
<1>3. CASE UNCHANGED vars
  BY <1>3 DEF vars, BS!vars, Work, Written
<1>4. CASE BeginTx
  <2>1. ~locked /\ locked' /\ disk' = disk /\ Same(disk, Written') /\ locked' = TRUE
    BY <1>4, BeginStep DEF BeginTx
  <2>2. Work' = TreeOf(disk) /\ TreeOf(disk)' = TreeOf(disk)
    BY <2>1, SameTreeOf DEF Work
  <2> QED
    BY <2>1, <2>2 DEF BS!Next, BS!Begin
<1>5. CASE Commit
  <2>1. locked /\ disk' = Written /\ locked' = FALSE
    BY <1>5 DEF Commit
  <2>2. Work = T /\ TreeOf(disk)' = T /\ Work' = BS!Empty
    BY <2>1, NoTree DEF Work
  <2> QED
    BY <2>1, <2>2 DEF BS!Next, BS!Commit
<1>6. CASE Rollback
  <2>1. locked /\ disk' = disk /\ locked' = FALSE
    BY <1>6 DEF Rollback
  <2>2. TreeOf(disk)' = TreeOf(disk) /\ Work' = BS!Empty
    BY <2>1, NoTree DEF Work
  <2> QED
    BY <2>1, <2>2 DEF BS!Next, BS!Abort
<1>7. ASSUME NEW p \in Path, NewBucket(p)
      PROVE  [BS!Next]_(BS!vars)
  <2>1. /\ locked /\ locked' /\ locked' = locked /\ disk' = disk /\ TreeInv(Written)
        /\ Len(p) > 1 => Has(Written, Parent(p))
        /\ isValidBucketName(Last(p)) /\ Puts(Written, Written', IndexKey[p], Last(p))
        /\ Legal(p)
    BY <1>7, NewBucketStep, ThereIs DEF TreesInv
  <2>2. Work = T /\ Work' = T' /\ UNCHANGED <<TreeOf(disk), locked>>
    BY <1>1, <2>1
  <2>3. /\ Has(Written, p) => T' = T
        /\ ~Has(Written, p) => T' = BS!With(T, p, BS!Empty)
    BY <2>1, CreateRow
  <2>4. Len(p) > 1 => BS!Front(p) = Parent(p) /\ Parent(p) \in Path
    BY ParentIs DEF BS!Front, Parent
  <2>5. /\ p \in DOMAIN T <=> Has(Written, p)
        /\ Len(p) > 1 => BS!Front(p) \in DOMAIN T
    BY <1>2, <2>1, <2>4 DEF Buckets
  <2> HIDE DEF T
  <2>6. CASE Has(Written, p)
    BY <2>2, <2>3, <2>6 DEF BS!vars
  <2>7. CASE ~Has(Written, p)
    <3>1. BS!Create(p)
      BY <2>2, <2>3, <2>5, <2>7 DEF BS!Create
    <3> QED
      BY <2>1, <2>2, <3>1 DEF BS!Next, BS!Change
  <2> QED
    BY <2>6, <2>7
<1>8. ASSUME NEW p \in Path, DeleteBucket(p)
      PROVE  BS!Next
  <2>1. /\ locked /\ locked' /\ locked' = locked /\ disk' = disk /\ TreeInv(Written)
        /\ \E K : Cuts(Written, p, K) /\ Drops(Written, Written', K)
    BY <1>8, DeleteBucketStep DEF TreesInv
  <2>2. Work = T /\ Work' = T' /\ UNCHANGED <<TreeOf(disk), locked>>
    BY <1>1, <2>1
  <2>3. T' = BS!Without(T, {q \in DOMAIN T : IsPrefix(p, q)})
    BY <2>1, CutRows
  <2> HIDE DEF T
  <2>4. BS!Drop(p)
    <3>1. \A q : BS!IsPrefix(p, q) = IsPrefix(p, q)
      BY DEF BS!IsPrefix, IsPrefix
    <3>2. {q \in DOMAIN T : BS!IsPrefix(p, q)} = {q \in DOMAIN T : IsPrefix(p, q)}
      BY <3>1
    <3> QED
      BY <2>2, <2>3, <3>2 DEF BS!Drop
  <2> QED
    BY <2>1, <2>2, <2>4 DEF BS!Next, BS!Change
<1>9. ASSUME NEW p \in Path, Clear(p)
      PROVE  BS!Next
  <2>1. /\ locked /\ locked' /\ locked' = locked /\ disk' = disk /\ TreeInv(Written)
        /\ Has(Written, p) /\ Legal(p) /\ Drops(Written, Written', Under(Written, innerKey[p][Nil]))
    BY <1>9, ClearStep DEF TreesInv
  <2>2. Work = T /\ Work' = T' /\ UNCHANGED <<TreeOf(disk), locked>>
    BY <1>1, <2>1
  <2> DEFINE K == Under(Written, innerKey[p][Nil])
  <2>3. \A f \in FlatKey : Written[f] # Nil => (f \in K <=> \E l \in Key : f = innerKey[p][l])
    BY <2>1, ClearFinds
  <2>4. T' = [T EXCEPT ![p] = BS!Without(@, Key)]
    <3>1. Drops(Written, Written', K)
      BY <2>1
    <3> HIDE DEF K
    <3> QED
      BY <2>1, <2>3, <3>1, DropRow
  <2>5. p \in DOMAIN T /\ BS!Without(T[p], Key) = BS!Empty
    <3>1. p \in DOMAIN T /\ T[p] = Row(Written, p)
      BY <2>1, TreeRows DEF Buckets
    <3>2. DOMAIN Row(Written, p) \ Key = {}
      BY DEF Row
    <3> HIDE DEF T
    <3> QED
      BY <3>1, <3>2 DEF BS!Without, BS!Empty
  <2> HIDE DEF T
  <2>6. BS!Clear(p)
    BY <2>2, <2>4, <2>5 DEF BS!Clear
  <2> QED
    BY <2>1, <2>2, <2>6 DEF BS!Next, BS!Change
<1>10. ASSUME NEW p \in Path, NEW k \in Key, Delete(p, k)
       PROVE  BS!Next
  <2> DEFINE K == {innerKey[p][k]}
             L == {k}
  <2>1. /\ locked /\ locked' /\ locked' = locked /\ disk' = disk /\ TreeInv(Written)
        /\ Has(Written, p) /\ Legal(p) /\ Drops(Written, Written', K)
    BY <1>10, DeleteStep, Zenon DEF TreesInv
  <2>2. Work = T /\ Work' = T' /\ UNCHANGED <<TreeOf(disk), locked>>
    BY <1>1, <2>1
  <2>3. L \in SUBSET Key /\ \A f \in FlatKey : f \in K <=> \E l \in L : f = innerKey[p][l]
    OBVIOUS
  <2>4. p \in DOMAIN T
    BY <1>2, <2>1 DEF Buckets
  <2> HIDE DEF K, L
  <2>5. T' = [T EXCEPT ![p] = BS!Without(@, L)]
    BY <2>1, <2>3, DropRow
  <2> HIDE DEF T
  <2>6. BS!Delete(p, k)
    BY <2>2, <2>4, <2>5 DEF BS!Delete, L
  <2> QED
    BY <2>1, <2>2, <2>6 DEF BS!Next, BS!Change
<1>11. ASSUME NEW p \in Path, NEW k \in Key, NEW v \in Value, Put(p, k, v)
       PROVE  BS!Next
  <2>1. /\ locked /\ locked' /\ locked' = locked /\ disk' = disk /\ TreeInv(Written)
        /\ Has(Written, p) /\ Legal(p) /\ Puts(Written, Written', innerKey[p][k], v)
    BY <1>11, PutStep DEF TreesInv
  <2>2. Work = T /\ Work' = T' /\ UNCHANGED <<TreeOf(disk), locked>>
    BY <1>1, <2>1
  <2>3. p \in DOMAIN T
    BY <1>2, <2>1 DEF Buckets
  <2>4. T' = [T EXCEPT ![p] = BS!With(@, k, v)]
    BY <2>1, PutRow
  <2> HIDE DEF T
  <2>5. BS!Put(p, k, v)
    BY <2>2, <2>3, <2>4 DEF BS!Put
  <2> QED
    BY <2>1, <2>2, <2>5 DEF BS!Next, BS!Change
<1> QED
  BY <1>3, <1>4, <1>5, <1>6, <1>7, <1>8, <1>9, <1>10, <1>11 DEF Next

(* The database that is opened is one that the bucket store opens. *)
LEMMA InitImplements == Init => BS!Init
<1> SUFFICES ASSUME Init PROVE BS!Init
  OBVIOUS
<1>1. PICK t \in InitialTrees : disk = FlatOf(t)
  BY DEF Init
<1>2. TreeOf(disk) \in InitialTrees
  BY <1>1, TreeOfFlat
<1>3. locked = FALSE /\ Work = BS!Empty
  BY NoTree DEF Init, Work
<1> QED
  BY <1>2, <1>3 DEF BS!Init

(* Whatever the paths, keys and values, the flat keys carry a tree of      *)
(* buckets, and each call changes the bucket it names and no other.        *)
THEOREM ImplementsBucketStore == Spec => RefinesBucketStore
<1>1. Init => BS!Init
  BY InitImplements
<1>2. TreesInv /\ [Next]_vars => [BS!Next]_(BS!vars)
  BY NextImplements
<1> QED
  BY <1>1, <1>2, TreesInvariant, PTL DEF Spec, RefinesBucketStore, BS!Spec

-----------------------------------------------------------------------------
(* The rocksdb driver beside the leveldb driver. *)

(* Both drivers build their keys alike. *)
LEMMA SameKeys ==
    /\ R!IndexKey = IndexKey /\ R!innerKey = innerKey /\ R!IndexPrefix = IndexPrefix
    /\ R!FlatKey = FlatKey /\ R!Nil = Nil
    /\ \A s, t : R!IsPrefix(s, t) = IsPrefix(s, t)
    /\ \A p : R!Last(p) = Last(p) /\ R!isValidBucketName(p) = isValidBucketName(p)
    /\ \A p, f : R!OuterKey(p, f) = OuterKey(p, f)
    /\ R!Unwritten = Untouched
<1>1. \A arr : R!joinBucketPath(arr) = joinBucketPath(arr)
  BY DEF R!joinBucketPath, joinBucketPath, R!Sep, Sep
<1>2. \A p : R!BucketPath(p) = BucketPath(p)
  BY <1>1 DEF R!BucketPath, BucketPath, R!Itoa, Itoa
<1>3. R!IndexKey = IndexKey
  BY <1>1, <1>2 DEF R!IndexKey, IndexKey, R!Index, Index
<1>4. R!innerKey = innerKey
  BY <1>1, <1>2 DEF R!innerKey, innerKey, R!Nil, Nil
<1>5. R!IndexPrefix = IndexPrefix
  BY <1>1 DEF R!IndexPrefix, IndexPrefix, R!Nil, Nil, R!Itoa, Itoa, R!Index, Index
<1>6. R!FlatKey = FlatKey
  BY <1>3, <1>4 DEF R!FlatKey, FlatKey
<1>7. \A s, t : R!IsPrefix(s, t) = IsPrefix(s, t)
  BY DEF R!IsPrefix, IsPrefix
<1>8. \A p : R!Last(p) = Last(p) /\ R!isValidBucketName(p) = isValidBucketName(p)
  BY DEF R!Last, Last, R!isValidBucketName, isValidBucketName, R!Sep, Sep, R!maxBucketNameLen, maxBucketNameLen
<1>9. \A p, f : R!OuterKey(p, f) = OuterKey(p, f)
  BY <1>2 DEF R!OuterKey, OuterKey
<1>10. R!Unwritten = Untouched /\ R!Nil = Nil
  BY DEF R!Unwritten, Untouched, R!Nil, Nil
<1> QED
  BY <1>3, <1>4, <1>5, <1>6, <1>7, <1>8, <1>9, <1>10

(* What the rocksdb transaction shows of each key. *)
Shown == [f \in FlatKey |-> R!TrGet(f)]

DriversInv == /\ TreesInv /\ tdb = disk /\ DOMAIN tr = FlatKey
              /\ locked => Shown = Written

(* The reads of the rocksdb driver. *)
LEMMA ShownReads ==
    ASSUME TreeInv(Shown)
    PROVE  /\ \A prefix : R!TrKeys(prefix) = Under(Shown, prefix)
           /\ \A f \in FlatKey : R!TrGet(f) = Shown[f]
           /\ \A p \in Path : R!Exists(p) <=> Has(Shown, p)
<1>1. \A f \in FlatKey : R!TrGet(f) = Shown[f]
  BY DEF Shown
<1>2. ASSUME NEW prefix PROVE R!TrKeys(prefix) = Under(Shown, prefix)
  BY <1>1, SameKeys DEF R!TrKeys, Under
<1>3. ASSUME NEW p \in Path PROVE R!Exists(p) <=> Has(Shown, p)
  <2>1. IndexKey[p] \in FlatKey
    BY FlatKeysOf
  <2>2. R!Exists(p) <=> Shown[IndexKey[p]] # Nil /\ (Len(p) > 1 => Shown[IndexKey[p]] = Last(p))
    BY <1>1, <2>1, SameKeys DEF R!Exists
  <2>3. Has(Shown, p) => Shown[IndexKey[p]] = Last(p)
    BY BucketOf
  <2> QED
    BY <2>2, <2>3 DEF Has
<1> QED
  BY <1>1, <1>2, <1>3

(* The writes of the rocksdb driver. *)
LEMMA ShownPut ==
    ASSUME DOMAIN tr = FlatKey, NEW f \in FlatKey, NEW v, v # Untouched,
           tr' = [tr EXCEPT ![f] = v], tdb' = tdb
    PROVE  Puts(Shown, Shown', f, v) /\ DOMAIN tr' = FlatKey
<1>1. ASSUME NEW g \in FlatKey PROVE tr'[g] = IF g = f THEN v ELSE tr[g]
  OBVIOUS
<1> QED
  BY <1>1, SameKeys DEF Puts, Shown, R!TrGet

(* tr.Delete of every key of a loop. *)
LEMMA ShownDelete ==
    ASSUME DOMAIN tr = FlatKey, NEW K, R!TrDelete(K), tdb' = tdb
    PROVE  Drops(Shown, Shown', K) /\ DOMAIN tr' = FlatKey
<1>1. tr' = [f \in FlatKey |-> IF f \in K THEN Nil ELSE tr[f]]
  BY SameKeys DEF R!TrDelete
<1>2. Untouched # Nil
  BY DEF Untouched, Nil
<1> QED
  BY <1>1, <1>2, SameKeys DEF Drops, Shown, R!TrGet

(* deleteBucket of the rocksdb driver finds exactly what is below. *)
LEMMA ShownBelow ==
    ASSUME TreeInv(Shown), NEW p \in Path
    PROVE  Cuts(Shown, p, IF R!Exists(p)
                          THEN UNION {R!TrKeys(R!innerKey[q][R!Nil]) \cup {R!IndexKey[q]} : q \in R!SubBuckets(p)}
                          ELSE {})
<1> DEFINE W == Shown
           Q == R!SubBuckets(p)
           KR == UNION {R!TrKeys(R!innerKey[q][R!Nil]) \cup {R!IndexKey[q]} : q \in Q}
           KU == UNION {Under(W, innerKey[q][Nil]) \cup {IndexKey[q]} : q \in Q}
<1>1. \A q \in Q : q \in Path /\ IsPrefix(p, q)
        /\ \A i \in (Len(p) + 1)..Len(q) : R!Exists(SubSeq(q, 1, i))
  BY SameKeys DEF R!SubBuckets
<1>2. ASSUME NEW q \in Path, IsPrefix(p, q), There(W, q) PROVE q \in Q
  <2>1. ASSUME NEW i \in (Len(p) + 1)..Len(q)
        PROVE  q[i] \in R!BucketNames(SubSeq(q, 1, i - 1)) /\ R!Exists(SubSeq(q, 1, i))
    <3> DEFINE s == SubSeq(q, 1, i)
               r == SubSeq(q, 1, i - 1)
    <3>1. i \in 2..Len(q)
      BY <1>2, <2>1, Levels
    <3>2. s \in Path /\ Has(W, s) /\ r \in Path /\ IndexKey[s] \in Under(W, IndexPrefix[r]) /\ W[IndexKey[s]] = q[i]
      BY <1>2, <3>1, StepDown
    <3> HIDE DEF s, r
    <3>3. IndexKey[s] \in R!TrKeys(R!IndexPrefix[r]) /\ R!TrGet(IndexKey[s]) = q[i] /\ R!Exists(s)
      BY <3>2, ShownReads, SameKeys DEF Under
    <3> QED
      BY <3>3 DEF R!BucketNames, s, r
  <2>2. R!IsPrefix(p, q)
    BY <1>2, SameKeys
  <2> QED
    BY <1>2, <2>1, <2>2 DEF R!SubBuckets
<1>3. CASE R!Exists(p)
  <2>1. ASSUME NEW q \in Q PROVE q \in Path /\ IsPrefix(p, q) /\ Legal(q)
    <3>1. q \in Path /\ IsPrefix(p, q) /\ \A i \in (Len(p) + 1)..Len(q) : R!Exists(SubSeq(q, 1, i))
      BY <1>1, <2>1
    <3>2. R!Exists(q)
      BY <1>3, <3>1, Levels
    <3> QED
      BY <3>1, <3>2, ShownReads, BucketOf, ThereIs
  <2>2. KR = KU
    <3>1. \A q \in Q : R!TrKeys(R!innerKey[q][R!Nil]) = Under(W, innerKey[q][Nil]) /\ R!IndexKey[q] = IndexKey[q]
      BY ShownReads, SameKeys
    <3> HIDE DEF Q, W
    <3> QED
      BY <3>1
  <2>3. Cuts(W, p, KU)
    <3> HIDE DEF Q
    <3>1. /\ \A q \in Q : q \in Path /\ IsPrefix(p, q) /\ Legal(q)
          /\ \A q \in Path : IsPrefix(p, q) /\ There(W, q) => q \in Q
      BY <1>2, <2>1 DEF Q
    <3> QED
      BY <3>1, CutAll
  <2> QED
    BY <1>3, <2>2, <2>3
<1>4. CASE ~R!Exists(p)
  <2>1. ~Has(W, p)
    BY <1>4, ShownReads
  <2>2. ASSUME NEW q \in Path, IsPrefix(p, q) PROVE ~There(W, q)
    <3>1. Len(p) \in 1..Len(q) /\ p = SubSeq(q, 1, Len(p))
      BY <2>2, PathPrefix
    <3> QED
      BY <2>1, <3>1 DEF There
  <2>3. \A f : ~Below(W, p, f)
    BY <2>2 DEF Below
  <2> QED
    BY <1>4, <2>3 DEF Cuts
<1> QED
  BY <1>3, <1>4

(* Both drivers make the same of the same call. *)
LEMMA NextDriversInv ==
    ASSUME DriversInv, [BothNext]_bothVars
    PROVE  DriversInv'
<1>0. TreesInv'
  <2>1. [Next]_vars
    BY DEF BothNext, bothVars, Next, vars
  <2> QED
    BY <2>1, NextTreesInv DEF DriversInv
<1>1. TreesInv /\ tdb = disk /\ DOMAIN tr = FlatKey /\ (locked => Shown = Written /\ TreeInv(Shown) /\ TreeInv(Written))
  BY DEF DriversInv, TreesInv
<1>2. ASSUME tdb' = tdb, disk' = disk, DOMAIN tr' = FlatKey, \A f \in FlatKey : Shown'[f] = Written'[f]
      PROVE  DriversInv'
  <2>1. Shown' = Written'
    BY <1>2 DEF Shown, Written
  <2> QED
    BY <1>0, <1>1, <1>2, <2>1 DEF DriversInv
<1>3. CASE UNCHANGED bothVars
  BY <1>0, <1>1, <1>3 DEF DriversInv, bothVars, Shown, Written, R!TrGet
<1>4. CASE BeginTx /\ R!BeginTx
  <2>1. tr' = [f \in FlatKey |-> Untouched] /\ tdb' = tdb
    BY <1>4, SameKeys DEF R!BeginTx, R!NoWrites
  <2>2. disk' = disk /\ Same(disk, Written')
    BY <1>4, BeginStep
  <2>3. \A f \in FlatKey : Shown'[f] = tdb[f]
    BY <2>1, SameKeys DEF Shown, R!TrGet
  <2> QED
    BY <1>1, <1>2, <2>1, <2>2, <2>3 DEF Same
<1>5. CASE Commit /\ R!Commit
  <2>1. locked /\ disk' = Written /\ locked' = FALSE
    BY <1>5 DEF Commit
  <2>2. tdb' = Shown /\ DOMAIN tr' = FlatKey
    BY <1>5, SameKeys DEF R!Commit, R!NoWrites, Shown
  <2> QED
    BY <1>0, <1>1, <2>1, <2>2 DEF DriversInv
<1>6. CASE Rollback /\ R!Rollback
  <2>1. disk' = disk /\ locked' = FALSE
    BY <1>6 DEF Rollback
  <2>2. tdb' = tdb /\ DOMAIN tr' = FlatKey
    BY <1>6, SameKeys DEF R!Rollback, R!NoWrites
  <2> QED
    BY <1>0, <1>1, <2>1, <2>2 DEF DriversInv
<1>7. ASSUME NEW p \in Path, NewBucket(p) /\ R!NewBucket(p)
      PROVE  DriversInv'
  <2>1. /\ locked /\ disk' = disk /\ isValidBucketName(Last(p))
        /\ Puts(Written, Written', IndexKey[p], Last(p))
    BY <1>1, <1>7, NewBucketStep
  <2>2. tdb' = tdb /\ IndexKey[p] \in FlatKey /\ Last(p) # Untouched
    BY <1>7, <2>1, FlatKeysOf, StoredIsNoMark DEF R!NewBucket
  <2>3. CASE Shown[IndexKey[p]] = Nil
    <3>1. tr' = [tr EXCEPT ![IndexKey[p]] = Last(p)]
      BY <1>7, <2>1, <2>2, <2>3, SameKeys DEF R!NewBucket, Shown
    <3>2. Puts(Shown, Shown', IndexKey[p], Last(p)) /\ DOMAIN tr' = FlatKey
      BY <1>1, <2>2, <3>1, ShownPut
    <3> QED
      BY <1>1, <1>2, <2>1, <2>2, <3>2 DEF Puts
  <2>4. CASE Shown[IndexKey[p]] # Nil
    <3>1. tr' = tr
      BY <1>7, <2>2, <2>4, SameKeys DEF R!NewBucket, Shown
    <3>2. Written[IndexKey[p]] = Last(p)
      BY <1>1, <2>1, <2>4, BucketOf DEF Has
    <3>3. \A f \in FlatKey : Shown'[f] = Shown[f]
      BY <2>2, <3>1 DEF Shown, R!TrGet
    <3> QED
      BY <1>1, <1>2, <2>1, <2>2, <3>1, <3>2, <3>3 DEF Puts
  <2> QED
    BY <2>3, <2>4
<1>8. ASSUME NEW p \in Path, DeleteBucket(p) /\ R!DeleteBucket(p)
      PROVE  DriversInv'
  <2> DEFINE KR == IF R!Exists(p)
                   THEN UNION {R!TrKeys(R!innerKey[q][R!Nil]) \cup {R!IndexKey[q]} : q \in R!SubBuckets(p)}
                   ELSE {}
  <2>1. locked /\ disk' = disk /\ \E K : Cuts(Written, p, K) /\ Drops(Written, Written', K)
    BY <1>1, <1>8, DeleteBucketStep
  <2>2. R!TrDelete(KR) /\ tdb' = tdb
    BY <1>8 DEF R!DeleteBucket
  <2>3. Cuts(Shown, p, KR)
    BY <1>1, <2>1, ShownBelow
  <2> HIDE DEF KR
  <2>4. Drops(Shown, Shown', KR) /\ DOMAIN tr' = FlatKey
    BY <1>1, <2>2, ShownDelete
  <2>5. \A f \in FlatKey : Shown'[f] = Written'[f]
    BY <1>1, <2>1, <2>3, <2>4 DEF Cuts, Drops
  <2> QED
    BY <1>2, <2>1, <2>2, <2>4, <2>5
<1>9. ASSUME NEW p \in Path, Clear(p) /\ R!Clear(p)
      PROVE  DriversInv'
  <2> DEFINE K == Under(Written, innerKey[p][Nil])
  <2>1. locked /\ disk' = disk /\ Drops(Written, Written', K)
    BY <1>1, <1>9, ClearStep
  <2>2. R!TrDelete(K) /\ tdb' = tdb
    BY <1>1, <1>9, <2>1, ShownReads, SameKeys DEF R!Clear
  <2> HIDE DEF K
  <2>3. Drops(Shown, Shown', K) /\ DOMAIN tr' = FlatKey
    BY <1>1, <2>2, ShownDelete
  <2> QED
    BY <1>1, <1>2, <2>1, <2>2, <2>3 DEF Drops
<1>10. ASSUME NEW p \in Path, NEW k \in Key, Delete(p, k) /\ R!Delete(p, k)
       PROVE  DriversInv'
  <2> DEFINE K == {innerKey[p][k]}
  <2>1. locked /\ disk' = disk /\ Drops(Written, Written', K)
    BY <1>1, <1>10, DeleteStep, Zenon
  <2>2. R!TrDelete(K) /\ tdb' = tdb
    BY <1>10, SameKeys DEF R!Delete
  <2> HIDE DEF K
  <2>3. Drops(Shown, Shown', K) /\ DOMAIN tr' = FlatKey
    BY <1>1, <2>2, ShownDelete
  <2> QED
    BY <1>1, <1>2, <2>1, <2>2, <2>3 DEF Drops
<1>11. ASSUME NEW p \in Path, NEW k \in Key, NEW v \in Value, Put(p, k, v) /\ R!Put(p, k, v)
       PROVE  DriversInv'
  <2>1. locked /\ disk' = disk /\ Puts(Written, Written', innerKey[p][k], v)
    BY <1>1, <1>11, PutStep
  <2>2. tr' = [tr EXCEPT ![innerKey[p][k]] = v] /\ tdb' = tdb
    BY <1>11, SameKeys DEF R!Put
  <2>3. Puts(Shown, Shown', innerKey[p][k], v) /\ DOMAIN tr' = FlatKey
    BY <1>1, <2>2, FlatKeysOf, StoredIsNoMark, ShownPut
  <2> QED
    BY <1>1, <1>2, <2>1, <2>2, <2>3 DEF Puts
<1> QED
  BY <1>3, <1>4, <1>5, <1>6, <1>7, <1>8, <1>9, <1>10, <1>11 DEF BothNext

(* Both drivers open the same database. *)
LEMMA InitDriversInv == BothInit => DriversInv
BY InitTreesInv, SameKeys DEF BothInit, Init, DriversInv, R!NoWrites

(* The rocksdb transaction shows for each key what the batch of the        *)
(* leveldb driver will write, and both have committed the same.            *)
THEOREM DriversInvariant == BothSpec => []DriversInv
BY InitDriversInv, NextDriversInv, PTL DEF BothSpec

(* The wallet sees the same on either driver: after the same calls the     *)
(* same entries, sub buckets and buckets (rdb and ldb: Bucket,             *)
(* BucketNames, GetByPrefix, Commit).                                      *)
THEOREM DriversAlike == BothSpec => []DriversAgree
<1>1. DriversInv => DriversAgree
  <2> SUFFICES ASSUME DriversInv, locked, NEW p \in Path
               PROVE  /\ ~Deleted(IndexKey[p]) => (Found(p) <=> R!Exists(p))
                      /\ BucketNames(p) = R!BucketNames(p)
                      /\ \A prefix \in Key \cup {Nil} : GetByPrefix(p, prefix) = R!GetByPrefix(p, prefix)
    BY DEF DriversAgree, DriversInv
  <2>1. BatchInv /\ TreeInv(Written) /\ Shown = Written /\ TreeInv(Shown)
    BY DEF DriversInv, TreesInv
  <2>2. ~Deleted(IndexKey[p]) => (Found(p) <=> R!Exists(p))
    BY <2>1, ScanIs, ShownReads DEF Opens
  <2>3. ASSUME NEW prefix
        PROVE  /\ Scan(prefix) = R!TrKeys(prefix)
               /\ \A f \in Scan(prefix) : ScanValue(f) = R!TrGet(f)
    BY <2>1, ScanIs, ShownReads DEF Under
  <2>4. BucketNames(p) = R!BucketNames(p)
    BY <2>3, SameKeys DEF BucketNames, R!BucketNames
  <2>5. ASSUME NEW prefix \in Key \cup {Nil}
        PROVE  GetByPrefix(p, prefix) = R!GetByPrefix(p, prefix)
    BY <2>3, SameKeys DEF GetByPrefix, R!GetByPrefix
  <2> QED
    BY <2>2, <2>4, <2>5
<1> QED
  BY <1>1, DriversInvariant, PTL

-----------------------------------------------------------------------------
(* The iterator of a write transaction. *)

Lower(S, k) == {j \in S : Before(j, k)}

(* In a finite set of strings, each has a place and each place a string. *)
LEMMA Places ==
    ASSUME NEW S \in SUBSET ByteString, IsFiniteSet(S)
    PROVE  /\ Cardinality(S) \in Nat
           /\ \A i \in 1..Cardinality(S) : Nth(S, i) \in S
           /\ \A k \in S : \E i \in 1..Cardinality(S) : Nth(S, i) = k
           /\ \A i, j \in 1..Cardinality(S) : Nth(S, i) = Nth(S, j) => i = j
<1> DEFINE n == Cardinality(S)
           rank(k) == Cardinality(Lower(S, k))
           place == [k \in S |-> rank(k) + 1]
<1>1. n \in Nat
  BY FS_CardinalityType
<1>2. ASSUME NEW k \in S
      PROVE  IsFiniteSet(Lower(S, k)) /\ rank(k) \in Nat /\ rank(k) < n
  <2>1. Lower(S, k) \in SUBSET S /\ k \notin Lower(S, k)
    BY BeforeOrders DEF Lower
  <2> DEFINE L == Lower(S, k)
  <2> HIDE DEF L
  <2>2. L \in SUBSET S /\ L # S
    BY <2>1 DEF L
  <2>3. IsFiniteSet(L) /\ Cardinality(L) <= n /\ Cardinality(L) # n
    BY <2>2, FS_Subset
  <2>4. Cardinality(L) \in Nat
    BY <2>3, FS_CardinalityType
  <2> QED
    BY <1>1, <2>3, <2>4 DEF L
<1>3. ASSUME NEW j \in S, NEW k \in S, Before(j, k) PROVE rank(j) < rank(k)
  <2>1. Lower(S, j) \in SUBSET Lower(S, k) /\ Lower(S, j) # Lower(S, k)
    <3>1. \A i \in S : Before(i, j) => Before(i, k)
      BY <1>3, BeforeOrders
    <3>2. j \in Lower(S, k) /\ j \notin Lower(S, j)
      BY <1>3, BeforeOrders DEF Lower
    <3> QED
      BY <3>1, <3>2 DEF Lower
  <2>2. IsFiniteSet(Lower(S, k)) /\ rank(j) \in Nat /\ rank(k) \in Nat
    BY <1>2
  <2> DEFINE L == Lower(S, j)
             M == Lower(S, k)
  <2> HIDE DEF L, M
  <2>3. Cardinality(L) <= Cardinality(M) /\ Cardinality(L) # Cardinality(M)
    <3>1. L \in SUBSET M /\ L # M /\ IsFiniteSet(M)
      BY <2>1, <2>2 DEF L, M
    <3> QED
      BY <3>1, FS_Subset
  <2> QED
    BY <2>2, <2>3 DEF L, M
<1>4. ASSUME NEW j \in S, NEW k \in S, rank(j) = rank(k) PROVE j = k
  <2>1. j # k => Before(j, k) \/ Before(k, j)
    BY BeforeOrders
  <2>2. ~Before(j, k) /\ ~Before(k, j)
    BY <1>2, <1>3, <1>4
  <2> QED
    BY <2>1, <2>2
<1> HIDE DEF rank, n
<1>5. place \in Injection(S, 1..n)
  <2>1. \A k \in S : rank(k) + 1 \in 1..n
    BY <1>1, <1>2
  <2>2. place \in [S -> 1..n]
    BY <2>1
  <2>3. \A j, k \in S : place[j] = place[k] => j = k
    BY <1>2, <1>4
  <2> QED
    BY <2>2, <2>3 DEF Injection, IsInjective
<1>6. place \in Surjection(S, 1..n)
  <2> HIDE DEF place
  <2>1. IsFiniteSet(1..n) /\ Cardinality(1..n) = IF 1 > n THEN 0 ELSE n - 1 + 1
    BY <1>1, FS_Interval
  <2>2. Cardinality(1..n) = n
    BY <1>1, <2>1
  <2>3. Cardinality(S) = Cardinality(1..n)
    BY <2>2 DEF n
  <2> QED
    BY <1>5, <2>1, <2>3, FS_Injection
<1>7. \A i \in 1..n : \E k \in S : rank(k) + 1 = i
  BY <1>6 DEF Surjection
<1>8. \A i \in 1..n : Nth(S, i) \in S /\ rank(Nth(S, i)) = i - 1
  <2> TAKE i \in 1..n
  <2>1. PICK k \in S : rank(k) + 1 = i
    BY <1>7
  <2>2. \E l \in S : rank(l) = i - 1
    BY <1>1, <1>2, <2>1
  <2>3. Nth(S, i) = CHOOSE l \in S : rank(l) = i - 1
    BY DEF Nth, rank, Lower
  <2> QED
    BY <2>2, <2>3
<1>9. ASSUME NEW k \in S PROVE \E i \in 1..n : Nth(S, i) = k
  <2>1. rank(k) + 1 \in 1..n /\ (rank(k) + 1) - 1 = rank(k)
    BY <1>1, <1>2
  <2>2. Nth(S, rank(k) + 1) \in S /\ rank(Nth(S, rank(k) + 1)) = rank(k)
    BY <1>8, <2>1
  <2> QED
    BY <1>4, <2>1, <2>2
<1>10. \A i, j \in 1..n : Nth(S, i) = Nth(S, j) => i = j
  BY <1>1, <1>8
<1> QED
  BY <1>1, <1>8, <1>9, <1>10 DEF n

-----------------------------------------------------------------------------
(* The database and a batch have finitely many entries. *)
Stored == {f \in FlatKey : disk[f] # Nil}
Batched == {f \in FlatKey : b.putSeq[f] > 0}

FewInv == TreesInv /\ IsFiniteSet(Stored) /\ IsFiniteSet(Batched)

(* What an earlier run has left is finite. *)
LEMMA FlatFinite ==
    ASSUME NEW t \in InitialTrees
    PROVE  IsFiniteSet({f \in FlatKey : FlatOf(t)[f] # Nil})
<1> DEFINE D == DOMAIN t
           E(p) == {innerKey[p][k] : k \in DOMAIN t[p]}
           F == {f \in FlatKey : FlatOf(t)[f] # Nil}
           I == {IndexKey[p] : p \in D}
           Es == {E(p) : p \in D}
<1>1. IsFiniteSet(D) /\ \A p \in D : IsFiniteSet(DOMAIN t[p])
  BY TreesAssumption
<1>2. IsFiniteSet(I)
  <2>1. [p \in D |-> IndexKey[p]] \in Surjection(D, I)
    BY DEF Surjection
  <2> HIDE DEF I, D
  <2> QED
    BY <1>1, <2>1, FS_Surjection
<1>3. ASSUME NEW p \in D PROVE IsFiniteSet(E(p))
  <2> DEFINE C == DOMAIN t[p]
             G == E(p)
  <2>1. [k \in C |-> innerKey[p][k]] \in Surjection(C, G)
    BY DEF Surjection
  <2>2. IsFiniteSet(C)
    BY <1>1
  <2> HIDE DEF C, G
  <2>3. IsFiniteSet(G)
    BY <2>1, <2>2, FS_Surjection
  <2> QED
    BY <2>3 DEF G
<1>4. IsFiniteSet(Es)
  <2> HIDE DEF E
  <2>1. [p \in D |-> E(p)] \in Surjection(D, Es)
    BY DEF Surjection
  <2> HIDE DEF D, Es
  <2> QED
    BY <1>1, <2>1, FS_Surjection
<1>5. IsFiniteSet(UNION Es)
  <2>1. \A T \in Es : IsFiniteSet(T)
    BY <1>3
  <2> HIDE DEF Es
  <2> QED
    BY <1>4, <2>1, FS_UNION
<1>6. F \subseteq I \cup UNION Es
  <2>1. ASSUME NEW f \in F PROVE f \in I \cup UNION Es
    <3>1. \/ \E p \in D : f = IndexKey[p]
          \/ \E p \in D : \E k \in DOMAIN t[p] : f = innerKey[p][k]
      BY <2>1, FlatIs
    <3>2. ASSUME NEW p \in D, NEW k \in DOMAIN t[p], f = innerKey[p][k] PROVE f \in UNION Es
      <4>1. f \in E(p) /\ E(p) \in Es
        BY <3>2
      <4> HIDE DEF E, Es
      <4> QED
        BY <4>1
    <3> HIDE DEF Es
    <3> QED
      BY <3>1, <3>2
  <2> HIDE DEF Es, F, I
  <2> QED
    BY <2>1
<1> HIDE DEF I, Es, F
<1>7. IsFiniteSet(I \cup UNION Es)
  BY <1>2, <1>5, FS_Union
<1>8. IsFiniteSet(F)
  BY <1>6, <1>7, FS_Subset
<1> QED
  BY <1>8 DEF F

(* Opening a database. *)
LEMMA InitFewInv == Init => FewInv
<1> SUFFICES ASSUME Init PROVE FewInv
  OBVIOUS
<1>1. PICK t \in InitialTrees : disk = FlatOf(t)
  BY DEF Init
<1>2. IsFiniteSet(Stored)
  BY <1>1, FlatFinite DEF Stored
<1>3. Batched = {}
  BY DEF Init, newBatch, Batched
<1> QED
  BY <1>2, <1>3, InitTreesInv, FS_EmptySet DEF FewInv

(* A call puts at most one key into the batch, and Commit stores no more   *)
(* than was there and was put. *)
LEMMA NextFewInv ==
    ASSUME FewInv, [Next]_vars
    PROVE  FewInv'
<1>1. TreesInv /\ BatchInv /\ TreesInv' /\ IsFiniteSet(Stored) /\ IsFiniteSet(Batched)
  BY NextTreesInv DEF FewInv, TreesInv
<1>2. ASSUME NEW f \in FlatKey, NEW v, b' = BatchPut(f, v) PROVE IsFiniteSet(Batched')
  <2>1. \A g \in FlatKey : g # f => b'.putSeq[g] = b.putSeq[g]
    BY <1>1, <1>2 DEF BatchPut, BatchInv, BatchShape
  <2>2. Batched' \in SUBSET (Batched \cup {f})
    BY <2>1 DEF Batched
  <2>3. IsFiniteSet(Batched \cup {f})
    BY <1>1, FS_AddElement
  <2> QED
    BY <2>2, <2>3, FS_Subset
<1>3. ASSUME NEW K, b' = BatchDelete(K) PROVE IsFiniteSet(Batched')
  <2>1. b'.putSeq = b.putSeq
    BY <1>1, <1>3 DEF BatchDelete, BatchInv, BatchShape
  <2>2. Batched' = Batched
    BY <2>1 DEF Batched
  <2> QED
    BY <1>1, <2>2
<1>4. ASSUME b' = b PROVE IsFiniteSet(Batched')
  <2>1. Batched' = Batched
    BY <1>4 DEF Batched
  <2> QED
    BY <1>1, <2>1
<1>5. ASSUME disk' = disk PROVE IsFiniteSet(Stored')
  <2>1. Stored' = Stored
    BY <1>5 DEF Stored
  <2> QED
    BY <1>1, <2>1
<1>6. CASE BeginTx
  <2>1. Batched' = {}
    BY <1>6 DEF BeginTx, newBatch, Batched
  <2> QED
    BY <1>1, <1>5, <1>6, <2>1, FS_EmptySet DEF BeginTx, FewInv
<1>7. CASE Commit
  <2>1. disk' = Written /\ b' = b
    BY <1>7 DEF Commit
  <2>2. \A f \in FlatKey : Written[f] # Nil => f \in Stored \cup Batched
    BY <1>1, KeySeen DEF Stored, Batched
  <2>3. Stored' \in SUBSET (Stored \cup Batched)
    BY <2>1, <2>2 DEF Stored
  <2>4. IsFiniteSet(Stored \cup Batched)
    BY <1>1, FS_Union
  <2>5. IsFiniteSet(Stored')
    BY <2>3, <2>4, FS_Subset
  <2> QED
    BY <1>1, <1>4, <2>1, <2>5 DEF FewInv
<1>8. ASSUME NEW p \in Path, NewBucket(p) \/ DeleteBucket(p) \/ Clear(p) PROVE FewInv'
  <2>1. disk' = disk
    BY <1>8 DEF NewBucket, DeleteBucket, Clear
  <2>2. IsFiniteSet(Batched')
    BY <1>2, <1>3, <1>8, FlatKeysOf DEF NewBucket, DeleteBucket, Clear
  <2> QED
    BY <1>1, <1>5, <2>1, <2>2 DEF FewInv
<1>9. ASSUME NEW p \in Path, NEW k \in Key, Delete(p, k) \/ \E v \in Value : Put(p, k, v) PROVE FewInv'
  <2>1. disk' = disk
    BY <1>9 DEF Delete, Put
  <2>2. IsFiniteSet(Batched')
    BY <1>2, <1>3, <1>9, FlatKeysOf DEF Delete, Put
  <2> QED
    BY <1>1, <1>5, <2>1, <2>2 DEF FewInv
<1>10. CASE Rollback \/ UNCHANGED vars
  BY <1>1, <1>4, <1>5, <1>10 DEF Rollback, vars, FewInv
<1> QED
  BY <1>6, <1>7, <1>8, <1>9, <1>10 DEF Next

(* Flat keys are strings, and the range of an iterator over a whole bucket *)
(* is that of the bucket's prefix.                                         *)
LEMMA WholeBucket ==
    ASSUME NEW p \in Path, NEW f \in FlatKey
    PROVE  /\ f \in ByteString
           /\ Within(f, innerKey[p][Nil], BytesPrefixLimit(innerKey[p][Nil])) <=> IsPrefix(innerKey[p][Nil], f)
<1> DEFINE s == innerKey[p][Nil]
           a == BucketPath(p)
<1>1. f \in ByteString
  <2>1. \A q \in Path : IndexKey[q] \in ByteString /\ \A k \in Key : innerKey[q][k] \in ByteString
    BY FirstBytes
  <2> QED
    BY <2>1 DEF FlatKey
<1>2. s = With(a, Nil) /\ a \in ByteString /\ Nil \in ByteString
  BY KeysAre
<1> HIDE DEF s, a
<1>3. s \in ByteString /\ Len(s) = Len(a) + 1 + Len(Nil) /\ s[Len(a) + 1] = Sep
  BY <1>2, WithIs
<1>4. Len(a) \in Nat /\ Len(Nil) = 0
  BY <1>2 DEF ByteString, Nil
<1>5. Len(s) = Len(a) + 1
  BY <1>3, <1>4
<1>6. s[Len(s)] < 255 /\ s # <<>>
  BY <1>3, <1>4, <1>5 DEF Sep, ByteString
<1>7. Within(f, s, BytesPrefixLimit(s)) <=> IsPrefix(s, f)
  BY <1>1, <1>3, <1>6, RangeIsPrefix DEF Within
<1> QED
  BY <1>1, <1>7 DEF s

(* The two parts that the iterator of a bucket delivers. *)
Kept(p) == {f \in FlatKey : disk[f] # Nil /\ IsPrefix(innerKey[p][Nil], f)}
Fresh(p) == {f \in FlatKey : /\ b.putSeq[f] > 0 /\ (b.deletes[f] = 0 \/ b.putSeq[f] > b.deletes[f])
                             /\ IsPrefix(innerKey[p][Nil], f)}

(* The committed entries of the bucket, then those of the batch. *)
LEMMA IteratorIs ==
    ASSUME NEW p \in Path
    PROVE  NewIterator(p, Nil, Nil) = Listed(p, Kept(p), disk) \o Listed(p, Fresh(p), b.putData)
<1> DEFINE s == innerKey[p][Nil]
           l == BytesPrefixLimit(s)
<1>1. {f \in FlatKey : disk[f] # Nil /\ Within(f, s, l)} = Kept(p)
  BY WholeBucket DEF Kept
<1>2. BatchEntries(s, l) = Fresh(p)
  <2>1. \A f \in FlatKey : IsPrefix(Nil, f)
    <3> TAKE f \in FlatKey
    <3>1. f \in ByteString /\ Nil \in ByteString /\ Len(Nil) = 0
      BY WholeBucket DEF Nil, ByteString
    <3>2. Len(f) \in Nat
      BY <3>1 DEF ByteString
    <3> QED
      BY <3>1, <3>2, PrefixOfString
  <2> QED
    BY <2>1, WholeBucket DEF BatchEntries, GetNetPutsByPrefix, Fresh
<1> QED
  BY <1>1, <1>2 DEF NewIterator

(* A part lists each of its entries once, under its key in the bucket. *)
Lists(p, S, value, L) ==
    /\ L \in Seq(Key \X {value[f] : f \in S})
    /\ \A i \in 1..Len(L) : \E k \in Key : innerKey[p][k] \in S /\ L[i] = <<k, value[innerKey[p][k]]>>
    /\ \A k \in Key : innerKey[p][k] \in S =>
          \E i \in 1..Len(L) : /\ L[i] = <<k, value[innerKey[p][k]]>>
                               /\ \A j \in 1..Len(L) : j # i => L[j][1] # k

(* Listed does. *)
LEMMA ListedIs ==
    ASSUME NEW p \in Path, NEW S \in SUBSET ByteString, IsFiniteSet(S), NEW value,
           \A f \in S : \E k \in Key : f = innerKey[p][k]
    PROVE  Lists(p, S, value, Listed(p, S, value))
<1> DEFINE n == Cardinality(S)
           L == Listed(p, S, value)
<1>1. /\ n \in Nat
      /\ \A i \in 1..n : Nth(S, i) \in S
      /\ \A k \in S : \E i \in 1..n : Nth(S, i) = k
      /\ \A i, j \in 1..n : Nth(S, i) = Nth(S, j) => i = j
  BY Places
<1> HIDE DEF n
<1>2. L = [i \in 1..n |-> <<OuterKey(p, Nth(S, i)), value[Nth(S, i)]>>]
  BY DEF Listed, n
<1>3. ASSUME NEW i \in 1..n
      PROVE  /\ OuterKey(p, Nth(S, i)) \in Key /\ innerKey[p][OuterKey(p, Nth(S, i))] = Nth(S, i)
             /\ L[i] = <<OuterKey(p, Nth(S, i)), value[Nth(S, i)]>>
  <2>1. PICK k \in Key : Nth(S, i) = innerKey[p][k]
    BY <1>1
  <2>2. OuterKey(p, innerKey[p][k]) = k
    BY OuterIsKey
  <2> QED
    BY <1>2, <2>1, <2>2
<1> HIDE DEF L
<1>4. L \in Seq(Key \X {value[f] : f \in S})
  <2>1. \A i \in 1..n : L[i] \in Key \X {value[f] : f \in S}
    BY <1>1, <1>3
  <2>2. L = [i \in 1..n |-> L[i]]
    BY <1>2, <1>3
  <2> DEFINE T == Key \X {value[f] : f \in S}
  <2> HIDE DEF T
  <2>3. \A i \in 1..n : L[i] \in T
    BY <2>1 DEF T
  <2>4. L \in Seq(T)
    BY <1>1, <2>2, <2>3
  <2> QED
    BY <2>4 DEF T
<1>5. Len(L) = n
  <2>1. DOMAIN L = 1..n
    BY <1>2
  <2> QED
    BY <1>1, <1>4, <2>1
<1>6. ASSUME NEW i \in 1..n
      PROVE  \E k \in Key : innerKey[p][k] \in S /\ L[i] = <<k, value[innerKey[p][k]]>>
  BY <1>1, <1>3
<1>7. ASSUME NEW k \in Key, innerKey[p][k] \in S
      PROVE  \E i \in 1..n : /\ L[i] = <<k, value[innerKey[p][k]]>>
                             /\ \A j \in 1..n : j # i => L[j][1] # k
  <2>1. PICK i \in 1..n : Nth(S, i) = innerKey[p][k]
    BY <1>1, <1>7
  <2>2. L[i] = <<k, value[innerKey[p][k]]>>
    BY <1>3, <2>1, OuterIsKey
  <2>3. ASSUME NEW j \in 1..n, j # i, L[j][1] = k PROVE FALSE
    <3>1. OuterKey(p, Nth(S, j)) = k
      BY <1>3, <2>3
    <3>2. Nth(S, j) = Nth(S, i)
      BY <1>3, <2>1, <3>1
    <3> QED
      BY <1>1, <2>3, <3>2
  <2> QED
    BY <2>2, <2>3
<1> QED
  BY <1>4, <1>5, <1>6, <1>7 DEF L, Lists

(* The iterator is right in every state of the driver. *)
LEMMA IteratorRight ==
    ASSUME FewInv, locked, NEW p \in Path, Has(Written, p)
    PROVE  LET run == NewIterator(p, Nil, Nil)
           IN  /\ \A k \in Key : Written[innerKey[p][k]] # Nil =>
                    \E i \in DOMAIN run : /\ run[i] = <<k, Written[innerKey[p][k]]>>
                                          /\ \A j \in (i + 1)..Len(run) : run[j][1] # k
               /\ \A i \in DOMAIN run :
                    /\ run[i][1] \in Key
                    /\ \/ Written[innerKey[p][run[i][1]]] # Nil
                       \/ disk[innerKey[p][run[i][1]]] # Nil /\ Deleted(innerKey[p][run[i][1]])
<1> DEFINE C == Kept(p)
           N == Fresh(p)
           K == Listed(p, C, disk)
           F == Listed(p, N, b.putData)
           run == K \o F
           f(k) == innerKey[p][k]
<1>1. BatchInv /\ TreeInv(disk) /\ TreeInv(Written) /\ IsFiniteSet(Stored) /\ IsFiniteSet(Batched)
  BY DEF FewInv, TreesInv
<1>2. Legal(p)
  BY <1>1, BucketOf, ThereIs
<1>3. C \in SUBSET Stored /\ N \in SUBSET Batched
  BY DEF Kept, Fresh, Stored, Batched
<1>4. IsFiniteSet(C) /\ IsFiniteSet(N)
  <2> HIDE DEF C, N
  <2> QED
    BY <1>1, <1>3, FS_Subset
<1>5. C \in SUBSET ByteString /\ N \in SUBSET ByteString
  BY WholeBucket DEF Kept, Fresh
<1>6. \A g \in C : \E k \in Key : g = innerKey[p][k]
  BY <1>1, <1>2, InnerFound DEF Kept
<1>7. ASSUME NEW g \in N PROVE Written[g] # Nil /\ Written[g] = b.putData[g] /\ \E k \in Key : g = innerKey[p][k]
  <2>1. g \in FlatKey /\ b.putSeq[g] > 0 /\ (b.deletes[g] = 0 \/ b.putSeq[g] > b.deletes[g]) /\ IsPrefix(innerKey[p][Nil], g)
    BY <1>7 DEF Fresh
  <2>2. LastOperation(g)
    BY <1>1, <2>1 DEF BatchInv
  <2>3. b.putSeq[g] > b.deletes[g]
    BY <2>1, <2>2 DEF LastOperation
  <2>4. Written[g] # Nil /\ Written[g] = b.putData[g]
    BY <2>1, <2>2, <2>3 DEF LastOperation, Written
  <2> QED
    BY <1>1, <1>2, <2>1, <2>4, InnerFound
<1>8. ASSUME NEW k \in Key, Written[f(k)] # Nil, f(k) \notin N PROVE f(k) \in C /\ Written[f(k)] = disk[f(k)]
  <2> DEFINE g == f(k)
  <2>1. g \in FlatKey /\ IsPrefix(innerKey[p][Nil], g)
    <3>1. Nil \in ByteString /\ k \in ByteString /\ Len(Nil) = 0 /\ Len(k) \in Nat
      BY KeyAssumption DEF Nil, ByteString
    <3>2. IsPrefix(Nil, k)
      BY <3>1, PrefixOfString
    <3> QED
      BY <1>2, <3>2, FlatKeysOf, InnerScan
  <2> HIDE DEF g
  <2>2. Written[g] # Nil /\ g \notin N
    BY <1>8 DEF g
  <2>3. LastOperation(g) /\ Written[g] = IF b.inner[g] = Untouched THEN disk[g] ELSE b.inner[g]
    BY <1>1, <2>1 DEF BatchInv, Written
  <2>4. ~(b.putSeq[g] > 0 /\ (b.deletes[g] = 0 \/ b.putSeq[g] > b.deletes[g]))
    BY <2>1, <2>2 DEF Fresh
  <2>5. Untouched # Nil
    BY DEF Untouched, Nil
  <2>6. b.inner[g] = Untouched
    BY <2>2, <2>3, <2>4, <2>5 DEF LastOperation
  <2>7. Written[g] = disk[g] /\ disk[g] # Nil
    BY <2>2, <2>3, <2>6
  <2> QED
    BY <2>1, <2>7 DEF Kept, g
<1> HIDE DEF C, N
<1>9. Lists(p, C, disk, K)
  BY <1>4, <1>5, <1>6, ListedIs
<1>10. Lists(p, N, b.putData, F)
  <2> DEFINE d == b.putData
  <2> HIDE DEF d
  <2>1. Lists(p, N, d, Listed(p, N, d))
    BY <1>4, <1>5, <1>7, ListedIs
  <2> QED
    BY <2>1 DEF d
<1> HIDE DEF K, F
<1> DEFINE c == Len(K)
           n == Len(F)
<1>11. c \in Nat /\ n \in Nat /\ DOMAIN run = 1..(c + n) /\ Len(run) = c + n
       /\ (\A i \in 1..c : run[i] = K[i]) /\ (\A i \in 1..n : run[c + i] = F[i])
  <2> DEFINE T1 == Key \X {disk[g] : g \in C}
             T2 == Key \X {b.putData[g] : g \in N}
             T == T1 \cup T2
  <2>1. K \in Seq(T1) /\ F \in Seq(T2)
    BY <1>9, <1>10 DEF Lists
  <2> HIDE DEF T1, T2
  <2>2. K \in Seq(T) /\ F \in Seq(T)
    BY <2>1
  <2> HIDE DEF T
  <2> QED
    BY <2>2
<1> HIDE DEF run
<1>12. ASSUME NEW i \in 1..c PROVE \E k \in Key : f(k) \in C /\ run[i] = <<k, disk[f(k)]>>
  <2>1. \E k \in Key : f(k) \in C /\ K[i] = <<k, disk[f(k)]>>
    BY <1>9 DEF Lists
  <2> QED
    BY <1>11, <2>1
<1>13. ASSUME NEW i \in 1..n PROVE \E k \in Key : f(k) \in N /\ run[c + i] = <<k, b.putData[f(k)]>>
  <2>1. \E k \in Key : f(k) \in N /\ F[i] = <<k, b.putData[f(k)]>>
    BY <1>10 DEF Lists
  <2> QED
    BY <1>11, <2>1
<1>14. ASSUME NEW k \in Key, f(k) \in C
       PROVE  \E i \in 1..c : run[i] = <<k, disk[f(k)]>> /\ \A j \in 1..c : j # i => run[j][1] # k
  <2>1. PICK i \in 1..c : K[i] = <<k, disk[f(k)]>> /\ \A j \in 1..c : j # i => K[j][1] # k
    BY <1>9, <1>14 DEF Lists
  <2> QED
    BY <1>11, <2>1
<1>15. ASSUME NEW k \in Key, f(k) \in N
       PROVE  \E i \in 1..n : run[c + i] = <<k, b.putData[f(k)]>> /\ \A j \in 1..n : j # i => run[c + j][1] # k
  <2>1. PICK i \in 1..n : F[i] = <<k, b.putData[f(k)]>> /\ \A j \in 1..n : j # i => F[j][1] # k
    BY <1>10, <1>15 DEF Lists
  <2> HIDE DEF c, n, f
  <2>2. run[c + i] = <<k, b.putData[f(k)]>>
    BY <1>11, <2>1
  <2>3. \A j \in 1..n : j # i => run[c + j][1] # k
    BY <1>11, <2>1
  <2> QED
    BY <2>2, <2>3
<1> HIDE DEF c, n, f
<1>16. ASSUME NEW k \in Key, Written[f(k)] # Nil
       PROVE  \E i \in DOMAIN run : /\ run[i] = <<k, Written[f(k)]>>
                                    /\ \A j \in (i + 1)..Len(run) : run[j][1] # k
  <2>1. CASE f(k) \in N
    <3>1. PICK i \in 1..n : run[c + i] = <<k, b.putData[f(k)]>> /\ \A j \in 1..n : j # i => run[c + j][1] # k
      BY <1>15, <2>1
    <3>2. c + i \in DOMAIN run /\ run[c + i] = <<k, Written[f(k)]>>
      BY <1>7, <1>11, <2>1, <3>1
    <3>3. ASSUME NEW j \in ((c + i) + 1)..Len(run) PROVE run[j][1] # k
      <4>1. j - c \in 1..n /\ j - c # i /\ c + (j - c) = j
        BY <1>11, <3>3
      <4> QED
        BY <3>1, <4>1
    <3> QED
      BY <3>2, <3>3
  <2>2. CASE f(k) \notin N
    <3>1. f(k) \in C /\ Written[f(k)] = disk[f(k)]
      BY <1>8, <1>16, <2>2 DEF f
    <3>2. PICK i \in 1..c : run[i] = <<k, disk[f(k)]>> /\ \A j \in 1..c : j # i => run[j][1] # k
      BY <1>14, <3>1
    <3>3. i \in DOMAIN run /\ run[i] = <<k, Written[f(k)]>>
      BY <1>11, <3>1, <3>2
    <3>4. ASSUME NEW j \in (i + 1)..Len(run) PROVE run[j][1] # k
      <4>1. CASE j <= c
        <5>1. j \in 1..c /\ j # i
          BY <1>11, <3>4, <4>1
        <5> QED
          BY <3>2, <5>1
      <4>2. CASE ~(j <= c)
        <5>1. j - c \in 1..n /\ c + (j - c) = j
          BY <1>11, <3>4, <4>2
        <5>2. PICK l \in Key : f(l) \in N /\ run[c + (j - c)] = <<l, b.putData[f(l)]>>
          BY <1>13, <5>1
        <5> QED
          BY <2>2, <5>1, <5>2
      <4> QED
        BY <4>1, <4>2
    <3> QED
      BY <3>3, <3>4
  <2> QED
    BY <2>1, <2>2
<1>17. ASSUME NEW i \in DOMAIN run
       PROVE  /\ run[i][1] \in Key
              /\ \/ Written[f(run[i][1])] # Nil
                 \/ disk[f(run[i][1])] # Nil /\ Deleted(f(run[i][1]))
  <2>1. CASE i <= c
    <3>1. i \in 1..c
      BY <1>11, <2>1
    <3>2. PICK k \in Key : f(k) \in C /\ run[i] = <<k, disk[f(k)]>>
      BY <1>12, <3>1
    <3>3. f(k) \in FlatKey /\ disk[f(k)] # Nil
      BY <3>2 DEF C, Kept
    <3>4. Written[f(k)] # Nil \/ Deleted(f(k))
      BY <1>1, <3>3, KeySeen
    <3> QED
      BY <3>2, <3>3, <3>4
  <2>2. CASE ~(i <= c)
    <3>1. i - c \in 1..n /\ c + (i - c) = i
      BY <1>11, <2>2
    <3>2. PICK k \in Key : f(k) \in N /\ run[c + (i - c)] = <<k, b.putData[f(k)]>>
      BY <1>13, <3>1
    <3> QED
      BY <1>7, <3>1, <3>2
  <2> QED
    BY <2>1, <2>2
<1>18. NewIterator(p, Nil, Nil) = run
  BY IteratorIs DEF run, K, F, C, N
<1> QED
  BY <1>16, <1>17, <1>18 DEF f

(* Iterators of a write transaction, whatever the names, keys and values:  *)
(* nothing in the bucket is missed, nothing of another bucket is met, and  *)
(* the last value delivered for a key is the one that Commit writes        *)
(* (levelBucket.NewIterator, newBatchIterator, levelIterator.Next).        *)
THEOREM IteratorsShowLive == Spec => []IteratorShowsLive
<1>1. FewInv => IteratorShowsLive
  <2> SUFFICES ASSUME FewInv, locked, NEW p \in DOMAIN Work, NEW run, run = NewIterator(p, Nil, Nil)
               PROVE  /\ \A k \in DOMAIN Work[p] :
                           \E i \in DOMAIN run : /\ run[i] = <<k, Work[p][k]>>
                                                 /\ \A j \in (i + 1)..Len(run) : run[j][1] # k
                      /\ \A i \in DOMAIN run :
                           \/ run[i][1] \in DOMAIN Work[p]
                           \/ disk[innerKey[p][run[i][1]]] # Nil /\ Deleted(innerKey[p][run[i][1]])
    BY DEF IteratorShowsLive
  <2>1. Work = TreeOf(Written) /\ p \in Path /\ Has(Written, p)
    BY DEF Work, TreeOf, Has
  <2>2. /\ DOMAIN Work[p] = {k \in Key : Written[innerKey[p][k]] # Nil}
        /\ \A k \in DOMAIN Work[p] : Work[p][k] = Written[innerKey[p][k]]
    BY <2>1 DEF TreeOf
  <2>3. /\ \A k \in Key : Written[innerKey[p][k]] # Nil =>
             \E i \in DOMAIN run : /\ run[i] = <<k, Written[innerKey[p][k]]>>
                                   /\ \A j \in (i + 1)..Len(run) : run[j][1] # k
        /\ \A i \in DOMAIN run :
             /\ run[i][1] \in Key
             /\ \/ Written[innerKey[p][run[i][1]]] # Nil
                \/ disk[innerKey[p][run[i][1]]] # Nil /\ Deleted(innerKey[p][run[i][1]])
    BY <2>1, IteratorRight
  <2> QED
    BY <2>2, <2>3
<1>2. Spec => []FewInv
  BY InitFewInv, NextFewInv, PTL DEF Spec
<1> QED
  BY <1>1, <1>2, PTL
=============================================================================
