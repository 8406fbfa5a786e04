------------------------------- MODULE RocksDB -------------------------------
(* The rocksdb driver of the wallet database (masswallet/db/rdb, built     *)
(* with the tag rocksdb) as one write transaction uses it: the library's   *)
(* transactions (external) answer reads and iterate over their own writes  *)
(* and the committed database together, so the driver keeps no batch.      *)
(* Waiting for the locks of other write transactions is not modelled.      *)
EXTENDS BucketKeys

VARIABLES tdb,   \* the committed database: flat key -> value or Nil
          tr     \* the transaction's writes: value, Nil for a delete, or Unwritten

rvars == <<tdb, tr>>

Unwritten == <<-1>>   \* no byte string

NoWrites == [k \in FlatKey |-> Unwritten]

(* tr.Get and the iterators of a transaction. *)
TrGet(k) == IF tr[k] = Unwritten THEN tdb[k] ELSE tr[k]
TrKeys(prefix) == {k \in FlatKey : IsPrefix(prefix, k) /\ TrGet(k) # Nil}

(* TopLevelBucket, and Bucket, which also compares the value. *)
Exists(p) == /\ TrGet(IndexKey[p]) # Nil
             /\ Len(p) > 1 => TrGet(IndexKey[p]) = Last(p)

BucketNames(p) == {TrGet(k) : k \in TrKeys(IndexPrefix[p])}

GetByPrefix(p, prefix) ==
    {<<OuterKey(p, k), TrGet(k)>> : k \in TrKeys(innerKey[p][prefix])}

TrDelete(K) == tr' = [k \in FlatKey |-> IF k \in K THEN Nil ELSE tr[k]]

BeginTx == tr' = NoWrites /\ UNCHANGED tdb

(* CreateTopLevelBucket and NewBucket; an existing bucket is refused. *)
NewBucket(p) ==
    /\ \/ /\ isValidBucketName(Last(p)) /\ TrGet(IndexKey[p]) = Nil
          /\ tr' = [tr EXCEPT ![IndexKey[p]] = Last(p)]
       \/ /\ ~(isValidBucketName(Last(p)) /\ TrGet(IndexKey[p]) = Nil)
          /\ UNCHANGED tr
    /\ UNCHANGED tdb

(* The buckets deleteBucket descends to from p. *)
SubBuckets(p) ==
    {q \in Path : /\ IsPrefix(p, q)
                  /\ \A i \in (Len(p) + 1)..Len(q) :
                        q[i] \in BucketNames(SubSeq(q, 1, i - 1)) /\ Exists(SubSeq(q, 1, i))}

DeleteBucket(p) ==
    /\ TrDelete(IF Exists(p)
                THEN UNION {TrKeys(innerKey[q][Nil]) \cup {IndexKey[q]} : q \in SubBuckets(p)}
                ELSE {})
    /\ UNCHANGED tdb

Put(p, k, v) == tr' = [tr EXCEPT ![innerKey[p][k]] = v] /\ UNCHANGED tdb

Delete(p, k) == TrDelete({innerKey[p][k]}) /\ UNCHANGED tdb

Clear(p) == TrDelete(TrKeys(innerKey[p][Nil])) /\ UNCHANGED tdb

Commit == tdb' = [k \in FlatKey |-> TrGet(k)] /\ tr' = NoWrites

Rollback == tr' = NoWrites /\ UNCHANGED tdb
=============================================================================
