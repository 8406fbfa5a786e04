------------------------------- MODULE LevelDB -------------------------------
(* The leveldb driver of the wallet database (masswallet/db/ldb): a write  *)
(* transaction collects its changes in a batch and answers its own reads   *)
(* from the batch and the committed database together.                     *)
(*                                                                         *)
(* The library below it (goleveldb: a map from keys to values with atomic  *)
(* batches and iterators over a snapshot) is external.  A read-only        *)
(* transaction is no snapshot: each of its reads sees disk as it is then.  *)
EXTENDS BucketKeys

CONSTANTS InitialTrees,   \* bucket trees that earlier runs may have left
          MaxOps,   \* bound on the changes of one transaction
          MaxTxs    \* bound on the write transactions

(* An earlier run has put finitely many entries into buckets it had        *)
(* created.                                                                *)
ASSUME TreesAssumption ==
    \A tree \in InitialTrees :
        /\ tree = [p \in DOMAIN tree |-> tree[p]] /\ DOMAIN tree \subseteq Path
        /\ IsFiniteSet(DOMAIN tree)
        /\ \A p \in DOMAIN tree :
            /\ IsFiniteSet(DOMAIN tree[p])
            /\ Legal(p) /\ \A i \in 1..Len(p) : SubSeq(p, 1, i) \in DOMAIN tree
            /\ tree[p] = [k \in DOMAIN tree[p] |-> tree[p][k]] /\ DOMAIN tree[p] \subseteq Key
            /\ \A k \in DOMAIN tree[p] : tree[p][k] \in Value

VARIABLES disk,     \* the committed database: flat key -> value or Nil
          locked,   \* is muTr held, that is, a write transaction open?
          b,        \* its batch
          txs       \* write transactions begun

vars == <<disk, locked, b, txs>>

Untouched == <<-1>>  \* no value: what inner holds for a key never written

(* newBatch: puts and deletes carry the sequence number of the last put    *)
(* and the last delete of a key, 0 if there is none.  inner is the library *)
(* batch, as the last operation on each key that replaying it leaves; it   *)
(* is one object, kept from transaction to transaction and reset here.     *)
newBatch == [seqNo   |-> 0,
             putSeq  |-> [k \in FlatKey |-> 0],
             putData |-> [k \in FlatKey |-> Nil],
             deletes |-> [k \in FlatKey |-> 0],
             inner   |-> [k \in FlatKey |-> Untouched]]

BatchPut(k, v) ==
    [b EXCEPT !.seqNo = @ + 1, !.putSeq[k] = b.seqNo + 1,
              !.putData[k] = v, !.inner[k] = v]

(* Deleting several keys: a key's number is only compared with that of its *)
(* own put, so the keys of one loop share it.                              *)
BatchDelete(K) ==
    [b EXCEPT !.seqNo = @ + 1,
              !.deletes = [k \in FlatKey |-> IF k \in K THEN b.seqNo + 1 ELSE @[k]],
              !.inner   = [k \in FlatKey |-> IF k \in K THEN Nil ELSE @[k]]]

(* The two results of batch.Get. *)
DeletedEver(k) == b.deletes[k] > 0
Deleted(k)  == /\ b.deletes[k] > 0
               /\ b.putSeq[k] = 0 \/ b.deletes[k] > b.putSeq[k]
BatchGet(k) == IF b.putSeq[k] > 0 /\ ~Deleted(k) THEN b.putData[k] ELSE Nil

PutsByPrefix(prefix) == {k \in FlatKey : IsPrefix(prefix, k) /\ b.putSeq[k] > 0}
GetNetPutsByPrefix(prefix) ==
    {k \in FlatKey : /\ IsPrefix(prefix, k)
                     /\ b.putSeq[k] > 0
                     /\ b.deletes[k] = 0 \/ b.putSeq[k] > b.deletes[k]}

-----------------------------------------------------------------------------
(* Reads of the write transaction. *)

(* levelBucket.Get *)
GetFlat(k) ==
    IF disk[k] = Nil THEN BatchGet(k)
    ELSE IF Deleted(k) THEN Nil
    ELSE IF BatchGet(k) # Nil THEN BatchGet(k)
    ELSE disk[k]

(* TopLevelBucket, FetchBucket and Bucket: an index entry that is          *)
(* committed is enough, even when the batch deletes it.                    *)
Found(p) == disk[IndexKey[p]] # Nil \/ BatchGet(IndexKey[p]) # Nil

(* The committed entries under a prefix as the batch changes them, and the *)
(* entries only the batch has: GetByPrefix and both BucketNames.           *)
Scan(prefix) ==
    {k \in FlatKey : IsPrefix(prefix, k) /\ disk[k] # Nil /\ ~Deleted(k)}
        \cup GetNetPutsByPrefix(prefix)

ScanCommitted(k) == IF disk[k] # Nil THEN disk[k] ELSE BatchGet(k)
ScanValue(k) == IF BatchGet(k) # Nil THEN BatchGet(k) ELSE disk[k]

GetByPrefix(p, prefix) ==
    LET inner == innerKey[p][prefix]
    IN  {<<OuterKey(p, k), ScanValue(k)>> : k \in Scan(inner)}

(* BucketNames refuses an index key with another number of parts or a last *)
(* part that is not the value.                                             *)
NamesLegal(p) == \A k \in Scan(IndexPrefix[p]) : k = IndexPrefix[p] \o ScanValue(k)
BucketNames(p) == {ScanValue(k) : k \in Scan(IndexPrefix[p])}

(* What the iterator of a write transaction delivers between two flat      *)
(* keys: the committed entries, then the batch's, each part in order.      *)
(* Both are fixed when it is made.                                         *)
Within(k, start, limit) == ~Before(k, start) /\ Before(k, limit)

AllBatchEntries(start, limit) == {k \in FlatKey : b.putSeq[k] > 0 /\ Within(k, start, limit)}
BatchEntries(start, limit) == {k \in GetNetPutsByPrefix(Nil) : Within(k, start, limit)}

(* The i-th key of S in the order of the bytes. *)
Nth(S, i) == CHOOSE k \in S : Cardinality({j \in S : Before(j, k)}) = i - 1

Listed(p, S, value) ==
    [i \in 1..Cardinality(S) |-> <<OuterKey(p, Nth(S, i)), value[Nth(S, i)]>>]

NewIterator(p, from, to) ==
    LET start     == innerKey[p][from]
        limit     == IF to = Nil THEN BytesPrefixLimit(innerKey[p][Nil]) ELSE innerKey[p][to]
        committed == {k \in FlatKey : disk[k] # Nil /\ Within(k, start, limit)}
    IN  Listed(p, committed, disk) \o Listed(p, BatchEntries(start, limit), b.putData)

-----------------------------------------------------------------------------
(* Changes. *)

Writes == locked /\ b.seqNo < MaxOps

(* Clients open a bucket before they use it, and none of them uses a       *)
(* bucket after deleting it in the same transaction.                       *)
Opens(p) == Found(p) /\ ~Deleted(IndexKey[p])

(* BeginTx: muTr excludes other write transactions. *)
BeginTx == /\ ~locked /\ txs < MaxTxs
           /\ locked' = TRUE
           /\ b' = newBatch
           /\ txs' = txs + 1
           /\ UNCHANGED disk

(* CreateTopLevelBucket and NewBucket.  A bucket made earlier in the same  *)
(* transaction is not noticed and made again.                              *)
NewBucket(p) ==
    /\ Writes
    /\ Len(p) > 1 => Opens(Parent(p))
    /\ isValidBucketName(Last(p))
    /\ disk[IndexKey[p]] = Nil \/ Deleted(IndexKey[p])
    /\ b' = BatchPut(IndexKey[p], Last(p))
    /\ UNCHANGED <<disk, locked, txs>>

(* The buckets deleteBucket descends to from p. *)
SubBuckets(p) ==
    {q \in Path : /\ IsPrefix(p, q)
                  /\ \A i \in (Len(p) + 1)..Len(q) :
                        q[i] \in BucketNames(SubSeq(q, 1, i - 1)) /\ Found(SubSeq(q, 1, i))}

ClearKeys(p) == Scan(innerKey[p][Nil])

DeleteBucket(p) ==
    /\ Writes
    /\ Len(p) > 1
    /\ Opens(Parent(p)) /\ Found(p)
    /\ \A q \in SubBuckets(p) : NamesLegal(q)
    /\ b' = BatchDelete(UNION {ClearKeys(q) \cup {IndexKey[q]} : q \in SubBuckets(p)})
    /\ UNCHANGED <<disk, locked, txs>>

Put(p, key, value) ==
    /\ Writes /\ Opens(p)
    /\ b' = BatchPut(innerKey[p][key], value)
    /\ UNCHANGED <<disk, locked, txs>>

Delete(p, key) ==
    /\ Writes /\ Opens(p)
    /\ b' = BatchDelete({innerKey[p][key]})
    /\ UNCHANGED <<disk, locked, txs>>

Clear(p) ==
    /\ Writes /\ Opens(p)
    /\ b' = BatchDelete(ClearKeys(p))
    /\ UNCHANGED <<disk, locked, txs>>

(* What ldb.Write leaves: every operation of the batch applied in order. *)
Written == [k \in FlatKey |-> IF b.inner[k] = Untouched THEN disk[k] ELSE b.inner[k]]

Commit == /\ locked
          /\ disk' = Written
          /\ locked' = FALSE
          /\ UNCHANGED <<b, txs>>

(* Rollback, a failed ldb.Write, or the process ends. *)
Rollback == /\ locked
            /\ locked' = FALSE
            /\ UNCHANGED <<disk, b, txs>>

(* The flat database of a bucket tree. *)
FlatOf(tree) ==
    [f \in FlatKey |->
        IF \E p \in DOMAIN tree : f = IndexKey[p]
        THEN Last(CHOOSE p \in DOMAIN tree : f = IndexKey[p])
        ELSE IF \E p \in DOMAIN tree : \E k \in DOMAIN tree[p] : f = innerKey[p][k]
        THEN CHOOSE v \in Value : \E p \in DOMAIN tree : \E k \in DOMAIN tree[p] :
                f = innerKey[p][k] /\ v = tree[p][k]
        ELSE Nil]

Init == /\ disk \in {FlatOf(t) : t \in InitialTrees}
        /\ locked = FALSE
        /\ b = newBatch
        /\ txs = 0

Next == \/ BeginTx \/ Commit \/ Rollback
        \/ \E p \in Path : NewBucket(p) \/ DeleteBucket(p) \/ Clear(p)
        \/ \E p \in Path, k \in Key : Delete(p, k) \/ \E v \in Value : Put(p, k, v)

Spec == Init /\ [][Next]_vars

-----------------------------------------------------------------------------
(* The bucket tree a flat database stands for. *)
TreeOf(flat) ==
    [p \in {p \in Path : flat[IndexKey[p]] # Nil} |->
        [k \in {k \in Key : flat[innerKey[p][k]] # Nil} |-> flat[innerKey[p][k]]]]

Work == IF locked THEN TreeOf(Written) ELSE TreeOf([k \in FlatKey |-> Nil])

BS == INSTANCE BucketStore WITH store <- TreeOf(disk), writing <- locked, work <- Work

(* The driver keeps what the database promises: with every bucket name,    *)
(* key and prefix that meets another's flat key, a transaction changes the *)
(* buckets its calls name and no others, and Commit makes exactly that     *)
(* visible (joinBucketPath, innerKey, deleteBucket, Clear, Commit).        *)
RefinesBucketStore == BS!Spec

(* What a write transaction reads is what its Commit will write: the maps  *)
(* that answer batch.Get and the library batch that is written are kept    *)
(* separately and agree on every key (batch.Put, batch.Delete, batch.Get). *)
ReadsWhatCommits == locked => \A k \in FlatKey : GetFlat(k) = Written[k]

(* GetByPrefix and BucketNames merge the batch into the committed entries  *)
(* without losing, doubling or inventing one, and BucketNames never runs   *)
(* into an index entry it refuses.                                         *)
ScansMatchTree ==
    locked => \A p \in DOMAIN Work :
        /\ NamesLegal(p)
        /\ BucketNames(p) = {Last(q) : q \in {q \in DOMAIN Work : Len(q) > 1 /\ Parent(q) = p}}
        /\ \A prefix \in Key \cup {Nil} :
              GetByPrefix(p, prefix) =
                  {<<k, Work[p][k]>> : k \in {k \in DOMAIN Work[p] : IsPrefix(prefix, k)}}

(* An iterator of a write transaction delivers every entry of its bucket,  *)
(* the last time with its current value, and beyond them only committed    *)
(* entries that this very transaction has deleted (levelIterator.Next does *)
(* not consult batch.deletes).  Outside its own changes it is exact.       *)
IteratorShowsLive ==
    locked => \A p \in DOMAIN Work : \E run \in {NewIterator(p, Nil, Nil)} :
        /\ \A k \in DOMAIN Work[p] :
              \E i \in DOMAIN run : /\ run[i] = <<k, Work[p][k]>>
                                    /\ \A j \in (i + 1)..Len(run) : run[j][1] # k
        /\ \A i \in DOMAIN run :
              \/ run[i][1] \in DOMAIN Work[p]
              \/ disk[innerKey[p][run[i][1]]] # Nil /\ Deleted(innerKey[p][run[i][1]])
=============================================================================
