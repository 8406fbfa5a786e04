------------------------------ MODULE DbDrivers ------------------------------
(* The two drivers of masswallet/db side by side: one client makes the     *)
(* same calls to both, through View and Update of db.go.                   *)
EXTENDS LevelDB

VARIABLES tdb, tr

R == INSTANCE RocksDB

bothVars == <<disk, locked, b, txs, tdb, tr>>

BothInit == Init /\ tdb = disk /\ tr = R!NoWrites

BothNext ==
    \/ BeginTx /\ R!BeginTx
    \/ Commit /\ R!Commit
    \/ Rollback /\ R!Rollback
    \/ \E p \in Path : \/ NewBucket(p) /\ R!NewBucket(p)
                       \/ DeleteBucket(p) /\ R!DeleteBucket(p)
                       \/ Clear(p) /\ R!Clear(p)
    \/ \E p \in Path, k \in Key : \/ Delete(p, k) /\ R!Delete(p, k)
                                  \/ \E v \in Value : Put(p, k, v) /\ R!Put(p, k, v)

BothSpec == BothInit /\ [][BothNext]_bothVars

(* The wallet may run on either driver: after the same calls both have the *)
(* same database committed, show the same entries and sub buckets to the   *)
(* transaction and find the same buckets, except that the leveldb driver   *)
(* still finds a bucket the transaction has deleted (Bucket asks the batch *)
(* only when the database has no such bucket).                             *)
DriversAgree ==
    /\ disk = tdb
    /\ locked => \A p \in Path :
        /\ ~Deleted(IndexKey[p]) => (Found(p) <=> R!Exists(p))
        /\ BucketNames(p) = R!BucketNames(p)
        /\ \A prefix \in Key \cup {Nil} : GetByPrefix(p, prefix) = R!GetByPrefix(p, prefix)
=============================================================================
