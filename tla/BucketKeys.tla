----------------------------- MODULE BucketKeys -----------------------------
(* The flat key space of the wallet database (masswallet/db): buckets are  *)
(* not stored as such, a bucket is an index entry <b_depth_path, name> and *)
(* its entries carry the bucket's path in front of their keys.             *)
(*                                                                         *)
(* A byte string is a sequence of byte values; the empty one doubles as    *)
(* Go's nil, which Put refuses as a value.                                 *)
EXTENDS Integers, Sequences, FiniteSets, SequencesExt

CONSTANTS Path,      \* the bucket paths clients try: sequences of names
          Key,       \* the keys clients try
          Value      \* the values clients put

ByteString == Seq(0..255)

(* A bucket has a parent, depths have one digit, and nobody puts an empty  *)
(* key or value.                                                           *)
ASSUME PathAssumption ==
    \A p \in Path : /\ p \in Seq(ByteString) /\ Len(p) \in 1..8
                    /\ \A i \in 1..Len(p) : SubSeq(p, 1, i) \in Path
ASSUME KeyAssumption == Key \subseteq ByteString \ {<<>>} /\ Value \subseteq ByteString \ {<<>>}

Nil == <<>>

Sep    == 95           \* bucketPathSep      "_"
Index  == <<98>>       \* bucketNameBucket   "b"
Itoa(n) == <<48 + n>>   \* n < 10

maxBucketNameLen == 256

(* strings.Join(arr, bucketPathSep) *)
joinBucketPath(arr) ==
    LET join[i \in 1..Len(arr)] == IF i = 1 THEN arr[1] ELSE join[i - 1] \o <<Sep>> \o arr[i]
    IN  join[Len(arr)]

(* e.g.  1_top  -->  2_top_child *)
BucketPath(p) == joinBucketPath(<<Itoa(Len(p))>> \o p)

IndexKey == [p \in Path |-> joinBucketPath(<<Index, BucketPath(p)>>)]

(* The prefix of the index keys of the sub buckets of p. *)
IndexPrefix == [p \in Path |->
    joinBucketPath(<<Index, joinBucketPath(<<Itoa(Len(p) + 1)>> \o p \o <<Nil>>)>>)]

(* With the empty key, the prefix of all entries of p. *)
innerKey == [p \in Path |-> [k \in Key \cup {Nil} |-> joinBucketPath(<<BucketPath(p), k>>)]]

AnyBucketName(name) == Len(name) > 0 /\ Len(name) <= maxBucketNameLen
isValidBucketName(name) == /\ Len(name) > 0
                           /\ Len(name) <= maxBucketNameLen
                           /\ \A i \in 1..Len(name) : name[i] # Sep

(* A path that NewBucket and CreateTopLevelBucket accept, step by step. *)
Legal(p) == \A i \in 1..Len(p) : isValidBucketName(p[i])

Parent(p) == SubSeq(p, 1, Len(p) - 1)

FlatKey == {IndexKey[p] : p \in Path} \cup {innerKey[p][k] : p \in Path, k \in Key}

(* The part of a flat key that innerKey put behind the path. *)
OuterKey(p, f) == SubSeq(f, Len(BucketPath(p)) + 2, Len(f))

(* bytes.Compare(s, t) < 0 *)
Before(s, t) ==
    \/ Len(s) < Len(t) /\ IsPrefix(s, t)
    \/ \E i \in 1..Len(s) : /\ i <= Len(t) /\ s[i] < t[i]
                            /\ \A j \in 1..(i - 1) : s[j] = t[j]

(* The limit of db.BytesPrefix: the prefix with its last byte below 0xff   *)
(* raised and the rest cut off; Nil when there is no such byte.            *)
BytesPrefixLimit(prefix) ==
    LET low == {i \in 1..Len(prefix) : prefix[i] < 255}
        i   == CHOOSE i \in low : \A j \in low : j <= i
    IN  IF low = {} THEN Nil
        ELSE Append(SubSeq(prefix, 1, i - 1), prefix[i] + 1)
=============================================================================
