----------------------------- MODULE BucketStore -----------------------------
(* What masswallet/db promises its clients: a tree of buckets of entries,  *)
(* and one write transaction at a time that works on its own copy of it    *)
(* and becomes visible at once, or not at all.                             *)
EXTENDS Sequences, SequencesExt

CONSTANTS Path, Key, Value, InitialTrees

VARIABLES store,     \* the committed tree: bucket path -> (key -> value)
          writing,   \* is a write transaction open?
          work       \* the tree it sees

vars == <<store, writing, work>>

Empty == [x \in {} |-> x]

With(f, x, y) == [z \in DOMAIN f \cup {x} |-> IF z = x THEN y ELSE f[z]]
Without(f, S) == [x \in DOMAIN f \ S |-> f[x]]

Init == /\ store \in InitialTrees
        /\ writing = FALSE
        /\ work = Empty

Begin == /\ ~writing
         /\ writing' = TRUE
         /\ work' = store
         /\ UNCHANGED store

(* A new bucket is empty, and its parent exists. *)
Create(p) == /\ p \notin DOMAIN work
             /\ Len(p) > 1 => Front(p) \in DOMAIN work
             /\ work' = With(work, p, Empty)

(* Deleting a bucket takes everything below it. *)
Drop(p) == work' = Without(work, {q \in DOMAIN work : IsPrefix(p, q)})

Clear(p) == /\ p \in DOMAIN work
            /\ work' = [work EXCEPT ![p] = Empty]

Put(p, k, v) == /\ p \in DOMAIN work
                /\ work' = [work EXCEPT ![p] = With(@, k, v)]

Delete(p, k) == /\ p \in DOMAIN work
                /\ work' = [work EXCEPT ![p] = Without(@, {k})]

Change == /\ writing
          /\ \/ \E p \in Path : Create(p) \/ Drop(p) \/ Clear(p)
             \/ \E p \in Path, k \in Key : Delete(p, k) \/ \E v \in Value : Put(p, k, v)
          /\ UNCHANGED <<store, writing>>

Commit == /\ writing
          /\ store' = work
          /\ writing' = FALSE
          /\ work' = Empty

Abort == /\ writing
         /\ writing' = FALSE
         /\ work' = Empty
         /\ UNCHANGED store

Next == Begin \/ Change \/ Commit \/ Abort

Spec == Init /\ [][Next]_vars
=============================================================================
