----------------------------- MODULE SyncStore -----------------------------
(***************************************************************************)
(* txmgr.SyncStore, the bucket "sync" of the wallet database: one row per  *)
(* synced height, holding the hash of the block the wallet has processed   *)
(* at that height, and the row syncedToName holding the last height.  The  *)
(* operators below are the four functions of syncstore_db.go on a pair     *)
(* (rows, to); a row is present iff its height is in DOMAIN rows.          *)
(***************************************************************************)
EXTENDS BlockTree

(* putSyncedTo refuses a height whose predecessor is missing or whose      *)
(* successor is present.                                                   *)
CanPutSyncedTo(rows, b) ==
    /\ Height[b] > 0 => Height[b] - 1 \in DOMAIN rows
    /\ Height[b] + 1 \notin DOMAIN rows

PutRow(rows, b) ==
    [h \in DOMAIN rows \cup {Height[b]} |-> IF h = Height[b] THEN b ELSE rows[h]]

(* resetSyncedTo deletes the rows from the last height down to height+1.   *)
ResetRows(rows, to, height) ==
    [h \in {x \in DOMAIN rows : ~(height < x /\ x <= to)} |-> rows[h]]

ResetTo(to, height) == IF to > height THEN height ELSE to

=============================================================================
