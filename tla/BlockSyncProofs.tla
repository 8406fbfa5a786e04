-------------------------- MODULE BlockSyncProofs --------------------------
(***************************************************************************)
(* Proofs about BlockSync for every block tree, every queue capacity and   *)
(* every bound: the sync position is a contiguous, linked chain that       *)
(* agrees with h.bestBlock, and reorg implements SyncedChain.              *)
(***************************************************************************)
EXTENDS BlockSync, TLAPS

USE DEF Keep

(* The height of a block whose predecessor is p is one more than p's.      *)
LEMMA PrevHeight ==
    ASSUME NEW b \in Block, b # Genesis
    PROVE  Prev[b] \in Block /\ Height[b] = Height[Prev[b]] + 1 /\ Height[b] \in Nat
                /\ Height[Prev[b]] \in Nat
  BY BlockTreeAssumption

(* resetSyncedTo on a contiguous bucket leaves the rows up to height.      *)
LEMMA ResetPrefix ==
    ASSUME NEW r, NEW t \in Nat, NEW height \in Nat, DOMAIN r = 0..t, height <= t
    PROVE  /\ ResetTo(t, height) = height
           /\ DOMAIN ResetRows(r, t, height) = 0..height
           /\ \A h \in 0..height : ResetRows(r, t, height)[h] = r[h]
  BY DEF ResetTo, ResetRows

(* putSyncedTo of the next height extends a contiguous bucket by one row.  *)
LEMMA PutExtends ==
    ASSUME NEW r, NEW t \in Nat, NEW b, DOMAIN r = 0..t, Height[b] = t + 1
    PROVE  /\ DOMAIN PutRow(r, b) = 0..(t + 1)
           /\ PutRow(r, b)[t + 1] = b
           /\ \A h \in 0..t : PutRow(r, b)[h] = r[h]
  BY DEF PutRow

-----------------------------------------------------------------------------
(* Facts about the node's chain. *)
LEMMA MainTipFact ==
    ASSUME MainOK
    PROVE  /\ MainTip \in Nat /\ MainTip \in DOMAIN main
           /\ DOMAIN main = 0..MainTip
  <1>1. PICK n \in DOMAIN main : DOMAIN main = 0..n  BY DEF MainOK
  <1>2. n \in Nat /\ n + 1 \notin DOMAIN main  BY <1>1 DEF MainOK
  <1>3. MainTip \in DOMAIN main /\ MainTip + 1 \notin DOMAIN main
    BY <1>2 DEF MainTip
  <1>4. MainTip = n  BY <1>1, <1>2, <1>3
  <1> QED  BY <1>1, <1>2, <1>4

LEMMA NodeKeepsMain ==
    ASSUME MainOK, NodeStep
    PROVE  MainOK'
  <1> USE BlockTreeAssumption
  <1>1. MainTip \in Nat /\ MainTip \in DOMAIN main /\ DOMAIN main = 0..MainTip
    BY MainTipFact
  <1>2. CASE NodeChoose  BY <1>2 DEF NodeChoose, MainOK
  <1>3. CASE NodeDetach
    <2>1. MainTip > 0 /\ main' = [h \in DOMAIN main \ {MainTip} |-> main[h]]
      BY <1>3 DEF NodeDetach
    <2> DEFINE n == MainTip - 1
    <2>2. n \in Nat /\ DOMAIN main' = 0..n  BY <1>1, <2>1
    <2>3. \A h \in 0..n : main'[h] = main[h] /\ h \in DOMAIN main
      BY <1>1, <2>1
    <2>4. n \in DOMAIN main' /\ DOMAIN main' \subseteq Nat  BY <2>2
    <2>5. main' \in [DOMAIN main' -> Block]  BY <1>1, <2>1 DEF MainOK
    <2>6. \A h \in DOMAIN main' : Height[main'[h]] = h  BY <2>2, <2>3 DEF MainOK
    <2> QED  BY <2>2, <2>4, <2>5, <2>6 DEF MainOK
  <1>4. CASE NodeAttach
    <2>1. PICK b \in Block \ {Genesis} :
             /\ Prev[b] = main[MainTip]
             /\ main' = [h \in DOMAIN main \cup {Height[b]} |->
                            IF h = Height[b] THEN b ELSE main[h]]
      BY <1>4 DEF NodeAttach
    <2>2. Height[b] = MainTip + 1  BY <1>1, <2>1 DEF MainOK
    <2>3. DOMAIN main' = 0..(MainTip + 1)  BY <1>1, <2>1, <2>2
    <2> QED  BY <1>1, <2>1, <2>2, <2>3 DEF MainOK
  <1> QED  BY <1>2, <1>3, <1>4 DEF NodeStep
-----------------------------------------------------------------------------
(* One lemma per step of processConnectedBlock: the step keeps the types   *)
(* and the invariant of the open transaction.                              *)

(* A path stays a path when the branch is followed one block further down. *)
LEMMA PathDown ==
    ASSUME todo \in Seq(Block), nb \in Block \ {Genesis}, PathFrom(nb),
           todo' = <<nb>> \o todo, UNCHANGED blk, NEW base, base = Prev[nb]
    PROVE  /\ todo' \in Seq(Block)
           /\ \A i \in 1..Len(todo') :
                 /\ todo'[i] # Genesis
                 /\ Prev[todo'[i]] = IF i = 1 THEN base ELSE todo'[i - 1]
           /\ todo' # <<>> /\ blk' = todo'[Len(todo')]
  <1>1. /\ todo' \in Seq(Block) /\ Len(todo') = Len(todo) + 1 /\ todo'[1] = nb
        /\ \A i \in 2..Len(todo') : todo'[i] = todo[i - 1]
    OBVIOUS
  <1>2. ASSUME NEW i \in 1..Len(todo')
        PROVE  /\ todo'[i] # Genesis
               /\ Prev[todo'[i]] = IF i = 1 THEN base ELSE todo'[i - 1]
    <2>1. CASE i = 1  BY <1>1, <2>1
    <2>2. CASE i = 2
      <3>1. 1 \in 1..Len(todo) /\ todo'[2] = todo[1]  BY <1>1, <1>2, <2>2
      <3> QED  BY <1>1, <2>2, <3>1 DEF PathFrom
    <2>3. CASE i > 2
      <3>1. i - 1 \in 1..Len(todo) /\ i - 1 # 1 /\ todo'[i] = todo[i - 1]
            /\ todo'[i - 1] = todo[(i - 1) - 1]
        BY <1>1, <1>2, <2>3
      <3> QED  BY <2>3, <3>1 DEF PathFrom
    <2> QED  BY <2>1, <2>2, <2>3
  <1>3. blk' = todo'[Len(todo')]
    <2>1. CASE todo = <<>>  BY <1>1, <2>1 DEF PathFrom
    <2>2. CASE todo # <<>>
      <3>1. Len(todo) \in Nat /\ Len(todo) >= 1  BY <2>2
      <3>2. todo'[Len(todo) + 1] = todo[Len(todo)]  BY <1>1, <3>1
      <3> QED  BY <1>1, <2>2, <3>2 DEF PathFrom
    <2> QED  BY <2>1, <2>2
  <1> QED  BY <1>1, <1>2, <1>3

LEMMA AlignStep ==
    ASSUME SyncInv, Align
    PROVE  TypeOK' /\ TxnOK'
  <1> USE BlockTreeAssumption
  <1>1. /\ pc = "align" /\ pc' = "align" /\ phase' = phase /\ best' = best
        /\ Height[best] < Height[nb] /\ nb' = Prev[nb] /\ todo' = <<nb>> \o todo
        /\ blk' = blk /\ curH' = curH /\ tRows' = tRows /\ tTo' = tTo
        /\ tSkipped' = tSkipped /\ rows' = rows /\ syncedTo' = syncedTo
        /\ queue' = queue /\ startH' = startH /\ idx' = idx
    BY DEF Align, dbVars, startVars
  <1>2. nb \in Block \ {Genesis}  BY <1>1 DEF SyncInv, TypeOK
  <1>3. PathFrom(nb) /\ todo \in Seq(Block)  BY <1>1 DEF SyncInv, TxnOK, TypeOK
  <1>4. /\ todo' \in Seq(Block) /\ todo' # <<>> /\ blk' = todo'[Len(todo')]
        /\ \A i \in 1..Len(todo') :
              /\ todo'[i] # Genesis
              /\ Prev[todo'[i]] = IF i = 1 THEN nb' ELSE todo'[i - 1]
    BY <1>1, <1>2, <1>3, PathDown
  <1>5. TypeOK'  BY <1>1, <1>2, <1>4 DEF SyncInv, TypeOK
  <1>6. TxnOK'
    BY <1>1, <1>4 DEF SyncInv, TxnOK, TxnRowsOK, PrefixOK, PathFrom, Linked
  <1> QED  BY <1>5, <1>6

LEMMA AlignedStep ==
    ASSUME SyncInv, Aligned
    PROVE  TypeOK' /\ TxnOK'
  <1> USE BlockTreeAssumption
  <1>1. /\ pc = "align" /\ phase' = phase /\ best' = best
        /\ pc' = IF best = nb THEN "connect" ELSE "lower"
        /\ Height[best] >= Height[nb] /\ nb' = nb /\ todo' = todo
        /\ blk' = blk /\ curH' = curH /\ tRows' = tRows /\ tTo' = tTo
        /\ tSkipped' = tSkipped /\ rows' = rows /\ syncedTo' = syncedTo
        /\ queue' = queue /\ startH' = startH /\ idx' = idx
    BY DEF Aligned, dbVars, startVars
  <1>2. TypeOK'  BY <1>1 DEF SyncInv, TypeOK
  <1>3. best = tRows[tTo] /\ Height[best] = tTo
    BY <1>1 DEF SyncInv, TypeOK, TxnOK, TxnRowsOK, BestIsSyncedTo
  <1>4. TxnRowsOK'  BY <1>1 DEF SyncInv, TxnOK, TxnRowsOK, Linked
  <1>5. PrefixOK'  BY <1>1 DEF SyncInv, TxnOK, PrefixOK
  <1>6. PathFrom(nb)'  BY <1>1 DEF SyncInv, TxnOK, PathFrom
  <1>7. TxnOK'
    BY <1>1, <1>3, <1>4, <1>5, <1>6 DEF SyncInv, TxnOK, PathFrom
  <1> QED  BY <1>2, <1>7
(* disconnectBlock of the last synced height removes exactly that row.     *)
LEMMA DisconnectLast ==
    ASSUME TypeOK, TxnRowsOK, tTo > 0, Disconnect(tTo)
    PROVE  /\ tTo' = tTo - 1 /\ tTo' \in Nat
           /\ tRows' \in [DOMAIN tRows' -> Block]
           /\ \A h \in 0..tTo' : tRows'[h] = tRows[h]
           /\ TxnRowsOK'
  <1>1. tTo \in Nat /\ tTo - 1 \in Nat /\ DOMAIN tRows = 0..tTo
    BY DEF TypeOK, TxnRowsOK
  <1>2. /\ tRows' = ResetRows(tRows, tTo, tTo - 1)
        /\ tTo' = ResetTo(tTo, tTo - 1)
        /\ tSkipped' = {h \in tSkipped : h < tTo}
    BY <1>1 DEF Disconnect
  <1>3. /\ tTo' = tTo - 1 /\ DOMAIN tRows' = 0..(tTo - 1)
        /\ \A h \in 0..(tTo - 1) : tRows'[h] = tRows[h]
    BY <1>1, <1>2, ResetPrefix
  <1>4. tRows' = [h \in 0..(tTo - 1) |-> tRows[h]]
    BY <1>2, <1>3 DEF ResetRows
  <1>5. tRows' \in [DOMAIN tRows' -> Block]
    BY <1>1, <1>3, <1>4 DEF TypeOK
  <1>6. Linked(tRows', tSkipped')
    <2> SUFFICES ASSUME NEW h \in DOMAIN tRows', h > 0, h \notin tSkipped'
                 PROVE  h - 1 \in DOMAIN tRows' /\ Prev[tRows'[h]] = tRows'[h - 1]
      BY DEF Linked
    <2>1. h \in 0..tTo /\ h < tTo /\ h \in Nat /\ h - 1 \in 0..(tTo - 1)  BY <1>1, <1>3
    <2>2. h \notin tSkipped  BY <1>2, <2>1
    <2>3. Prev[tRows[h]] = tRows[h - 1]  BY <1>1, <2>1, <2>2 DEF TxnRowsOK, Linked
    <2> QED  BY <1>1, <1>3, <2>1, <2>3
  <1>7. TxnRowsOK'  BY <1>1, <1>3, <1>6 DEF TxnRowsOK
  <1> QED  BY <1>1, <1>3, <1>5, <1>7

LEMMA LowerStep ==
    ASSUME SyncInv, Lower
    PROVE  TypeOK' /\ TxnOK'
  <1> USE BlockTreeAssumption
  <1>1. /\ pc = "lower" /\ pc' = "lower" /\ phase' = phase /\ best' = best
        /\ curH > Height[nb] /\ Disconnect(curH) /\ curH' = curH - 1
        /\ nb' = nb /\ todo' = todo /\ blk' = blk
        /\ rows' = rows /\ syncedTo' = syncedTo
        /\ queue' = queue /\ startH' = startH /\ idx' = idx
    BY DEF Lower, dbVars, startVars
  <1>2. curH = tTo /\ TxnRowsOK /\ tTo > 0 /\ tTo \in Nat /\ Height[nb] \in Nat
    BY <1>1 DEF SyncInv, TxnOK, TypeOK
  <1>3. /\ tTo' = tTo - 1 /\ tTo' \in Nat /\ tRows' \in [DOMAIN tRows' -> Block]
        /\ \A h \in 0..tTo' : tRows'[h] = tRows[h]
        /\ TxnRowsOK'
    BY <1>1, <1>2, DisconnectLast DEF SyncInv
  <1>4. TypeOK'  BY <1>1, <1>2, <1>3 DEF SyncInv, TypeOK
  <1>5. PrefixOK'
    <2>1. tTo <= syncedTo /\ \A h \in 0..tTo : tRows[h] = rows[h]
      BY <1>1 DEF SyncInv, TxnOK, PrefixOK
    <2>2. syncedTo \in Nat  BY DEF SyncInv, TypeOK
    <2> QED  BY <1>1, <1>2, <1>3, <2>1, <2>2 DEF PrefixOK
  <1>6. PathFrom(nb)'  BY <1>1 DEF SyncInv, TxnOK, PathFrom
  <1>7. TxnOK'  BY <1>1, <1>2, <1>3, <1>5, <1>6 DEF SyncInv, TxnOK
  <1> QED  BY <1>4, <1>7

LEMMA LoweredStep ==
    ASSUME SyncInv, Lowered
    PROVE  TypeOK' /\ TxnOK'
  <1> USE BlockTreeAssumption
  <1>1. /\ pc = "lower" /\ phase' = phase /\ best' = best
        /\ curH = Height[nb]
        /\ \/ tRows[curH] = nb /\ pc' = "connect" /\ curH' = curH
           \/ curH - 1 \in DOMAIN tRows /\ pc' = "walk" /\ curH' = curH - 1
        /\ nb' = nb /\ todo' = todo /\ blk' = blk
        /\ tRows' = tRows /\ tTo' = tTo /\ tSkipped' = tSkipped
        /\ rows' = rows /\ syncedTo' = syncedTo
        /\ queue' = queue /\ startH' = startH /\ idx' = idx
    BY DEF Lowered, dbVars, startVars
  <1>2. curH = tTo /\ TxnRowsOK /\ tTo \in Nat /\ PrefixOK /\ PathFrom(nb)
    BY <1>1 DEF SyncInv, TxnOK, TypeOK
  <1>3. DOMAIN tRows = 0..tTo  BY <1>2 DEF TxnRowsOK
  <1>4. TypeOK'  BY <1>1, <1>2, <1>3 DEF SyncInv, TypeOK
  <1>5. TxnRowsOK'  BY <1>1, <1>2 DEF TxnRowsOK, Linked
  <1>6. PrefixOK'  BY <1>1, <1>2 DEF PrefixOK
  <1>7. PathFrom(nb)'  BY <1>1, <1>2 DEF PathFrom
  <1>8. PathFrom(IF pc = "connect" THEN tRows[tTo] ELSE nb)'
    BY <1>1, <1>2, <1>7 DEF PathFrom
  <1>9. TxnOK'
    BY <1>1, <1>2, <1>3, <1>5, <1>6, <1>8 DEF SyncInv, TxnOK
  <1> QED  BY <1>4, <1>9

LEMMA WalkStep ==
    ASSUME SyncInv, Walk \/ Walked
    PROVE  TypeOK' /\ TxnOK'
  <1> USE BlockTreeAssumption
  <1>1. /\ pc = "walk" /\ phase' = phase /\ best' = best
        /\ Disconnect(curH + 1) /\ todo' = <<nb>> \o todo /\ blk' = blk
        /\ rows' = rows /\ syncedTo' = syncedTo
        /\ queue' = queue /\ startH' = startH /\ idx' = idx
    BY DEF Walk, Walked, dbVars, startVars
  <1>2. /\ curH + 1 = tTo /\ Height[nb] = tTo /\ TxnRowsOK /\ PathFrom(nb)
        /\ tTo \in Nat /\ curH \in Nat /\ nb \in Block /\ todo \in Seq(Block)
    BY <1>1 DEF SyncInv, TxnOK, TypeOK
  <1>3. tTo > 0 /\ nb \in Block \ {Genesis}  BY <1>2
  <1>4. /\ tTo' = curH /\ tTo' \in Nat /\ tRows' \in [DOMAIN tRows' -> Block]
        /\ \A h \in 0..tTo' : tRows'[h] = tRows[h]
        /\ TxnRowsOK'
    BY <1>1, <1>2, <1>3, DisconnectLast DEF SyncInv
  <1>5. /\ todo' \in Seq(Block) /\ todo' # <<>> /\ blk' = todo'[Len(todo')]
        /\ \A i \in 1..Len(todo') :
              /\ todo'[i] # Genesis
              /\ Prev[todo'[i]] = IF i = 1 THEN Prev[nb] ELSE todo'[i - 1]
    BY <1>1, <1>2, <1>3, PathDown
  <1>6. /\ tTo <= syncedTo /\ \A h \in 0..tTo : tRows[h] = rows[h]
        /\ syncedTo \in Nat
    BY <1>1 DEF SyncInv, TxnOK, PrefixOK, TypeOK
  <1>7. PrefixOK'  BY <1>1, <1>2, <1>4, <1>6 DEF PrefixOK
  <1>8. phase' \in {"catchup", "running"}  BY <1>1 DEF SyncInv, TxnOK
  <1>9. CASE Walk
    <2>1. /\ pc' = "walk" /\ nb' = Prev[nb] /\ curH' = curH - 1
          /\ curH - 1 \in DOMAIN tRows'
      BY <1>1, <1>9 DEF Walk
    <2>2. DOMAIN tRows' = 0..curH  BY <1>4 DEF TxnRowsOK
    <2>3. curH' \in Nat /\ nb' \in Block /\ Height[nb'] = tTo'
      BY <1>2, <1>3, <1>4, <2>1, <2>2
    <2>4. TypeOK'  BY <1>1, <1>4, <1>5, <2>1, <2>3 DEF SyncInv, TypeOK
    <2>5. PathFrom(nb)'  BY <1>5, <2>1 DEF PathFrom
    <2>6. TxnOK'  BY <1>2, <1>4, <1>7, <1>8, <2>1, <2>3, <2>5 DEF TxnOK
    <2> QED  BY <2>4, <2>6
  <1>10. CASE Walked
    <2>1. /\ pc' = "connect" /\ nb' = nb /\ curH' = curH /\ Prev[nb] = tRows[curH]
      BY <1>1, <1>10 DEF Walked
    <2>2. TypeOK'  BY <1>1, <1>2, <1>4, <1>5, <2>1 DEF SyncInv, TypeOK
    <2>3. tRows'[tTo'] = Prev[nb]  BY <1>2, <1>4, <2>1
    <2>4. PathFrom(tRows[tTo])'  BY <1>5, <2>3 DEF PathFrom
    <2>5. TxnOK'  BY <1>4, <1>7, <1>8, <2>1, <2>4 DEF TxnOK
    <2> QED  BY <2>2, <2>5
  <1> QED  BY <1>9, <1>10
LEMMA ConnectStep ==
    ASSUME SyncInv, Connect
    PROVE  TypeOK' /\ TxnOK'
  <1> USE BlockTreeAssumption
  <1> DEFINE b == Head(todo)
  <1>1. /\ pc = "connect" /\ pc' = "connect" /\ phase' = phase /\ best' = best
        /\ todo # <<>> /\ todo' = Tail(todo) /\ blk' = blk /\ nb' = nb /\ curH' = curH
        /\ tRows' = PutRow(tRows, b) /\ tTo' = Height[b] /\ tSkipped' = tSkipped
        /\ rows' = rows /\ syncedTo' = syncedTo
        /\ queue' = queue /\ startH' = startH /\ idx' = idx
    BY DEF Connect, dbVars, startVars
  <1>2. /\ todo \in Seq(Block) /\ tTo \in Nat /\ TxnRowsOK /\ PathFrom(tRows[tTo])
        /\ tRows \in [DOMAIN tRows -> Block] /\ syncedTo \in Nat
    BY <1>1 DEF SyncInv, TxnOK, TypeOK
  <1>3. b \in Block /\ b # Genesis /\ Prev[b] = tRows[tTo] /\ b = todo[1]
    <2>1. 1 \in 1..Len(todo) /\ b = todo[1] /\ todo[1] \in Block  BY <1>1, <1>2
    <2>2. todo[1] # Genesis /\ Prev[todo[1]] = tRows[tTo]  BY <1>2, <2>1 DEF PathFrom
    <2> QED  BY <2>1, <2>2
  <1> HIDE DEF b
  <1>4. Height[b] = tTo + 1 /\ DOMAIN tRows = 0..tTo
    <2>1. tTo \in DOMAIN tRows /\ DOMAIN tRows = 0..tTo  BY <1>2 DEF TxnRowsOK
    <2>2. Height[tRows[tTo]] = tTo  BY <1>2, <2>1 DEF TxnRowsOK
    <2> QED  BY <1>3, <2>1, <2>2
  <1>5. /\ DOMAIN tRows' = 0..(tTo + 1) /\ tRows'[tTo + 1] = b /\ tTo' = tTo + 1
        /\ \A h \in 0..tTo : tRows'[h] = tRows[h]
    BY <1>1, <1>2, <1>4, PutExtends
  <1>6. tRows' \in [DOMAIN tRows' -> Block]
    BY <1>1, <1>2, <1>3 DEF PutRow
  <1>7. Tail(todo) \in Seq(Block)  BY <1>1, <1>2
  <1>8. TypeOK'  BY <1>1, <1>2, <1>5, <1>6, <1>7 DEF SyncInv, TypeOK
  <1>9. TxnRowsOK'
    <2>1. \A h \in DOMAIN tRows' : Height[tRows'[h]] = h
      BY <1>2, <1>4, <1>5 DEF TxnRowsOK
    <2>2. tRows'[0] = Genesis  BY <1>2, <1>5 DEF TxnRowsOK
    <2>3. Linked(tRows', tSkipped')
      <3> SUFFICES ASSUME NEW h \in DOMAIN tRows', h > 0, h \notin tSkipped'
                   PROVE  h - 1 \in DOMAIN tRows' /\ Prev[tRows'[h]] = tRows'[h - 1]
        BY DEF Linked
      <3>1. CASE h = tTo + 1
        <4>1. h - 1 = tTo /\ tTo \in 0..tTo  BY <1>2, <3>1
        <4>2. tRows'[h] = b /\ tRows'[h - 1] = tRows[tTo]  BY <1>5, <3>1, <4>1
        <4> QED  BY <1>2, <1>3, <1>5, <4>1, <4>2
      <3>2. CASE h \in 0..tTo
        <4>1. h - 1 \in 0..tTo /\ Prev[tRows[h]] = tRows[h - 1]
          BY <1>1, <1>2, <1>4, <3>2 DEF TxnRowsOK, Linked
        <4> QED  BY <1>2, <1>5, <3>2, <4>1
      <3> QED  BY <1>2, <1>5, <3>1, <3>2
    <2> QED  BY <1>5, <2>1, <2>2, <2>3 DEF TxnRowsOK
  <1>10. PrefixOK'
    <2>1. PICK k \in 0..tTo :
             /\ k <= syncedTo
             /\ \A h \in 0..k : tRows[h] = rows[h]
             /\ \A h \in (k + 1)..tTo : Prev[tRows[h]] = tRows[h - 1]
      BY <1>1 DEF SyncInv, TxnOK, PrefixOK
    <2>2. \A h \in 0..k : tRows'[h] = rows'[h]
      <3>1. \A h \in 0..k : h \in 0..tTo  BY <1>2, <2>1
      <3> QED  BY <1>1, <1>5, <2>1, <3>1
    <2>3. ASSUME NEW h \in (k + 1)..tTo'
          PROVE  Prev[tRows'[h]] = tRows'[h - 1]
      <3>1. CASE h = tTo + 1
        <4>1. h - 1 = tTo /\ tTo \in 0..tTo  BY <1>2, <3>1
        <4>2. tRows'[h] = b /\ tRows'[h - 1] = tRows[tTo]  BY <1>5, <3>1, <4>1
        <4> QED  BY <1>2, <1>3, <1>5, <4>1, <4>2
      <3>2. CASE h <= tTo
        <4>1. h \in 0..tTo /\ h - 1 \in 0..tTo /\ h \in (k + 1)..tTo
          BY <1>2, <1>5, <2>3, <3>2
        <4> QED  BY <1>5, <2>1, <4>1
      <3> QED  BY <1>2, <1>5, <2>3, <3>1, <3>2
    <2>4. k \in 0..tTo' /\ k <= syncedTo'  BY <1>1, <1>2, <1>5, <2>1
    <2> QED  BY <1>1, <2>2, <2>3, <2>4 DEF PrefixOK
  <1>11. PathFrom(tRows[tTo])'
    <2>1. /\ Len(todo) \in Nat /\ Len(todo) >= 1 /\ Len(todo') = Len(todo) - 1
          /\ \A i \in 1..Len(todo') : todo'[i] = todo[i + 1]
      BY <1>1, <1>2
    <2>2. tRows'[tTo'] = todo[1]  BY <1>3, <1>5
    <2>3. ASSUME NEW i \in 1..Len(todo')
          PROVE  /\ todo'[i] # Genesis
                 /\ Prev[todo'[i]] = IF i = 1 THEN tRows'[tTo'] ELSE todo'[i - 1]
      <3>1. /\ i + 1 \in 1..Len(todo) /\ i + 1 # 1 /\ (i + 1) - 1 = i
            /\ todo'[i] = todo[i + 1]
        BY <2>1, <2>3
      <3>2. todo[i + 1] # Genesis /\ Prev[todo[i + 1]] = todo[i]
        BY <1>2, <3>1 DEF PathFrom
      <3>3. i # 1 => todo'[i - 1] = todo[i]
        <4> SUFFICES ASSUME i # 1 PROVE todo'[i - 1] = todo[i]  OBVIOUS
        <4>1. i - 1 \in 1..Len(todo') /\ (i - 1) + 1 = i  BY <2>1, <2>3
        <4> QED  BY <2>1, <4>1
      <3> QED  BY <2>2, <3>1, <3>2, <3>3
    <2>4. blk' = IF todo' = <<>> THEN tRows'[tTo'] ELSE todo'[Len(todo')]
      <3>1. blk = todo[Len(todo)]  BY <1>1, <1>2 DEF PathFrom
      <3>2. CASE Len(todo) = 1
        <4>1. todo' = <<>>  BY <1>1, <1>2, <3>2
        <4> QED  BY <1>1, <2>2, <3>1, <3>2, <4>1
      <3>3. CASE Len(todo) > 1
        <4>1. Len(todo') \in 1..Len(todo')  BY <2>1, <3>3
        <4>3. todo' # <<>>  BY <2>1, <3>3
        <4>2. todo'[Len(todo')] = todo[Len(todo)]  BY <2>1, <4>1
        <4> QED  BY <1>1, <3>1, <4>2, <4>3
      <3> QED  BY <2>1, <3>2, <3>3
    <2> QED  BY <2>3, <2>4 DEF PathFrom
  <1>12. phase' \in {"catchup", "running"}  BY <1>1 DEF SyncInv, TxnOK
  <1>13. TxnOK'  BY <1>1, <1>9, <1>10, <1>11, <1>12 DEF TxnOK
  <1> QED  BY <1>8, <1>13

(* Opening a transaction for a block of the node. *)
LEMMA BeginStep ==
    ASSUME SyncInv, NEW b \in Block, Begin(b), phase' = phase, UNCHANGED <<dbVars, best>>,
           phase \in {"catchup", "running"},
           queue' \in Seq(Block), UNCHANGED startVars
    PROVE  TypeOK' /\ TxnOK'
  <1> USE BlockTreeAssumption
  <1>1. /\ best = rows[syncedTo] /\ best \in Block /\ syncedTo \in Nat
        /\ rows \in [DOMAIN rows -> Block] /\ DOMAIN rows = 0..syncedTo
        /\ Height[best] = syncedTo
        /\ rows[0] = Genesis /\ Linked(rows, skipped)
        /\ \A h \in DOMAIN rows : Height[rows[h]] = h
    BY DEF SyncInv, TypeOK, BestIsSyncedTo, SyncRowsContiguous, SyncRowsLinked
  <1>2. /\ blk' = b /\ nb' = b /\ curH' = syncedTo /\ best' = best
        /\ tRows' = rows /\ tTo' = syncedTo /\ tSkipped' = skipped
        /\ rows' = rows /\ syncedTo' = syncedTo
        /\ startH' = startH /\ idx' = idx
    BY <1>1 DEF Begin, dbVars, startVars
  <1>3. \/ pc' = "connect" /\ todo' = <<b>> /\ Prev[b] = best /\ b # Genesis
        \/ pc' = "align" /\ todo' = <<>>
    BY DEF Begin
  <1>4. TypeOK'
    <2>1. pc' \in {"align", "connect"}  BY <1>3
    <2>2. <<b>> \in Seq(Block) /\ <<>> \in Seq(Block)  OBVIOUS
    <2>3. todo' \in Seq(Block)  BY <1>3, <2>2, Zenon
    <2> QED  BY <1>1, <1>2, <2>1, <2>3 DEF SyncInv, TypeOK
  <1>5. TxnRowsOK'  BY <1>1, <1>2 DEF TxnRowsOK, Linked
  <1>6. PrefixOK'
    <2>1. syncedTo \in 0..tTo' /\ syncedTo <= syncedTo' /\ syncedTo = tTo'  BY <1>1, <1>2
    <2>2. \A h \in 0..syncedTo : tRows'[h] = rows'[h]  BY <1>2
    <2>3. \A h \in (syncedTo + 1)..tTo' : Prev[tRows'[h]] = tRows'[h - 1]
      BY <1>1, <2>1
    <2> QED  BY <2>1, <2>2, <2>3 DEF PrefixOK
  <1>7. CASE pc' = "connect"
    <2>1. todo' = <<b>> /\ Prev[b] = tRows'[tTo'] /\ b # Genesis /\ blk' = b
      BY <1>1, <1>2, <1>3, <1>7
    <2>2. Len(todo') = 1 /\ todo'[1] = b /\ todo' # <<>>  BY <2>1
    <2>3. PathFrom(tRows[tTo])'  BY <2>1, <2>2 DEF PathFrom
    <2> QED  BY <1>4, <1>5, <1>6, <1>7, <2>3 DEF TxnOK
  <1>8. CASE pc' = "align"
    <2>1. PathFrom(nb)'  BY <1>2, <1>3, <1>8 DEF PathFrom
    <2> QED  BY <1>2, <1>4, <1>5, <1>6, <1>8, <2>1 DEF TxnOK
  <1> QED  BY <1>3, <1>7, <1>8
-----------------------------------------------------------------------------
(* The steps that write the database. *)

LEMMA CommitStep ==
    ASSUME SyncInv, CommitBlock
    PROVE  SyncInv'
  <1> USE BlockTreeAssumption
  <1>1. /\ pc = "connect" /\ todo = <<>> /\ pc' = "idle" /\ phase' = phase
        /\ rows' = tRows /\ syncedTo' = tTo /\ skipped' = tSkipped /\ best' = blk
        /\ startH' = IF phase = "catchup" THEN startH + 1 ELSE startH
        /\ main' = main /\ queue' = queue /\ blk' = blk /\ nb' = nb /\ curH' = curH
        /\ todo' = todo /\ tRows' = tRows /\ tTo' = tTo /\ tSkipped' = tSkipped
        /\ idx' = idx
    BY DEF CommitBlock, chainVars
  <1>2. TxnRowsOK /\ PathFrom(tRows[tTo])  BY <1>1 DEF SyncInv, TxnOK
  <1>3. blk = tRows[tTo]  BY <1>1, <1>2 DEF PathFrom
  <1>4. TypeOK'  BY <1>1 DEF SyncInv, TypeOK
  <1>5. MainOK'  BY <1>1 DEF SyncInv, MainOK
  <1>6. SyncRowsContiguous' /\ SyncRowsLinked' /\ BestIsSyncedTo'
    BY <1>1, <1>2, <1>3
    DEF SyncRowsContiguous, SyncRowsLinked, BestIsSyncedTo, TxnRowsOK, Linked
  <1>7. TxnOK'  BY <1>1 DEF TxnOK
  <1>8. FastOK'  BY <1>1 DEF SyncInv, TxnOK, FastOK
  <1> QED  BY <1>4, <1>5, <1>6, <1>7, <1>8 DEF SyncInv

LEMMA FastSyncStep ==
    ASSUME SyncInv, FastSync
    PROVE  SyncInv'
  <1> USE BlockTreeAssumption
  <1> DEFINE b == main[startH]
  <1>1. /\ phase = "fast" /\ startH \in DOMAIN main
        /\ CanPutSyncedTo(rows, b) /\ rows' = PutRow(rows, b) /\ syncedTo' = Height[b]
        /\ best' = b /\ skipped' = skipped \cup {startH} /\ startH' = startH + 1
        /\ main' = main /\ queue' = queue /\ phase' = phase /\ idx' = idx
        /\ UNCHANGED txnVars
    BY DEF FastSync, chainVars
  <1>2. b \in Block /\ Height[b] = startH /\ startH \in Nat
    BY <1>1 DEF SyncInv, MainOK
  <1> HIDE DEF b
  <1>3. /\ syncedTo \in Nat /\ DOMAIN rows = 0..syncedTo /\ rows[0] = Genesis
        /\ \A h \in DOMAIN rows : Height[rows[h]] = h
        /\ Linked(rows, skipped) /\ rows \in [DOMAIN rows -> Block]
    BY DEF SyncInv, TypeOK, SyncRowsContiguous, SyncRowsLinked
  <1>4. pc = "idle" /\ pc' = "idle"  BY <1>1 DEF SyncInv, TxnOK, TypeOK, txnVars
  <1>5. startH = syncedTo + 1  BY <1>1 DEF SyncInv, FastOK
  <1>6. /\ DOMAIN rows' = 0..syncedTo' /\ rows'[startH] = b /\ syncedTo' = startH
        /\ \A h \in 0..(startH - 1) : rows'[h] = rows[h]
    BY <1>1, <1>2, <1>3, <1>5 DEF PutRow
  <1>7. startH > 0 \/ b = Genesis
    BY <1>2
  <1>8. TypeOK'
    <2>1. rows' \in [DOMAIN rows' -> Block]  BY <1>1, <1>2, <1>3 DEF PutRow
    <2> QED  BY <1>1, <1>2, <1>6, <2>1 DEF SyncInv, TypeOK, txnVars
  <1>9. MainOK'  BY <1>1 DEF SyncInv, MainOK
  <1>10. SyncRowsContiguous'
    <2> SUFFICES ASSUME NEW h \in DOMAIN rows' PROVE Height[rows'[h]] = h
      BY <1>6 DEF SyncRowsContiguous
    <2>1. CASE h = startH  BY <1>2, <1>6, <2>1
    <2>2. CASE h \in 0..(startH - 1)
      <3>1. h \in DOMAIN rows  BY <1>2, <1>3, <1>5, <2>2
      <3> QED  BY <1>3, <1>6, <2>2, <3>1
    <2> QED  BY <1>2, <1>6, <2>1, <2>2
  <1>11. SyncRowsLinked'
    <2>1. rows'[0] = Genesis  BY <1>2, <1>3, <1>6, <1>7
    <2>2. Linked(rows', skipped')
      <3> SUFFICES ASSUME NEW h \in DOMAIN rows', h > 0, h \notin skipped'
                   PROVE  h - 1 \in DOMAIN rows' /\ Prev[rows'[h]] = rows'[h - 1]
        BY DEF Linked
      <3>1. h # startH /\ h \notin skipped  BY <1>1
      <3>2. h \in 0..(startH - 1) /\ h - 1 \in 0..(startH - 1) /\ h \in DOMAIN rows
            /\ h - 1 \in DOMAIN rows'
        BY <1>2, <1>3, <1>5, <1>6, <3>1
      <3>3. Prev[rows[h]] = rows[h - 1]  BY <1>3, <3>1, <3>2 DEF Linked
      <3> QED  BY <1>6, <3>2, <3>3
    <2> QED  BY <2>1, <2>2 DEF SyncRowsLinked
  <1>12. BestIsSyncedTo'  BY <1>1, <1>6 DEF BestIsSyncedTo
  <1>13. TxnOK' /\ FastOK'  BY <1>1, <1>4, <1>6 DEF TxnOK, FastOK
  <1> QED  BY <1>8, <1>9, <1>10, <1>11, <1>12, <1>13 DEF SyncInv

-----------------------------------------------------------------------------
(* SyncInv is an inductive invariant of BlockSync: it holds in a new       *)
(* database and every step of the node, of processConnectedBlock and       *)
(* reorg, of Start, a failure and a crash preserve it.                     *)
THEOREM SyncInvariant == Spec => []SyncInv
  <1> USE BlockTreeAssumption
  <1>1. Init => SyncInv
    <2> SUFFICES ASSUME Init PROVE SyncInv  OBVIOUS
    <2>1. DOMAIN main = 0..0 /\ DOMAIN rows = 0..0 /\ main[0] = Genesis /\ rows[0] = Genesis
      BY DEF Init
    <2>2. TypeOK  BY DEF Init, TypeOK
    <2>3. MainOK
      <3>1. 0 \in DOMAIN main /\ DOMAIN main \subseteq Nat  BY <2>1
      <3>2. main \in [DOMAIN main -> Block]  BY DEF Init
      <3> QED  BY <2>1, <3>1, <3>2 DEF MainOK
    <2>4. SyncRowsContiguous /\ SyncRowsLinked /\ BestIsSyncedTo /\ TxnOK /\ FastOK
      BY <2>1 DEF Init, SyncRowsContiguous, SyncRowsLinked, BestIsSyncedTo, TxnOK, Linked, FastOK
    <2> QED  BY <2>2, <2>3, <2>4 DEF SyncInv
  <1>2. SyncInv /\ [Next]_vars => SyncInv'
    <2> SUFFICES ASSUME SyncInv, [Next]_vars PROVE SyncInv'  OBVIOUS
    <2> DEFINE DbSame == /\ rows' = rows /\ syncedTo' = syncedTo /\ skipped' = skipped
                         /\ best' = best /\ phase' = phase /\ startH' = startH
    <2>1. ASSUME DbSame, main' = main, TypeOK', TxnOK'  PROVE SyncInv'
      BY <2>1 DEF SyncInv, MainOK, SyncRowsContiguous, SyncRowsLinked, BestIsSyncedTo, Linked,
            FastOK
    <2>2. CASE Align \/ Aligned \/ Lower \/ Lowered \/ Walk \/ Walked \/ Connect
      <3>1. DbSame /\ main' = main
        BY <2>2 DEF Align, Aligned, Lower, Lowered, Walk, Walked, Connect, dbVars, chainVars,
              startVars
      <3>2. TypeOK' /\ TxnOK'
        BY <2>2, AlignStep, AlignedStep, LowerStep, LoweredStep, WalkStep, ConnectStep
      <3> QED  BY <2>1, <3>1, <3>2
    <2>3. CASE TakeBlock
      <3>1. /\ DbSame /\ main' = main /\ phase = "running" /\ queue \in Seq(Block)
            /\ queue # <<>> /\ Begin(Head(queue)) /\ queue' = Tail(queue)
            /\ UNCHANGED <<dbVars, best>> /\ UNCHANGED startVars
        BY <2>3 DEF TakeBlock, dbVars, chainVars, startVars, SyncInv, TypeOK
      <3>2. Head(queue) \in Block /\ queue' \in Seq(Block)  BY <3>1
      <3>3. TypeOK' /\ TxnOK'  BY <3>1, <3>2, BeginStep
      <3> QED  BY <2>1, <3>1, <3>3
    <2>4. CASE CatchUp
      <3>1. /\ DbSame /\ main' = main /\ phase = "catchup"
            /\ startH \in DOMAIN main /\ Begin(main[startH]) /\ queue' = queue
            /\ UNCHANGED <<dbVars, best>> /\ UNCHANGED startVars
        BY <2>4 DEF CatchUp, dbVars, chainVars, startVars
      <3>2. main[startH] \in Block /\ queue' \in Seq(Block)
        BY <3>1 DEF SyncInv, MainOK, TypeOK
      <3>3. TypeOK' /\ TxnOK'  BY <3>1, <3>2, BeginStep
      <3> QED  BY <2>1, <3>1, <3>3
    <2>5. CASE CommitBlock  BY <2>5, CommitStep
    <2>6. CASE FastSync  BY <2>6, FastSyncStep
    <2>7. CASE NodeStep
      <3>1. MainOK'  BY <2>7, NodeKeepsMain DEF SyncInv
      <3>2. DbSame /\ UNCHANGED txnVars /\ UNCHANGED startVars
        BY <2>7 DEF NodeStep, NodeChoose, NodeDetach, NodeAttach, dbVars, startVars
      <3>3. queue' \in Seq(Block)
        <4>1. queue \in Seq(Block)  BY DEF SyncInv, TypeOK
        <4>2. CASE NodeChoose \/ NodeDetach  BY <4>1, <4>2 DEF NodeChoose, NodeDetach
        <4>3. CASE NodeAttach
          <5>1. PICK b \in Block : queue' = IF Listening THEN Append(queue, b) ELSE queue
            BY <4>3 DEF NodeAttach
          <5> QED  BY <4>1, <5>1
        <4> QED  BY <2>7, <4>2, <4>3 DEF NodeStep
      <3>4. TypeOK'  BY <3>2, <3>3 DEF SyncInv, TypeOK, txnVars, startVars
      <3>5. TxnOK'
        BY <3>2 DEF SyncInv, TxnOK, TxnRowsOK, PrefixOK, PathFrom, Linked, txnVars
      <3>6. SyncRowsContiguous' /\ SyncRowsLinked' /\ BestIsSyncedTo' /\ FastOK'
        BY <3>2 DEF SyncInv, SyncRowsContiguous, SyncRowsLinked, BestIsSyncedTo, Linked, FastOK
      <3> QED  BY <3>1, <3>4, <3>5, <3>6 DEF SyncInv
    <2>8. CASE Revoked \/ Fail \/ Crash
      <3>1. /\ pc' = "idle" /\ phase' \in {phase, "down"} /\ queue' \in {queue, <<>>}
            /\ UNCHANGED <<main, dbVars, best, blk, nb, curH, todo, tRows, tTo, startVars>>
        BY <2>8 DEF Revoked, Fail, Crash, Rollback, chainVars
      <3>2. queue' \in Seq(Block)
        <4>1. queue \in Seq(Block) /\ <<>> \in Seq(Block)  BY DEF SyncInv, TypeOK
        <4> QED  BY <3>1, <4>1, Zenon
      <3>3. TypeOK'
        BY <3>1, <3>2 DEF SyncInv, TypeOK, dbVars, startVars
      <3> QED
        BY <3>1, <3>3 DEF SyncInv, MainOK, SyncRowsContiguous, SyncRowsLinked,
              BestIsSyncedTo, Linked, TxnOK, FastOK, dbVars, startVars
    <2>9. CASE Start
      <3>1. /\ phase = "down" /\ best' = rows[syncedTo] /\ queue' = <<>> /\ pc' = "idle"
            /\ startH' = syncedTo + 1 /\ idx' = MainTip
            /\ phase' \in {"fast", "catchup"}
            /\ UNCHANGED <<main, dbVars, blk, nb, curH, todo, tRows, tTo>>
        BY <2>9 DEF Start, chainVars
      <3>2. MainTip \in Nat  BY MainTipFact DEF SyncInv
      <3>3. syncedTo \in DOMAIN rows /\ rows[syncedTo] \in Block /\ syncedTo \in Nat
        BY DEF SyncInv, TypeOK, SyncRowsContiguous
      <3>4. TypeOK'  BY <3>1, <3>2, <3>3 DEF SyncInv, TypeOK, dbVars
      <3> QED
        BY <3>1, <3>4 DEF SyncInv, MainOK, SyncRowsContiguous, SyncRowsLinked,
              BestIsSyncedTo, Linked, TxnOK, FastOK, dbVars, startVars
    <2>10. CASE FastDone \/ StartFails \/ Started
      <3>1. /\ phase' \in {"catchup", "down", "running"} /\ queue' \in {queue, <<>>}
            /\ phase \in {"fast", "catchup"} /\ (phase = "catchup" => pc = "idle")
            /\ UNCHANGED <<main, dbVars, best, txnVars, startVars>>
        BY <2>10 DEF FastDone, StartFails, Started, chainVars
      <3>2. pc = "idle"  BY <3>1 DEF SyncInv, TxnOK, TypeOK
      <3>3. queue' \in Seq(Block)
        <4>1. queue \in Seq(Block) /\ <<>> \in Seq(Block)  BY DEF SyncInv, TypeOK
        <4> QED  BY <3>1, <4>1, Zenon
      <3>4. TypeOK'  BY <3>1, <3>3 DEF SyncInv, TypeOK, dbVars, txnVars, startVars
      <3> QED
        BY <3>1, <3>2, <3>4 DEF SyncInv, MainOK, SyncRowsContiguous, SyncRowsLinked,
              BestIsSyncedTo, Linked, TxnOK, FastOK, dbVars, txnVars
    <2>11. CASE UNCHANGED vars
      BY <2>11 DEF SyncInv, TypeOK, MainOK, SyncRowsContiguous, SyncRowsLinked, BestIsSyncedTo,
            Linked, TxnOK, TxnRowsOK, PrefixOK, PathFrom, vars, chainVars, dbVars, txnVars,
            startVars, FastOK
    <2> QED
      BY <2>2, <2>3, <2>4, <2>5, <2>6, <2>7, <2>8, <2>9, <2>10, <2>11
      DEF Next, BlockStep, StartStep
  <1> QED  BY <1>1, <1>2, PTL DEF Spec
(* The rows of the sync bucket are exactly the heights 0 to syncedTo, in   *)
(* every reachable state, for every block tree (putSyncedTo and            *)
(* resetSyncedTo are called in an order that leaves no gap and no stale    *)
(* row).                                                                   *)
THEOREM RowsContiguous == Spec => []SyncRowsContiguous
  BY SyncInvariant, PTL DEF SyncInv

(* The rows form one branch of the block tree, up to the heights that the  *)
(* header-only loop of Start wrote.                                        *)
THEOREM RowsLinked == Spec => []SyncRowsLinked
  BY SyncInvariant, PTL DEF SyncInv

(* h.bestBlock is the block the database is synced to.                     *)
THEOREM BestIsSynced == Spec => []BestIsSyncedTo
  BY SyncInvariant, PTL DEF SyncInv

-----------------------------------------------------------------------------
(* processConnectedBlock, reorg and Start implement the abstract synced    *)
(* chain: each durable change keeps a prefix and appends a linked path, or *)
(* records one header.                                                     *)
THEOREM Refinement == Spec => RefinesSyncedChain
  <1> USE BlockTreeAssumption
  <1>1. Init => SC!Init  BY DEF Init, SC!Init
  <1>2. SyncInv /\ SyncInv' /\ [Next]_vars => [SC!Switch \/ SC!RecordHeader]_rows
    <2> SUFFICES ASSUME SyncInv, SyncInv', [Next]_vars
                 PROVE  SC!Switch \/ SC!RecordHeader \/ rows' = rows
      OBVIOUS
    <2>1. CASE CommitBlock
      <3>1. /\ pc = "connect" /\ rows' = tRows /\ syncedTo' = tTo
        BY <2>1 DEF CommitBlock
      <3>2. PICK k \in 0..tTo :
               /\ k <= syncedTo
               /\ \A h \in 0..k : tRows[h] = rows[h]
               /\ \A h \in (k + 1)..tTo : Prev[tRows[h]] = tRows[h - 1]
        BY <3>1 DEF SyncInv, TxnOK, PrefixOK
      <3>3. /\ tTo \in Nat /\ syncedTo \in Nat
            /\ DOMAIN rows = 0..syncedTo /\ DOMAIN rows' = 0..tTo
        BY <3>1 DEF SyncInv, TypeOK, SyncRowsContiguous
      <3>4. SC!IsChain(rows')
        <4>1. tTo \in DOMAIN rows' /\ DOMAIN rows' \subseteq Nat  BY <3>3
        <4> QED  BY <3>3, <4>1 DEF SC!IsChain
      <3>5. k \in DOMAIN rows /\ k \in DOMAIN rows'  BY <3>2, <3>3
      <3>6. \A h \in 0..k : rows'[h] = rows[h]  BY <3>1, <3>2
      <3>7. ASSUME NEW h \in DOMAIN rows', h > k
            PROVE  Prev[rows'[h]] = rows'[h - 1]
        <4>1. h \in (k + 1)..tTo  BY <3>2, <3>3, <3>7
        <4> QED  BY <3>1, <3>2, <4>1
      <3> QED  BY <3>4, <3>5, <3>6, <3>7 DEF SC!Switch
    <2>2. CASE FastSync
      <3> DEFINE b == main[startH]
      <3>1. /\ startH \in DOMAIN main /\ CanPutSyncedTo(rows, b) /\ rows' = PutRow(rows, b)
            /\ syncedTo' = Height[b]
        BY <2>2 DEF FastSync
      <3>2. b \in Block /\ Height[b] = startH /\ startH \in Nat
        BY <3>1 DEF SyncInv, MainOK
      <3> HIDE DEF b
      <3>3. DOMAIN rows = 0..syncedTo /\ syncedTo \in Nat
        BY DEF SyncInv, SyncRowsContiguous, TypeOK
      <3>5. startH = syncedTo + 1  BY <2>2 DEF FastSync, SyncInv, FastOK
      <3>6. Height[b] \notin DOMAIN rows /\ Height[b] - 1 \in DOMAIN rows
        BY <3>2, <3>3, <3>5
      <3> QED  BY <3>1, <3>2, <3>6 DEF SC!RecordHeader, PutRow
    <2>3. CASE ~CommitBlock /\ ~FastSync
      BY <2>3 DEF Next, NodeStep, BlockStep, StartStep, NodeChoose, NodeDetach, NodeAttach,
            TakeBlock, Align, Aligned, Lower, Lowered, Walk, Walked, Connect, Revoked, Fail,
            Crash, Rollback, Start, FastDone, CatchUp, StartFails, Started, dbVars, vars
    <2> QED  BY <2>1, <2>2, <2>3
  <1> QED  BY <1>1, <1>2, SyncInvariant, PTL DEF Spec, RefinesSyncedChain, SC!Spec

=============================================================================
