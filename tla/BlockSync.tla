----------------------------- MODULE BlockSync -----------------------------
(***************************************************************************)
(* How masswallet.NtfnsHandler follows the node's best chain: the queue of *)
(* block notifications, the goroutine handle, processConnectedBlock and    *)
(* reorg, the catch-up of Start, crashes and restarts.  Every loop         *)
(* iteration of reorg is one step, because the node may switch branches    *)
(* between any two reads of the chain; the database transaction the        *)
(* iterations run in is the working copy (tRows, tTo) that only            *)
(* CommitBlock makes durable.  What a block does to the wallet's ledger is *)
(* in NtfnsHandler.tla; here only the sync position is kept.               *)
(***************************************************************************)
EXTENDS SyncStore, Sequences, Integers

CONSTANTS
    Gap,        \* the 2000 of Start: how far the header-only catch-up stays behind
    QueueCap,   \* the capacity of queueBlock (1024)
    MaxSwitch,  \* bound on the node's decisions to move to another tip
    MaxCrash,   \* bound on crashes
    MaxFail     \* bound on failures that no chain switch explains (I/O)

ASSUME BlockSyncAssumption ==
    /\ Gap \in Nat
    /\ QueueCap \in Nat \ {0}
    /\ MaxSwitch \in Nat /\ MaxCrash \in Nat /\ MaxFail \in Nat

VARIABLES
    main,       \* external: the node's best chain, height -> block
    goal,       \* external: the tip the node is moving to
    switches,   \* number of moves chosen so far
    queue,      \* h.queueBlock
    phase,      \* "down", "fast" and "catchup" (inside Start), "running"
    rows, syncedTo,     \* the committed SyncStore bucket
    skipped,    \* history: heights whose row Start wrote without looking at Previous
    best,       \* h.bestBlock
    pc,         \* where processConnectedBlock is: "idle", "align", "lower", "walk", "connect"
    blk,        \* newBlock, the argument of processConnectedBlock
    nb,         \* newBest / newTailBlock of reorg
    curH,       \* currentBest.Height, then currentPrev.Height
    todo,       \* blocksToConnect
    tRows, tTo, tSkipped,   \* the open transaction's view of rows, syncedTo, skipped
    startH, idx,        \* curHeight and indexHeight of Start
    crashes, fails

chainVars == <<main, goal, switches>>
dbVars    == <<rows, syncedTo, skipped>>
txnVars   == <<pc, blk, nb, curH, todo, tRows, tTo, tSkipped>>
startVars == <<startH, idx>>
vars == <<chainVars, queue, phase, dbVars, best, txnVars, startVars, crashes, fails>>

-----------------------------------------------------------------------------
(* The node.  It moves from tip to tip: blocks that are not on the branch  *)
(* of the goal are detached, then the goal's branch is attached, and every *)
(* attached block is announced to the registered listener.                 *)

MainTip == CHOOSE h \in DOMAIN main : h + 1 \notin DOMAIN main

(* ChainFetcher.FetchBlockBySha finds blocks of the best chain only. *)
FetchBlockBySha(b) == \E h \in DOMAIN main : main[h] = b

(* Mutant: the listener is registered after Start. *)
ListeningLate == phase = "running"
Listening == phase # "down"

NodeChoose ==
    /\ main[MainTip] = goal
    /\ switches < MaxSwitch
    /\ \E b \in Block : Height[b] > Height[goal] /\ goal' = b
    /\ switches' = switches + 1
    /\ UNCHANGED <<main, queue, phase, dbVars, best, txnVars, startVars, crashes, fails>>

NodeDetach ==
    /\ MainTip > 0 /\ main[MainTip] \notin Branch[goal]
    /\ main' = [h \in DOMAIN main \ {MainTip} |-> main[h]]
    /\ UNCHANGED <<goal, switches, queue, phase, dbVars, best, txnVars, startVars,
                   crashes, fails>>

(* OnBlockConnected blocks while queueBlock is full. *)
NodeAttach ==
    /\ main[MainTip] \in Branch[goal]
    /\ Listening => Len(queue) < QueueCap
    /\ \E b \in Block \ {Genesis} :
          /\ b \in Branch[goal] /\ Prev[b] = main[MainTip]
          /\ main' = [h \in DOMAIN main \cup {Height[b]} |->
                          IF h = Height[b] THEN b ELSE main[h]]
          /\ queue' = IF Listening THEN Append(queue, b) ELSE queue
    /\ UNCHANGED <<goal, switches, phase, dbVars, best, txnVars, startVars, crashes, fails>>

-----------------------------------------------------------------------------
(* processConnectedBlock: one database transaction. *)

(* Mutant: a block of the next height extends the tip. *)
BeginByHeight(b) ==
    /\ blk' = b
    /\ nb' = b
    /\ curH' = Height[best]
    /\ tRows' = rows /\ tTo' = syncedTo /\ tSkipped' = skipped
    /\ IF Height[b] = Height[best] + 1
         THEN pc' = "connect" /\ todo' = <<b>>
         ELSE pc' = "align" /\ todo' = <<>>

Begin(b) ==
    /\ blk' = b
    /\ nb' = b
    /\ curH' = Height[best]
    /\ tRows' = rows /\ tTo' = syncedTo /\ tSkipped' = skipped
    /\ IF Prev[b] = best /\ b # Genesis
         THEN pc' = "connect" /\ todo' = <<b>>
         ELSE pc' = "align" /\ todo' = <<>>

TakeBlock ==
    /\ phase = "running" /\ pc = "idle"
    /\ queue # <<>>
    /\ Begin(Head(queue))
    /\ queue' = Tail(queue)
    /\ UNCHANGED <<chainVars, phase, dbVars, best, startVars, crashes, fails>>

(* Rollback of the transaction.  handle logs the error and drops the       *)
(* block; Start returns the error, which ends the program.                 *)
Rollback ==
    /\ pc' = "idle"
    /\ phase' = IF phase = "catchup" THEN "down" ELSE phase
    /\ queue' = IF phase = "catchup" THEN <<>> ELSE queue
    /\ UNCHANGED <<chainVars, dbVars, best, blk, nb, curH, todo, tRows, tTo, tSkipped,
                   startVars, crashes>>

Keep(S) == /\ UNCHANGED <<chainVars, queue, phase, dbVars, best, blk, startVars, crashes, fails>>
           /\ UNCHANGED S

(* reorg, step 1: walk the new branch down to the height of the old tip. *)
Align ==
    /\ pc = "align" /\ Height[best] < Height[nb]
    /\ FetchBlockBySha(Prev[nb])
    /\ todo' = <<nb>> \o todo
    /\ nb' = Prev[nb]
    /\ Keep(<<pc, curH, tRows, tTo, tSkipped>>)

(* Mutant: blocks of equal height are taken for the same block. *)
AlignedByHeight ==
    /\ pc = "align" /\ Height[best] >= Height[nb]
    /\ pc' = IF Height[best] = Height[nb] THEN "connect" ELSE "lower"
    /\ Keep(<<nb, curH, todo, tRows, tTo, tSkipped>>)

Aligned ==
    /\ pc = "align" /\ Height[best] >= Height[nb]
    /\ pc' = IF best = nb THEN "connect" ELSE "lower"
    /\ Keep(<<nb, curH, todo, tRows, tTo, tSkipped>>)

(* Mutant: the rows of undone blocks stay. *)
DisconnectKeepsRows(height) ==
    IF height > tTo
      THEN UNCHANGED <<tRows, tTo, tSkipped>>
      ELSE /\ tTo' = ResetTo(tTo, height - 1)
           /\ UNCHANGED <<tRows, tSkipped>>

(* disconnectBlock(height): nothing to do above syncedTo. *)
Disconnect(height) ==
    IF height > tTo
      THEN UNCHANGED <<tRows, tTo, tSkipped>>
      ELSE /\ tRows' = ResetRows(tRows, tTo, height - 1)
           /\ tTo' = ResetTo(tTo, height - 1)
           /\ tSkipped' = {h \in tSkipped : h < height}

Lower ==
    /\ pc = "lower" /\ curH > Height[nb]
    /\ Disconnect(curH)
    /\ curH' = curH - 1
    /\ Keep(<<pc, nb, todo>>)

Lowered ==
    /\ pc = "lower" /\ curH = Height[nb]
    /\ curH \in DOMAIN tRows
    /\ IF tRows[curH] = nb
         THEN pc' = "connect" /\ curH' = curH
         ELSE curH - 1 \in DOMAIN tRows /\ pc' = "walk" /\ curH' = curH - 1
    /\ Keep(<<nb, todo, tRows, tTo, tSkipped>>)

(* Find the fork: undo one wallet block, go down one block of the branch. *)
Walk ==
    /\ pc = "walk" /\ Prev[nb] # tRows[curH]
    /\ Disconnect(curH + 1)
    /\ todo' = <<nb>> \o todo
    /\ curH - 1 \in DOMAIN tRows'
    /\ curH' = curH - 1
    /\ FetchBlockBySha(Prev[nb])
    /\ nb' = Prev[nb]
    /\ Keep(<<pc>>)

Walked ==
    /\ pc = "walk" /\ Prev[nb] = tRows[curH]
    /\ Disconnect(curH + 1)
    /\ todo' = <<nb>> \o todo
    /\ pc' = "connect"
    /\ Keep(<<nb, curH>>)

(* filterBlock: the block must still be the node's block at its height. *)
OnBestChain(b) == Height[b] \in DOMAIN main /\ main[Height[b]] = b

Connect ==
    /\ pc = "connect" /\ todo # <<>>
    /\ LET b == Head(todo) IN
          /\ OnBestChain(b)
          /\ CanPutSyncedTo(tRows, b)
          /\ tRows' = PutRow(tRows, b)
          /\ tTo' = Height[b]
    /\ todo' = Tail(todo)
    /\ Keep(<<pc, nb, curH, tSkipped>>)

(* Every early return of the transaction that a chain switch or a missing  *)
(* row causes.                                                             *)
Revoked ==
    /\ \/ pc = "align" /\ Height[best] < Height[nb] /\ ~FetchBlockBySha(Prev[nb])
       \/ pc = "lower" /\ curH = Height[nb]
            /\ \/ curH \notin DOMAIN tRows
               \/ tRows[curH] # nb /\ curH - 1 \notin DOMAIN tRows
       \/ pc = "walk" /\ Prev[nb] # tRows[curH]
            /\ (curH - 1 \notin DOMAIN tRows \/ ~FetchBlockBySha(Prev[nb]))
       \/ pc = "connect" /\ todo # <<>>
            /\ (~OnBestChain(Head(todo)) \/ ~CanPutSyncedTo(tRows, Head(todo)))
    /\ Rollback
    /\ UNCHANGED fails

(* A read, a write or the commit fails. *)
Fail ==
    /\ pc # "idle" /\ fails < MaxFail
    /\ Rollback
    /\ fails' = fails + 1

CommitBlock ==
    /\ pc = "connect" /\ todo = <<>>
    /\ rows' = tRows /\ syncedTo' = tTo /\ skipped' = tSkipped
    /\ best' = blk
    /\ pc' = "idle"
    /\ startH' = IF phase = "catchup" THEN startH + 1 ELSE startH
    /\ UNCHANGED <<chainVars, queue, phase, blk, nb, curH, todo, tRows, tTo, tSkipped,
                   idx, crashes, fails>>

-----------------------------------------------------------------------------
(* Start, crash and restart.  RegisterListener precedes Start, so blocks   *)
(* announced while Start catches up wait in the queue.                     *)

Start ==
    /\ phase = "down"
    /\ best' = rows[syncedTo]
    /\ queue' = <<>>
    /\ startH' = syncedTo + 1
    /\ idx' = MainTip
    /\ \E hasReadyWallet \in BOOLEAN :
          phase' = IF ~hasReadyWallet /\ MainTip > Gap THEN "fast" ELSE "catchup"
    /\ pc' = "idle"
    /\ UNCHANGED <<chainVars, dbVars, blk, nb, curH, todo, tRows, tTo, tSkipped, crashes, fails>>

(* Mutant: the header-only loop forgets h.bestBlock. *)
FastSyncKeepsBest ==
    /\ phase = "fast" /\ startH < idx - Gap
    /\ startH \in DOMAIN main
    /\ LET b == main[startH] IN
          /\ CanPutSyncedTo(rows, b)
          /\ rows' = PutRow(rows, b)
          /\ syncedTo' = Height[b]
    /\ skipped' = skipped \cup {startH}
    /\ startH' = startH + 1
    /\ UNCHANGED <<chainVars, queue, phase, best, txnVars, idx, crashes, fails>>

(* The header-only loop: no wallet needs the blocks, so only their hashes  *)
(* are recorded; header.Previous is not compared.                          *)
FastSync ==
    /\ phase = "fast" /\ startH < idx - Gap
    /\ startH \in DOMAIN main
    /\ LET b == main[startH] IN
          /\ CanPutSyncedTo(rows, b)
          /\ rows' = PutRow(rows, b)
          /\ syncedTo' = Height[b]
          /\ best' = b
    /\ skipped' = skipped \cup {startH}
    /\ startH' = startH + 1
    /\ UNCHANGED <<chainVars, queue, phase, txnVars, idx, crashes, fails>>

FastDone ==
    /\ phase = "fast" /\ startH >= idx - Gap
    /\ phase' = "catchup"
    /\ UNCHANGED <<chainVars, queue, dbVars, best, txnVars, startVars, crashes, fails>>

CatchUp ==
    /\ phase = "catchup" /\ pc = "idle" /\ startH <= idx
    /\ startH \in DOMAIN main
    /\ Begin(main[startH])
    /\ UNCHANGED <<chainVars, queue, phase, dbVars, best, startVars, crashes, fails>>

(* The node has meanwhile detached the height Start wants to read. *)
StartFails ==
    /\ \/ phase = "fast" /\ startH < idx - Gap
       \/ phase = "catchup" /\ pc = "idle" /\ startH <= idx
    /\ startH \notin DOMAIN main
    /\ phase' = "down"
    /\ queue' = <<>>
    /\ UNCHANGED <<chainVars, dbVars, best, txnVars, startVars, crashes, fails>>

Started ==
    /\ phase = "catchup" /\ pc = "idle" /\ startH > idx
    /\ phase' = "running"
    /\ UNCHANGED <<chainVars, queue, dbVars, best, txnVars, startVars, crashes, fails>>

Crash ==
    /\ phase # "down" /\ crashes < MaxCrash
    /\ phase' = "down" /\ pc' = "idle"
    /\ queue' = <<>>
    /\ crashes' = crashes + 1
    /\ UNCHANGED <<chainVars, dbVars, best, blk, nb, curH, todo, tRows, tTo, tSkipped,
                   startVars, fails>>

-----------------------------------------------------------------------------
(* A new database: NewSyncStore has recorded the genesis block. *)
Init ==
    /\ main = [h \in {0} |-> Genesis] /\ goal = Genesis /\ switches = 0
    /\ queue = <<>> /\ phase = "down"
    /\ rows = [h \in {0} |-> Genesis] /\ syncedTo = 0 /\ skipped = {}
    /\ best = Genesis
    /\ pc = "idle" /\ blk = Genesis /\ nb = Genesis /\ curH = 0 /\ todo = <<>>
    /\ tRows = rows /\ tTo = 0 /\ tSkipped = {}
    /\ startH = 0 /\ idx = 0
    /\ crashes = 0 /\ fails = 0

NodeStep == NodeChoose \/ NodeDetach \/ NodeAttach

BlockStep == \/ TakeBlock \/ Align \/ Aligned \/ Lower \/ Lowered \/ Walk \/ Walked
             \/ Connect \/ CommitBlock \/ Revoked

StartStep == Start \/ FastSync \/ FastDone \/ CatchUp \/ StartFails \/ Started

Next == NodeStep \/ BlockStep \/ StartStep \/ Fail \/ Crash

Spec == Init /\ [][Next]_vars

(* The goroutine handle and the code of Start keep running, a stopped      *)
(* wallet is eventually started again, and the node finishes a move it     *)
(* began.  Nothing forces the node to move, or a failure or a crash.       *)
FairSpec == /\ Spec
            /\ WF_vars(BlockStep)
            /\ WF_vars(StartStep)
            /\ WF_vars(NodeDetach \/ NodeAttach)

-----------------------------------------------------------------------------
Linked(r, s) ==
    \A h \in DOMAIN r : h > 0 /\ h \notin s => h - 1 \in DOMAIN r /\ Prev[r[h]] = r[h - 1]

(* Type invariant. *)
TypeOK ==
    /\ queue \in Seq(Block)
    /\ phase \in {"down", "fast", "catchup", "running"}
    /\ syncedTo \in Nat /\ rows \in [DOMAIN rows -> Block]
    /\ best \in Block
    /\ pc \in {"idle", "align", "lower", "walk", "connect"}
    /\ blk \in Block /\ nb \in Block /\ curH \in Nat /\ todo \in Seq(Block)
    /\ tTo \in Nat /\ tRows \in [DOMAIN tRows -> Block]
    /\ startH \in Nat /\ idx \in Nat

(* The committed bucket has exactly one row per height from 0 to the       *)
(* height syncedToName names, each holding a block of that height: no row  *)
(* of an abandoned branch survives a reorg above the sync position, which  *)
(* putSyncedTo's check of height+1 would turn into a permanent failure.    *)
SyncRowsContiguous ==
    /\ DOMAIN rows = 0..syncedTo
    /\ \A h \in DOMAIN rows : Height[rows[h]] = h

(* The rows form one branch of the block tree: reorg never grafts a new    *)
(* branch onto the wrong block, however the node switched branches while   *)
(* the transaction ran.  Only the header-only catch-up of Start writes     *)
(* rows without comparing header.Previous.                                 *)
SyncRowsLinked == rows[0] = Genesis /\ Linked(rows, skipped)

(* h.bestBlock in memory is the block the database is synced to, after     *)
(* every commit, failure, crash and restart; processConnectedBlock decides *)
(* between extending and reorganising by h.bestBlock alone.                *)
BestIsSyncedTo == phase # "down" => best = rows[syncedTo]

(* What makes the three invariants above inductive.  The node's chain has  *)
(* one block per height.  An open transaction sees a bucket that is itself *)
(* contiguous and linked; the blocks still to connect form a path from the *)
(* block reached on the new branch (base) to newBlock; and the loop        *)
(* variables of reorg agree with the working copy's syncedTo.              *)
MainOK ==
    /\ main \in [DOMAIN main -> Block]
    /\ DOMAIN main \subseteq Nat /\ \E n \in DOMAIN main : DOMAIN main = 0..n
    /\ \A h \in DOMAIN main : Height[main[h]] = h

PathFrom(base) ==
    /\ \A i \in 1..Len(todo) : /\ todo[i] # Genesis
                               /\ Prev[todo[i]] = IF i = 1 THEN base ELSE todo[i - 1]
    /\ blk = IF todo = <<>> THEN base ELSE todo[Len(todo)]

TxnRowsOK ==
    /\ DOMAIN tRows = 0..tTo
    /\ \A h \in DOMAIN tRows : Height[tRows[h]] = h
    /\ tRows[0] = Genesis
    /\ Linked(tRows, tSkipped)

(* Until the connecting starts, the working copy is a prefix of the        *)
(* committed rows; from then on it is a prefix and a linked path.          *)
PrefixOK ==
    \E k \in 0..tTo :
        /\ k <= syncedTo
        /\ \A h \in 0..k : tRows[h] = rows[h]
        /\ \A h \in (k + 1)..tTo : Prev[tRows[h]] = tRows[h - 1]
        /\ pc # "connect" => k = tTo

TxnOK ==
    pc # "idle" =>
        /\ phase \in {"catchup", "running"}
        /\ TxnRowsOK /\ PrefixOK
        /\ PathFrom(IF pc = "connect" THEN tRows[tTo] ELSE nb)
        /\ pc = "align" => tRows = rows /\ tTo = syncedTo /\ curH = tTo
        /\ pc = "lower" => curH = tTo /\ Height[nb] <= tTo
        /\ pc = "walk" => curH + 1 = tTo /\ Height[nb] = tTo

(* The header-only loop of Start is always at the height after the last.   *)
FastOK == phase = "fast" => startH = syncedTo + 1

(* The inductive invariant. *)
SyncInv == /\ TypeOK /\ MainOK
           /\ SyncRowsContiguous /\ SyncRowsLinked /\ BestIsSyncedTo
           /\ TxnOK /\ FastOK

(* Once the node has settled, the wallet reaches the node's tip and stays  *)
(* there, whatever was dropped or revoked before.  A block whose           *)
(* transaction fails is not tried again, so nothing is said after that.    *)
ReachesTip == <>[](phase = "running" /\ best = goal) \/ <>(fails > 0)

SC == INSTANCE SyncedChain WITH chain <- rows

(* The committed rows change only by keeping a prefix and appending a      *)
(* linked path, or by one recorded header: the stepwise reorg implements   *)
(* the abstract synced chain.                                              *)
RefinesSyncedChain == SC!Spec

=============================================================================
