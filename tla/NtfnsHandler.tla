---------------------------- MODULE NtfnsHandler ----------------------------
(***************************************************************************)
(* masswallet.NtfnsHandler and the WalletManager calls that feed it: what  *)
(* blocks, received transactions, imports, removals, reorganisations and   *)
(* restarts do to the wallets' ledger.  One database transaction is one    *)
(* step: BlockSync.tla shows what the steps inside a reorg see when the    *)
(* node moves under them, and WorkerTasks.tla that the worker's            *)
(* transactions and the handler's exclude each other.                      *)
(***************************************************************************)
EXTENDS Ledger, SyncStore

CONSTANTS
    InitialWallets,     \* wallets that CreateWallet and NewAddress made
    ImportRange,        \* the 1000 of asyncImport
    MaxMemPoolExpire,   \* 1024
    MaxWaitingTaskNum,  \* 3
    Gap,                \* the 2000 of Start
    Relayed,            \* transactions the node may relay before they are mined
    Bounds,             \* bounds: the largest <<moves of the node, API calls>> together
    MaxCrash            \* bound: crashes

VARIABLES
    tip,            \* external: the last block of the node's best chain
    moves,
    sent,           \* transactions relayed so far
    queueBlock, queueMsgTx,
    phase,          \* "down", "starting", "running"
    start,          \* curHeight, indexHeight and the header-only test of Start
    db,             \* the committed database and the keystores.  Auxiliary are db.strayed,
                    \* the heights at which an import read a block that is not the wallet's,
                    \* and db.undone, the blocks undone while a wallet was being removed
    best,           \* h.bestBlock
    mempool,        \* h.mempool
    expired,        \* h.expiredMempool, height -> transactions
    tasks,          \* h.taskChan.C
    removing,       \* the wallet asyncRemove works on, after its first phase
    givenUp,        \* auxiliary: imports the worker dropped since the last start
    crashes, requests

nodeVars == <<tip, moves, sent>>
queueVars == <<queueBlock, queueMsgTx>>
runVars == <<phase, start, crashes>>
memVars == <<best, mempool, expired>>
workVars == <<tasks, removing, givenUp>>
vars == <<nodeVars, queueVars, runVars, db, memVars, workVars, requests>>

Wallet == {Owner[a] : a \in Addr}
NoWallet == "none"
Done == -1      \* txmgr.WalletSyncedDone, the largest uint64
AddrsOf(w) == {a \in Addr : Owner[a] = w}
Within(m, r) == \E bound \in Bounds : m <= bound[1] /\ r <= bound[2]

-----------------------------------------------------------------------------
(* The node. *)
NodeBlock(h) == CHOOSE b \in Branch[tip] : Height[b] = h
Attached(b, fork) == [i \in 1..(Height[b] - fork) |->
                        CHOOSE c \in Branch[b] : Height[c] = fork + i]
TxsOf(blocks) == UNION {Range(BlockTxs[b]) : b \in blocks}
SpentBy(txs) == UNION {Range(TxIns[t]) : t \in txs}
ForkHeight(b, c) == CHOOSE h \in 0..Height[b] :
    /\ \E x \in Branch[b] \cap Branch[c] : Height[x] = h
    /\ \A x \in Branch[b] \cap Branch[c] : Height[x] <= h

NodeMove ==
    /\ Within(moves + 1, requests)
    /\ \E b \in Block :
          /\ Height[b] > Height[tip]
          /\ tip' = b
          /\ queueBlock' = IF phase = "down" THEN queueBlock
                           ELSE queueBlock \o Attached(b, ForkHeight(b, tip))
    /\ moves' = moves + 1
    /\ UNCHANGED <<sent, queueMsgTx, runVars, db, memVars, workVars, requests>>

(* The node's pool accepts a transaction that spends unspent outputs of    *)
(* the best chain or of the pool, and announces it once.                   *)
NodeRelay ==
    /\ phase # "down"
    /\ \E t \in Relayed \ sent :
          LET chain == TxsOf(Branch[tip]) IN
          /\ t \notin chain
          /\ \A op \in Range(TxIns[t]) : op[1] \in chain \cup sent
          /\ Range(TxIns[t]) \cap SpentBy(chain \cup sent) = {}
          /\ sent' = sent \cup {t}
          /\ queueMsgTx' = Append(queueMsgTx, t)
    /\ UNCHANGED <<tip, moves, queueBlock, runVars, db, memVars, workVars, requests>>

-----------------------------------------------------------------------------
(* filterTx.  Which inputs and outputs of t concern the wallets of ready.  *)
(* For a block's transaction an input is looked at only if its previous    *)
(* transaction is in the same block up to t, or has a credit in the        *)
(* committed database (mwdb.View: not in the transaction being built).     *)
ExistCreditFromTx(committed, t) == \E k \in DOMAIN committed.credits : k[1] = t

Concerns(d, op, ready) == Managed(d, op) /\ WalletOf(op) \in ready

Indices(s, Test(_)) == SelectSeq([i \in DOMAIN s |-> i], Test)

RelevantTx(d, t, ready, known) ==
    TxRecord(t, Indices(TxIns[t], LAMBDA i : TxIns[t][i][1] \in known /\ Concerns(d, TxIns[t][i], ready)),
                Indices(TxOuts[t], LAMBDA i : Concerns(d, <<t, i>>, ready)))

IsRelevant(rec) == rec.ins # <<>> \/ rec.outs # <<>>

(* HasBindingIn and HasBindingOut keep the last relevant input's value. *)
BothBinding(rec) ==
    /\ rec.ins # <<>> /\ OutOf(TxIns[rec.tx][Last(rec.ins)]).class = "binding"
    /\ rec.outs # <<>> /\ OutOf(<<rec.tx, Last(rec.outs)>>).class = "binding"

BlockRecords(d, committed, ready, b) ==
    LET upTo(i) == {BlockTxs[b][j] : j \in 1..i}
        recs == [i \in DOMAIN BlockTxs[b] |->
                   RelevantTx(d, BlockTxs[b][i], ready,
                              upTo(i) \cup {p \in Tx : ExistCreditFromTx(committed, p)})]
    IN  IF ready = {} THEN <<>> ELSE SelectSeq(recs, IsRelevant)

getReadyWallets(d) == {w \in DOMAIN d.status : d.status[w].h = Done /\ ~d.status[w].removed}

(* UpdateMinedBalances: the entries of the map replace the stored ones. *)
UpdateMinedBalances(s) ==
    [s EXCEPT !.db.balance = [w \in DOMAIN @ \cup DOMAIN s.bal |-> Get(s.bal, w, Get(@, w, 0))]]

SetSyncedTo(s, b) ==
    IF ~CanPutSyncedTo(s.db.rows, b) THEN Error(s)
    ELSE [s EXCEPT !.db.rows = PutRow(@, b), !.db.syncedTo = Height[b]]

(* filterBlock with onRelevantBlockConnected. *)
filterBlock(s, committed, ready, b) ==
    LET recs == BlockRecords(s.db, committed, ready, b)
        s1 == [s EXCEPT !.bal = RestrictDomain(s.db.balance, LAMBDA w : w \in ready)]
        s2 == Fold(s1, recs, LAMBDA acc, rec :
                 IF BothBinding(rec) THEN Error(acc) ELSE AddRelevantTx(acc, rec, b))
    IN  IF recs = <<>> THEN SetSyncedTo(s, b)
        ELSE Then(s2, LAMBDA r : SetSyncedTo(UpdateMinedBalances(r), b))

(* Mutant: an unfinished import is not set back. *)
KeepStatus(ws, height) == ws

(* disconnectBlock(height), with the lowering of unfinished imports. *)
LowerStatus(ws, height) == IF ws.h # Done /\ ws.h > height THEN [ws EXCEPT !.h = height] ELSE ws

Marked(d) == {w \in DOMAIN d.status : d.status[w].removed}

disconnectBlock(s, height) ==
    Then(Rollback(s.db, height), LAMBDA r :
         [r EXCEPT !.db.rows = ResetRows(@, r.db.syncedTo, height - 1),
                   !.db.syncedTo = ResetTo(@, height - 1),
                   !.db.status = [w \in DOMAIN @ |-> LowerStatus(@[w], height - 1)],
                   !.db.strayed = {x \in @ : x[2] < height},
                   !.db.undone = @ \cup {<<w, s.db.rows[height]>> : w \in Marked(s.db)}])

(* The blocks of reorg: undo what is not on the new block's branch, then   *)
(* connect the rest of the branch.  Extending the tip is the case with     *)
(* nothing to undo.  Every connected block must be on the node's chain.    *)
ForkOf(d, b) == CHOOSE h \in 0..Height[b] :
    /\ h \in DOMAIN d.rows /\ d.rows[h] \in Branch[b]
    /\ \A x \in 0..Height[b] : x \in DOMAIN d.rows /\ d.rows[x] \in Branch[b] => x <= h

Descending(from, to) == [i \in 1..(from - to + 1) |-> from - i + 1]

ProcessedBlock(b) ==
    LET fork == ForkOf(db, b)
        txn == [err |-> NoErr, db |-> db, bal |-> EmptyBucket]
        ready == getReadyWallets(db)
    IN  IF Attached(b, fork) # <<>> /\ b \notin Branch[tip] THEN Error(txn)
        ELSE Fold(Fold(txn, Descending(db.syncedTo, fork + 1), disconnectBlock),
                  Attached(b, fork), LAMBDA acc, c : filterBlock(acc, db, ready, c))

(* h.expiredMempool and h.mempool after the commit. *)
Confirmed(d, ready, b) == {rec.tx : rec \in Range(BlockRecords(d, db, ready, b))}

AddExpired(m, b, txs) ==
    LET h == Height[b]
        old == h - MaxMemPoolExpire
        ex == Put(m.expired, h, txs)
    IN  IF h > MaxMemPoolExpire /\ old \in DOMAIN ex
          THEN [pool |-> m.pool \ ex[old], expired |-> Del(ex, {old})]
          ELSE [m EXCEPT !.expired = ex]

MempoolAfter(b) ==
    LET fork == ForkOf(db, b)
        undone == {h \in DOMAIN expired : fork < h /\ h <= db.syncedTo}
        m1 == [pool |-> mempool \cup UNION {expired[h] : h \in undone},
               expired |-> Del(expired, undone)]
        ready == getReadyWallets(db)
    IN  FoldLeft(LAMBDA m, c : AddExpired(m, c, Confirmed(db, ready, c)), m1, Attached(b, fork))

Commit(s, b) ==
    /\ db' = s.db
    /\ best' = b
    /\ \E m \in {MempoolAfter(b)} : mempool' = m.pool /\ expired' = m.expired

(* handle, case queueBlock: processConnectedBlock; an error is logged.     *)
HandleBlock ==
    /\ phase = "running" /\ queueBlock # <<>>
    /\ queueBlock' = Tail(queueBlock)
    /\ \E s \in {ProcessedBlock(Head(queueBlock))} :
          IF Failed(s) THEN UNCHANGED <<db, memVars>> ELSE Commit(s, Head(queueBlock))
    /\ UNCHANGED <<nodeVars, queueMsgTx, runVars, workVars, requests>>

(* handle, case queueMsgTx: proccessReceivedTx.  peer is the height of the *)
(* best peer above the node's own; at height zero the uint64 subtraction   *)
(* wraps and everything is ignored.                                        *)
ReceivedTx(t) ==
    LET known(p) == p \in TxsOf(Branch[tip]) \/ Get(db.unmined, p, "location") = "msgtx"
        rec == RelevantTx(db, t, getReadyWallets(db), Tx)
    IN  IF t \in mempool THEN [err |-> NoErr, db |-> db, pool |-> mempool]
        ELSE IF \E op \in Range(TxIns[t]) : ~known(op[1])
          THEN [err |-> OtherErr, db |-> db, pool |-> mempool]
        ELSE IF ~IsRelevant(rec) THEN [err |-> NoErr, db |-> db, pool |-> mempool]
        ELSE LET s == AddRelevantUnminedTx([err |-> NoErr, db |-> db, bal |-> EmptyBucket], rec)
             IN  [err |-> IF BothBinding(rec) THEN OtherErr ELSE s.err, db |-> s.db,
                  pool |-> mempool \cup {t}]

HandleTx ==
    /\ phase = "running" /\ queueMsgTx # <<>>
    /\ queueMsgTx' = Tail(queueMsgTx)
    /\ \E r \in {ReceivedTx(Head(queueMsgTx))}, peer \in {0, 2} :
          IF Height[tip] + peer = 0 \/ db.syncedTo < Height[tip] + peer - 1 \/ Failed(r)
            THEN UNCHANGED <<db, mempool>>
            ELSE db' = r.db /\ mempool' = r.pool
    /\ UNCHANGED <<nodeVars, queueBlock, runVars, best, expired, workVars, requests>>

-----------------------------------------------------------------------------
(* WalletManager.ImportWallet and RemoveWallet.  With at most              *)
(* MaxWaitingTaskNum wallets NewWalletTaskChan makes a channel one larger. *)
TaskCap == MaxWaitingTaskNum + 1
Push(type, w) == IF Len(tasks) < TaskCap THEN Append(tasks, [type |-> type, w |-> w]) ELSE tasks
IsBusy == Len(tasks) >= MaxWaitingTaskNum

ImportWallet ==
    /\ phase = "running" /\ ~IsBusy /\ Within(moves, requests + 1)
    /\ \E w \in Wallet \ DOMAIN db.status :
          /\ db' = [db EXCEPT !.keys = @ \cup AddrsOf(w),
                              !.balance = Put(@, w, 0),
                              !.status = Put(@, w, [h |-> 0, removed |-> FALSE]),
                              !.addresses = [k \in DOMAIN @ \cup {<<a, Std>> : a \in AddrsOf(w)} |->
                                               IF Owner[k[1]] = w THEN 0 ELSE @[k]]]
          /\ tasks' = Push("import", w)
    /\ requests' = requests + 1
    /\ UNCHANGED <<nodeVars, queueVars, runVars, memVars, removing, givenUp>>

(* Mutant: the task is not queued. *)
RemoveWalletUnqueued ==
    /\ phase = "running" /\ ~IsBusy /\ Within(moves, requests + 1)
    /\ \E w \in DOMAIN db.status :
          /\ db.status[w].h = Done
          /\ db' = [db EXCEPT !.status[w].removed = TRUE]
    /\ requests' = requests + 1
    /\ UNCHANGED <<nodeVars, queueVars, runVars, memVars, workVars>>

RemoveWallet ==
    /\ phase = "running" /\ ~IsBusy /\ Within(moves, requests + 1)
    /\ \E w \in DOMAIN db.status :
          /\ db.status[w].h = Done
          /\ db' = [db EXCEPT !.status[w].removed = TRUE]
          /\ tasks' = Push("remove", w)
    /\ requests' = requests + 1
    /\ UNCHANGED <<nodeVars, queueVars, runVars, memVars, removing, givenUp>>

(* asyncImport: the next range of the node's chain.  A block of another    *)
(* branch than the wallet's own shows only if a record of the wallet's     *)
(* block is in the way (ErrChainReorg).                                    *)
RelatedTo(t, w) == \/ \E op \in Outs(t) : Pays(op, w)
                   \/ \E op \in Range(TxIns[t]) : Pays(op, w)

filterTxForImporting(t, w) ==
    TxRecord(t, Indices(TxIns[t], LAMBDA i : Pays(TxIns[t][i], w)),
                Indices(TxOuts[t], LAMBDA i : Pays(<<t, i>>, w)))

ImportBlock(s, w, b) ==
    Fold(s, SelectSeq(BlockTxs[b], LAMBDA t : RelatedTo(t, w)), LAMBDA acc, t :
         LET rec == filterTxForImporting(t, w) IN
         IF BothBinding(rec) THEN Error(acc) ELSE AddRelevantTxForImporting(acc, rec, b))

MinedTwice(d) == \E r, x \in d.txRecords : r[1] = x[1] /\ r[2] # x[2]

ImportStop(w) == IF db.status[w].h + ImportRange > Height[best] THEN Height[best]
                 ELSE db.status[w].h + ImportRange

asyncImport(w) ==
    LET stop == ImportStop(w)
        range == [i \in 1..(stop - db.status[w].h) |-> NodeBlock(db.status[w].h + i)]
        s == Fold([err |-> NoErr, db |-> db, bal |-> [x \in {w} |-> Get(db.balance, w, 0)]],
                  range, LAMBDA acc, b : ImportBlock(acc, w, b))
        strays == {h \in (db.status[w].h + 1)..stop : NodeBlock(h) # db.rows[h]}
    IN  Then(s, LAMBDA r :
             [UpdateMinedBalances(r) EXCEPT
                 !.db.status[w].h = IF stop = Height[best] THEN Done ELSE stop,
                 !.db.strayed = @ \cup {<<w, h>> : h \in strays}
                                  \cup (IF MinedTwice(r.db) THEN {<<w, 0>>} ELSE {})])

ImportedAt(w, h) == {t \in Range(BlockTxs[NodeBlock(h)]) : RelatedTo(t, w)}

(* The heights whose transactions asyncImport adds to h.expiredMempool. *)
ImportedHeights(w) ==
    {h \in (db.status[w].h + 1)..ImportStop(w) :
        /\ ImportedAt(w, h) # {}
        /\ ~(Height[best] > MaxMemPoolExpire /\ h <= Height[best] - MaxMemPoolExpire)}

WorkerImport ==
    /\ phase = "running" /\ removing = NoWallet
    /\ tasks # <<>> /\ Head(tasks).type = "import"
    /\ Head(tasks).w \in DOMAIN db.status
    /\ \E w \in {Head(tasks).w} : \E s \in {asyncImport(w)}, hs \in {ImportedHeights(w)} :
       LET finish == IF Failed(s) THEN s.err = CreditNotFound ELSE s.db.status[w].h = Done
       IN  /\ tasks' = IF finish THEN Tail(tasks) ELSE Append(Tail(tasks), Head(tasks))
           /\ givenUp' = IF s.err = CreditNotFound THEN givenUp \cup {w} ELSE givenUp
           /\ IF Failed(s) THEN UNCHANGED <<db, expired>>
              ELSE /\ db' = s.db
                   /\ expired' = [h \in DOMAIN expired \cup hs |->
                          Get(expired, h, {}) \cup (IF h \in hs THEN ImportedAt(w, h) ELSE {})]
    /\ UNCHANGED <<nodeVars, queueVars, runVars, best, mempool, removing, requests>>

(* A task whose wallet has no keystore any more ends at once, in           *)
(* asyncImport and in asyncRemove.                                         *)
WorkerSkip ==
    /\ phase = "running" /\ removing = NoWallet
    /\ tasks # <<>> /\ Head(tasks).w \notin DOMAIN db.status
    /\ tasks' = Tail(tasks)
    /\ UNCHANGED <<nodeVars, queueVars, runVars, db, memVars, removing, givenUp, requests>>

(* asyncRemove: the first transaction, then one per batch of credits; the  *)
(* handler runs between any two of them.                                   *)
WorkerRemove1 ==
    /\ phase = "running" /\ removing = NoWallet
    /\ tasks # <<>> /\ Head(tasks).type = "remove"
    /\ Head(tasks).w \in DOMAIN db.status
    /\ tasks' = Tail(tasks)
    /\ db' = RemoveByWallet(db, Head(tasks).w)
    /\ removing' = Head(tasks).w
    /\ UNCHANGED <<nodeVars, queueVars, runVars, memVars, givenUp, requests>>

DeleteWallet(d, w) == [d EXCEPT !.status = Del(@, {w}), !.keys = @ \ AddrsOf(w),
                                !.strayed = {x \in @ : x[1] # w}]

WorkerRemove2 ==
    /\ phase = "running" /\ removing # NoWallet
    /\ \E r \in {RemoveRelevantTx(db, removing)} :
          IF Failed(r)
            THEN /\ tasks' = Push("remove", removing)
                 /\ removing' = NoWallet
                 /\ UNCHANGED <<db, mempool>>
            ELSE /\ db' = IF r.finish THEN DeleteWallet(r.db, removing) ELSE r.db
                 /\ removing' = IF r.finish THEN NoWallet ELSE removing
                 /\ mempool' = mempool \ r.removed
                 /\ UNCHANGED tasks
    /\ UNCHANGED <<nodeVars, queueVars, runVars, best, expired, givenUp, requests>>

-----------------------------------------------------------------------------
(* Start and crash.  When the process ends, by a crash or because Start    *)
(* returned an error, only the database is left.                           *)
Exit ==
    /\ phase' = "down"
    /\ queueBlock' = <<>> /\ queueMsgTx' = <<>>
    /\ mempool' = {} /\ expired' = EmptyBucket
    /\ tasks' = <<>> /\ removing' = NoWallet /\ givenUp' = {}
    /\ UNCHANGED <<start, db, best>>

Crash ==
    /\ phase # "down" /\ crashes < MaxCrash
    /\ crashes' = crashes + 1
    /\ Exit
    /\ UNCHANGED <<nodeVars, requests>>

Start ==
    /\ phase = "down"
    /\ phase' = "starting"
    /\ best' = db.rows[db.syncedTo]
    /\ start' = [cur |-> db.syncedTo + 1, idx |-> Height[tip],
                 fast |-> getReadyWallets(db) = {} /\ Height[tip] > Gap]
    /\ UNCHANGED <<nodeVars, queueVars, crashes, db, mempool, expired, workVars, requests>>

CatchingUp == phase = "starting" /\ start.cur <= start.idx
HeaderOnly == start.fast /\ start.cur < start.idx - Gap

FastSync ==
    /\ CatchingUp /\ HeaderOnly
    /\ LET s == SetSyncedTo([err |-> NoErr, db |-> db], NodeBlock(start.cur)) IN
          IF Failed(s) THEN Exit
          ELSE /\ db' = s.db /\ best' = NodeBlock(start.cur)
               /\ start' = [start EXCEPT !.cur = @ + 1]
               /\ UNCHANGED <<phase, queueVars, mempool, expired, workVars>>
    /\ UNCHANGED <<nodeVars, crashes, requests>>

CatchUp ==
    /\ CatchingUp /\ ~HeaderOnly
    /\ \E s \in {ProcessedBlock(NodeBlock(start.cur))} :
          IF Failed(s) THEN Exit
          ELSE /\ Commit(s, NodeBlock(start.cur))
               /\ start' = [start EXCEPT !.cur = @ + 1]
               /\ UNCHANGED <<phase, queueVars, workVars>>
    /\ UNCHANGED <<nodeVars, crashes, requests>>

(* The worker queues what the statuses say is unfinished. *)
PendingTask(w) == [type |-> IF db.status[w].removed THEN "remove" ELSE "import", w |-> w]

(* Mutant: the worker starts with an empty queue. *)
StartedEmpty ==
    /\ phase = "starting" /\ start.cur > start.idx
    /\ phase' = "running"
    /\ tasks' = <<>>
    /\ UNCHANGED <<nodeVars, queueVars, start, crashes, db, memVars, removing, givenUp, requests>>

Started ==
    /\ phase = "starting" /\ start.cur > start.idx
    /\ phase' = "running"
    /\ tasks' = LET pending == SetToSeq({w \in DOMAIN db.status :
                                 db.status[w].removed \/ db.status[w].h # Done})
                IN  [i \in DOMAIN pending |-> PendingTask(pending[i])]
    /\ UNCHANGED <<nodeVars, queueVars, start, crashes, db, memVars, removing, givenUp, requests>>

-----------------------------------------------------------------------------
InitKeys == UNION {AddrsOf(w) : w \in InitialWallets}

InitDb ==
    [credits |-> EmptyBucket, unspent |-> EmptyBucket, debits |-> EmptyBucket,
     txRecords |-> {}, blocks |-> EmptyBucket,
     balance |-> [w \in InitialWallets |-> 0],
     unmined |-> EmptyBucket, unminedInputs |-> EmptyBucket, unminedCredits |-> {},
     addresses |-> [k \in {<<a, Std>> : a \in InitKeys} |-> 0],
     game |-> EmptyBucket, unminedGame |-> {},
     keys |-> InitKeys,
     status |-> [w \in InitialWallets |-> [h |-> Done, removed |-> FALSE]],
     rows |-> [h \in {0} |-> Genesis], syncedTo |-> 0,
     strayed |-> {}, undone |-> {}]

Init ==
    /\ tip = Genesis /\ moves = 0 /\ sent = {}
    /\ queueBlock = <<>> /\ queueMsgTx = <<>>
    /\ phase = "running" /\ start = [cur |-> 1, idx |-> 0, fast |-> FALSE]
    /\ db = InitDb /\ best = Genesis /\ mempool = {} /\ expired = EmptyBucket
    /\ tasks = <<>> /\ removing = NoWallet /\ givenUp = {}
    /\ crashes = 0 /\ requests = 0

Environment == NodeMove \/ NodeRelay \/ ImportWallet \/ RemoveWallet \/ Crash
Handler == HandleBlock \/ HandleTx
Worker == WorkerImport \/ WorkerSkip \/ WorkerRemove1 \/ WorkerRemove2
Starting == Start \/ FastSync \/ CatchUp \/ Started
Next == Environment \/ Handler \/ Worker \/ Starting

Spec == Init /\ [][Next]_vars

(* Both goroutines and Start keep running, and a crashed wallet is started *)
(* again.  Nothing is assumed of the node, of users or of crashes.  Each   *)
(* condition names only the variables that tell that a step was taken, so  *)
(* that what it can do need not be computed to see that it can be taken.   *)
(* The worker's steps do not all show in a few variables: its condition is *)
(* weak fairness of Worker with ENABLED written out, where the one step    *)
(* that changes nothing is the retry of a failing import that is alone.    *)
TakesMessage ==
    /\ phase = "running"
    /\ \/ /\ queueBlock # <<>> /\ queueBlock' = Tail(queueBlock)
          /\ queueMsgTx' = queueMsgTx
       \/ /\ queueMsgTx # <<>> /\ queueMsgTx' = Tail(queueMsgTx)
          /\ queueBlock' = queueBlock

StartMoves ==
    \/ CatchingUp /\ phase' = phase /\ start' = [start EXCEPT !.cur = @ + 1]
    \/ CatchingUp /\ phase' = "down" /\ start' = start
    \/ phase = "starting" /\ ~CatchingUp /\ phase' = "running" /\ start' = start

Retries(task) == /\ task.type = "import" /\ task.w \in DOMAIN db.status
                 /\ asyncImport(task.w).err = OtherErr
WorkerBusy == /\ phase = "running"
              /\ \/ removing # NoWallet
                 \/ tasks # <<>> /\ ~(Len(tasks) = 1 /\ Retries(Head(tasks)))

FairSpec ==
    /\ Spec
    /\ WF_queueVars(TakesMessage)
    /\ WF_phase(phase = "down" /\ phase' = "starting")
    /\ WF_<<phase, start>>(StartMoves)
    /\ []<>~WorkerBusy \/ []<><<Worker>>_vars

-----------------------------------------------------------------------------
(* What the ledger should be, from the synced chain alone. *)
ChainTx(d) == UNION {{<<t, b>> : t \in Range(BlockTxs[b])} : b \in Range(d.rows)}
OutputsOn(d, w) ==
    UNION {{<<op, r[2]>> : op \in {o \in Outs(r[1]) : Pays(o, w)}} : r \in ChainTx(d)}
SpentOn(d) == SpentBy({r[1] : r \in ChainTx(d)})
UnspentOn(d, w) == {x \in OutputsOn(d, w) : x[1] \notin SpentOn(d)}
Stored(d, w) == {<<<<k[2], k[3]>>, d.unspent[k]>> : k \in {x \in DOMAIN d.unspent : x[1] = w}}
Value(S) == FoldLeft(LAMBDA acc, x : acc + OutOf(x[1]).val, 0, SetToSeq(S))

(* asyncImport reads the node's chain.  What it reads from a branch the    *)
(* wallet does not follow is put right when the wallet reorganises over    *)
(* that height, and stays if the node returns before, or if it recorded a  *)
(* transaction that the wallet has in another block (height 0 in strayed). *)
Strayed(w) == \E x \in db.strayed : x[1] = w
SettledWallets == {w \in getReadyWallets(db) : ~Strayed(w)}

(* The unspent outputs of a ready wallet are those the synced chain leaves *)
(* unspent, each with the block that created it: no block sequence, reorg, *)
(* import, removal of another wallet, failure or crash loses, doubles or   *)
(* misplaces an output.  A wallet that strayed is excepted.                *)
UnspentMatchesChain == \A w \in SettledWallets : Stored(db, w) = UnspentOn(db, w)

(* The balance of a ready wallet, which is kept incrementally through      *)
(* every spend, credit and rollback, is the sum of those outputs.          *)
BalanceMatchesChain ==
    \A w \in SettledWallets : Get(db.balance, w, 0) = Value(UnspentOn(db, w))

(* Credits, debits and unspent outputs agree: a credit is unspent iff it   *)
(* is in the unspent bucket of its wallet, and spent iff the debit of its  *)
(* spender points back to it.  A wallet under removal is exempt.           *)
Removing(w) == w \in DOMAIN db.status /\ db.status[w].removed
CreditsConsistent ==
    /\ \A k \in DOMAIN db.credits :
          LET op == <<k[1], k[2]>> IN
          ~Removing(WalletOf(op)) =>
             IF db.credits[k] = NoSpender
               THEN Get(db.unspent, UnspentKey(op), NoSpender) = k[3]
               ELSE Get(db.debits, db.credits[k], NoSpender) = k
    /\ \A k \in DOMAIN db.debits : Get(db.credits, db.debits[k], NoSpender) = k

(* Block records, transaction records and sync rows agree: a block record  *)
(* at a height belongs to the block the wallet is synced to there and      *)
(* lists exactly the transactions that have a record in that block.        *)
RecordsMatchRows ==
    /\ db.strayed = {} => \A h \in DOMAIN db.blocks :
          /\ h \in DOMAIN db.rows /\ db.rows[h] = db.blocks[h].blk
          /\ IsInjective(db.blocks[h].txs)
    /\ db.txRecords = UNION {{<<t, db.blocks[h].blk>> : t \in Range(db.blocks[h].txs)} :
                               h \in DOMAIN db.blocks}

(* removableTxForRemoveWallet asks only whom a transaction pays: when all  *)
(* of its outputs that pay a wallet pay removed ones, its record goes,     *)
(* although it may spend a coin of a wallet that stays.                    *)
TakenByRemoval(t) ==
    /\ \E op \in Outs(t) : \E w \in InitialWallets : Pays(op, w)
    /\ \A op \in Outs(t) : \A w \in getReadyWallets(db) : ~Pays(op, w)

(* Every transaction of the synced chain that concerns a ready wallet is   *)
(* recorded, so a later rollback can undo it, unless a removal took it.    *)
HistoryComplete ==
    \A w \in SettledWallets : \A r \in ChainTx(db) :
        RelatedTo(r[1], w) => r \in db.txRecords \/ TakenByRemoval(r[1])

(* The wallet's chain is a part of the node's. *)
FollowsNode == best \in Branch[tip]

(* A transaction whose announcement is handled after its block is refused  *)
(* as "expired" only if an output of it is still unspent.                  *)
OnChain(t) == \E r \in ChainTx(db) : r[1] = t
RecordedLate ==
    {t \in DOMAIN db.unmined \cap sent :
        OnChain(t) /\ \A op \in Outs(t) : UnspentKey(op) \notin DOMAIN db.unspent}

(* A transaction of a ready wallet that is on the synced chain is not also *)
(* kept as unconfirmed, and no unconfirmed one spends what the chain       *)
(* spends.  There are two exceptions: what is recorded late, and, while    *)
(* the node has left the wallet's chain, what it puts back into its pool,  *)
(* which may come before the reorganisation does.                          *)
UnminedCurrent ==
    FollowsNode => \A t \in DOMAIN db.unmined \ RecordedLate :
      (\E w \in SettledWallets : RelatedTo(t, w)) =>
        /\ ~OnChain(t)
        /\ Range(TxIns[t]) \cap SpentOn(db) = {}

(* An unconfirmed credit belongs to an unconfirmed transaction; an output  *)
(* of a ready wallet is marked as spent by an unconfirmed transaction only *)
(* while one is stored, so a coin is not locked for ever; and a            *)
(* transaction that spends one no block mines goes with it.                *)
UnminedConsistent ==
    /\ \A op \in db.unminedCredits : op[1] \in DOMAIN db.unmined
    /\ \A op \in {o \in DOMAIN db.unminedInputs : \E w \in getReadyWallets(db) : Pays(o, w)} :
          \E i \in DOMAIN db.unminedInputs[op] : db.unminedInputs[op][i] \in DOMAIN db.unmined
    /\ \A t \in DOMAIN db.unmined :
          \A op \in {o \in Range(TxIns[t]) : \E w \in getReadyWallets(db) : Pays(o, w)} :
             op[1] \in DOMAIN db.unmined \cup TxsOf(Block)

(* What the wallet shows of a ready wallet is what its synced chain says:  *)
(* the three properties together, with their exceptions: a wallet whose    *)
(* import strayed to a branch the node left before the wallet followed,    *)
(* and the record of a transaction that paid only removed wallets.         *)
LedgerFollowsChain == UnspentMatchesChain /\ BalanceMatchesChain /\ HistoryComplete

(* The buckets that refer to each other agree after every transaction.     *)
BucketsConsistent == CreditsConsistent /\ RecordsMatchRows

(* The unconfirmed transactions, credits and spends follow the chain and   *)
(* each other.                                                             *)
UnminedFollowsChain == UnminedCurrent /\ UnminedConsistent

(* What Rollback writes for a wallet between the phases of its removal:    *)
(* outputs that an undone block spent become unspent again and count in    *)
(* the balance, and stakings and bindings that it created become           *)
(* unconfirmed.                                                            *)
UndoneTxs(w) == TxsOf({x[2] : x \in {y \in db.undone : y[1] = w}})
WrittenBack(w) == {op \in SpentBy(UndoneTxs(w)) : Pays(op, w)}
MadeUnmined(w) == {op \in UNION {Outs(t) : t \in UndoneTxs(w)} : Pays(op, w) /\ IsGame(op)}

(* A removed wallet leaves no credit, unconfirmed credit, address or game  *)
(* history behind, and of its unspent outputs, balance and unconfirmed     *)
(* histories only what a reorganisation between the phases wrote back:     *)
(* the batches of asyncRemove, and the handler that runs between them,     *)
(* leave nothing else.                                                     *)
RemovedLeavesNothing ==
    \A w \in Wallet \ DOMAIN db.status :
        /\ w \in DOMAIN db.balance => WrittenBack(w) # {}
        /\ \A k \in DOMAIN db.unspent : k[1] = w => <<k[2], k[3]>> \in WrittenBack(w)
        /\ \A k \in db.unminedGame : k[1] = w => <<k[2], k[3]>> \in MadeUnmined(w)
        /\ \A k \in DOMAIN db.game : k[1] # w
        /\ \A k \in DOMAIN db.addresses : Owner[k[1]] # w
        /\ \A k \in DOMAIN db.credits : ~Pays(<<k[1], k[2]>>, w)
        /\ \A op \in db.unminedCredits : ~Pays(op, w)

Imported(w) == db.status[w].h = Done

(* When the node, the users and the crashes rest, every import has run to  *)
(* its end, whatever reorganisations lowered its height, failed a range or *)
(* stopped it by a crash.  Excepted is an import that met a spend of an    *)
(* output it had not read (ErrUnexpectedCreditNotFound), which the worker  *)
(* drops until the next start; only one that strayed, or reads a branch    *)
(* the wallet is not on, does.  What removals do is RemovalsFinish's.      *)
ImportsFinish ==
    /\ \/ <>[](\A w \in DOMAIN db.status : Imported(w) \/ w \in givenUp)
       \/ <>(Marked(db) # {})
    /\ [][\A w \in givenUp' \ givenUp : Strayed(w) \/ ~FollowsNode]_vars

(* A wallet marked for removal is gone in the end, whatever crashes and    *)
(* reorganisations come between the phases of asyncRemove: the batches get *)
(* to their end, a failed one and one a crash cut off are queued again.    *)
(* Excepted is a database in which Rollback stored a location where an     *)
(* unconfirmed transaction is read: that removal fails for ever.           *)
RemovalsFinish ==
    \/ <>[](Marked(db) = {})
    \/ <>[](\E t \in DOMAIN db.unmined : db.unmined[t] # "msgtx")

(* Every import has run to its end and every wallet marked for removal is  *)
(* gone: asyncRemove and the tasks queued at a restart get there.          *)
TasksFinish ==
    <>[](phase = "running" /\ \A w \in DOMAIN db.status :
                                db.status[w].h = Done /\ ~db.status[w].removed)

(* A wallet that stops is up again later: no crash point leaves a database *)
(* that Start cannot catch up from.                                        *)
StartsAgain == []<>(phase = "running")

=============================================================================
