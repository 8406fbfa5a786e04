# MassNet wallet: verification project

TLA+ models of the MassNet wallet (`src/`), the TLC configurations that check
them on small instances, and TLAPS proofs of the central results for every
instance.

The wallet runs inside a full node. It follows the node's best chain, keeps a
ledger of the transactions that concern its keystores in a key-value database,
takes unconfirmed transactions from the node's pool, creates, signs and sends
transactions for its users, and imports and removes keystores while it runs.
What makes it hard: the node changes branches while the wallet is reading them,
the handler and the worker goroutine take turns over shared state, requests
overlap, a reorganisation must undo exactly what blocks wrote, caches change
before the transaction that stores them commits, and the process can end between
any two database transactions.

## Inventory

| Component | State | Operations | Interacts with | Correct if |
|---|---|---|---|---|
| Sync position (`txmgr/syncstore*.go`) | rows height -> block, `syncedToName`, wallet statuses | `SetSyncedTo`, `ResetSyncedTo`, `PutWalletStatus`, `MarkDeleteWallet`, `DeleteWalletStatus` | called in the transactions of the handler, the worker and `WalletManager` | rows are contiguous, linked, and end at the best block |
| Chain following (`ntfnshandler.go`: `Start`, `handle`, `processConnectedBlock`, `reorg`, `disconnectBlock`, `filterBlock`) | `h.bestBlock`, `queueBlock` | one transaction per block | reads the node through `ChainFetcher`; calls `TxStore`, `UtxoStore`, `SyncStore` | database and memory agree after every failure and crash; the tip is reached |
| Ledger (`txmgr/txstore*.go`, `utxostore*.go`) | credits, unspents, debits, balances, block and transaction records, unmined transactions, their inputs and credits, address records, staking and binding histories | `AddRelevantTx`, `AddCredits`, `AddRelevantTxForImporting`, `Rollback`, `Remove*` | called by the handler and the worker | equals what the synced chain says; unconfirmed transactions never contradict it |
| Received transactions (`proccessReceivedTx`, `filterTx`) | `h.mempool`, `h.expiredMempool`, `queueMsgTx` | one transaction per message | the node's pool | no coin stays locked |
| Imports and removals (`worker`, `asyncImport`, `asyncRemove`, `task.go`) | `h.taskChan`, wallet statuses | `ImportWallet`, `RemoveWallet`, one transaction per range or batch | take turns with the handler through `sigSuspend` and `sigResume` | every task ends, none is lost, nothing of a removed wallet is left |
| Wallet queries (`wallet.go`, `utxostore.go`, `api/tx_service.go`) | none | balances, unspents, histories, statuses | read the ledger and the node | report what chain and pool say |
| Transaction creation (`tx.go`, `common.go`, `utxo_selector.go`, `api/tx_service.go`) | `usedCache` | coin selection, fees, change, signing, sending | queries, keystores, the node's pool | inputs are spendable and not used twice; amounts balance; the transaction is the one asked for |
| Keystores (`keystore/`) | in-memory `AddrManager`s, buckets, branch indices, lock state, encrypted keys | create, import, export, new address, unlock, passphrase change | `WalletManager`, the ledger (owner of a script) | cache and buckets agree; a backup restores; no key stays in memory |
| Database (`db/`, `db/ldb`, `db/rdb`) | a flat key space, the write batch | buckets, `Get`, `Put`, scans, iterators, `Commit` | everything | transactions are atomic trees of buckets; both drivers answer alike |
| Start and stop (`mass.go`, `loader.go`, `server.go`, `signal.go`, `api/api_server.go`) | open databases and servers, callbacks, channels | open, serve, interrupt, `QuitClient`, close | all goroutines | everything closes, in order |
| Command line client (`cmd/masswalletcli`) | the list file and the transactions of a batch binding | `getbindinglist`, `batchbinding`, `batchbindpoolpk` | the API | ends, and says truly what is bound |
| Configuration, generated code, word lists | none | conversions and I/O | | not modelled |

PROJECT.json lists the hazards of this code, each at its line with the
properties that would catch it.

## Modules

| Module | Models |
|---|---|
| `BlockTree` | the node's block tree (external): parents, heights, branches |
| `SyncStore` | what `putSyncedTo`, `resetSyncedTo` do to the rows |
| `SyncedChain` | abstract specification: the rows are one branch, changed by extending or by cutting and regrowing it |
| `BlockSync` | `Start`, `handle` and `reorg` step by step, interleaved with the node: every `getBlock`, `disconnectBlock` and `filterBlock` is an action |
| `Ledger` | the buckets and every `TxStore` and `UtxoStore` operation that writes them, as operators from state to state |
| `LedgerRows` | the same rows as bytes: keys, flags, values that are lengthened and cut in place, over small widths |
| `NtfnsHandler` | the whole wallet with one action per database transaction: blocks, received transactions, imports, removals, crashes, `Start`, over the ledger |
| `WorkerTasks` | the goroutines `handle` and `worker`, the API calls and `Stop`; the rendezvous and the task channel; the effects of transactions are abstracted to how they can end |
| `Queries`, `ApiQueries` | balances, unspents, histories, look-ups and statuses as operators on the state of `NtfnsHandler` |
| `TxHistory` | the batches of `GetTxHistory` |
| `CoinSelection` | `topKSelector`, fees, change and the loop of `autoConstructTxInAndChangeTxOut` |
| `Spending` | concurrent requests that create, sign and send, the used-output cache, blocks, the pool, restarts |
| `TxRequests` | one request of the API from its arguments to the transaction and to what the API shows of it |
| `Amounts`, `StakingReward` | `AmountToString`, `StringToAmount`; `GetBlockStakingReward` |
| `Keystore` | `KeystoreManager`, `AddrManager`: cache against buckets, indices and gap limit, lock and unlock, for requests, the worker and signers |
| `Envelope` | which key encrypts what: passphrases, crypto keys, exports, imports, passphrase changes, as terms |
| `BigInt`, `Mnemonic`, `ExtendedKey` | the encodings of words and keys over small number systems |
| `WalletKeys` | `Keystore` with the words and keys of its wallets: what a stored and an unlocked wallet rely on |
| `BucketKeys` | the flat keys of buckets and entries |
| `BucketStore` | abstract specification of the database: a tree of buckets, one write transaction at a time |
| `LevelDB`, `RocksDB` | the two drivers |
| `DbDrivers` | both drivers given the same calls |
| `Lifecycle` | `massMain`, the signal catcher, the quit sender, the loader and the servers |
| `BatchBinding` | the commands that bind in batches, several clients at a time |
| `*Proofs` | inductive invariants, refinements and the theorems |
| `MC*` | instances for TLC |

How they fit. `BlockSync` and `NtfnsHandler` model the same block processing at
two grains and share `BlockTree` and `SyncStore`. `BlockSync` justifies treating
a block's transaction in `NtfnsHandler` as one step: what a step of `reorg` can
see when the node moves is there, and `BlockSync` is checked and proved to
implement `SyncedChain`. `WorkerTasks` justifies treating the handler's and the
worker's transactions as steps that exclude each other (`MutualExclusion`).
`LevelDB` and `DbDrivers` justify treating a database transaction as atomic and
its reads as reads of what it will commit (`ReadsWhatCommits`,
`RefinesBucketStore`); `LedgerRows` justifies tuples for rows. `Queries` sees one
committed state; what happens when a block arrives inside a query is in
`Spending`. `TxRequests` is one request, `Spending` the interleaving of several.

State and code. A database transaction of `BlockSync` works on `tx` (a copy of
`db` with the local variables of `reorg`) and is copied back by `CommitBlock`;
`NtfnsHandler` folds the operations of a transaction over a record
`[err, db, bal]`, where `bal` is the `allBalances` map that Go passes along; the
first error wins and the transaction is dropped. A bucket is a function on the
tuples its keys encode, so different key layouts stay different: an unspent row
is keyed by wallet and outpoint, an input of an unconfirmed transaction by
outpoint alone. The value of an unmined row says what was written there, a
serialised transaction ("msgtx") or a file location, because `readRawUnmined`
can only decode one of them. `WalletSyncedDone`, the largest uint64, is -1, so
that the additions that wrap in Go give the same heights. `Keystore` has the
committed store `db`, the working copy of the open transaction `tx` and the
managers in memory `cache`; a request's steps are numbered by `api.pc`, the
worker's by `worker.pc`. `LevelDB` keeps the two records of the Go batch
separately: `putSeq`, `putData`, `deletes` answer reads, `inner` is written.
`Lifecycle` has a program counter for `main`, for the signal catcher and for
the goroutine that waits for the servers. Algorithm properties (`MnemonicRestores`,
`SigningKeyOfAddress`, `SelectionOptimal`, `CreatedBalanced`, `HistoryNewest`,
`AmountsFaithful`) say that the set of bounded inputs on which the algorithm
and its reference definition differ is empty.

## Runs

Where two parts have no state in common they share a run: a behaviour
(`part`) is one of one part.

| Run | Instance | Shows |
|---|---|---|
| `sync_position` | a tree with three branches, three node switches, one crash, one failing read | rows stay contiguous and linked, `h.bestBlock` is `syncedTo`, `BlockSync` implements `SyncedChain`, and the wallet reaches the node's tip |
| `ledger_reorg` | two wallets, transactions mined on either branch and relayed before, a stake that is locked, free and withdrawn, one crash | credits, debits, records and unconfirmed transactions follow the chain (`BucketsConsistent`, `UnminedFollowsChain`), and every query answers what chain and pool say (`QueriesAgree`) |
| `ledger_tasks` | an import or a removal while the node leaves a branch and may return, or two API calls on a growing chain; one crash, conflicting transactions relayed; one transaction gives a coin of a wallet to the other, one gives a coin away | a ready wallet has the outputs, the balance and the history of the synced chain (`LedgerFollowsChain`) and a removed one leaves nothing (`RemovedLeavesNothing`), with the exceptions below; imports and removals end (`ImportsFinish`, `RemovalsFinish`) |
| `worker_tasks` | three wallets, a channel limit of one, two API calls, `Stop`; three interrupts; two clients, three targets, batches of two | turns exclude each other, no task is lost, the worker gets its turn; the process closes in order and ends, provided that `WalletManager.Stop` returns, which `stop_waits` shows it may not (`ShutdownOrderly`); a batch binding ends and counts what is bound (`BatchEndsCounted`) |
| `db_drivers` | nested paths one of which has a separator in its name, keys that look like the tail of a path, two transactions of two operations; three transactions mined and rolled back as bytes | the drivers agree, reads are what commits, scans and iterators show the tree, the flat key space implements nested buckets; rows decode to the chain (`RowsFaithful`) |
| `keystore` | two wallets, two signers, a gap of two, one failing commit or crash; five envelope calls; all entropies of one unit; a group of 13 | cache and store agree, handed-out addresses stay stored, and listed as long as no payment to them is rolled back (`HandedOutKept`), a restore finds what was used, a locked keystore holds no key; every keystore opens with the passphrase last set, exports restore (`EnvelopeOpens`, `ExportRestores`); words and keys survive their encodings |
| `spending` | three coins, two requests, three blocks, one restart; bounded inputs of the algorithms; the requests of the API over seven coins | no immature coin is picked, no coin promised twice but for the named races, creations end; selection, fees, change, history, amounts and rewards match their references; the transaction of a request is the one asked for (`RequestHonoured`) |

The other runs are expected to be violated. Each states what a comment or a
document in the repository says and shows what the code does instead; the
findings in PROJECT.json quote the lines.

| Run | What happens |
|---|---|
| `removal_after_reorg` | `Rollback` stores the location of a transaction where `readRawUnmined` expects the transaction; a removal that meets the row fails and is queued again for ever |
| `reorg_child` | a spend is not recorded when the output it spends was created earlier in the same reorganisation, because `filterTx` asks the committed database |
| `removal_crash` | after a crash between the phases, a reorganisation over a withdrawn staking output makes `Start` fail for ever |
| `removed_record` | removing a wallet deletes the record of a transaction that pays it and spends a coin of another wallet, because `removableTxForRemoveWallet` looks at outputs only; when the block of the transaction is rolled back later, the coin of the other wallet stays spent |
| `stop_waits` | `Stop` waits for ever if the worker wants to suspend a handler that has left |

### Bounds

All bounds are constants. `BlockSync`: `MaxSwitch`, `MaxCrash`, `MaxFail`,
`QueueCap`, `Gap` (2000 in the code; small, so that the header-only catch-up
happens). The tree has forks of different depth, which is what the three loops
of `reorg` tell apart: a branch lower than, as high as and higher than the
wallet's. `NtfnsHandler`: `Bounds` (pairs of moves of the node and API
calls, one of which bounds a behaviour), `MaxCrash`; `ImportRange`
(1000), `MaxMemPoolExpire` (1024) and the credits deleted per batch (20000) are
scaled down so that an import takes several ranges, a confirmed transaction
expires and a removal takes several batches. Each ledger instance has the
transactions one question needs: a chain of spends, a conflict, a coinbase, a
staking output and its withdrawal, outputs of two wallets in one transaction.
The chains where `reorg_child` would bite are left out of the passing ledger
runs: their blocks do not spend what the same reorganisation creates.
`ledger_tasks` has a long fork, of which one branch pays the imported wallet at a
height where the other does not, so that an import can miss an output, and a
transaction that a stray import can record twice. Either the node leaves a branch
and returns (three moves) around one API call, or it moves once and there are two
calls, such as an import and the removal of the other wallet, or a removal asked
for twice. With more moves after two calls the transactions of the removed wallet
are not there to hide `reorg_child`. No block that withdraws a staking output is
rolled back in it (that is `removal_crash`), nor the block of the transaction that
spends a coin of one wallet and pays the other (that is `removed_record`).

The ledger properties have exceptions, each of which is what the code does:

* an import that strayed (`db.strayed`, an auxiliary record of what `asyncImport`
  read from a block that is not at that height of the wallet's chain). It is
  cleared when the wallet reorganises over the height, but not when the import
  recorded a transaction in a second block: the rollback then counts one output
  twice. Such a wallet is not compared with the chain (`SettledWallets`);
* an import given up with `ErrUnexpectedCreditNotFound` (`givenUp`, auxiliary,
  emptied at a restart), excepted by `ImportsFinish`, which asks that this happens
  only to an import that strayed or is reading a branch the wallet is not on;
* the record of a transaction all of whose outputs to a wallet paid removed ones
  (`TakenByRemoval`), excepted by `HistoryComplete`; `removed_record` shows what
  follows from it;
* what `Rollback` writes for a wallet between the phases of its removal
  (`WrittenBack`, `MadeUnmined`, from `db.undone`, an auxiliary record of the
  blocks undone meanwhile), excepted by `RemovedLeavesNothing`: unspent outputs
  that an undone block had spent, the balance that counts them, and unconfirmed
  histories of stakings and bindings that it had created (these need a second
  ready wallet to be left over, which the instance with the fork does not have);
* a database where `Rollback` left a location in place of an unconfirmed
  transaction, excepted by `RemovalsFinish` and shown by `removal_after_reorg`.

All but the unconfirmed histories are reached in `ledger_tasks`.

The part of `UnminedFollowsChain` that no unconfirmed
transaction is already mined excepts those recorded late and asks the wallet to
follow the node.
`WorkerTasks`: `MaxRequest`; `MaxWaitingTaskNum` (3) is 1 in the run, so that
the channel fills. `Lifecycle`: `MaxInterrupts`. `BatchBinding`: `MaxRuns`,
`MaxRetry`, `BatchSize`. `LevelDB`: `MaxOps` per transaction, `MaxTxs`; the
keys are chosen so that careless joining would let them meet. `Keystore`:
`MaxIndex`, `MaxFault`, and internal addresses only in a wallet that is alone
(`FewInternal`); `Envelope`: `MaxCalls`, `MaxPub`. `Spending`:
`MaxHeight`, `MaxRestart`. Widths (bytes, words, the curve's group, decimals)
are small enough to enumerate every input and keep the boundaries: leading zero
bytes, a full heap, an exact sum, a last batch of heights that is cut short.

### Fairness

`BlockSync`: weak fairness of `Start`, the handler and the node's remaining
announcements; the node's switches, crashes and failures are bounded and not
fair. `ReachesTip` promises nothing after a block that failed: `handle` logs the
error and does not retry, so the wallet waits for the next announcement.
`NtfnsHandler`: weak fairness of taking a queued message, of starting again
after a crash, of the steps of `Start`, and of the worker; the worker's is
written with its enabling condition spelled out (`WorkerBusy`), which is the
same formula and much cheaper for TLC than `ENABLED` of a transaction.
`WorkerTasks`: goroutines run (weak fairness), and a `select` that is offered a
case again and again takes it (strong fairness of `Suspend`, `HandlerQuit`,
`WorkerQuit`), because Go picks among the ready cases at random. Blocks, API
calls and `Stop` may never come. `Spending`: the goroutine of a request runs
until it answers. `Lifecycle`: Go schedules `main`, the catcher and the quit
sender; interrupts need not come. `BatchBinding`: the client runs and the node
goes on packing.

## Proofs

The theorems named `...Invariant` say that an inductive invariant holds, those
of `KeyProofs` are about the flat keys, `ClosesInOrder` and `CountsAreBound` are
each the safety half of a property;
the others state properties of the runs, for every value of the constants.

`BlockSyncProofs` (every block tree, gap, queue capacity, number of switches,
crashes and failures; from `BlockTree`'s assumptions: genesis has height 0, a
parent is one lower, a branch is the set of ancestors):

* `SyncInvariant`: `SyncInv` is inductive. It adds to the properties what holds
  inside a transaction: the rows of `tx` are contiguous up to its `syncedTo`,
  its prefix agrees with `db`, `currentBest` and `currentPrev` are rows of it,
  and the blocks to connect form a linked chain that starts right above the
  rows that will remain. Without the last part nothing follows about a commit,
  since `filterBlock` and `putSyncedTo` look only at heights.
* `RowsContiguous`, `RowsLinked`, `BestIsSynced` follow from it.
* `Refinement`: every commit is a step of `SyncedChain`, every other step a
  stutter.

`ProcessProofs`, tasks (any finite set of wallets, any channel limit, any number
of API calls):

* `TasksInvariant`: `TasksInv` is inductive. `TasksCovered` alone is not: that
  a push never meets a full channel needs `Room`, which counts a place for the
  task the worker holds and one for an API call that passed `IsWorkerBusy`
  (`NewWalletTaskChan` makes the channel one larger than the limit for exactly
  this).
* `TurnsExclude` and `NoTaskLost` follow from it.

`KeystoreProofs` (any wallets, signers, gap limit above one, which
`config.CheckConfig` demands, any number of failing commits and restarts):

* `KeystoreInvariant`: `KeystoreInv` is inductive. Its parts are the shape of a
  store (`StoreOK`, for the committed one and the working copy), whose
  transaction is open (`ControlInv`), what it will commit and what its caller
  has cached already (`TxInv`), and that the cache is the store but for the
  keystore a request is adding and the one the worker is deleting (`CacheInv`,
  `CurrentInv`, `HandedInv`). `CacheMatchesStore` alone says nothing about the
  middle of a transaction, where the cache runs ahead.
* `CacheIsStore` follows from it.
* `HandedOutStay`: the stored half follows from it. The row of an address needs
  `RowsInv` on top: in the committed store and in the working copy every stored
  address of a wallet that is not being removed has its row or has been
  paid. The exception is what `Rollback` needs; that it cannot be more than that
  is the point, since `AddCredits`, requests and the worker write rows too.
* `NoKeyOutlives`: with `LockInv`, which adds that an unlocked keystore has a
  signer at work.
* `RestoreFinds`: with `RestoreInv`: every address a wallet has handed out is
  within a gap of an address used before it or of the number the wallet was
  restored with (`Linked`). A scan that stops before a used address would leave
  a first used address beyond it, and `Linked` puts a used one in between
  (`RestoreCovers`, by the least index).

`KeyProofs` (any names, keys and values that are byte strings; from
`PathAssumption`: a path has at most eight names, since depths are taken to
have one digit, and the wallet nests four deep; `KeyAssumption`: keys and values
are not empty, which `Put` refuses):

* `IndexKeyUnique`, `InnerScan`, `IndexScan`: the keys of a legal bucket belong
  to no other bucket, and its scans meet its own entries and children only. The
  names in a joined string can be read back because none of them holds the
  separator: two lists of names that a string starts with have their separators
  at the same places (`LeftEnds`, `RightEnds`), and so the same names
  (`SameStart`, `SameNames`). The first byte, a depth or `b`, tells the kinds
  apart. Where one would use induction over the names, the least counterexample
  is refuted (`Least`). That the keys after the path may hold separators, and
  the names that nobody has accepted may too, is part of the statements.

`DbProofs` (the same, and any number of transactions and operations; from
`TreesAssumption`: earlier runs left finite trees of legal buckets):

* `BatchInvariant`: of every key, the larger of the two sequence numbers says
  what its last operation in the library batch is (`LastOperation`).
  `ReadsAreWrites` follows from it.
* `TreesInvariant`: `TreesInv` is inductive: each flat key with a value,
  committed or about to be, is the index entry of a legal bucket or an entry in
  one, and the buckets around it are there. The last part is what makes
  `deleteBucket` complete: it descends by `BucketNames`, and would miss a bucket
  whose parent has gone.
* `ScansAreExact`: from `TreesInv` and the theorems about keys.
* `ImplementsBucketStore`: every call is a step of `BucketStore` on the trees
  that `TreeOf` reads from the flat keys (`CreateRow`, `PutRow`, `DropRow`,
  `CutRows`), or a stutter: making a bucket again that the transaction has made.
* `DriversInvariant`: what a RocksDB transaction shows of a key is what the
  batch of the leveldb driver will write. The one difference in control is a
  bucket that the transaction has deleted: leveldb's `DeleteBucket` goes on,
  rocksdb's refuses, and `TreesInv` shows that there is nothing left to delete.
  `DriversAlike` follows.
* `IteratorsShowLive`: `bytes.Compare` is a strict total order
  (`BeforeOrders`), so in a finite set of keys each key has one place and each
  place one key (`Places`: the number of keys before a key is an injection into
  as many places as there are keys). The range that `BytesPrefix` computes for
  a bucket holds exactly the keys with its prefix (`RangeIsPrefix`: the prefix
  ends in the separator, whose byte can be raised). `FewInv` adds to `TreesInv`
  that the database and the batch have finitely many entries, which is the part
  of `TreesAssumption` used here alone.

`EnvelopeProofs` (any passphrases, secrets and remarks, any number of calls and
of files; no assumption):

* `EnvelopeInvariant`: `EnvInv` is inductive. It says layer by layer under which
  key each row of a bucket is encrypted (`MasterLayer`, `CryptoLayer`,
  `AccountLayer`, `AddressLayer`), that the manager in memory is the opened
  bucket but for the key that a failed check of a passphrase leaves behind
  (`Caches`), and which layers every exported file carries (`FilesInv`).
  `EnvelopeOpens` alone is not inductive: that a bucket opens after a passphrase
  change, an export or an import depends on the layers below.
* `EnvelopeAlwaysOpens` and `ExportAlwaysRestores` follow from it.

`WalletKeysProofs` (any byte, word and key size, any entropies, hash and group;
from `BaseAssumption`: a byte has two values at least; `MnemonicAssumption`: three
words hold four bytes and one bit of the hash's first byte, and no word is listed
twice; `CurveAssumption`: the order of the group fits in a key; nothing is
assumed of the hashes but that a first byte is a byte):

* `BackupsRestore`: the words of an entropy give that entropy back, leading
  zeros and checksum included. Digits of a number in one base are regrouped in
  another; the proof is that a number is the value of its digits and digits of
  a given length are those of their value (`BigInt`), with the laws of powers
  and quotients they need.
* `KeysSign`: the private key derived for an address is the one whose public key
  the address shows, on both the private and the public way of derivation.
  Accounts whose private key is zero, one in the order of the group, are left
  out.
* What is a recursion over a sequence is named by the equation it satisfies and
  followed one position at a time; a claim about all positions is proved by
  refuting its least counterexample.

`SpendingProofs` (any coins, requests, maturities, number of blocks and
restarts; the algorithms for any wallets, payments, fees, chains and batch
sizes, where `SelectionAssumption`, `HistoryAssumption` and `SpendingAssumption`
give the types of the constants and that there are finitely many coins):

* `LedgerInvariant`: the queue of blocks leads up to the height, every received
  coin has its height, requests have read no later height.
* `PickedAreMature`: with `PickedInv`, from the fact that the height is read
  before the rows. The disjunct for the subtraction that wraps is needed: TLC
  violates the property without it.
* `PromisesHold`: with `PromiseInv`: a coin that a draft holds or a block spends
  is still marked unless it lapsed, and a scan picks no marked coin.
* `SelectionsAreOptimal`: `adjust`, and the loop of `submit` that calls it, make
  a heap whose top is its smallest coin (`HeapBut`: a heap but for one coin that
  moves down). `Kept`, the invariant of the selector over the coins submitted so
  far, says that a coin that was dropped is no larger than any that is held, and
  that the guard covers the amount alone. `Passed`, that of the greedy pass, says that what is
  selected is too little and that each coin left out would have exceeded the
  amount; when the last coin does not close the gap, the last one left out does.
  That no K coins reach an amount the selection misses is an exchange argument:
  coins outside the held ones are worth no more than as many inside
  (`SelectionFits`, `ShortIsMost`).
* `CreationsAreBalanced`: each turn of `autoConstructTxInAndChangeTxOut` refuses,
  asks for a change at the same fee, asks for a larger fee that is at most
  `LargestFee`, or makes a balanced transaction (`AttemptIs`). So a turn that is
  tried again has a larger fee or, once, the same fee with a change, and the
  loop ends within twice `LargestFee` turns (`Turned`, `ConstructEnds`), which is
  why the model bounds it there. Shares of the fee that receivers pay are
  rounded up, so what they pay together covers it (`SharesCover`).
* `HistoriesAreNewest`: `Batches` says that what is taken is everything from
  `b.end` up and no more than wanted, `Selected` the same of the blocks of the
  last batch; `calc` starts the next batch where the last one began.
* `SelectionPicksOffered`, a lemma of the above: what a turn picks is among the
  coins it was offered. The interleaving proofs use nothing else of selection.

`ProcessProofs`, start and stop (any number of interrupts): `LifeInvariant`
(`LifeInv`: until the catcher runs `massMain` is alone; then the catcher has
stopped exactly what its program counter says) and `ClosesInOrder`, the safety
half of `ShutdownOrderly`.

`ProcessProofs`, batch binding (any clients, plot files, coins, prices and batch
size; from `BatchAssumption`: batches are not empty, no pool key is called
"none"):

* `CommandsInvariant`: `BatchInv` has three parts. Of a list, every plot looked at
  so far is bound or in `unbound`, and `unbound` names no target twice
  (`RemoveDuplicateIs`, `FilterIs`). Of the batches, the outputs are the last
  targets taken and everything sent was taken before them, so that sending them
  adds their number to the total. Of the node, a transaction that is no longer
  waited for has left the pool, and one that sets a coinbase leaves it for the
  chain only, where a later nonce follows it.
* `CountsAreBound`, the safety half of `BatchEndsCounted`: when the total is no
  less than the number of unbound targets, the targets sent are all of them
  (equally large finite sets, one inside the other), so "done" means bound unless
  a transaction was lost.

The inductive invariants were checked with TLC on the instances of the runs
before they were proved.

Only model-checked, and why:

* the liveness properties (`ReachesTip`, `ImportsFinish`, `RemovalsFinish`,
  `TasksFinish`, `WorkerGetsTurn`, `CreationEnds`, the liveness halves of `ShutdownOrderly` and
  `BatchEndsCounted`): liveness under fairness is outside the prover's reach;
* the ledger (`BucketsConsistent`, `UnminedFollowsChain`, `LedgerFollowsChain`,
  `RemovedLeavesNothing`, `QueriesAgree`): `removeConflict` is recursive over
  unconfirmed spenders, and what the folds over transactions compute needs
  induction over data;
* `AmountsFaithful`, `RowsFaithful`, `RequestHonoured`: the same, they compare
  conversions over sequences with references.

## What the models show beyond the properties

Behaviours of the code that a reader should know and that the properties except
or the models leave out.

Ledger and queries:

* rolling back the first use of an address deletes its record, also one that
  `NewAddress` had created, so `GetAddresses` no longer lists it
  (`txstore.go:823`, `wallet.go:827`): `Keystore` has it as `Rollback`, and
  `HandedOutKept` promises a row only to addresses nobody has paid. The model lets
  an address that was used stay used, since the payment is mined again; an import
  that writes an older payment after a newer one can lose a record in the same way;
* a transaction that is announced before but handled after its block is stored
  as unconfirmed and stays so, unless one of its outputs is still unspent
  (`utxostore.go:262`);
* an import reads blocks by height from the node, also from a branch that the
  wallet has not followed; if the node returns before the wallet reorganises,
  what was read stays. An output it missed makes the block that spends it fail
  with `ErrUnexpectedCreditNotFound`: during the import the import is dropped and
  the wallet is shown as syncing until the next start (`ntfnshandler.go:802`,
  "TODO: mark status failed"), later block processing fails, and after a crash
  `Start` too. A transaction that a stray range records a second time leaves a
  wrong balance after the reorganisation;
* a wallet can be queued for removal twice, and the second task deletes the
  wallet if it was imported again in between; a reorganisation between the
  phases of a removal writes rows for the wallet that nothing deletes, and a
  removal takes records of transactions that spend coins of other wallets
  (`removed_record`);
* `removeConflict` deletes the whole row of an input, `removeUnminedGameHistory`
  always uses output 0, `getUtxos` never sets `SpentByUnmined`;
* `GetBindingHistory` fails after a reorganisation un-mines a binding and
  whenever an unconfirmed binding spends an unconfirmed output;
* the API shows a staking as mature for the one block in which the balance
  already calls it withdrawable; `GetBlock` gives each transaction one
  confirmation, because it takes the block's own height for the best one.

Spending and requests:

* the unsigned number of confirmations wraps when two blocks arrive between the
  two reads (`utxostore.go:842`);
* creation fails with `ErrInsufficientFunds` when only a dust change is
  possible; `EstimateManualTxFee` fails for unmined inputs; a refusal of the fee
  leaves the coins marked (`tx_service.go:766`); `GetTransactionFee` of named
  inputs is a lower bound, since it leaves out the change;
* the model trims strings beforehand and fixes which of several bad map entries
  is reported (in Go, map order decides); duplicate inputs are not refused;
  `StringToAmount` accepts `""`, `"."` and signs inside numbers;
* `constructTxIn` refuses, in the model, inputs it cannot find; the code
  dereferences the missing block of an unmined binding input (`tx.go:94`) and
  indexes the outputs with an unchecked vout (`tx.go:81`). No request without a
  wallet in use is modelled (`ErrNoWalletInUse`);
* of `convertResponseError` only the errors these requests can meet are
  translated, not the other codes of `util.go:392-440`;
* the size that `PickedFee` charges for leaves out the payload (`common.go:171`)
  and the errors of `estimateSignedSize` (`common.go:166-170`), so
  `CreatedBalanced` says nothing about the extra fee a payload needs;
* `GetTxHistory` reads a wanted number of zero as the largest (`tx.go:723`) and
  skips a transaction that the node cannot fetch (`tx.go:850`); `HistoryNewest`
  is about a number that is given and a node that answers.

Keystores: `createManagerKeyScope` loops for ever on an invalid child;
`ChangePubPassphrase` and `ChangeRemark` have no callers and are modelled in
`Envelope` only; imports do not compare the two passphrases; the index map
confuses the branches, so `RestoreFindsUsed` excepts wallets with internal
addresses; a password check zeroes the master key under another request's
signature; `loadAddrManager` reads an open transaction's rows in map order, which
only matters for wallets with internal addresses; `UpdateManagedKeystores` and
`GetManagedAddrManager` do not take `km.mu` (the latter has no caller but a test,
a race of the former with a reader is among the crashes); `Wallets` fails for a
moment while the worker deletes a keystore.

Database: clients open a bucket before they use it and use none they have
deleted (the guard `Opens`); the leveldb driver makes a bucket of the same
transaction again without noticing; its read-only transactions are no
snapshots; its iterators show committed keys that the transaction has deleted.
Waiting for RocksDB's locks is not modelled. In `LedgerRows` timestamps are left
out.

Start and stop: an interrupt taken before the callback is registered makes
`massMain` return with open databases (`unheard`) or `Stop` panic; a
`QuitClient` before `addInterruptHandler` is lost; when the wallet fails to
start, its database is not closed and the node's are closed under its
goroutines. Handlers that outlive `rpcServer.Stop` are not modelled.

Batch binding: an empty last batch (`cmd_binding.go:499`) fails the command
after everything was sent; a lost transaction is only logged, so "done" may be
reported although its targets are unbound; one target that is bound already
drops its whole batch.

## Not modelled, and the plan

Left out for good: curve arithmetic, hashes and encryption (external, as terms
or small groups), word lists, generated protobuf code, the stateless commands
of the CLI, configuration, logging, Windows services, the node itself (external,
modelled as the wallet sees it).

Left open: a proof about the ledger for any chain. The first step would be
lemmas about what each bucket operation of `Ledger` leaves alone; the second an
invariant that ties every bucket to the blocks connected so far.
