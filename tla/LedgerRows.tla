----------------------------- MODULE LedgerRows -----------------------------
(***************************************************************************)
(* The rows of txmgr as bytes (utxostore_db.go, txstore_db.go).  Ledger    *)
(* keeps tuples; the program keeps byte strings, finds rows by prefixes of *)
(* their keys, cuts keys out of other rows' values, and lengthens and      *)
(* shortens values in place.                                               *)
(*                                                                         *)
(* Transactions are mined and rolled back; raw is what the buckets hold,   *)
(* chain what they should hold.  A byte has Byte values, and a field the   *)
(* number of bytes that its constant says.  The network serialisation of a *)
(* transaction is external.                                                *)
(***************************************************************************)
EXTENDS Naturals, Sequences, FiniteSets, SequencesExt, FiniteSetsExt, Functions, TLC

CONSTANTS
    Byte,                                   \* 256
    HashLen, HeightLen, IndexLen, AmountLen, WidLen,  \* 32, 8, 4, 8, 42
    Hash,       \* names of transactions and blocks -> their hashes
    RowTx,      \* transactions
    Ins,        \* tx -> Seq of <<tx, output index>> they spend
    Outs,       \* tx -> Seq of [wallet, address, amount, change, class, maturity]
    RowBlock,   \* name -> height
    BaseBlock,  \* the block below all of them, which is synced from the start
    Loc         \* tx -> block -> <<file, offset, length, start, length>>

VARIABLES
    raw,        \* bucket -> key bytes -> value bytes
    chain       \* Seq of [block, txs]: what was mined, lowest block first
rowVars == <<raw, chain>>

Empty == <<>>
PutRow(bucket, k, v) == (k :> v) @@ bucket
DropRow(bucket, k) == RestrictDomain(bucket, LAMBDA x : x # k)
GetRow(bucket, k) == IF k \in DOMAIN bucket THEN bucket[k] ELSE Empty
GetByPrefixOf(bucket, prefix) == {k \in DOMAIN bucket : IsPrefix(prefix, k)}
deleteByPrefix(bucket, prefix) == RestrictDomain(bucket, LAMBDA k : ~IsPrefix(prefix, k))

(* binary.BigEndian *)
PutUint(n, len) == [i \in 1..len |-> (n \div Byte^(len - i)) % Byte]
Uint(b) == FoldLeft(LAMBDA n, x : n * Byte + x, 0, b)
Cut(b, from, to) == SubSeq(b, from + 1, to)     \* b[from:to]

-----------------------------------------------------------------------------
(* Keys.  A credit and a debit have the same form.                         *)

canonicalOutPoint(t, index) == Hash[t] \o PutUint(index, IndexLen)
canonicalUnspentKey(w, t, index) == w \o canonicalOutPoint(t, index)

valueUnspent(b) == PutUint(RowBlock[b], HeightLen) \o Hash[b]

keyTxRecord(t, b) == Hash[t] \o valueUnspent(b)
keyCredit(t, index, b) == keyTxRecord(t, b) \o PutUint(index, IndexLen)
keyDebit(t, index, b) == keyCredit(t, index, b)

TxRecordLen == 2 * HashLen + HeightLen
CreditKeyLen == TxRecordLen + IndexLen
readRawCreditKey(k) ==
    [tx |-> Cut(k, 0, HashLen),
     height |-> Uint(Cut(k, HashLen, HashLen + HeightLen)),
     block |-> Cut(k, HashLen + HeightLen, TxRecordLen),
     index |-> Uint(Cut(k, TxRecordLen, CreditKeyLen))]
fetchTxRecordKeyFromRawCreditKey(k) == Cut(k, 0, TxRecordLen)
fetchNsUnspentValueFromRawCredit(k) == Cut(k, HashLen, TxRecordLen)

(* The credit key is put together from the unspent row's key and value. *)
existsRawUnspent(bucket, k) ==
    LET v == GetRow(bucket, k)
    IN  IF v = Empty THEN Empty
        ELSE Cut(k, WidLen, WidLen + HashLen) \o v
             \o Cut(k, WidLen + HashLen, WidLen + HashLen + IndexLen)
readCanonicalUnspentKey(k) ==
    [tx |-> Cut(k, WidLen, WidLen + HashLen),
     index |-> Uint(Cut(k, WidLen + HashLen, WidLen + HashLen + IndexLen))]

readUnminedCreditKey(k) ==
    [tx |-> Cut(k, 0, HashLen), index |-> Uint(Cut(k, HashLen, HashLen + IndexLen))]
readBlockOfUnspent(v) ==
    [height |-> Uint(Cut(v, 0, HeightLen)), block |-> Cut(v, HeightLen, HeightLen + HashLen)]

(* The withdrawn flag stands before the hash, so that a prefix selects. *)
Flag(bool) == IF bool THEN 1 ELSE 0
keyGameHistory(h) ==
    h.wallet \o <<Flag(h.isBinding), Flag(h.withdrawn)>> \o h.tx
    \o PutUint(h.height, HeightLen) \o PutUint(h.vout, IndexLen)
keyUnminedGameHistory(h) ==
    h.wallet \o <<Flag(h.isBinding), 0>> \o h.tx \o PutUint(h.vout, IndexLen)

GameHashAt == WidLen + 2
readGameHistory(isUnmined, k) ==
    LET at == GameHashAt + HashLen
        rest == IF isUnmined THEN at ELSE at + HeightLen
    IN  [wallet |-> Cut(k, 0, WidLen),
         isBinding |-> k[WidLen + 1] % 2 = 1,
         withdrawn |-> k[WidLen + 2] % 2 = 1,
         tx |-> Cut(k, GameHashAt, at),
         height |-> IF isUnmined THEN 0 ELSE Uint(Cut(k, at, rest)),
         vout |-> Uint(Cut(k, rest, rest + IndexLen))]

getRawGameHistoryByWalletId(bucket, w, isBinding, excludeWithdrawn) ==
    GetByPrefixOf(bucket, w \o <<Flag(isBinding)>> \o (IF excludeWithdrawn THEN <<0>> ELSE <<>>))

keyAddressRecord(out) == out.wallet \o <<Flag(out.class = "staking")>> \o out.address
fetchAddressesByWalletId(bucket, w) ==
    {[address |-> Cut(k, WidLen + 1, Len(k)), class |-> k[WidLen + 1], used |-> Uint(bucket[k]) > 0] :
        k \in GetByPrefixOf(bucket, w)}

-----------------------------------------------------------------------------
(* Values of credits: amount, flags, maturity, script hash and, once       *)
(* spent, the key of the debit.                                            *)

ClassBit == [std |-> 0, staking |-> 4, binding |-> 8]
FlagAt == AmountLen + 1
CreditLen == AmountLen + 1 + IndexLen + HashLen
valueUnspentCredit(out) ==
    PutUint(out.amount, AmountLen) \o <<(IF out.change THEN 2 ELSE 0) + ClassBit[out.class]>>
    \o PutUint(out.maturity, IndexLen) \o out.address
valueUnminedCredit(out) == valueUnspentCredit(out)
valueUnminedCreditFromMined(v) == Cut(v, 0, CreditLen)

readCreditValue(v) ==
    [amount |-> Uint(Cut(v, 0, AmountLen)),
     spent |-> v[FlagAt] % 2 = 1,
     change |-> (v[FlagAt] \div 2) % 2 = 1,
     class |-> CHOOSE c \in DOMAIN ClassBit : ClassBit[c] = ((v[FlagAt] \div 4) % 4) * 4,
     maturity |-> Uint(Cut(v, FlagAt, FlagAt + IndexLen)),
     script |-> Cut(v, FlagAt + IndexLen, CreditLen)]

fetchRawCreditAmountSpent(v) == <<Uint(Cut(v, 0, AmountLen)), v[FlagAt] % 2 = 1>>
fetchRawCreditMaturityScriptHash(v) ==
    <<Uint(Cut(v, FlagAt, FlagAt + IndexLen)), Cut(v, FlagAt + IndexLen, CreditLen)>>

readCreditSpender(v) ==
    IF Len(v) < CreditLen + CreditKeyLen THEN Empty
    ELSE Cut(v, CreditLen, CreditLen + CreditKeyLen)

SetSpent(v) == [v EXCEPT ![FlagAt] = IF @ % 2 = 0 THEN @ + 1 ELSE @]
ClearSpent(v) == [v EXCEPT ![FlagAt] = IF @ % 2 = 1 THEN @ - 1 ELSE @]

spendCredit(bucket, credKey, debKey) ==
    PutRow(bucket, credKey, SetSpent(bucket[credKey]) \o debKey)

(* Mutant form: only the flag is cleared. *)
KeepSpender(bucket, credKey) == PutRow(bucket, credKey, ClearSpent(bucket[credKey]))

unspendRawCredit(bucket, credKey) ==
    PutRow(bucket, credKey, ClearSpent(Cut(bucket[credKey], 0, CreditLen)))

putDebit(bucket, debKey, amount, credKey) ==
    PutRow(bucket, debKey, PutUint(amount, AmountLen) \o credKey)
existsDebit(bucket, debKey) ==
    LET v == GetRow(bucket, debKey)
    IN  IF v = Empty THEN Empty ELSE Cut(v, AmountLen, AmountLen + CreditKeyLen)

withdrawGame(bucket, h, withdrawn) ==
    PutRow(DropRow(bucket, keyGameHistory([h EXCEPT !.withdrawn = ~withdrawn])),
           keyGameHistory([h EXCEPT !.withdrawn = withdrawn]), <<0>>)

-----------------------------------------------------------------------------
(* Block records: hash, number of transactions, their hashes (the time of  *)
(* the block is left out).  Transaction records: where the block's file    *)
(* has the transaction.                                                    *)

LocWidth == <<IndexLen, HeightLen, HeightLen, IndexLen, IndexLen>>
LocAt(i) == FoldLeft(LAMBDA n, j : n + LocWidth[j], 0, [j \in 1..(i - 1) |-> j])
putTxRecord(bucket, t, b) ==
    PutRow(bucket, keyTxRecord(t, b),
           FlattenSeq([i \in DOMAIN LocWidth |-> PutUint(Loc[t][b][i], LocWidth[i])]))
readTxRecordLoc(v) == [i \in DOMAIN LocWidth |-> Uint(Cut(v, LocAt(i), LocAt(i) + LocWidth[i]))]
readTxRecordKey(k) == readBlockOfUnspent(Cut(k, HashLen, TxRecordLen))
fetchRawTxRecordByHashHeight(bucket, t, height) ==
    GetByPrefixOf(bucket, Hash[t] \o PutUint(height, HeightLen))
fetchLatestRawTxRecordOfHash(bucket, t) ==
    LET found == GetByPrefixOf(bucket, Hash[t])
    IN  {k \in found : \A o \in found : readTxRecordKey(o).height <= readTxRecordKey(k).height}

valueBlockRecord(b, t) == Hash[b] \o PutUint(1, IndexLen) \o Hash[t]
appendRawBlockRecord(v, t) ==
    Cut(v, 0, HashLen) \o PutUint(Uint(Cut(v, HashLen, HashLen + IndexLen)) + 1, IndexLen)
    \o Cut(v, HashLen + IndexLen, Len(v)) \o Hash[t]
readRawBlockRecord(k, v) ==
    LET n == Uint(Cut(v, HashLen, HashLen + IndexLen))
        at == HashLen + IndexLen
    IN  [height |-> Uint(k), block |-> Cut(v, 0, HashLen),
         txs |-> [i \in 1..n |-> Cut(v, at + (i - 1) * HashLen, at + i * HashLen)]]

(* The sync bucket: one row per height and the row syncedTo, under a name  *)
(* as long as a height.                                                    *)
SyncedToName == [i \in 1..HeightLen |-> Byte - 1]
putSyncedBucket(bucket, b) == PutRow(bucket, PutUint(RowBlock[b], HeightLen), Hash[b])
fetchSyncedBlock(bucket, height) == GetRow(bucket, PutUint(height, HeightLen))
fetchSyncedTo(bucket) == Uint(Cut(bucket[SyncedToName], 0, HeightLen))
putSyncedTo(bucket, b) ==
    PutRow(putSyncedBucket(bucket, b), SyncedToName, PutUint(RowBlock[b], HeightLen))
CanSyncTo(bucket, b) ==
    /\ RowBlock[b] > 0 => fetchSyncedBlock(bucket, RowBlock[b] - 1) # Empty
    /\ fetchSyncedBlock(bucket, RowBlock[b] + 1) = Empty
resetSyncedTo(bucket, height) ==
    LET gone == {PutUint(h, HeightLen) : h \in (height + 1)..fetchSyncedTo(bucket)}
    IN  PutRow(RestrictDomain(bucket, LAMBDA k : k \notin gone), SyncedToName, PutUint(height, HeightLen))

-----------------------------------------------------------------------------
OutOfPoint(op) == Outs[op[1]][op[2]]
GameOf(op, height) ==
    [wallet |-> OutOfPoint(op).wallet, isBinding |-> OutOfPoint(op).class = "binding",
     withdrawn |-> FALSE, tx |-> Hash[op[1]], height |-> height, vout |-> op[2]]
IsGameOut(op) == OutOfPoint(op).class # "std"
OutPoints(t) == {<<t, i>> : i \in DOMAIN Outs[t]}

(* updateMinedBalance for input i of t *)
SpendInput(s, t, i, b) ==
    LET op == Ins[t][i]
        k == canonicalUnspentKey(OutOfPoint(op).wallet, op[1], op[2])
        credKey == existsRawUnspent(s.unspent, k)
        h == GameOf(op, readRawCreditKey(credKey).height)
    IN  [s EXCEPT !.credits = spendCredit(@, credKey, keyDebit(t, i, b)),
                  !.game = IF IsGameOut(op) THEN withdrawGame(@, h, TRUE) ELSE @,
                  !.debits = putDebit(@, keyDebit(t, i, b), readCreditValue(s.credits[credKey]).amount, credKey),
                  !.unspent = DropRow(@, k)]

(* AddCredits for one output *)
AddCredit(s, op, b) ==
    LET out == OutOfPoint(op)
        a == keyAddressRecord(out)
    IN  [s EXCEPT !.credits = PutRow(@, keyCredit(op[1], op[2], b), valueUnspentCredit(out)),
                  !.unspent = PutRow(@, canonicalUnspentKey(out.wallet, op[1], op[2]), valueUnspent(b)),
                  !.unmined = DropRow(@, canonicalOutPoint(op[1], op[2])),
                  !.addresses = IF Uint(GetRow(@, a)) = 0
                                THEN PutRow(@, a, PutUint(RowBlock[b], HeightLen)) ELSE @,
                  !.game = IF IsGameOut(op) THEN PutRow(@, keyGameHistory(GameOf(op, RowBlock[b])), <<0>>) ELSE @,
                  !.unminedGame = DropRow(@, keyUnminedGameHistory(GameOf(op, 0)))]

BlockKey(b) == PutUint(RowBlock[b], HeightLen)

(* insertMinedTx and AddCredits *)
InsertMinedTx(s, t, b) ==
    LET v == GetRow(s.blocks, BlockKey(b))
        s1 == [s EXCEPT !.blocks = PutRow(@, BlockKey(b), IF v = Empty THEN valueBlockRecord(b, t)
                                                          ELSE appendRawBlockRecord(v, t)),
                        !.txRecords = putTxRecord(@, t, b)]
        s2 == FoldLeft(LAMBDA acc, i : SpendInput(acc, t, i, b), s1, [i \in DOMAIN Ins[t] |-> i])
    IN  FoldLeft(LAMBDA acc, i : AddCredit(acc, <<t, i>>, b), s2, [i \in DOMAIN Outs[t] |-> i])

(* Rollback, one input and one output of t *)
RestoreInput(s, t, i, b) ==
    LET op == Ins[t][i]
        debKey == keyDebit(t, i, b)
        credKey == existsDebit(s.debits, debKey)
        k == canonicalUnspentKey(OutOfPoint(op).wallet, op[1], op[2])
        h == GameOf(op, readRawCreditKey(credKey).height)
    IN  [s EXCEPT !.debits = DropRow(@, debKey),
                  !.credits = unspendRawCredit(@, credKey),
                  !.unspent = PutRow(@, k, fetchNsUnspentValueFromRawCredit(credKey)),
                  !.game = IF IsGameOut(op) THEN withdrawGame(@, h, FALSE) ELSE @]

TakeCredit(s, op, b) ==
    LET out == OutOfPoint(op)
        k == keyCredit(op[1], op[2], b)
        a == keyAddressRecord(out)
    IN  [s EXCEPT !.credits = DropRow(@, k),
                  !.unmined = PutRow(@, canonicalOutPoint(op[1], op[2]), valueUnminedCreditFromMined(s.credits[k])),
                  !.unspent = DropRow(@, canonicalUnspentKey(out.wallet, op[1], op[2])),
                  !.addresses = IF GetRow(@, a) # Empty /\ Uint(GetRow(@, a)) = RowBlock[b]
                                THEN DropRow(@, a) ELSE @,
                  !.game = IF IsGameOut(op) THEN DropRow(@, keyGameHistory(GameOf(op, RowBlock[b]))) ELSE @,
                  !.unminedGame = IF IsGameOut(op)
                                  THEN PutRow(@, keyUnminedGameHistory(GameOf(op, 0)), <<0>>) ELSE @]

RollbackTx(s, t, b) ==
    LET s1 == [s EXCEPT !.txRecords = DropRow(@, keyTxRecord(t, b))]
        s2 == FoldLeft(LAMBDA acc, i : RestoreInput(acc, t, i, b), s1, [i \in DOMAIN Ins[t] |-> i])
    IN  FoldLeft(LAMBDA acc, i : TakeCredit(acc, <<t, i>>, b), s2, [i \in DOMAIN Outs[t] |-> i])

-----------------------------------------------------------------------------
Mined == UNION {ToSet(chain[n].txs) : n \in DOMAIN chain}

Top == IF chain = <<>> THEN BaseBlock ELSE Last(chain).block

(* filterBlock ends with SetSyncedTo, also when no transaction matters. *)
ConnectBlock(b) ==
    /\ RowBlock[b] = RowBlock[Top] + 1
    /\ CanSyncTo(raw.sync, b)
    /\ chain' = Append(chain, [block |-> b, txs |-> <<>>])
    /\ raw' = [raw EXCEPT !.sync = putSyncedTo(@, b)]

ConnectTx(t) ==
    /\ chain # <<>>
    /\ t \notin Mined
    /\ \A i \in DOMAIN Ins[t] : Ins[t][i][1] \in Mined
    /\ chain' = [chain EXCEPT ![Len(chain)].txs = Append(@, t)]
    /\ raw' = InsertMinedTx(raw, t, Top)

(* addUnminedCredits *)
ReceiveTx(t) ==
    LET op(i) == <<t, i>>
        k(i) == canonicalOutPoint(t, i)
    IN  /\ t \notin Mined
        /\ \A i \in DOMAIN Outs[t] : k(i) \notin DOMAIN raw.unmined     \* duplicate unmined credit
        /\ raw' = FoldLeft(LAMBDA s, i :
                     [s EXCEPT !.unmined = PutRow(@, k(i), valueUnminedCredit(Outs[t][i])),
                               !.unminedGame = IF IsGameOut(op(i))
                                 THEN PutRow(@, keyUnminedGameHistory(GameOf(op(i), 0)), <<0>>) ELSE @],
                     raw, [i \in DOMAIN Outs[t] |-> i])
        /\ UNCHANGED chain

(* disconnectBlock: Rollback undoes the transactions of the block, last    *)
(* one first, and ResetSyncedTo lowers the position.                       *)
RollbackBlock ==
    /\ chain # <<>>
    /\ LET top == Last(chain)
           s == FoldLeft(LAMBDA acc, t : RollbackTx(acc, t, top.block), raw, Reverse(top.txs))
       IN  raw' = [s EXCEPT !.blocks = DropRow(@, BlockKey(top.block)),
                            !.sync = resetSyncedTo(@, RowBlock[top.block] - 1)]
    /\ chain' = Front(chain)

RowsInit ==
    /\ chain = <<>>
    /\ raw = [b \in {"credits", "debits", "unspent", "unmined", "game", "unminedGame",
                     "addresses", "blocks", "txRecords", "sync"} |->
                IF b = "sync" THEN putSyncedTo(<<>>, BaseBlock) ELSE <<>>]

RowsNext ==
    \/ RollbackBlock
    \/ \E b \in DOMAIN RowBlock : ConnectBlock(b)
    \/ \E t \in RowTx : ReceiveTx(t) \/ ConnectTx(t)

-----------------------------------------------------------------------------
MinedIn(t) == chain[CHOOSE n \in DOMAIN chain : t \in ToSet(chain[n].txs)].block
SpendersOf(op) == {<<t, i>> \in UNION {{<<t, i>> : i \in DOMAIN Ins[t]} : t \in Mined} : Ins[t][i] = op}
Points == UNION {OutPoints(t) : t \in Mined}

Decoded(out, spent) ==
    [amount |-> out.amount, spent |-> spent, change |-> out.change,
     class |-> out.class, maturity |-> out.maturity, script |-> out.address]

CreditFaithful(op) ==
    LET out == OutOfPoint(op)
        b == MinedIn(op[1])
        k == keyCredit(op[1], op[2], b)
        v == GetRow(raw.credits, k)
        u == canonicalUnspentKey(out.wallet, op[1], op[2])
        key == readRawCreditKey(k)
    IN  /\ v # Empty
        /\ key = [tx |-> Hash[op[1]], height |-> RowBlock[b], block |-> Hash[b], index |-> op[2]]
        /\ readCreditValue(v) = Decoded(out, SpendersOf(op) # {})
        /\ fetchRawCreditAmountSpent(v) = <<out.amount, SpendersOf(op) # {}>>
        /\ fetchRawCreditMaturityScriptHash(v) = <<out.maturity, out.address>>
        /\ fetchTxRecordKeyFromRawCreditKey(k) \in DOMAIN raw.txRecords
        /\ fetchRawTxRecordByHashHeight(raw.txRecords, op[1], RowBlock[b]) = {keyTxRecord(op[1], b)}
        /\ fetchLatestRawTxRecordOfHash(raw.txRecords, op[1]) = {keyTxRecord(op[1], b)}
        /\ readTxRecordLoc(raw.txRecords[keyTxRecord(op[1], b)]) = Loc[op[1]][b]
        /\ IF SpendersOf(op) = {}
           THEN /\ existsRawUnspent(raw.unspent, u) = k
                /\ readCanonicalUnspentKey(u) = [tx |-> Hash[op[1]], index |-> op[2]]
                /\ readBlockOfUnspent(raw.unspent[u]) = [height |-> RowBlock[b], block |-> Hash[b]]
                /\ readCreditSpender(v) = Empty
           ELSE /\ u \notin DOMAIN raw.unspent
                /\ \E d \in SpendersOf(op) :
                      /\ readCreditSpender(v) = keyDebit(d[1], d[2], MinedIn(d[1]))
                      /\ existsDebit(raw.debits, readCreditSpender(v)) = k

GameRows(w, isBinding, withdrawn) ==
    {[GameOf(op, RowBlock[MinedIn(op[1])]) EXCEPT !.withdrawn = (SpendersOf(op) # {})] :
        op \in {o \in Points : /\ IsGameOut(o) /\ OutOfPoint(o).wallet = w
                               /\ (OutOfPoint(o).class = "binding") = isBinding
                               /\ SpendersOf(o) = {} \/ withdrawn}}

Wids == {OutOfPoint(op).wallet : op \in UNION {OutPoints(t) : t \in RowTx}}

(* An unconfirmed output is unspent, whatever it was before. *)
UnminedFaithful(k) ==
    \E op \in UNION {OutPoints(t) : t \in RowTx \ Mined} :
        /\ k = canonicalOutPoint(op[1], op[2])
        /\ readUnminedCreditKey(k) = [tx |-> Hash[op[1]], index |-> op[2]]
        /\ readCreditValue(raw.unmined[k]) = Decoded(OutOfPoint(op), FALSE)
        /\ IsGameOut(op) => \E g \in DOMAIN raw.unminedGame : readGameHistory(TRUE, g) = GameOf(op, 0)

(* The bytes say what the tuples of Ledger say, whatever was mined, spent  *)
(* and rolled back before: every credit of the chain is decoded to its     *)
(* output, its unspent row or its debit leads back to it and there are no  *)
(* other rows; the block records list their transactions; the scans by     *)
(* wallet, kind and withdrawn flag find exactly their rows; a wallet's     *)
(* used addresses are those the chain pays; the sync rows are the blocks   *)
(* of the chain.                                                           *)
RowsFaithful ==
    /\ \A op \in Points : CreditFaithful(op)
    /\ Cardinality(DOMAIN raw.credits) = Cardinality(Points)
    /\ Cardinality(DOMAIN raw.unspent) = Cardinality({op \in Points : SpendersOf(op) = {}})
    /\ Cardinality(DOMAIN raw.debits) = Cardinality({op \in Points : SpendersOf(op) # {}})
    /\ {readRawBlockRecord(k, raw.blocks[k]) : k \in DOMAIN raw.blocks} =
         {[height |-> RowBlock[chain[n].block], block |-> Hash[chain[n].block],
           txs |-> [i \in DOMAIN chain[n].txs |-> Hash[chain[n].txs[i]]]] :
             n \in {m \in DOMAIN chain : chain[m].txs # <<>>}}
    /\ fetchSyncedTo(raw.sync) = RowBlock[Top]
    /\ \A n \in DOMAIN chain : fetchSyncedBlock(raw.sync, RowBlock[chain[n].block]) = Hash[chain[n].block]
    /\ Cardinality(DOMAIN raw.sync) = Len(chain) + 2
    /\ \A w \in Wids, isBinding, exclude \in BOOLEAN :
         {readGameHistory(FALSE, k) : k \in getRawGameHistoryByWalletId(raw.game, w, isBinding, exclude)}
           = GameRows(w, isBinding, ~exclude)
    /\ \A w \in Wids :
         {a.address : a \in fetchAddressesByWalletId(raw.addresses, w)} =
           {OutOfPoint(op).address : op \in {o \in Points : OutOfPoint(o).wallet = w}}
    /\ \A k \in DOMAIN raw.unmined : UnminedFaithful(k)
    /\ \A w \in Wids : deleteByPrefix(raw.unspent, w) =
         RestrictDomain(raw.unspent, LAMBDA k : \E op \in Points :
             OutOfPoint(op).wallet # w /\ k = canonicalUnspentKey(OutOfPoint(op).wallet, op[1], op[2]))
=============================================================================
