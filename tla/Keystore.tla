----------------------------- MODULE Keystore -----------------------------
(***************************************************************************)
(* The keystores: KeystoreManager and AddrManager (masswallet/keystore)    *)
(* and the WalletManager requests that use them.                           *)
(*                                                                         *)
(* Three kinds of actors share the manager.  Requests that hold w.mu run   *)
(* one at a time; each opens one write transaction, changes the cached     *)
(* keystores while it is open, and commits or fails.  The worker goroutine *)
(* deletes keystores in transactions of its own.  Signers hold no lock     *)
(* between two signatures.  The methods of KeystoreManager are atomic,     *)
(* because they hold km.mu.  Two do not: GetManagedAddrManager, which only *)
(* a test calls, and UpdateManagedKeystores, which puts or deletes one     *)
(* entry; when it races on the Go map the process ends, which is Crash.    *)
(*                                                                         *)
(* The block handler writes address rows too: AddCredits when a payment is *)
(* recorded, Rollback when its block leaves the chain.  The payment itself *)
(* is mined again: an address once used stays used.  ChangePrivPassphrase  *)
(* is left out, it refuses every keystore of the only version; so are      *)
(* ChangePubPassphrase and ChangeRemark, which nothing calls.              *)
(***************************************************************************)
EXTENDS Naturals, FiniteSets, FiniteSetsExt, Functions

CONSTANTS
    Wallet,             \* accounts, one per seed
    Signer,             \* goroutines inside SignRawTx
    AddressGapLimit,    \* 20
    ExternalIndexes, InternalIndexes,   \* of keystore files and ImportMnemonic requests
    None,
    Payees,             \* bound: <<wallet, branch, index>> the chain may see used
    MaxIndex,           \* bound: addresses of a branch, 1 if no payee is the wallet's
    MaxFault            \* bound: failing commits and crashes

ASSUME KeystoreAssumption ==
    /\ AddressGapLimit \in Nat /\ AddressGapLimit > 1     \* config.CheckConfig
    /\ ExternalIndexes \subseteq Nat /\ InternalIndexes \subseteq Nat
    /\ None \notin Wallet
    /\ MaxIndex \in Nat
    /\ \A a \in Payees : a = <<a[1], a[2], a[3]>> /\ a[3] \in 0..MaxIndex

VARIABLES
    db,         \* committed: aid and account buckets, wallet status, address rows
    tx,         \* the open write transaction, or NoTx
    cache,      \* km.managedKeystores
    current,    \* km.currentKeystore
    api,        \* the request that holds w.mu
    worker,     \* the wallet that asyncRemove works on and where it is
    signer,     \* signer -> "idle", "signing" or "failed"
    password,   \* signer -> the request has the right passphrase
    used,       \* external: addresses used on the chain
    handed,     \* addresses the user was told, per life of a wallet
    hint,       \* ExternalIndex the wallet was restored with, 0: no such seed yet
    faults

mem == <<cache, current, signer, password>>
vars == <<db, tx, mem, api, worker, used, handed, hint, faults>>

External == 0
Internal == 1
Bound(w) == IF \E a \in Payees : a[1] = w THEN MaxIndex ELSE 1
Atleast1(n) == IF n = 0 THEN 1 ELSE n
With(f, x, v) == [y \in DOMAIN f \cup {x} |-> IF y = x THEN v ELSE f[y]]

-----------------------------------------------------------------------------
(* AddrManager: the lock and the passphrase.  masterKey: masterKeyPriv     *)
(* holds the key of the passphrase (zeros, or the key of a wrong one,      *)
(* otherwise); privKeys: private branch and address keys are kept.         *)

clearPrivKeys(am) == [am EXCEPT !.unlocked = FALSE, !.masterKey = FALSE, !.privKeys = FALSE]

checkPassword(am, right) == IF am.unlocked THEN am ELSE [am EXCEPT !.masterKey = right]

safelyCheckPassword(am, right) ==
    IF right THEN [am EXCEPT !.masterKey = FALSE] ELSE checkPassword(am, right)

(* After the passphrase was right: mark unlocked, then getPrivKeyBtcec. *)
CanDerive(am) == am.privKeys \/ am.masterKey
signBtcec(am) == [am EXCEPT !.unlocked = TRUE, !.privKeys = CanDerive(am)]

-----------------------------------------------------------------------------
(* Addresses.  The pub bucket keeps <<branch, index>> per address.         *)

Rows(ext, int) == ({External} \X (0..(ext - 1))) \cup ({Internal} \X (0..(int - 1)))

(* The loop of createManagerKeyScope ends at the first index that is a gap *)
(* away from both the number asked for and the last used address.          *)
NextIndex(w, branch, n) ==
    Max({0} \cup {i + 1 : i \in {j \in 0..(n - 1) : <<w, branch, j>> \in used}})
Scanned(w, branch, num) ==
    Min({n \in 0..(MaxIndex + num + AddressGapLimit + 1) :
            n >= Max({NextIndex(w, branch, n), num}) + AddressGapLimit})
ChildNum(w, branch, num) ==
    IF num = 0 THEN 0 ELSE Max({NextIndex(w, branch, Scanned(w, branch, num)), num})

createManagerKeyScope(d, w, ext, int) ==
    LET e == ChildNum(w, External, ext)
        i == ChildNum(w, Internal, int)
    IN  [d EXCEPT !.aid = @ \cup {w},
                  !.stored = With(@, w, [ext |-> e, int |-> i, pubs |-> Rows(e, i)])]

(* The index map has one entry per index.  Internal rows are read last, as *)
(* committed rows are; those of an open transaction come in any order,     *)
(* which only a wallet with internal addresses can tell.                   *)
loadAddrManager(k) ==
    [addrs |-> k.pubs,
     index |-> [i \in {a[2] : a \in k.pubs} |-> Max({a[1] : a \in {b \in k.pubs : b[2] = i}})],
     unlocked |-> FALSE, masterKey |-> FALSE, privKeys |-> FALSE]

(* Mutant form: the window starts one index too early. *)
WideWindow(next) == (IF next > AddressGapLimit THEN next - AddressGapLimit - 1 ELSE 0)..(next - 1)

GapWindow(next) == (next - AddressGapLimit)..(next - 1)

(* nextAddresses for one external address *)
WithinGap(w, am, next) ==
    \/ next = 0
    \/ next + 1 <= AddressGapLimit
    \/ \E i \in GapWindow(next) \cap DOMAIN am.index : <<w, am.index[i], i>> \in used

(* Mutant form: the public key of the new address is not stored. *)
NoPubKey(d, w) == [d EXCEPT !.stored[w].ext = @ + 1]

nextAddresses(d, w) ==
    LET k == d.stored[w]
    IN  [d EXCEPT !.stored[w] = [k EXCEPT !.pubs = @ \cup {<<External, k.ext>>}, !.ext = @ + 1]]

updateManagedAddress(am, i) ==
    [am EXCEPT !.addrs = @ \cup {<<External, i>>}, !.index = With(@, i, External)]

(* UtxoStore.PutNewAddress *)
PutNewAddress(d, w, as) == [d EXCEPT !.rows = @ \cup {<<w, a>> : a \in as}]

-----------------------------------------------------------------------------
(* Requests that hold w.mu.  A second write transaction has to wait.       *)

NoTx == [by |-> "none"]
CanBegin == tx = NoTx
Request == api = [pc |-> "idle", w |-> None] /\ CanBegin

Begin(who, d, w) == tx' = [by |-> who, w |-> w, db |-> d]

(* CreateWallet, ImportWallet, ImportWalletWithMnemonic: the keystore is   *)
(* cached before the transaction commits.                                  *)
AddKeystore(w, ext, int) ==
    LET d == createManagerKeyScope(db, w, ext, int)
        as == d.stored[w].pubs
        state == IF as = {} THEN "ready" ELSE "importing"
    IN  /\ Request
        /\ w \notin db.aid              \* ErrDuplicateSeed
        /\ d.stored[w].ext <= Bound(w) /\ d.stored[w].int <= Bound(w)
        /\ Begin("api", PutNewAddress([d EXCEPT !.status = With(@, w, state)], w, as), w)
        /\ cache' = With(cache, w, loadAddrManager(d.stored[w]))
        /\ api' = [pc |-> "add", w |-> w]
        /\ hint' = [hint EXCEPT ![w] = Atleast1(ext)]
        /\ UNCHANGED <<db, current, signer, password, worker, used, handed, faults>>

CreateWallet(w) == hint[w] = 0 /\ AddKeystore(w, 0, 0)

ImportWalletWithMnemonic(w, ext, int) == AddKeystore(w, Atleast1(ext), int)

(* A keystore file has the indexes the wallet had when it was exported. *)
ImportWallet(w, ext, int) == AddKeystore(w, Atleast1(ext), int)

NewAddress ==
    LET w == current
        next == db.stored[w].ext
    IN  /\ Request
        /\ current # None
        /\ WithinGap(w, cache[w], next)
        /\ next < Bound(w)
        /\ Begin("api", PutNewAddress(nextAddresses(db, w), w, {<<External, next>>}), w)
        /\ cache' = [cache EXCEPT ![w] = updateManagedAddress(@, next)]
        /\ api' = [pc |-> "address", w |-> w]
        /\ UNCHANGED <<db, current, signer, password, worker, used, handed, hint, faults>>

(* The end of mwdb.Update for a request, and its answer. *)
Commit ==
    /\ tx.by = "api"
    /\ db' = tx.db
    /\ tx' = NoTx
    /\ api' = [pc |-> "idle", w |-> None]
    /\ handed' = handed \cup {<<tx.w, a>> : a \in cache[tx.w].addrs}
    /\ UNCHANGED <<mem, worker, used, hint, faults>>

CommitFails ==
    /\ tx.by = "api"
    /\ faults < MaxFault
    /\ faults' = faults + 1
    /\ tx' = NoTx
    /\ api' = IF api.pc = "add" THEN [api EXCEPT !.pc = "repair"] ELSE [pc |-> "idle", w |-> None]
    /\ UNCHANGED <<db, mem, worker, used, handed, hint>>

(* Mutant form: the error is returned without touching the cache. *)
KeepCached(w) == cache

Uncached(w) == Restrict(cache, DOMAIN cache \ {w})

RemoveCachedKeystore ==
    /\ api.pc = "repair"
    /\ cache' = Uncached(api.w)
    /\ api' = [pc |-> "idle", w |-> None]
    /\ UNCHANGED <<db, tx, current, signer, password, worker, used, handed, hint, faults>>

UseKeystoreForWallet(w) == w \in DOMAIN cache /\ current' = w

UseWallet(w) ==
    /\ api.pc = "idle"
    /\ w \in DOMAIN db.status /\ db.status[w] = "ready"     \* CheckReady
    /\ UseKeystoreForWallet(w)
    /\ UNCHANGED <<db, tx, cache, signer, password, api, worker, used, handed, hint, faults>>

CheckPrivPassphrase(w, right) ==
    /\ w \in DOMAIN cache
    /\ cache' = [cache EXCEPT ![w] = safelyCheckPassword(@, right)]

(* CheckPrivPassphrase, then OnRemoveWallet marks the wallet. *)
RemoveWallet(w, right) ==
    /\ Request
    /\ CheckPrivPassphrase(w, right)
    /\ db' = IF right /\ db.status[w] \in {"ready", "removed"}
             THEN [db EXCEPT !.status[w] = "removed"] ELSE db
    /\ UNCHANGED <<tx, current, signer, password, api, worker, used, handed, hint, faults>>

(* Requests with the read lock of w.mu *)
ExportWallet(w, right) ==
    /\ api.pc = "idle"
    /\ w \in DOMAIN cache
    /\ cache' = [cache EXCEPT ![w] = safelyCheckPassword(@, right)]
    /\ UNCHANGED <<db, tx, current, signer, password, api, worker, used, handed, hint, faults>>

(* Mutant form: the master key is not zeroed on return. *)
LeaveDerived(am, right) == checkPassword(am, right)

getMnemonic(am, right) ==
    IF am.unlocked THEN am ELSE [am EXCEPT !.masterKey = FALSE]

GetMnemonic(w, right) ==
    /\ api.pc = "idle"
    /\ w \in DOMAIN cache
    /\ cache' = [cache EXCEPT ![w] = getMnemonic(@, right)]
    /\ UNCHANGED <<db, tx, current, signer, password, api, worker, used, handed, hint, faults>>

(* WalletManager.Wallets: every status row needs its cached keystore.  The *)
(* worker holds no w.mu, so a removal can come between.                    *)
Unlisted == {w \in DOMAIN db.status : w \notin DOMAIN cache}
Wallets == IF Unlisted = {} THEN db.status ELSE <<>>

(* APIServer.Wallets *)
ShownStatus(st) == IF st = "removed" THEN "removing" ELSE st
ListedAs(w) == IF w \in DOMAIN Wallets THEN ShownStatus(Wallets[w]) ELSE "missing"

-----------------------------------------------------------------------------
(* The worker: an import ends; a marked wallet is removed.                 *)

ImportDone(w) ==
    /\ CanBegin
    /\ w \in DOMAIN db.status /\ db.status[w] = "importing"
    /\ db' = [db EXCEPT !.status[w] = "ready"]
    /\ UNCHANGED <<tx, mem, api, worker, used, handed, hint, faults>>

(* asyncRemove, first phase *)
RemoveAddresses(w) ==
    /\ worker.pc = "idle" /\ CanBegin
    /\ w \in DOMAIN db.status /\ db.status[w] = "removed"
    /\ w \in DOMAIN cache
    /\ db' = [db EXCEPT !.rows = {r \in @ : r[1] # w}]
    /\ worker' = [pc |-> "delete", w |-> w]
    /\ UNCHANGED <<tx, mem, api, used, handed, hint, faults>>

(* asyncRemove, last turn of the second phase *)
DeleteKeystore ==
    LET w == worker.w
        Without(f) == Restrict(f, DOMAIN f \ {w})
    IN  /\ worker.pc = "delete" /\ CanBegin
        /\ w \in DOMAIN cache
        /\ Begin("worker", [db EXCEPT !.status = Without(@), !.stored = Without(@), !.aid = @ \ {w}], w)
        /\ cache' = Without(cache)
        /\ current' = IF current = w THEN None ELSE current
        /\ worker' = [worker EXCEPT !.pc = "commit"]
        /\ UNCHANGED <<db, signer, password, api, used, handed, hint, faults>>

DeleteCommits ==
    /\ worker.pc = "commit"
    /\ db' = tx.db
    /\ tx' = NoTx
    /\ worker' = [pc |-> "idle", w |-> None]
    /\ handed' = {h \in handed : h[1] # worker.w}
    /\ UNCHANGED <<mem, api, used, hint, faults>>

DeleteFails ==
    /\ worker.pc = "commit"
    /\ faults < MaxFault
    /\ faults' = faults + 1
    /\ tx' = NoTx
    /\ worker' = [worker EXCEPT !.pc = "reload"]
    /\ UNCHANGED <<db, mem, api, used, handed, hint>>

(* The removal failed; the task is queued again. *)
UpdateManagedKeystores ==
    LET w == worker.w
    IN  /\ worker.pc = "reload"
        /\ cache' = IF w \in DOMAIN db.stored /\ w \notin DOMAIN cache
                    THEN With(cache, w, loadAddrManager(db.stored[w])) ELSE cache
        /\ worker' = [pc |-> "idle", w |-> None]
        /\ UNCHANGED <<db, tx, current, signer, password, api, used, handed, hint, faults>>

-----------------------------------------------------------------------------
(* Signing, without w.mu                                                   *)

SignRawTx(s, right) ==
    /\ signer[s] = "idle"
    /\ current # None
    /\ signer' = [signer EXCEPT ![s] = "signing"]
    /\ password' = [password EXCEPT ![s] = right]
    /\ UNCHANGED <<db, tx, cache, current, api, worker, used, handed, hint, faults>>

(* signWitnessTx for one input of the wallet in use *)
SignHash(s) ==
    LET am == checkPassword(cache[current], password[s])
        ok == password[s] /\ CanDerive(am)
    IN  /\ signer[s] = "signing"
        /\ current # None
        /\ cache[current].addrs # {}
        /\ cache' = [cache EXCEPT ![current] = IF password[s] THEN signBtcec(am) ELSE am]
        /\ signer' = IF ok THEN signer ELSE [signer EXCEPT ![s] = "failed"]
        /\ UNCHANGED <<db, tx, current, password, api, worker, used, handed, hint, faults>>

(* The deferred ClearPrivKey at the end of signWitnessTx *)
ClearPrivKey(s) ==
    /\ signer[s] # "idle"
    /\ cache' = [w \in DOMAIN cache |-> clearPrivKeys(cache[w])]
    /\ signer' = [signer EXCEPT ![s] = "idle"]
    /\ password' = [password EXCEPT ![s] = FALSE]
    /\ UNCHANGED <<db, tx, current, api, worker, used, handed, hint, faults>>

-----------------------------------------------------------------------------
(* The environment                                                         *)

UseAddress(a) ==
    /\ hint[a[1]] # 0
    /\ a \notin used
    /\ used' = used \cup {a}
    /\ UNCHANGED <<db, tx, mem, api, worker, handed, hint, faults>>

(* The block handler records a payment, or takes it back: a row without a  *)
(* recorded payment is put anew, the row of a first payment is deleted.    *)
Managed(a) == a[1] \in DOMAIN cache /\ <<a[2], a[3]>> \in cache[a[1]].addrs
RowOf(a) == <<a[1], <<a[2], a[3]>>>>

AddCredits(a) ==
    /\ CanBegin
    /\ a \in used /\ Managed(a)
    /\ a[1] \in DOMAIN db.status /\ db.status[a[1]] # "removed"
    /\ db' = [db EXCEPT !.rows = @ \cup {RowOf(a)}]
    /\ UNCHANGED <<tx, mem, api, worker, used, handed, hint, faults>>

Rollback(a) ==
    /\ CanBegin
    /\ a \in used /\ Managed(a)
    /\ db' = [db EXCEPT !.rows = @ \ {RowOf(a)}]
    /\ UNCHANGED <<tx, mem, api, worker, used, handed, hint, faults>>

(* NewKeystoreManager reads what was committed. *)
Restart ==
    /\ tx' = NoTx
    /\ cache' = [w \in db.aid |-> loadAddrManager(db.stored[w])]
    /\ current' = None
    /\ signer' = [s \in Signer |-> "idle"]
    /\ password' = [s \in Signer |-> FALSE]
    /\ api' = [pc |-> "idle", w |-> None]
    /\ worker' = [pc |-> "idle", w |-> None]
    /\ UNCHANGED <<db, used, handed, hint>>

Crash ==
    /\ faults < MaxFault
    /\ faults' = faults + 1
    /\ Restart

(* The worker deleted the wallet in use while it signs: the script closure *)
(* of signWitnessTx calls Address on the nil keystore of CurrentKeystore.  *)
SignPanics(s) ==
    /\ signer[s] = "signing"
    /\ current = None
    /\ Restart
    /\ UNCHANGED faults

-----------------------------------------------------------------------------
Init ==
    /\ db = [aid |-> {}, stored |-> <<>>, status |-> <<>>, rows |-> {}]
    /\ tx = NoTx
    /\ cache = <<>> /\ current = None
    /\ signer = [s \in Signer |-> "idle"] /\ password = [s \in Signer |-> FALSE]
    /\ api = [pc |-> "idle", w |-> None]
    /\ worker = [pc |-> "idle", w |-> None]
    /\ used = {} /\ handed = {}
    /\ hint = [w \in Wallet |-> 0]
    /\ faults = 0

Next ==
    \/ \E w \in Wallet :
        \/ CreateWallet(w) \/ UseWallet(w) \/ ImportDone(w) \/ RemoveAddresses(w)
        \/ \E ext \in ExternalIndexes, int \in InternalIndexes :
            ImportWallet(w, ext, int) \/ ImportWalletWithMnemonic(w, ext, int)
        \/ \E right \in BOOLEAN :
            RemoveWallet(w, right) \/ ExportWallet(w, right) \/ GetMnemonic(w, right)
    \/ \E a \in Payees : UseAddress(a) \/ AddCredits(a) \/ Rollback(a)
    \/ NewAddress \/ Commit \/ CommitFails \/ RemoveCachedKeystore
    \/ DeleteKeystore \/ DeleteCommits \/ DeleteFails \/ UpdateManagedKeystores
    \/ \E s \in Signer :
        \/ \E right \in BOOLEAN : SignRawTx(s, right)
        \/ SignHash(s) \/ ClearPrivKey(s) \/ SignPanics(s)
    \/ Crash

Spec == Init /\ [][Next]_vars

-----------------------------------------------------------------------------
Settled == tx = NoTx /\ api.pc = "idle" /\ worker.pc # "reload"

(* The cached keystores are the stored ones.  A request or a removal       *)
(* changes the cache before its transaction ends; once the transaction has *)
(* committed, or failed and been repaired, both hold the same keystores.   *)
(* After a failed NewAddress the cache may know the next address of the    *)
(* wallet and no other, and the wallet in use is always a cached one.  So  *)
(* Wallets answers, with every stored wallet, whenever no removal is       *)
(* deleting a keystore; and the wallet in use is not shown as importing.   *)
CacheMatchesStore ==
    /\ Settled => DOMAIN cache = DOMAIN db.stored /\ DOMAIN db.stored = db.aid
    /\ \A w \in DOMAIN cache \cap DOMAIN db.stored :
        /\ db.stored[w].pubs \subseteq cache[w].addrs
        /\ cache[w].addrs \ db.stored[w].pubs \subseteq {<<External, db.stored[w].ext>>}
    /\ current # None => current \in DOMAIN cache
    /\ worker.pc \notin {"commit", "reload"} => Unlisted = {}
    /\ Settled => \A w \in db.aid : ListedAs(w) # "missing"
    /\ Settled /\ current # None => ListedAs(current) \in {"ready", "removing"}

(* An address that a user was told stays with the wallet: it is stored, so *)
(* that a restart finds it.  Until the wallet is being removed it also has *)
(* the row that GetAddresses starts from, as long as nobody has paid it:   *)
(* only Rollback of a payment may take the row, nothing else that writes   *)
(* rows or fails half way does.                                            *)
HandedOutKept ==
    \A h \in handed :
        /\ h[1] \in DOMAIN db.stored /\ h[2] \in db.stored[h[1]].pubs
        /\ db.status[h[1]] # "removed" =>
            h \in db.rows \/ <<h[1], h[2][1], h[2][2]>> \in used

(* A backup finds the money: a wallet removed and restored with the index  *)
(* it was restored with before finds every used external address it had.   *)
(* The gap limit of NewAddress and the scan of createManagerKeyScope agree *)
(* on this.  Wallets with internal addresses are excepted: the index map   *)
(* confuses the branches.                                                  *)
RestoreFindsUsed ==
    \A w \in DOMAIN db.stored :
        db.stored[w].int = 0 =>
            \A i \in 0..(db.stored[w].ext - 1) :
                <<w, External, i>> \in used => i < ChildNum(w, External, hint[w])

(* No private key outlives the request that needed it: a locked keystore   *)
(* holds none, and every keystore is locked when nobody signs.             *)
LockedHoldsNoKey ==
    \A w \in DOMAIN cache :
        /\ ~cache[w].unlocked => ~cache[w].masterKey /\ ~cache[w].privKeys
        /\ cache[w].unlocked => cache[w].privKeys /\ \E s \in Signer : signer[s] # "idle"
=============================================================================
