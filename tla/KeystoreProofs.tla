--------------------------- MODULE KeystoreProofs ---------------------------
(***************************************************************************)
(* What Keystore.tla guarantees for any number of wallets and signers, any *)
(* gap limit and any set of indexes.  KeystoreInv is the inductive         *)
(* invariant: it says what the cache holds while a transaction is open     *)
(* (the one keystore it lags or leads by) and after a commit failed.       *)
(* RowsInv, LockInv and RestoreInv rest on it: the first finds the row of  *)
(* every stored address that nobody paid, in the database and in what an   *)
(* open transaction will commit; the second counts who may hold a keystore *)
(* unlocked; the third links every address a wallet handed out to a used   *)
(* one within the gap before it.                                           *)
(***************************************************************************)
EXTENDS Keystore, WellFoundedInduction, TLAPS

(* A committed database, or the working copy of a transaction. *)
StoreOK(d) ==
    /\ DOMAIN d = {"aid", "stored", "status", "rows"}
    /\ d.aid \subseteq Wallet
    /\ DOMAIN d.stored = d.aid /\ DOMAIN d.status = d.aid
    /\ \A w \in d.aid :
        /\ DOMAIN d.stored[w] = {"ext", "int", "pubs"}
        /\ d.status[w] \in {"ready", "importing", "removed"}

(* Who is where, and whose transaction is open. *)
ControlInv ==
    /\ api \in [pc : {"idle", "add", "address", "repair"}, w : Wallet \cup {None}]
    /\ worker \in [pc : {"idle", "delete", "commit", "reload"}, w : Wallet \cup {None}]
    /\ tx.by \in {"none", "api", "worker"}
    /\ tx.by = "api" <=> api.pc \in {"add", "address"}
    /\ tx.by = "worker" <=> worker.pc = "commit"
    /\ worker.pc # "idle" => worker.w \in db.aid /\ db.status[worker.w] = "removed"
    /\ api.pc \in {"add", "repair"} => api.w \in Wallet \ db.aid

(* What an open transaction will commit, and what its caller has cached. *)
Keeps(d, e, S) == \A v \in S : e.stored[v] = d.stored[v] /\ e.status[v] = d.status[v]

TxInv ==
    /\ tx.by # "none" => StoreOK(tx.db)
    /\ api.pc = "add" =>
        /\ tx.w = api.w
        /\ tx.db.aid = db.aid \cup {api.w} /\ Keeps(db, tx.db, db.aid)
        /\ cache[api.w].addrs = tx.db.stored[api.w].pubs
    /\ api.pc = "address" =>
        /\ tx.w = api.w /\ api.w \in db.aid /\ api.w \in DOMAIN cache
        /\ tx.db.aid = db.aid /\ tx.db.status = db.status
        /\ Keeps(db, tx.db, db.aid \ {api.w})
        /\ tx.db.stored[api.w].pubs = db.stored[api.w].pubs \cup {<<External, db.stored[api.w].ext>>}
        /\ <<External, db.stored[api.w].ext>> \in cache[api.w].addrs
        /\ tx.db.stored[api.w].int = db.stored[api.w].int
    /\ worker.pc = "commit" =>
        tx.db.aid = db.aid \ {worker.w} /\ Keeps(db, tx.db, tx.db.aid)

(* The cached keystores are the stored ones, but for the one that a request *)
(* is adding and the one that the worker is deleting.                       *)
Adding == IF api.pc \in {"add", "repair"} THEN {api.w} ELSE {}
Deleting == IF worker.pc \in {"commit", "reload"} THEN {worker.w} ELSE {}

CacheInv ==
    /\ DOMAIN cache = (db.aid \cup Adding) \ Deleting
    /\ \A w \in DOMAIN cache :
        DOMAIN cache[w] = {"addrs", "index", "unlocked", "masterKey", "privKeys"}
    /\ \A w \in DOMAIN cache \cap db.aid :
        /\ db.stored[w].pubs \subseteq cache[w].addrs
        /\ cache[w].addrs \ db.stored[w].pubs \subseteq {<<External, db.stored[w].ext>>}

CurrentInv ==
    current # None =>
        /\ current \in db.aid /\ current \in DOMAIN cache
        /\ db.status[current] \in {"ready", "removed"}

HandedInv ==
    \A h \in handed :
        h = <<h[1], h[2]>> /\ h[1] \in db.aid /\ h[2] \in db.stored[h[1]].pubs

KeystoreInv ==
    StoreOK(db) /\ ControlInv /\ TxInv /\ CacheInv /\ CurrentInv /\ HandedInv

(* The keystore that createManagerKeyScope adds. *)
ScopeKeystore(w, ext, int) ==
    LET e == ChildNum(w, External, ext)
        i == ChildNum(w, Internal, int)
    IN  [ext |-> e, int |-> i, pubs |-> Rows(e, i)]

(* The database of a transaction that adds a keystore. *)
LEMMA KeystoreAdded ==
    ASSUME NEW d, StoreOK(d), NEW w \in Wallet, w \notin d.aid, NEW ext, NEW int,
           NEW st \in {"ready", "importing"},
           NEW c, c = createManagerKeyScope(d, w, ext, int),
           NEW e, e = PutNewAddress([c EXCEPT !.status = With(@, w, st)], w, c.stored[w].pubs)
    PROVE  /\ StoreOK(e)
           /\ e.aid = d.aid \cup {w}
           /\ \A v \in d.aid : e.stored[v] = d.stored[v] /\ e.status[v] = d.status[v]
           /\ c.stored[w] = ScopeKeystore(w, ext, int) /\ e.stored[w] = ScopeKeystore(w, ext, int)
           /\ d.rows \subseteq e.rows
<1> DEFINE k == ScopeKeystore(w, ext, int)
<1>1. /\ DOMAIN c = {"aid", "stored", "status", "rows"}
      /\ c.aid = d.aid \cup {w} /\ c.stored = With(d.stored, w, k)
      /\ c.status = d.status /\ c.rows = d.rows
  BY DEF createManagerKeyScope, StoreOK, ScopeKeystore
<1>5. DOMAIN k = {"ext", "int", "pubs"}
  BY DEF ScopeKeystore
<1> HIDE DEF k
<1>2. /\ DOMAIN e = {"aid", "stored", "status", "rows"}
      /\ e.aid = c.aid /\ e.stored = c.stored
      /\ e.status = With(c.status, w, st) /\ e.rows = c.rows \cup {<<w, a>> : a \in c.stored[w].pubs}
  BY <1>1 DEF PutNewAddress
<1>3. /\ DOMAIN e.stored = d.aid \cup {w} /\ e.stored[w] = k
      /\ \A v \in d.aid : e.stored[v] = d.stored[v]
  BY <1>1, <1>2 DEF StoreOK, With
<1>4. /\ DOMAIN e.status = d.aid \cup {w} /\ e.status[w] = st
      /\ \A v \in d.aid : e.status[v] = d.status[v]
  BY <1>1, <1>2 DEF StoreOK, With
<1> QED
  BY <1>1, <1>2, <1>3, <1>4, <1>5 DEF StoreOK, k

(* The transaction that adds a keystore puts the rows of its addresses. *)
LEMMA KeystoreRows ==
    ASSUME NEW d, StoreOK(d), NEW w \in Wallet, NEW ext, NEW int, NEW st,
           NEW c, c = createManagerKeyScope(d, w, ext, int),
           NEW e, e = PutNewAddress([c EXCEPT !.status = With(@, w, st)], w, c.stored[w].pubs)
    PROVE  \A a \in e.stored[w].pubs : <<w, a>> \in e.rows
<1>1. DOMAIN c = {"aid", "stored", "status", "rows"}
  BY DEF createManagerKeyScope, StoreOK
<1>2. e.stored = c.stored /\ e.rows = c.rows \cup {<<w, a>> : a \in c.stored[w].pubs}
  BY <1>1 DEF PutNewAddress
<1> QED
  BY <1>2

(* The database of a transaction that adds an address. *)
LEMMA AddressAdded ==
    ASSUME NEW d, StoreOK(d), NEW w \in d.aid,
           NEW e, e = PutNewAddress(nextAddresses(d, w), w, {<<External, d.stored[w].ext>>})
    PROVE  /\ StoreOK(e)
           /\ e.aid = d.aid /\ e.status = d.status /\ d.rows \subseteq e.rows
           /\ \A v \in d.aid \ {w} : e.stored[v] = d.stored[v]
           /\ e.stored[w].pubs = d.stored[w].pubs \cup {<<External, d.stored[w].ext>>}
           /\ e.stored[w].ext = d.stored[w].ext + 1 /\ e.stored[w].int = d.stored[w].int
<1> DEFINE n == nextAddresses(d, w)
           k == [d.stored[w] EXCEPT !.pubs = @ \cup {<<External, d.stored[w].ext>>}, !.ext = @ + 1]
<1>0. n = [d EXCEPT !.stored = [d.stored EXCEPT ![w] = k]]
  BY DEF nextAddresses
<1>4. e = PutNewAddress(n, w, {<<External, d.stored[w].ext>>})
  OBVIOUS
<1>3. /\ DOMAIN k = {"ext", "int", "pubs"}
      /\ k.pubs = d.stored[w].pubs \cup {<<External, d.stored[w].ext>>}
      /\ k.ext = d.stored[w].ext + 1 /\ k.int = d.stored[w].int
  BY DEF StoreOK
<1> HIDE DEF n, k
<1>1. /\ DOMAIN n = {"aid", "stored", "status", "rows"}
      /\ n.aid = d.aid /\ n.status = d.status /\ n.rows = d.rows
      /\ DOMAIN n.stored = d.aid
      /\ \A v \in d.aid \ {w} : n.stored[v] = d.stored[v]
      /\ n.stored[w] = k
  BY <1>0 DEF StoreOK
<1>2. /\ DOMAIN e = {"aid", "stored", "status", "rows"}
      /\ e.aid = n.aid /\ e.status = n.status /\ e.stored = n.stored
      /\ e.rows = n.rows \cup {<<w, a>> : a \in {<<External, d.stored[w].ext>>}}
  BY <1>1, <1>4 DEF PutNewAddress
<1>6. d.rows \subseteq e.rows
  BY <1>1, <1>2
<1>5. \A v \in d.aid : DOMAIN e.stored[v] = {"ext", "int", "pubs"}
  BY <1>1, <1>2, <1>3 DEF StoreOK
<1>7. StoreOK(e)
  <2>1. e.aid = d.aid /\ e.status = d.status /\ DOMAIN e.stored = d.aid
    BY <1>1, <1>2
  <2> QED
    BY <2>1, <1>2, <1>5 DEF StoreOK
<1> QED
  BY <1>1, <1>2, <1>3, <1>6, <1>7

(* The transaction that adds an address puts its row. *)
LEMMA AddressRow ==
    ASSUME NEW d, StoreOK(d), NEW w \in d.aid, NEW a,
           NEW e, e = PutNewAddress(nextAddresses(d, w), w, {a})
    PROVE  <<w, a>> \in e.rows
<1> DEFINE n == nextAddresses(d, w)
<1>1. "rows" \in DOMAIN n
  BY DEF nextAddresses, StoreOK
<1> HIDE DEF n
<1>2. e.rows = n.rows \cup {<<w, b>> : b \in {a}}
  BY <1>1 DEF PutNewAddress, n
<1> QED
  BY <1>2

(* loadAddrManager gives a keystore its stored addresses, locked. *)
LEMMA Loaded ==
    ASSUME NEW k
    PROVE  /\ DOMAIN loadAddrManager(k) = {"addrs", "index", "unlocked", "masterKey", "privKeys"}
           /\ loadAddrManager(k).addrs = k.pubs
           /\ loadAddrManager(k).unlocked = FALSE
           /\ loadAddrManager(k).masterKey = FALSE
           /\ loadAddrManager(k).privKeys = FALSE
BY DEF loadAddrManager

(* Steps that change no store and no transaction: they lock, unlock or    *)
(* check a passphrase, or choose the wallet in use.                       *)
LEMMA QuietStep ==
    ASSUME KeystoreInv, UNCHANGED <<db, tx, api, worker, handed>>,
           DOMAIN cache' = DOMAIN cache,
           \A w \in DOMAIN cache :
               DOMAIN cache'[w] = DOMAIN cache[w] /\ cache'[w].addrs = cache[w].addrs,
           \/ current' = current
           \/ current' \in DOMAIN cache \cap db.aid /\ db.status[current'] = "ready"
    PROVE  KeystoreInv'
<1>1. StoreOK(db)'
  BY DEF KeystoreInv, StoreOK
<1>2. ControlInv'
  BY DEF KeystoreInv, ControlInv
<1>3. TxInv'
  <2>1. api.pc = "add" => api.w \in DOMAIN cache
    BY DEF KeystoreInv, ControlInv, CacheInv, Adding, Deleting
  <2> QED
    BY <2>1 DEF KeystoreInv, TxInv, Keeps, StoreOK
<1>4. CacheInv'
  BY DEF KeystoreInv, CacheInv, Adding, Deleting
<1>5. CurrentInv'
  BY DEF KeystoreInv, CurrentInv
<1>6. HandedInv'
  BY DEF KeystoreInv, HandedInv
<1> QED
  BY <1>1, <1>2, <1>3, <1>4, <1>5, <1>6 DEF KeystoreInv

(* Steps of the worker or a request that change the status of a wallet,   *)
(* or remove its rows, while no transaction is open.                      *)
LEMMA StatusStep ==
    ASSUME KeystoreInv, CanBegin, NEW w \in db.aid, UNCHANGED <<tx, api, current, handed>>,
           StoreOK(db'), db'.aid = db.aid, db'.stored = db.stored,
           \A v \in db.aid \ {w} : db'.status[v] = db.status[v],
           \/ db.status[w] = "importing" /\ db'.status[w] = "ready"
           \/ db'.status[w] = "removed" /\ db.status[w] \in {"ready", "removed"}
           \/ db'.status[w] = db.status[w],
           \/ worker' = worker
           \/ worker.pc = "idle" /\ worker' = [pc |-> "delete", w |-> w] /\ db'.status[w] = "removed",
           DOMAIN cache' = DOMAIN cache,
           \A v \in DOMAIN cache :
               DOMAIN cache'[v] = DOMAIN cache[v] /\ cache'[v].addrs = cache[v].addrs
    PROVE  KeystoreInv'
<1> USE DEF CanBegin, NoTx
<1>2. ControlInv'
  BY DEF KeystoreInv, ControlInv, StoreOK
<1>3. TxInv'
  BY <1>2 DEF KeystoreInv, TxInv, ControlInv
<1>4. CacheInv'
  BY DEF KeystoreInv, CacheInv, Adding, Deleting, ControlInv
<1>5. CurrentInv'
  BY DEF KeystoreInv, CurrentInv
<1>6. HandedInv'
  BY DEF KeystoreInv, HandedInv
<1> QED
  BY <1>2, <1>3, <1>4, <1>5, <1>6 DEF KeystoreInv

(* NewKeystore and the imports add a keystore: the cache leads the store   *)
(* until the transaction ends.                                             *)
LEMMA AddStep ==
    ASSUME KeystoreInv, NEW w \in Wallet, NEW ext, NEW int, AddKeystore(w, ext, int)
    PROVE  KeystoreInv'
<1> DEFINE c == createManagerKeyScope(db, w, ext, int)
           as == c.stored[w].pubs
           st == IF as = {} THEN "ready" ELSE "importing"
           e == PutNewAddress([c EXCEPT !.status = With(@, w, st)], w, as)
<1>1. /\ api.pc = "idle" /\ tx.by = "none" /\ w \notin db.aid
      /\ tx' = [by |-> "api", w |-> w, db |-> e]
      /\ cache' = With(cache, w, loadAddrManager(c.stored[w]))
      /\ api' = [pc |-> "add", w |-> w]
      /\ UNCHANGED <<db, current, worker, handed>>
  BY DEF AddKeystore, Request, CanBegin, NoTx, Begin
<1>2. StoreOK(db) /\ w \notin db.aid /\ st \in {"ready", "importing"}
  BY <1>1 DEF KeystoreInv
<1>11. /\ c = createManagerKeyScope(db, w, ext, int)
       /\ e = PutNewAddress([c EXCEPT !.status = With(@, w, st)], w, c.stored[w].pubs)
  OBVIOUS
<1> HIDE DEF e, c, st, as
<1>3. /\ StoreOK(e) /\ e.aid = db.aid \cup {w} /\ Keeps(db, e, db.aid)
      /\ e.stored[w] = c.stored[w]
  <2>1. /\ StoreOK(e) /\ e.aid = db.aid \cup {w} /\ e.stored[w] = c.stored[w]
        /\ \A v \in db.aid : e.stored[v] = db.stored[v] /\ e.status[v] = db.status[v]
    BY <1>2, <1>11, KeystoreAdded
  <2> QED
    BY <2>1 DEF Keeps
<1>4. /\ DOMAIN cache' = DOMAIN cache \cup {w}
      /\ DOMAIN cache'[w] = {"addrs", "index", "unlocked", "masterKey", "privKeys"}
      /\ cache'[w].addrs = e.stored[w].pubs
      /\ \A v \in DOMAIN cache : v # w => cache'[v] = cache[v]
  <2>1. /\ DOMAIN cache' = DOMAIN cache \cup {w}
        /\ cache'[w] = loadAddrManager(e.stored[w])
        /\ \A v \in DOMAIN cache : v # w => cache'[v] = cache[v]
    BY <1>1, <1>3 DEF With
  <2> QED
    BY <2>1, Loaded
<1>5. StoreOK(db)'
  BY <1>1, <1>2 DEF StoreOK
<1>6. ControlInv'
  BY <1>1 DEF KeystoreInv, ControlInv
<1>7. TxInv'
  BY <1>1, <1>3, <1>4, <1>6 DEF TxInv, Keeps, ControlInv, StoreOK
<1>8. CacheInv'
  <2>1. w \notin Deleting /\ Deleting' = Deleting /\ Adding = {} /\ Adding' = {w}
    BY <1>1 DEF KeystoreInv, ControlInv, Deleting, Adding
  <2> QED
    BY <1>1, <1>4, <2>1 DEF KeystoreInv, CacheInv
<1>9. CurrentInv'
  BY <1>1, <1>4 DEF KeystoreInv, CurrentInv
<1>10. HandedInv'
  BY <1>1 DEF KeystoreInv, HandedInv
<1> QED
  BY <1>5, <1>6, <1>7, <1>8, <1>9, <1>10 DEF KeystoreInv

(* NewAddress writes its row in the open transaction and caches the address *)
(* before the commit.                                                      *)
LEMMA NewAddressStep ==
    ASSUME KeystoreInv, NewAddress
    PROVE  KeystoreInv'
<1> DEFINE w == current
           a == <<External, db.stored[w].ext>>
           e == PutNewAddress(nextAddresses(db, w), w, {a})
<1>1. /\ api.pc = "idle" /\ tx.by = "none" /\ w # None
      /\ tx' = [by |-> "api", w |-> w, db |-> e]
      /\ cache' = [cache EXCEPT ![w] = updateManagedAddress(@, db.stored[w].ext)]
      /\ api' = [pc |-> "address", w |-> w]
      /\ UNCHANGED <<db, current, worker, handed>>
  BY DEF NewAddress, Request, CanBegin, NoTx, Begin
<1>2. StoreOK(db) /\ w \in db.aid /\ w \in DOMAIN cache /\ w \in Wallet
  BY <1>1 DEF KeystoreInv, CurrentInv, StoreOK
<1>3. /\ StoreOK(e) /\ e.aid = db.aid /\ e.status = db.status
      /\ Keeps(db, e, db.aid \ {w})
      /\ e.stored[w].pubs = db.stored[w].pubs \cup {a}
      /\ e.stored[w].int = db.stored[w].int
  BY <1>2, AddressAdded DEF Keeps
<1> HIDE DEF e
<1>4. /\ DOMAIN cache' = DOMAIN cache
      /\ DOMAIN cache'[w] = DOMAIN cache[w]
      /\ cache'[w].addrs = cache[w].addrs \cup {a}
      /\ \A v \in DOMAIN cache : v # w => cache'[v] = cache[v]
  <2>1. DOMAIN cache[w] = {"addrs", "index", "unlocked", "masterKey", "privKeys"}
    BY <1>2 DEF KeystoreInv, CacheInv
  <2> QED
    BY <1>1, <1>2, <2>1 DEF updateManagedAddress
<1>5. StoreOK(db)'
  BY <1>1, <1>2 DEF StoreOK
<1>6. ControlInv'
  BY <1>1, <1>2 DEF KeystoreInv, ControlInv
<1>7. TxInv'
  BY <1>1, <1>2, <1>3, <1>4, <1>6 DEF TxInv, Keeps, ControlInv, StoreOK
<1>8. CacheInv'
  <2>1. Deleting' = Deleting /\ Adding = {} /\ Adding' = {}
    BY <1>1 DEF KeystoreInv, ControlInv, Deleting, Adding
  <2> HIDE DEF a
  <2>2. \A v \in DOMAIN cache' \cap db'.aid :
            /\ db'.stored[v].pubs \subseteq cache'[v].addrs
            /\ cache'[v].addrs \ db'.stored[v].pubs \subseteq {<<External, db'.stored[v].ext>>}
    BY <1>1, <1>2, <1>4 DEF KeystoreInv, CacheInv, a
  <2> QED
    BY <1>1, <1>2, <1>4, <2>1, <2>2 DEF KeystoreInv, CacheInv
<1>9. CurrentInv'
  BY <1>1, <1>4 DEF KeystoreInv, CurrentInv
<1>10. HandedInv'
  BY <1>1 DEF KeystoreInv, HandedInv
<1> QED
  BY <1>5, <1>6, <1>7, <1>8, <1>9, <1>10 DEF KeystoreInv

(* A request's transaction commits: store and cache meet again. *)
LEMMA CommitStep ==
    ASSUME KeystoreInv, Commit
    PROVE  KeystoreInv'
<1> DEFINE w == api.w
<1>1. /\ tx.by = "api" /\ db' = tx.db /\ tx'.by = "none"
      /\ api' = [pc |-> "idle", w |-> None]
      /\ handed' = handed \cup {<<tx.w, a>> : a \in cache[tx.w].addrs}
      /\ UNCHANGED <<cache, current, worker>>
  BY DEF Commit, NoTx, mem
<1>2. /\ api.pc \in {"add", "address"} /\ worker.pc # "commit" /\ StoreOK(tx.db) /\ tx.w = w
  BY <1>1 DEF KeystoreInv, ControlInv, TxInv
<1>3. /\ db.aid \subseteq db'.aid /\ w \in db'.aid
      /\ \A v \in db.aid : db'.status[v] = db.status[v] /\ db.stored[v].pubs \subseteq db'.stored[v].pubs
      /\ \A v \in db.aid \ {w} : db'.stored[v] = db.stored[v]
      /\ cache[w].addrs \subseteq db'.stored[w].pubs
      /\ db'.stored[w].pubs \subseteq cache[w].addrs
  <2>1. CASE api.pc = "add"
    BY <1>1, <1>2, <2>1 DEF KeystoreInv, TxInv, Keeps, ControlInv
  <2>2. CASE api.pc = "address"
    BY <1>1, <1>2, <2>2 DEF KeystoreInv, TxInv, Keeps, CacheInv
  <2> QED
    BY <1>2, <2>1, <2>2
<1>4. StoreOK(db)'
  BY <1>1, <1>2
<1>5. ControlInv'
  BY <1>1, <1>2, <1>3 DEF KeystoreInv, ControlInv
<1>6. TxInv'
  BY <1>1, <1>5 DEF TxInv, ControlInv
<1>7. CacheInv'
  <2>1. db'.aid = db.aid \cup {w} /\ w \notin Deleting
    BY <1>1, <1>2 DEF KeystoreInv, TxInv, ControlInv, CacheInv, Deleting
  <2>2. Deleting' = Deleting /\ Adding' = {} /\ Adding \subseteq {w} /\ w \in DOMAIN cache
    BY <1>1, <1>2 DEF KeystoreInv, TxInv, ControlInv, CacheInv, Deleting, Adding
  <2>3. /\ DOMAIN cache' = (db'.aid \cup Adding') \ Deleting'
        /\ \A v \in DOMAIN cache' :
              DOMAIN cache'[v] = {"addrs", "index", "unlocked", "masterKey", "privKeys"}
    BY <1>1, <2>1, <2>2 DEF KeystoreInv, CacheInv
  <2>4. \A v \in DOMAIN cache' \cap db'.aid :
            /\ db'.stored[v].pubs \subseteq cache'[v].addrs
            /\ cache'[v].addrs \ db'.stored[v].pubs \subseteq {<<External, db'.stored[v].ext>>}
    BY <1>1, <1>3, <2>1 DEF KeystoreInv, CacheInv
  <2> QED
    BY <2>3, <2>4 DEF CacheInv
<1>8. CurrentInv'
  BY <1>1, <1>3 DEF KeystoreInv, CurrentInv
<1>9. HandedInv'
  <2> SUFFICES ASSUME NEW h \in handed'
               PROVE  h = <<h[1], h[2]>> /\ h[1] \in db'.aid /\ h[2] \in db'.stored[h[1]].pubs
    BY DEF HandedInv
  <2>1. CASE h \in handed
    BY <1>1, <1>3, <2>1 DEF KeystoreInv, HandedInv
  <2>2. CASE h \notin handed
    <3>1. PICK a \in cache[w].addrs : h = <<w, a>>
      BY <1>1, <1>2, <2>2
    <3> QED
      BY <1>3, <3>1
  <2> QED
    BY <2>1, <2>2
<1> QED
  BY <1>4, <1>5, <1>6, <1>7, <1>8, <1>9 DEF KeystoreInv

(* The commit fails: what was cached must be repaired, the store is as before. *)
LEMMA CommitFailsStep ==
    ASSUME KeystoreInv, CommitFails
    PROVE  KeystoreInv'
<1>1. /\ tx.by = "api" /\ tx'.by = "none"
      /\ api' = IF api.pc = "add" THEN [api EXCEPT !.pc = "repair"] ELSE [pc |-> "idle", w |-> None]
      /\ UNCHANGED <<db, cache, current, worker, handed>>
  BY DEF CommitFails, NoTx, mem
<1>2. \/ api.pc = "add" /\ api' = [pc |-> "repair", w |-> api.w]
      \/ api.pc = "address" /\ api' = [pc |-> "idle", w |-> None]
  BY <1>1 DEF KeystoreInv, ControlInv
<1>3. ControlInv'
  BY <1>1, <1>2 DEF KeystoreInv, ControlInv
<1>4. TxInv'
  BY <1>1, <1>3 DEF TxInv, ControlInv
<1>5. CacheInv'
  <2>1. Adding' = Adding /\ Deleting' = Deleting
    BY <1>1, <1>2 DEF Adding, Deleting
  <2> QED
    BY <1>1, <2>1 DEF KeystoreInv, CacheInv
<1> QED
  BY <1>1, <1>3, <1>4, <1>5 DEF KeystoreInv, StoreOK, CurrentInv, HandedInv

(* The request that failed removes the keystore, or loads it again. *)
LEMMA RepairStep ==
    ASSUME KeystoreInv, RemoveCachedKeystore
    PROVE  KeystoreInv'
<1>1. /\ api.pc = "repair" /\ api' = [pc |-> "idle", w |-> None]
      /\ DOMAIN cache' = DOMAIN cache \ {api.w}
      /\ \A v \in DOMAIN cache' : cache'[v] = cache[v]
      /\ UNCHANGED <<db, tx, current, worker, handed>>
  BY DEF RemoveCachedKeystore, Uncached, Restrict
<1>2. api.w \notin db.aid /\ Adding = {api.w} /\ Adding' = {} /\ Deleting' = Deleting
  BY <1>1 DEF KeystoreInv, ControlInv, Adding, Deleting
<1>3. ControlInv'
  BY <1>1 DEF KeystoreInv, ControlInv
<1>4. TxInv'
  BY <1>1, <1>3 DEF KeystoreInv, TxInv, ControlInv, Keeps, StoreOK
<1>5. CacheInv'
  BY <1>1, <1>2 DEF KeystoreInv, CacheInv
<1>6. CurrentInv'
  BY <1>1, <1>2 DEF KeystoreInv, CurrentInv
<1> QED
  BY <1>1, <1>3, <1>4, <1>5, <1>6 DEF KeystoreInv, StoreOK, HandedInv

(* The worker deletes a keystore in its transaction and drops it from the  *)
(* cache.                                                                  *)
LEMMA DeleteKeystoreStep ==
    ASSUME KeystoreInv, DeleteKeystore
    PROVE  KeystoreInv'
<1> DEFINE w == worker.w
           e == [db EXCEPT !.status = Restrict(@, DOMAIN @ \ {w}),
                           !.stored = Restrict(@, DOMAIN @ \ {w}), !.aid = @ \ {w}]
<1>1. /\ worker.pc = "delete" /\ tx.by = "none" /\ w \in DOMAIN cache
      /\ tx' = [by |-> "worker", w |-> w, db |-> e]
      /\ DOMAIN cache' = DOMAIN cache \ {w}
      /\ \A v \in DOMAIN cache' : cache'[v] = cache[v]
      /\ current' = IF current = w THEN None ELSE current
      /\ worker' = [worker EXCEPT !.pc = "commit"]
      /\ UNCHANGED <<db, api, handed>>
  BY DEF DeleteKeystore, CanBegin, NoTx, Begin, Restrict
<1>2. StoreOK(db) /\ w \in db.aid /\ worker' = [pc |-> "commit", w |-> w] /\ w # None
  BY <1>1, KeystoreAssumption DEF KeystoreInv, ControlInv, StoreOK
<1>3. /\ DOMAIN e = {"aid", "stored", "status", "rows"}
      /\ e.aid = db.aid \ {w} /\ e.rows = db.rows
      /\ DOMAIN e.stored = db.aid \ {w} /\ DOMAIN e.status = db.aid \ {w}
      /\ \A v \in db.aid \ {w} : e.stored[v] = db.stored[v] /\ e.status[v] = db.status[v]
  BY <1>2 DEF StoreOK, Restrict
<1> HIDE DEF e
<1>4. StoreOK(e)
  BY <1>2, <1>3 DEF StoreOK
<1>5. ControlInv'
  BY <1>1, <1>2 DEF KeystoreInv, ControlInv
<1>6. TxInv'
  BY <1>1, <1>2, <1>3, <1>4, <1>5 DEF TxInv, Keeps, ControlInv
<1>7. CacheInv'
  <2>1. Adding' = Adding /\ Deleting = {} /\ Deleting' = {w}
    BY <1>1, <1>2 DEF Adding, Deleting
  <2> QED
    BY <1>1, <2>1 DEF KeystoreInv, CacheInv
<1>8. CurrentInv'
  BY <1>1, <1>2 DEF KeystoreInv, CurrentInv
<1> QED
  BY <1>1, <1>2, <1>5, <1>6, <1>7, <1>8 DEF KeystoreInv, StoreOK, HandedInv

(* The deletion commits. *)
LEMMA DeleteCommitsStep ==
    ASSUME KeystoreInv, DeleteCommits
    PROVE  KeystoreInv'
<1> DEFINE w == worker.w
<1>1. /\ worker.pc = "commit" /\ db' = tx.db /\ tx'.by = "none"
      /\ worker' = [pc |-> "idle", w |-> None]
      /\ handed' = {h \in handed : h[1] # w}
      /\ UNCHANGED <<cache, current, api>>
  BY DEF DeleteCommits, NoTx, mem
<1>2. /\ StoreOK(db') /\ db'.aid = db.aid \ {w} /\ Keeps(db, db', db'.aid)
      /\ w \in db.aid /\ api.pc \notin {"add", "address"} /\ Deleting = {w}
  BY <1>1 DEF KeystoreInv, ControlInv, TxInv, Deleting
<1>3. ControlInv'
  BY <1>1, <1>2 DEF KeystoreInv, ControlInv
<1>4. TxInv'
  BY <1>1, <1>3 DEF TxInv, ControlInv
<1>5. CacheInv'
  <2>1. Adding' = Adding /\ Deleting' = {} /\ w \notin Adding
    BY <1>1, <1>2 DEF KeystoreInv, ControlInv, Adding, Deleting
  <2> QED
    BY <1>1, <1>2, <2>1 DEF KeystoreInv, CacheInv, Keeps
<1>6. CurrentInv'
  BY <1>1, <1>2 DEF KeystoreInv, CurrentInv, CacheInv, Keeps
<1>7. HandedInv'
  BY <1>1, <1>2 DEF KeystoreInv, HandedInv, Keeps
<1> QED
  BY <1>2, <1>3, <1>4, <1>5, <1>6, <1>7 DEF KeystoreInv

(* The deletion fails to commit: the keystore is stored and not cached. *)
LEMMA DeleteFailsStep ==
    ASSUME KeystoreInv, DeleteFails
    PROVE  KeystoreInv'
<1>1. /\ worker.pc = "commit" /\ tx'.by = "none"
      /\ worker' = [worker EXCEPT !.pc = "reload"]
      /\ UNCHANGED <<db, cache, current, api, handed>>
  BY DEF DeleteFails, NoTx, mem
<1>2. worker' = [pc |-> "reload", w |-> worker.w] /\ api.pc \notin {"add", "address"}
  BY <1>1 DEF KeystoreInv, ControlInv
<1>3. ControlInv'
  BY <1>1, <1>2 DEF KeystoreInv, ControlInv
<1>4. TxInv'
  BY <1>1, <1>2, <1>3 DEF TxInv, ControlInv
<1>5. CacheInv'
  <2>1. Adding' = Adding /\ Deleting' = Deleting
    BY <1>1, <1>2 DEF Adding, Deleting
  <2> QED
    BY <1>1, <2>1 DEF KeystoreInv, CacheInv
<1> QED
  BY <1>1, <1>3, <1>4, <1>5 DEF KeystoreInv, StoreOK, CurrentInv, HandedInv

(* The worker loads the keystore it failed to delete. *)
LEMMA ReloadStep ==
    ASSUME KeystoreInv, UpdateManagedKeystores
    PROVE  KeystoreInv'
<1> DEFINE w == worker.w
<1>1. worker.pc = "reload" /\ w \in db.aid /\ Deleting = {w} /\ w \notin DOMAIN cache
  BY DEF UpdateManagedKeystores, KeystoreInv, ControlInv, CacheInv, Deleting
<1>2. /\ cache' = With(cache, w, loadAddrManager(db.stored[w]))
      /\ worker' = [pc |-> "idle", w |-> None]
      /\ UNCHANGED <<db, tx, current, api, handed>>
  BY <1>1 DEF UpdateManagedKeystores, KeystoreInv, StoreOK
<1>3. /\ DOMAIN cache' = DOMAIN cache \cup {w}
      /\ DOMAIN cache'[w] = {"addrs", "index", "unlocked", "masterKey", "privKeys"}
      /\ cache'[w].addrs = db.stored[w].pubs
      /\ \A v \in DOMAIN cache : cache'[v] = cache[v]
  <2>1. /\ DOMAIN cache' = DOMAIN cache \cup {w}
        /\ cache'[w] = loadAddrManager(db.stored[w])
        /\ \A v \in DOMAIN cache : cache'[v] = cache[v]
    BY <1>1, <1>2 DEF With
  <2> QED
    BY <2>1, Loaded
<1>4. ControlInv'
  BY <1>1, <1>2 DEF KeystoreInv, ControlInv
<1>5. TxInv'
  <2>1. api.pc = "add" => api.w \in DOMAIN cache
    BY <1>1 DEF KeystoreInv, ControlInv, CacheInv, Adding
  <2>2. worker'.pc # "commit"
    BY <1>2
  <2> QED
    BY <1>2, <1>3, <2>1, <2>2 DEF KeystoreInv, TxInv, Keeps, StoreOK
<1>6. CacheInv'
  <2>1. Adding' = Adding /\ Deleting' = {} /\ w \notin Adding
    BY <1>1, <1>2 DEF KeystoreInv, ControlInv, Adding, Deleting
  <2> QED
    BY <1>1, <1>2, <1>3, <2>1 DEF KeystoreInv, CacheInv
<1>7. CurrentInv'
  BY <1>2, <1>3 DEF KeystoreInv, CurrentInv
<1> QED
  BY <1>2, <1>4, <1>5, <1>6, <1>7 DEF KeystoreInv, StoreOK, HandedInv

(* A crash loses the cache and the open transaction; NewKeystoreManager    *)
(* loads what is stored.                                                   *)
LEMMA RestartStep ==
    ASSUME KeystoreInv, Restart
    PROVE  KeystoreInv'
<1>1. /\ tx'.by = "none" /\ current' = None
      /\ cache' = [w \in db.aid |-> loadAddrManager(db.stored[w])]
      /\ api' = [pc |-> "idle", w |-> None] /\ worker' = [pc |-> "idle", w |-> None]
      /\ UNCHANGED <<db, handed>>
  BY DEF Restart, NoTx
<1>2. /\ DOMAIN cache' = db.aid
      /\ \A w \in db.aid :
          /\ DOMAIN cache'[w] = {"addrs", "index", "unlocked", "masterKey", "privKeys"}
          /\ cache'[w].addrs = db.stored[w].pubs
  BY <1>1, Loaded
<1>3. ControlInv'
  BY <1>1 DEF ControlInv
<1>4. TxInv'
  BY <1>1 DEF TxInv
<1>5. CacheInv'
  BY <1>1, <1>2 DEF CacheInv, Adding, Deleting
<1> QED
  BY <1>1, <1>3, <1>4, <1>5 DEF KeystoreInv, StoreOK, CurrentInv, HandedInv

(* OnRemoveWallet marks the wallet, an import ends, asyncRemove deletes    *)
(* the rows of a marked wallet.                                            *)
LEMMA StatusSteps ==
    ASSUME KeystoreInv, NEW w \in Wallet,
           \/ \E right \in BOOLEAN : RemoveWallet(w, right)
           \/ ImportDone(w) \/ RemoveAddresses(w)
    PROVE  KeystoreInv'
<1> USE DEF KeystoreInv
<1>1. CASE \E right \in BOOLEAN : RemoveWallet(w, right)
  <2>1. PICK right \in BOOLEAN : RemoveWallet(w, right)
    BY <1>1
  <2>2. /\ CanBegin /\ w \in db.aid
        /\ UNCHANGED <<tx, api, current, handed, worker>>
        /\ DOMAIN cache' = DOMAIN cache
        /\ \A v \in DOMAIN cache : DOMAIN cache'[v] = DOMAIN cache[v] /\ cache'[v].addrs = cache[v].addrs
    BY <2>1 DEF RemoveWallet, Request, CheckPrivPassphrase, safelyCheckPassword, checkPassword,
               CacheInv, Adding
  <2>3. \/ db' = db
        \/ db.status[w] \in {"ready", "removed"} /\ db' = [db EXCEPT !.status[w] = "removed"]
    BY <2>1 DEF RemoveWallet
  <2>4. /\ StoreOK(db') /\ db'.aid = db.aid /\ db'.stored = db.stored
        /\ \A v \in db.aid \ {w} : db'.status[v] = db.status[v]
        /\ \/ db'.status[w] = "removed" /\ db.status[w] \in {"ready", "removed"}
           \/ db'.status[w] = db.status[w]
    BY <2>2, <2>3 DEF StoreOK
  <2> QED
    BY <2>2, <2>4, StatusStep
<1>2. CASE ImportDone(w)
  <2>1. /\ CanBegin /\ w \in db.aid /\ UNCHANGED <<tx, cache, api, current, handed, worker>>
        /\ db.status[w] = "importing" /\ db' = [db EXCEPT !.status[w] = "ready"]
    BY <1>2 DEF ImportDone, mem, StoreOK
  <2>2. /\ StoreOK(db') /\ db'.aid = db.aid /\ db'.stored = db.stored
        /\ \A v \in db.aid \ {w} : db'.status[v] = db.status[v]
        /\ db'.status[w] = "ready"
    BY <2>1 DEF StoreOK
  <2> QED
    BY <2>1, <2>2, StatusStep
<1>3. CASE RemoveAddresses(w)
  <2>1. /\ CanBegin /\ w \in db.aid /\ UNCHANGED <<tx, cache, api, current, handed>>
        /\ worker.pc = "idle" /\ worker' = [pc |-> "delete", w |-> w]
        /\ db.status[w] = "removed" /\ db' = [db EXCEPT !.rows = {r \in @ : r[1] # w}]
    BY <1>3 DEF RemoveAddresses, mem, StoreOK
  <2>2. /\ StoreOK(db') /\ db'.aid = db.aid /\ db'.stored = db.stored /\ db'.status = db.status
    BY <2>1 DEF StoreOK
  <2> QED
    BY <2>1, <2>2, StatusStep
<1> QED
  BY <1>1, <1>2, <1>3

(* The block handler puts or deletes an address row. *)
LEMMA RowSteps ==
    ASSUME KeystoreInv, NEW a \in Payees, AddCredits(a) \/ Rollback(a)
    PROVE  /\ KeystoreInv'
           /\ db'.aid = db.aid /\ db'.stored = db.stored /\ db'.status = db.status
           /\ UNCHANGED <<tx, mem, api, worker, used, handed, hint>>
<1>1. /\ CanBegin /\ UNCHANGED <<tx, mem, api, worker, used, handed, hint>>
      /\ \E r : db' = [db EXCEPT !.rows = r]
  BY DEF AddCredits, Rollback
<1>2. /\ db'.aid = db.aid /\ db'.stored = db.stored /\ db'.status = db.status
      /\ StoreOK(db')
  BY <1>1 DEF KeystoreInv, StoreOK
<1>3. tx.by = "none"
  BY <1>1 DEF CanBegin, NoTx
<1>4. ControlInv'
  BY <1>1, <1>2 DEF KeystoreInv, ControlInv
<1>5. TxInv'
  BY <1>1, <1>3, <1>4 DEF TxInv, ControlInv
<1>6. CacheInv'
  BY <1>1, <1>2 DEF KeystoreInv, CacheInv, Adding, Deleting, mem
<1>7. CurrentInv' /\ HandedInv'
  BY <1>1, <1>2 DEF KeystoreInv, CurrentInv, HandedInv, mem
<1> QED
  BY <1>1, <1>2, <1>4, <1>5, <1>6, <1>7 DEF KeystoreInv

(* The handlers that only lock, unlock, check or select. *)
LEMMA QuietSteps ==
    ASSUME KeystoreInv,
           \/ \E w \in Wallet :
               \/ UseWallet(w)
               \/ \E right \in BOOLEAN : ExportWallet(w, right) \/ GetMnemonic(w, right)
           \/ \E a \in Payees : UseAddress(a)
           \/ \E s \in Signer :
               \/ \E right \in BOOLEAN : SignRawTx(s, right)
               \/ SignHash(s) \/ ClearPrivKey(s)
           \/ UNCHANGED vars
    PROVE  KeystoreInv'
<1> DEFINE SameKeystores ==
              /\ DOMAIN cache' = DOMAIN cache
              /\ \A w \in DOMAIN cache :
                    DOMAIN cache'[w] = DOMAIN cache[w] /\ cache'[w].addrs = cache[w].addrs
<1>0. \A w \in DOMAIN cache :
          DOMAIN cache[w] = {"addrs", "index", "unlocked", "masterKey", "privKeys"}
  BY DEF KeystoreInv, CacheInv
<1>1. ASSUME NEW w \in Wallet, UseWallet(w) PROVE KeystoreInv'
  <2>1. /\ UNCHANGED <<db, tx, api, worker, handed, cache>>
        /\ current' \in DOMAIN cache \cap db.aid /\ db.status[current'] = "ready"
    BY <1>1 DEF UseWallet, UseKeystoreForWallet, KeystoreInv, StoreOK
  <2> QED
    BY <2>1, QuietStep
<1>2. ASSUME NEW w \in Wallet, NEW right \in BOOLEAN,
             ExportWallet(w, right) \/ GetMnemonic(w, right)
      PROVE  KeystoreInv'
  <2>1. UNCHANGED <<db, tx, api, worker, handed, current>> /\ SameKeystores
    BY <1>0, <1>2 DEF ExportWallet, GetMnemonic, getMnemonic, safelyCheckPassword, checkPassword
  <2> QED
    BY <2>1, QuietStep
<1>3. ASSUME NEW a \in Payees, UseAddress(a) PROVE KeystoreInv'
  BY <1>3, QuietStep DEF UseAddress, mem
<1>4. ASSUME NEW s \in Signer, NEW right \in BOOLEAN, SignRawTx(s, right) PROVE KeystoreInv'
  BY <1>4, QuietStep DEF SignRawTx
<1>5. ASSUME NEW s \in Signer, SignHash(s) PROVE KeystoreInv'
  <2>1. UNCHANGED <<db, tx, api, worker, handed, current>> /\ SameKeystores
    BY <1>0, <1>5 DEF SignHash, checkPassword, signBtcec, KeystoreInv, CurrentInv
  <2> QED
    BY <2>1, QuietStep
<1>6. ASSUME NEW s \in Signer, ClearPrivKey(s) PROVE KeystoreInv'
  <2>1. UNCHANGED <<db, tx, api, worker, handed, current>> /\ SameKeystores
    BY <1>0, <1>6 DEF ClearPrivKey, clearPrivKeys
  <2> QED
    BY <2>1, QuietStep
<1>7. CASE UNCHANGED vars
  BY <1>7, QuietStep DEF vars, mem
<1> QED
  BY <1>1, <1>2, <1>3, <1>4, <1>5, <1>6, <1>7

(* An empty database and an empty cache. *)
LEMMA InitKeystoreInv ==
    Init => KeystoreInv
<1> SUFFICES ASSUME Init PROVE KeystoreInv
  OBVIOUS
<1>1. StoreOK(db)
  BY DEF Init, StoreOK
<1>2. ControlInv
  BY DEF Init, ControlInv, NoTx
<1>3. TxInv
  BY DEF Init, TxInv, NoTx
<1>4. CacheInv
  BY DEF Init, CacheInv, Adding, Deleting
<1> QED
  BY <1>1, <1>2, <1>3, <1>4 DEF KeystoreInv, Init, CurrentInv, HandedInv

(* One case per handler. *)
LEMMA NextKeystoreInv ==
    KeystoreInv /\ [Next]_vars => KeystoreInv'
<1> SUFFICES ASSUME KeystoreInv, [Next]_vars PROVE KeystoreInv'
  OBVIOUS
<1>1. ASSUME NEW w \in Wallet,
             \/ CreateWallet(w)
             \/ \E ext \in ExternalIndexes, int \in InternalIndexes :
                 ImportWallet(w, ext, int) \/ ImportWalletWithMnemonic(w, ext, int)
      PROVE  KeystoreInv'
  BY <1>1, AddStep DEF CreateWallet, ImportWallet, ImportWalletWithMnemonic
<1>2. ASSUME NEW s \in Signer, SignPanics(s) PROVE KeystoreInv'
  BY <1>2, RestartStep DEF SignPanics
<1>3. ASSUME Crash PROVE KeystoreInv'
  BY <1>3, RestartStep DEF Crash
<1> QED
  BY <1>1, <1>2, <1>3, NewAddressStep, CommitStep, CommitFailsStep, RepairStep,
     DeleteKeystoreStep, DeleteCommitsStep, DeleteFailsStep, ReloadStep, StatusSteps, RowSteps,
     QuietSteps
     DEF Next

(* The structure of the keystores at any number of wallets and signers:    *)
(* what is cached, what is stored and what an open transaction will store. *)
THEOREM KeystoreInvariant ==
    Spec => []KeystoreInv
BY InitKeystoreInv, NextKeystoreInv, PTL DEF Spec

(* The cached keystores are the stored ones whenever no transaction is     *)
(* open and nothing is left to repair, and Wallets lists every wallet.     *)
THEOREM CacheIsStore ==
    Spec => []CacheMatchesStore
<1>1. KeystoreInv => CacheMatchesStore
  <2> SUFFICES ASSUME KeystoreInv PROVE CacheMatchesStore
    OBVIOUS
  <2>1. DOMAIN db.stored = db.aid /\ DOMAIN db.status = db.aid
    BY DEF KeystoreInv, StoreOK
  <2>2. worker.pc \notin {"commit", "reload"} => Unlisted = {}
    BY <2>1 DEF KeystoreInv, CacheInv, Deleting, Unlisted, ControlInv
  <2>3. Settled => worker.pc \notin {"commit", "reload"} /\ Adding = {} /\ Deleting = {}
    BY DEF Settled, NoTx, KeystoreInv, ControlInv, Adding, Deleting
  <2>4. Settled => DOMAIN cache = db.aid
    BY <2>3 DEF KeystoreInv, CacheInv
  <2>5. Settled => \A w \in db.aid : ListedAs(w) = ShownStatus(db.status[w])
    BY <2>1, <2>2, <2>3 DEF ListedAs, Wallets
  <2>6. Settled => \A w \in db.aid : ListedAs(w) # "missing"
    BY <2>5 DEF KeystoreInv, StoreOK, ShownStatus
  <2>7. Settled /\ current # None => ListedAs(current) \in {"ready", "removing"}
    BY <2>5 DEF KeystoreInv, CurrentInv, ShownStatus
  <2> QED
    BY <2>1, <2>2, <2>4, <2>6, <2>7 DEF CacheMatchesStore, KeystoreInv, CacheInv, CurrentInv
<1> QED
  BY <1>1, KeystoreInvariant, PTL

-----------------------------------------------------------------------------
(* The stored addresses of a wallet that nobody removes have their rows, *)
(* but for those that were paid.                                         *)
RowsOK(d, paid) ==
    \A w \in d.aid : d.status[w] # "removed" =>
        \A a \in d.stored[w].pubs : <<w, a>> \in d.rows \/ <<w, a[1], a[2]>> \in paid

RowsInv ==
    /\ used \subseteq Payees
    /\ RowsOK(db, used)
    /\ tx.by # "none" => RowsOK(tx.db, used)

(* Steps that leave the stored keystores and the rows alone. *)
LEMMA RowsKept ==
    ASSUME RowsInv, used \subseteq used', used' \subseteq Payees,
           db'.aid = db.aid, db'.stored = db.stored, db.rows \subseteq db'.rows,
           \A w \in db.aid : db'.status[w] # "removed" => db.status[w] # "removed",
           tx' = tx \/ tx'.by = "none"
    PROVE  RowsInv'
BY DEF RowsInv, RowsOK

(* One case per handler that writes keystores, statuses or rows. *)
LEMMA NextRowsInv ==
    KeystoreInv /\ RowsInv /\ [Next]_vars => RowsInv'
<1> SUFFICES ASSUME KeystoreInv, RowsInv, [Next]_vars PROVE RowsInv'
  OBVIOUS
<1>0. StoreOK(db)
  BY DEF KeystoreInv
<1>1. ASSUME NEW w \in Wallet, NEW ext, NEW int, AddKeystore(w, ext, int) PROVE RowsInv'
  <2> DEFINE c == createManagerKeyScope(db, w, ext, int)
             as == c.stored[w].pubs
             st == IF as = {} THEN "ready" ELSE "importing"
             e == PutNewAddress([c EXCEPT !.status = With(@, w, st)], w, as)
  <2>1. w \notin db.aid /\ tx'.db = e /\ UNCHANGED <<db, used>>
    BY <1>1 DEF AddKeystore, Begin
  <2>2. st \in {"ready", "importing"}
    OBVIOUS
  <2>3. /\ c = createManagerKeyScope(db, w, ext, int)
        /\ e = PutNewAddress([c EXCEPT !.status = With(@, w, st)], w, c.stored[w].pubs)
    OBVIOUS
  <2> HIDE DEF e, c, st, as
  <2>4. /\ e.aid = db.aid \cup {w} /\ db.rows \subseteq e.rows
        /\ \A v \in db.aid : e.stored[v] = db.stored[v] /\ e.status[v] = db.status[v]
    BY <1>0, <2>1, <2>2, <2>3, KeystoreAdded
  <2>5. \A a \in e.stored[w].pubs : <<w, a>> \in e.rows
    BY <1>0, <2>3, KeystoreRows
  <2>6. RowsOK(e, used)
    BY <2>4, <2>5 DEF RowsInv, RowsOK
  <2> QED
    BY <2>1, <2>6 DEF RowsInv, RowsOK
<1>2. CASE NewAddress
  <2> DEFINE w == current
             a == <<External, db.stored[w].ext>>
             e == PutNewAddress(nextAddresses(db, w), w, {a})
  <2>1. w \in db.aid /\ tx'.db = e /\ UNCHANGED <<db, used>>
    BY <1>2 DEF NewAddress, Begin, KeystoreInv, CurrentInv
  <2>2. /\ e.aid = db.aid /\ e.status = db.status /\ db.rows \subseteq e.rows
        /\ \A v \in db.aid \ {w} : e.stored[v] = db.stored[v]
        /\ e.stored[w].pubs = db.stored[w].pubs \cup {a}
    BY <1>0, <2>1, AddressAdded
  <2>3. <<w, a>> \in e.rows
    BY <1>0, <2>1, AddressRow
  <2> HIDE DEF e, a
  <2>4. RowsOK(e, used)
    BY <2>2, <2>3 DEF RowsInv, RowsOK
  <2> QED
    BY <2>1, <2>4 DEF RowsInv, RowsOK
<1>3. CASE Commit \/ DeleteCommits
  <2>1. db' = tx.db /\ tx.by # "none" /\ tx'.by = "none" /\ used' = used
    BY <1>3 DEF Commit, DeleteCommits, NoTx, KeystoreInv, ControlInv
  <2> QED
    BY <2>1 DEF RowsInv, RowsOK
<1>4. CASE DeleteKeystore
  <2> DEFINE w == worker.w
             e == [db EXCEPT !.status = Restrict(@, DOMAIN @ \ {w}),
                             !.stored = Restrict(@, DOMAIN @ \ {w}), !.aid = @ \ {w}]
  <2>1. tx'.db = e /\ UNCHANGED <<db, used>>
    BY <1>4 DEF DeleteKeystore, Begin
  <2>2. /\ e.aid = db.aid \ {w} /\ e.rows = db.rows
        /\ \A v \in db.aid \ {w} : e.stored[v] = db.stored[v] /\ e.status[v] = db.status[v]
    BY <1>0 DEF StoreOK, Restrict
  <2> HIDE DEF e
  <2>3. RowsOK(e, used)
    BY <2>2 DEF RowsInv, RowsOK
  <2> QED
    BY <2>1, <2>3 DEF RowsInv, RowsOK
<1>5. ASSUME NEW w \in Wallet, RemoveAddresses(w) PROVE RowsInv'
  <2>1. /\ db.status[w] = "removed" /\ tx' = tx /\ used' = used /\ tx.by = "none"
        /\ db' = [db EXCEPT !.rows = {r \in @ : r[1] # w}]
    BY <1>5 DEF RemoveAddresses, CanBegin, NoTx
  <2>2. /\ db'.aid = db.aid /\ db'.stored = db.stored /\ db'.status = db.status
        /\ db'.rows = {r \in db.rows : r[1] # w}
    BY <1>0, <2>1 DEF StoreOK
  <2>3. \A v, a : v # w /\ <<v, a>> \in db.rows => <<v, a>> \in db'.rows
    BY <2>2
  <2> QED
    BY <2>1, <2>2, <2>3 DEF RowsInv, RowsOK
<1>6. ASSUME NEW a \in Payees, Rollback(a) PROVE RowsInv'
  <2>1. /\ a \in used /\ UNCHANGED <<tx, used>> /\ tx.by = "none"
        /\ db' = [db EXCEPT !.rows = @ \ {RowOf(a)}]
    BY <1>6 DEF Rollback, CanBegin, NoTx
  <2>2. /\ db'.aid = db.aid /\ db'.stored = db.stored /\ db'.status = db.status
        /\ db'.rows = db.rows \ {RowOf(a)}
    BY <1>0, <2>1 DEF StoreOK
  <2>3. \A w, b : <<w, b>> = RowOf(a) => <<w, b[1], b[2]>> \in used
    BY <2>1, KeystoreAssumption DEF RowOf
  <2> QED
    BY <2>1, <2>2, <2>3 DEF RowsInv, RowsOK
<1>7. ASSUME NEW a \in Payees, AddCredits(a) PROVE RowsInv'
  <2>1. UNCHANGED <<tx, used>> /\ db' = [db EXCEPT !.rows = @ \cup {RowOf(a)}]
    BY <1>7 DEF AddCredits
  <2>2. /\ db'.aid = db.aid /\ db'.stored = db.stored /\ db'.status = db.status
        /\ db.rows \subseteq db'.rows
    BY <1>0, <2>1 DEF StoreOK
  <2> QED
    BY <2>1, <2>2, RowsKept DEF RowsInv
<1>8. ASSUME NEW w \in Wallet, ImportDone(w) \/ \E right \in BOOLEAN : RemoveWallet(w, right)
      PROVE  RowsInv'
  <2>1. /\ UNCHANGED <<tx, used>>
        /\ \/ db' = db
           \/ db.status[w] = "importing" /\ db' = [db EXCEPT !.status[w] = "ready"]
           \/ db' = [db EXCEPT !.status[w] = "removed"]
    BY <1>8 DEF ImportDone, RemoveWallet
  <2>2. /\ db'.aid = db.aid /\ db'.stored = db.stored /\ db'.rows = db.rows
        /\ \A v \in db.aid : db'.status[v] # "removed" => db.status[v] # "removed"
    BY <1>0, <2>1 DEF StoreOK
  <2> QED
    BY <2>1, <2>2, RowsKept DEF RowsInv
<1>9. ASSUME NEW a \in Payees, UseAddress(a) PROVE RowsInv'
  BY <1>9, RowsKept DEF UseAddress, RowsInv
<1>10. ASSUME UNCHANGED <<db, used>>, tx' = tx \/ tx'.by = "none" PROVE RowsInv'
  BY <1>10, RowsKept DEF RowsInv
<1>11. ASSUME NEW w \in Wallet,
              \/ CreateWallet(w)
              \/ \E ext \in ExternalIndexes, int \in InternalIndexes :
                  ImportWallet(w, ext, int) \/ ImportWalletWithMnemonic(w, ext, int)
       PROVE  RowsInv'
  BY <1>1, <1>11 DEF CreateWallet, ImportWallet, ImportWalletWithMnemonic
<1>12. ASSUME NEW w \in Wallet,
              \/ UseWallet(w)
              \/ \E right \in BOOLEAN : ExportWallet(w, right) \/ GetMnemonic(w, right)
       PROVE  RowsInv'
  BY <1>10, <1>12 DEF UseWallet, ExportWallet, GetMnemonic
<1>13. CASE \/ CommitFails \/ DeleteFails \/ RemoveCachedKeystore \/ UpdateManagedKeystores
            \/ UNCHANGED vars
  BY <1>10, <1>13 DEF CommitFails, DeleteFails, RemoveCachedKeystore, UpdateManagedKeystores, NoTx, vars
<1>14. ASSUME NEW s \in Signer,
              \/ \E right \in BOOLEAN : SignRawTx(s, right)
              \/ SignHash(s) \/ ClearPrivKey(s)
       PROVE  RowsInv'
  BY <1>10, <1>14 DEF SignRawTx, SignHash, ClearPrivKey
<1>15. ASSUME Crash \/ \E s \in Signer : SignPanics(s) PROVE RowsInv'
  BY <1>10, <1>15 DEF Crash, SignPanics, Restart, NoTx
<1> QED
  BY <1>2, <1>3, <1>4, <1>5, <1>6, <1>7, <1>8, <1>9, <1>11, <1>12, <1>13, <1>14, <1>15 DEF Next

(* No address that a user was told is lost by a failed commit, a crash,    *)
(* the removal of another wallet or the block handler's writes to the      *)
(* rows: it stays stored, and as long as nobody paid it, it has its row.   *)
THEOREM HandedOutStay ==
    Spec => []HandedOutKept
<1>1. Init => RowsInv
  BY DEF Init, RowsInv, RowsOK, NoTx
<1>2. KeystoreInv /\ RowsInv => HandedOutKept
  <2> SUFFICES ASSUME KeystoreInv, RowsInv, NEW h \in handed
               PROVE  /\ h[1] \in DOMAIN db.stored /\ h[2] \in db.stored[h[1]].pubs
                      /\ db.status[h[1]] # "removed" =>
                            h \in db.rows \/ <<h[1], h[2][1], h[2][2]>> \in used
    BY DEF HandedOutKept
  <2>1. /\ h = <<h[1], h[2]>> /\ h[1] \in db.aid /\ h[2] \in db.stored[h[1]].pubs
        /\ DOMAIN db.stored = db.aid
    BY DEF KeystoreInv, StoreOK, HandedInv
  <2> QED
    BY <2>1 DEF RowsInv, RowsOK
<1> QED
  BY <1>1, <1>2, NextRowsInv, KeystoreInvariant, PTL DEF Spec

-----------------------------------------------------------------------------
(* The lock of one keystore, and of all of them. *)
Guarded(am) ==
    /\ DOMAIN am = {"addrs", "index", "unlocked", "masterKey", "privKeys"}
    /\ am.unlocked \in BOOLEAN /\ am.masterKey \in BOOLEAN /\ am.privKeys \in BOOLEAN
    /\ ~am.unlocked => ~am.masterKey /\ ~am.privKeys
    /\ am.unlocked => am.privKeys

LockInv ==
    /\ signer \in [Signer -> {"idle", "signing", "failed"}]
    /\ password \in [Signer -> BOOLEAN]
    /\ \A w \in DOMAIN cache :
        /\ Guarded(cache[w])
        /\ cache[w].unlocked => \E s \in Signer : signer[s] # "idle"

(* Checking a passphrase, or reading the mnemonic, leaves no key behind    *)
(* and does not unlock.                                                    *)
LEMMA PassphraseChecks ==
    ASSUME NEW am, Guarded(am), NEW right \in BOOLEAN, NEW x,
           x \in {safelyCheckPassword(am, right), getMnemonic(am, right)}
    PROVE  Guarded(x) /\ x.unlocked = am.unlocked
<1>1. CASE x = safelyCheckPassword(am, right)
  BY <1>1 DEF Guarded, safelyCheckPassword, checkPassword
<1>2. CASE x = getMnemonic(am, right)
  BY <1>2 DEF Guarded, getMnemonic
<1> QED
  BY <1>1, <1>2

(* One signature unlocks with the right passphrase, and always derives the *)
(* key then.                                                               *)
LEMMA OneSignature ==
    ASSUME NEW am, Guarded(am), NEW right \in BOOLEAN, NEW x,
           x = IF right THEN signBtcec(checkPassword(am, right)) ELSE checkPassword(am, right)
    PROVE  Guarded(x)
<1> DEFINE c == checkPassword(am, right)
<1>1. /\ DOMAIN c = {"addrs", "index", "unlocked", "masterKey", "privKeys"}
      /\ c.unlocked = am.unlocked /\ c.privKeys = am.privKeys
      /\ c.masterKey \in BOOLEAN
      /\ ~am.unlocked => c.masterKey = right
      /\ am.unlocked => c.masterKey = am.masterKey
  BY DEF Guarded, checkPassword
<1> HIDE DEF c
<1>2. CASE right
  <2>1. CanDerive(c) = TRUE
    BY <1>1, <1>2 DEF CanDerive, Guarded
  <2>2. x = [c EXCEPT !.unlocked = TRUE, !.privKeys = TRUE]
    BY <1>2, <2>1 DEF signBtcec, c
  <2> QED
    BY <1>1, <2>2 DEF Guarded
<1>3. CASE ~right
  BY <1>1, <1>3 DEF Guarded, c
<1> QED
  BY <1>2, <1>3

(* Steps that touch neither the signers nor a lock: every keystore is as   *)
(* before or freshly loaded.                                               *)
LEMMA LockKept ==
    ASSUME LockInv, UNCHANGED <<signer, password>>,
           \A w \in DOMAIN cache' :
               \/ w \in DOMAIN cache /\ Guarded(cache'[w]) /\ cache'[w].unlocked = cache[w].unlocked
               \/ Guarded(cache'[w]) /\ cache'[w].unlocked = FALSE
    PROVE  LockInv'
BY DEF LockInv

(* A loaded keystore is locked. *)
LEMMA LoadedGuarded ==
    ASSUME NEW k PROVE Guarded(loadAddrManager(k)) /\ loadAddrManager(k).unlocked = FALSE
BY Loaded DEF Guarded

(* One case per handler: only signing unlocks, and its last step locks. *)
LEMMA NextLockInv ==
    KeystoreInv /\ LockInv /\ [Next]_vars => LockInv'
<1> SUFFICES ASSUME KeystoreInv, LockInv, [Next]_vars PROVE LockInv'
  OBVIOUS
<1>0. \A w \in DOMAIN cache : Guarded(cache[w])
  BY DEF LockInv
<1>1. ASSUME NEW w, NEW k, UNCHANGED <<signer, password>>,
             cache' = With(cache, w, loadAddrManager(k))
      PROVE  LockInv'
  BY <1>0, <1>1, LockKept, LoadedGuarded DEF With
<1>2. ASSUME NEW w, UNCHANGED <<signer, password>>, cache' = Restrict(cache, DOMAIN cache \ {w})
      PROVE  LockInv'
  BY <1>0, <1>2, LockKept DEF Restrict
<1>3. ASSUME UNCHANGED <<signer, password, cache>>
      PROVE  LockInv'
  BY <1>0, <1>3, LockKept
<1>4. ASSUME NEW w \in DOMAIN cache, NEW right \in BOOLEAN, UNCHANGED <<signer, password>>,
             \/ cache' = [cache EXCEPT ![w] = safelyCheckPassword(@, right)]
             \/ cache' = [cache EXCEPT ![w] = getMnemonic(@, right)]
      PROVE  LockInv'
  <2>1. /\ DOMAIN cache' = DOMAIN cache
        /\ cache'[w] \in {safelyCheckPassword(cache[w], right), getMnemonic(cache[w], right)}
        /\ \A v \in DOMAIN cache : v # w => cache'[v] = cache[v]
    BY <1>4
  <2>2. Guarded(cache'[w]) /\ cache'[w].unlocked = cache[w].unlocked
    BY <1>0, <2>1, PassphraseChecks
  <2> QED
    BY <1>0, <1>4, <2>1, <2>2, LockKept
<1>5. ASSUME Restart PROVE LockInv'
  <2>1. /\ signer' = [s \in Signer |-> "idle"] /\ password' = [s \in Signer |-> FALSE]
        /\ \A w \in DOMAIN cache' : Guarded(cache'[w]) /\ cache'[w].unlocked = FALSE
    BY <1>5, LoadedGuarded DEF Restart
  <2> QED
    BY <2>1 DEF LockInv
<1>6. ASSUME NEW s \in Signer, NEW right \in BOOLEAN, SignRawTx(s, right) PROVE LockInv'
  BY <1>6 DEF SignRawTx, LockInv
<1>7. ASSUME NEW s \in Signer, SignHash(s) PROVE LockInv'
  <2> DEFINE w == current
  <2>1. /\ w \in DOMAIN cache /\ password[s] \in BOOLEAN
        /\ DOMAIN cache' = DOMAIN cache
        /\ \A v \in DOMAIN cache : v # w => cache'[v] = cache[v]
        /\ cache'[w] = IF password[s] THEN signBtcec(checkPassword(cache[w], password[s]))
                       ELSE checkPassword(cache[w], password[s])
        /\ signer' \in [Signer -> {"idle", "signing", "failed"}] /\ signer'[s] # "idle"
        /\ password' = password
    BY <1>7 DEF SignHash, KeystoreInv, CurrentInv, LockInv
  <2>2. Guarded(cache'[w])
    BY <1>0, <2>1, OneSignature
  <2> QED
    BY <1>0, <2>1, <2>2 DEF LockInv
<1>8. ASSUME NEW s \in Signer, ClearPrivKey(s) PROVE LockInv'
  <2>1. \A w \in DOMAIN cache' : Guarded(cache'[w]) /\ cache'[w].unlocked = FALSE
    BY <1>0, <1>8 DEF ClearPrivKey, clearPrivKeys, Guarded
  <2> QED
    BY <1>8, <2>1 DEF ClearPrivKey, LockInv
<1>9. ASSUME NewAddress PROVE LockInv'
  <2>1. /\ current \in DOMAIN cache
        /\ cache' = [cache EXCEPT ![current] = updateManagedAddress(@, db.stored[current].ext)]
        /\ UNCHANGED <<signer, password>>
    BY <1>9 DEF NewAddress, KeystoreInv, CurrentInv
  <2>2. /\ Guarded(updateManagedAddress(cache[current], db.stored[current].ext))
        /\ updateManagedAddress(cache[current], db.stored[current].ext).unlocked = cache[current].unlocked
    BY <1>0, <2>1 DEF updateManagedAddress, Guarded
  <2> QED
    BY <1>0, <2>1, <2>2, LockKept
<1>10. ASSUME NEW w \in Wallet,
              \/ CreateWallet(w)
              \/ \E ext \in ExternalIndexes, int \in InternalIndexes :
                  ImportWallet(w, ext, int) \/ ImportWalletWithMnemonic(w, ext, int)
       PROVE  LockInv'
  BY <1>1, <1>10 DEF CreateWallet, ImportWallet, ImportWalletWithMnemonic, AddKeystore
<1>11. ASSUME NEW w \in Wallet,
              \/ UseWallet(w) \/ ImportDone(w) \/ RemoveAddresses(w)
              \/ \E right \in BOOLEAN :
                  RemoveWallet(w, right) \/ ExportWallet(w, right) \/ GetMnemonic(w, right)
       PROVE  LockInv'
  BY <1>3, <1>4, <1>11
     DEF UseWallet, ImportDone, RemoveAddresses, RemoveWallet, CheckPrivPassphrase, ExportWallet,
         GetMnemonic, mem
<1>12. CASE RemoveCachedKeystore
  BY <1>2, <1>12 DEF RemoveCachedKeystore, Uncached
<1>13. CASE DeleteKeystore
  BY <1>2, <1>13 DEF DeleteKeystore
<1>14. CASE UpdateManagedKeystores
  BY <1>1, <1>3, <1>14 DEF UpdateManagedKeystores
<1>15. CASE \/ \E a \in Payees : UseAddress(a) \/ AddCredits(a) \/ Rollback(a)
            \/ Commit \/ CommitFails \/ DeleteCommits \/ DeleteFails \/ UNCHANGED vars
  BY <1>3, <1>15 DEF UseAddress, AddCredits, Rollback, Commit, CommitFails, DeleteCommits,
                     DeleteFails, vars, mem
<1>16. ASSUME Crash \/ \E s \in Signer : SignPanics(s) PROVE LockInv'
  BY <1>5, <1>16 DEF Crash, SignPanics
<1> QED
  BY <1>6, <1>7, <1>8, <1>9, <1>10, <1>11, <1>12, <1>13, <1>14, <1>15, <1>16 DEF Next

(* Whatever signers, requests and the worker do at once, a locked keystore *)
(* holds no private key, and every keystore is locked when nobody signs.   *)
THEOREM NoKeyOutlives ==
    Spec => []LockedHoldsNoKey
<1>1. Init => LockInv
  BY DEF Init, LockInv
<1>2. LockInv => LockedHoldsNoKey
  BY DEF LockInv, Guarded, LockedHoldsNoKey
<1> QED
  BY <1>1, <1>2, NextLockInv, KeystoreInvariant, PTL DEF Spec

-----------------------------------------------------------------------------
(* Least and greatest elements.                                            *)

LEMMA Least ==
    ASSUME NEW T \in SUBSET Nat, T # {}
    PROVE  \E x \in T : \A y \in T : x <= y
<1> DEFINE R == OpToRel(<, Nat)
<1>1. IsWellFoundedOn(R, Nat)
  BY NatLessThanWellFounded
<1>2. PICK x \in T : \A y \in T : ~(<<y, x>> \in R)
  <2> HIDE DEF R
  <2> QED
    BY <1>1, WFMin
<1>3. \A y \in T : ~(y < x)
  BY <1>2 DEF OpToRel
<1> QED
  BY <1>3

(* Min of the community modules is that element. *)
LEMMA MinIsLeast ==
    ASSUME NEW T \in SUBSET Nat, T # {}
    PROVE  Min(T) \in T /\ \A y \in T : Min(T) <= y
BY Least DEF Min

(* Max of a bounded nonempty set of naturals. *)
LEMMA MaxIsGreatest ==
    ASSUME NEW T \in SUBSET Nat, T # {}, NEW n \in Nat, \A y \in T : y <= n
    PROVE  Max(T) \in T /\ \A y \in T : y <= Max(T)
<1> DEFINE S == {n - y : y \in T}
<1>0. \A y \in T : n - y \in Nat /\ n - y \in S
  OBVIOUS
<1>1. S \in SUBSET Nat /\ S # {}
  BY <1>0
<1>2. PICK x \in S : \A y \in S : x <= y
  BY <1>1, Least
<1>3. PICK m \in T : x = n - m
  BY <1>2
<1>5. \A y \in T : m >= y
  <2> TAKE y \in T
  <2>1. n - m <= n - y
    BY <1>0, <1>2, <1>3
  <2> QED
    BY <2>1
<1> QED
  BY <1>5 DEF Max

(* Max of two naturals. *)
LEMMA MaxOfTwo ==
    ASSUME NEW a \in Nat, NEW b \in Nat
    PROVE  Max({a, b}) \in Nat /\ Max({a, b}) \in {a, b} /\ Max({a, b}) >= a /\ Max({a, b}) >= b
BY MaxIsGreatest, a <= a + b, b <= a + b, a + b \in Nat, {a, b} \in SUBSET Nat

-----------------------------------------------------------------------------
(* The scan of createManagerKeyScope.                                      *)

LEMMA NextIndexIs ==
    ASSUME NEW w, NEW branch, NEW n \in Nat
    PROVE  /\ NextIndex(w, branch, n) \in 0..n
           /\ \A j \in 0..(n - 1) : <<w, branch, j>> \in used => j < NextIndex(w, branch, n)
           /\ NextIndex(w, branch, n) # 0 =>
                \E j \in 0..(n - 1) : <<w, branch, j>> \in used /\ NextIndex(w, branch, n) = j + 1
<1> DEFINE U == {j \in 0..(n - 1) : <<w, branch, j>> \in used}
           T == {0} \cup {i + 1 : i \in U}
<1>0. \A j \in U : j \in Nat /\ j + 1 \in Nat /\ j + 1 <= n /\ j + 1 \in T
  OBVIOUS
<1>7. 0 \in T /\ \A y \in T : y = 0 \/ \E j \in U : y = j + 1
  OBVIOUS
<1> HIDE DEF T, U
<1>8. \A y \in T : y \in Nat /\ y <= n
  BY <1>0, <1>7
<1>1. T \in SUBSET Nat /\ T # {} /\ \A y \in T : y <= n
  BY <1>7, <1>8
<1>2. Max(T) \in T /\ \A y \in T : y <= Max(T)
  BY <1>1, MaxIsGreatest
<1>3. NextIndex(w, branch, n) = Max(T)
  BY DEF NextIndex, T, U
<1>4. \A j \in U : j + 1 <= Max(T)
  BY <1>0, <1>2
<1>5. Max(T) \in 0..n
  BY <1>2, <1>8
<1>6. Max(T) # 0 => \E j \in U : Max(T) = j + 1
  BY <1>2, <1>7
<1> QED
  BY <1>3, <1>4, <1>5, <1>6 DEF U

(* The scan ends, a gap after the last used address and the number asked   *)
(* for, and at no earlier index.                                           *)
LEMMA ScannedIs ==
    ASSUME used \subseteq Payees, NEW w, NEW branch, NEW num \in Nat
    PROVE  LET N == Scanned(w, branch, num)
           IN  /\ N \in Nat
               /\ N >= NextIndex(w, branch, N) + AddressGapLimit
               /\ N >= num + AddressGapLimit
               /\ \A n \in 0..(N - 1) :
                    n < NextIndex(w, branch, n) + AddressGapLimit \/ n < num + AddressGapLimit
<1> DEFINE top == MaxIndex + num + AddressGapLimit + 1
           Next1(n) == NextIndex(w, branch, n)
           T == {n \in 0..top : n >= Max({Next1(n), num}) + AddressGapLimit}
           N == Scanned(w, branch, num)
<1>1. top \in Nat /\ AddressGapLimit \in Nat /\ MaxIndex \in Nat
  BY KeystoreAssumption
<1>2. \A n \in Nat : /\ Next1(n) \in Nat
                     /\ Max({Next1(n), num}) \in Nat
                     /\ Max({Next1(n), num}) \in {Next1(n), num}
                     /\ Max({Next1(n), num}) >= Next1(n) /\ Max({Next1(n), num}) >= num
  <2> TAKE n \in Nat
  <2>1. Next1(n) \in Nat
    BY NextIndexIs
  <2> QED
    BY <2>1, MaxOfTwo
<1>3. Next1(top) <= MaxIndex + 1
  <2>1. CASE Next1(top) = 0
    BY <1>1, <2>1
  <2>2. CASE Next1(top) # 0
    <3>1. PICK j \in 0..(top - 1) : <<w, branch, j>> \in used /\ Next1(top) = j + 1
      BY <1>1, <2>2, NextIndexIs
    <3>2. <<w, branch, j>>[3] \in 0..MaxIndex
      BY <3>1, KeystoreAssumption
    <3> QED
      BY <1>1, <3>1, <3>2
  <2> QED
    BY <2>1, <2>2
<1>4. top \in T
  BY <1>1, <1>2, <1>3
<1>5. T \in SUBSET Nat /\ T # {}
  BY <1>4
<1>6. N = Min(T)
  BY DEF Scanned
<1>7. N \in T /\ \A y \in T : N <= y
  BY <1>5, <1>6, MinIsLeast
<1> HIDE DEF N
<1>8. N \in Nat /\ N >= Max({Next1(N), num}) + AddressGapLimit
  BY <1>7
<1>9. ASSUME NEW n \in 0..(N - 1)
      PROVE  n < Next1(n) + AddressGapLimit \/ n < num + AddressGapLimit
  <2>1. n \in 0..top /\ n \notin T /\ n \in Nat
    BY <1>1, <1>7, <1>8
  <2>2. ~(n >= Max({Next1(n), num}) + AddressGapLimit)
    BY <2>1
  <2> QED
    BY <1>1, <1>2, <2>1, <2>2
<1> QED
  BY <1>1, <1>2, <1>8, <1>9 DEF N

(* Every address below ext is within a gap of the number the wallet was    *)
(* restored with, or of an address used before it.                         *)
Linked(U, w, ext, num) ==
    \A i \in 0..(ext - 1) :
        \/ i < num + AddressGapLimit
        \/ \E j \in Nat : j < i /\ i <= j + AddressGapLimit /\ <<w, External, j>> \in U

(* The number of addresses that a restore derives on a branch. *)
LEMMA ChildNumIs ==
    ASSUME used \subseteq Payees, NEW w, NEW branch, NEW num \in Nat
    PROVE  /\ ChildNum(w, branch, num) \in Nat
           /\ num # 0 =>
                LET N == Scanned(w, branch, num)
                    m == ChildNum(w, branch, num)
                IN  m >= num /\ m >= NextIndex(w, branch, N) /\ m + AddressGapLimit <= N
                    /\ m \in {num, NextIndex(w, branch, N)}
<1> DEFINE N == Scanned(w, branch, num)
           x == NextIndex(w, branch, N)
<1>1. N \in Nat /\ N >= x + AddressGapLimit /\ N >= num + AddressGapLimit
  BY ScannedIs
<1> HIDE DEF N
<1>2. x \in Nat
  BY <1>1, NextIndexIs
<1>3. Max({x, num}) \in Nat /\ Max({x, num}) \in {x, num} /\ Max({x, num}) >= x /\ Max({x, num}) >= num
  BY <1>2, MaxOfTwo
<1>4. ChildNum(w, branch, num) = IF num = 0 THEN 0 ELSE Max({x, num})
  BY DEF ChildNum, N
<1> QED
  BY <1>1, <1>2, <1>3, <1>4, KeystoreAssumption DEF N

(* Restoring finds every used address of a linked wallet: the least one it *)
(* missed would have no used address within a gap before it.               *)
LEMMA RestoreCovers ==
    ASSUME used \subseteq Payees, NEW w, NEW ext \in Nat, NEW num \in Nat, num # 0,
           Linked(used, w, ext, num)
    PROVE  \A i \in 0..(ext - 1) :
               <<w, External, i>> \in used => i < ChildNum(w, External, num)
<1> DEFINE N == Scanned(w, External, num)
           m == ChildNum(w, External, num)
           T == {i \in Nat : i < ext /\ <<w, External, i>> \in used /\ i >= m}
<1>1. /\ N \in Nat /\ m \in Nat /\ m >= num /\ m + AddressGapLimit <= N
      /\ m >= NextIndex(w, External, N)
  BY ScannedIs, ChildNumIs
<1>2. \A j \in 0..(N - 1) : <<w, External, j>> \in used => j < m
  <2>1. /\ NextIndex(w, External, N) \in Nat
        /\ \A j \in 0..(N - 1) : <<w, External, j>> \in used => j < NextIndex(w, External, N)
    BY <1>1, NextIndexIs
  <2> QED
    BY <1>1, <2>1
<1> HIDE DEF N, m
<1>3. T = {}
  <2> SUFFICES ASSUME T # {} PROVE FALSE
    OBVIOUS
  <2>1. PICK i \in T : \A y \in T : i <= y
    BY Least
  <2>2. i \in Nat /\ i < ext /\ i >= N
    BY <1>1, <1>2, <2>1
  <2>3. ~(i < num + AddressGapLimit)
    BY <1>1, <2>2, KeystoreAssumption
  <2>4. PICK j \in Nat : j < i /\ i <= j + AddressGapLimit /\ <<w, External, j>> \in used
    BY <2>2, <2>3 DEF Linked
  <2>5. j >= m
    BY <1>1, <2>2, <2>4, KeystoreAssumption
  <2>6. j \in T
    BY <2>2, <2>4, <2>5
  <2> QED
    BY <2>1, <2>4, <2>6
<1> QED
  BY <1>1, <1>3 DEF m

(* What createManagerKeyScope makes is linked. *)
LEMMA ScanLinks ==
    ASSUME used \subseteq Payees, NEW w, NEW num \in Nat
    PROVE  Linked(used, w, ChildNum(w, External, num), Atleast1(num))
<1> DEFINE N == Scanned(w, External, num)
           m == ChildNum(w, External, num)
<1> SUFFICES ASSUME NEW i \in 0..(m - 1), ~(i < Atleast1(num) + AddressGapLimit)
             PROVE  \E j \in Nat : j < i /\ i <= j + AddressGapLimit /\ <<w, External, j>> \in used
  BY DEF Linked
<1>1. m \in Nat /\ num # 0
  BY ChildNumIs DEF ChildNum
<1>2. N \in Nat /\ m + AddressGapLimit <= N
  BY <1>1, ScannedIs, ChildNumIs
<1>3. i \in 0..(N - 1) /\ i \in Nat
  BY <1>1, <1>2, KeystoreAssumption
<1>4. i < NextIndex(w, External, i) + AddressGapLimit
  <2>1. ~(i < num + AddressGapLimit)
    BY <1>1 DEF Atleast1
  <2> QED
    BY <1>3, <2>1, ScannedIs
<1>5. NextIndex(w, External, i) \in Nat /\ NextIndex(w, External, i) # 0
  <2>1. NextIndex(w, External, i) \in 0..i
    BY <1>3, NextIndexIs
  <2> QED
    BY <1>1, <1>3, <1>4, <2>1, KeystoreAssumption DEF Atleast1
<1>6. PICK j \in 0..(i - 1) : <<w, External, j>> \in used /\ NextIndex(w, External, i) = j + 1
  BY <1>3, <1>5, NextIndexIs
<1>7. j \in Nat /\ j < i /\ i <= j + AddressGapLimit
  BY <1>3, <1>4, <1>6, KeystoreAssumption
<1> QED
  BY <1>6, <1>7

-----------------------------------------------------------------------------
(* What RestoreFindsUsed needs of a stored keystore, and what the gap      *)
(* limit of NewAddress needs of a cached one: without internal addresses   *)
(* its index map leads to external ones.                                   *)
KeysLinked(U, num, w, k) ==
    /\ k.ext \in Nat /\ k.int \in Nat
    /\ k.int = 0 => Linked(U, w, k.ext, num) /\ \A a \in k.pubs : a[1] = External

IndexExternal(am) == \A i \in DOMAIN am.index : am.index[i] = External

RestoreInv ==
    /\ used \subseteq Payees
    /\ hint \in [Wallet -> Nat]
    /\ \A w \in db.aid : hint[w] # 0 /\ KeysLinked(used, hint[w], w, db.stored[w])
    /\ tx.by # "none" => \A w \in tx.db.aid : hint[w] # 0 /\ KeysLinked(used, hint[w], w, tx.db.stored[w])
    /\ \A w \in DOMAIN cache \cap db.aid : db.stored[w].int = 0 => IndexExternal(cache[w])
    /\ api.pc = "add" => (tx.db.stored[api.w].int = 0 => IndexExternal(cache[api.w]))

(* Without internal addresses the index of a loaded keystore is external. *)
LEMMA LoadedIndex ==
    ASSUME NEW k, \A a \in k.pubs : a[1] = External
    PROVE  IndexExternal(loadAddrManager(k))
<1> SUFFICES ASSUME NEW i \in {a[2] : a \in k.pubs}
             PROVE  Max({a[1] : a \in {b \in k.pubs : b[2] = i}}) = External
  BY DEF IndexExternal, loadAddrManager
<1>1. {a[1] : a \in {b \in k.pubs : b[2] = i}} = {0}
  BY DEF External
<1>2. Max({0}) \in {0}
  BY MaxIsGreatest, {0} \in SUBSET Nat, \A y \in {0} : y <= 0
<1> QED
  BY <1>1, <1>2 DEF External

(* Steps that add no address: used addresses only make links. *)
LEMMA RestoreKept ==
    ASSUME KeystoreInv, KeystoreInv', RestoreInv,
           hint' = hint, used \subseteq used', used' \subseteq Payees,
           \A w \in db'.aid : w \in db.aid /\ db'.stored[w] = db.stored[w],
           \/ tx'.by = "none" \/ tx' = tx
           \/ \A w \in tx'.db.aid : w \in db.aid /\ tx'.db.stored[w] = db.stored[w],
           \A w \in DOMAIN cache' :
               \/ w \in DOMAIN cache /\ cache'[w].index = cache[w].index
               \/ w \in db.aid /\ cache'[w] = loadAddrManager(db.stored[w]),
           api'.pc = "add" => /\ api' = api /\ tx' = tx
                              /\ cache'[api.w].index = cache[api.w].index
    PROVE  RestoreInv'
<1>1. \A w, k : KeysLinked(used, hint[w], w, k) => KeysLinked(used', hint'[w], w, k)
  BY DEF KeysLinked, Linked
<1>2. \A w \in db'.aid : hint'[w] # 0 /\ KeysLinked(used', hint'[w], w, db'.stored[w])
  BY <1>1 DEF RestoreInv
<1>3. tx'.by # "none" => \A w \in tx'.db.aid : hint'[w] # 0 /\ KeysLinked(used', hint'[w], w, tx'.db.stored[w])
  BY <1>1 DEF RestoreInv
<1>4. ASSUME NEW w \in DOMAIN cache' \cap db'.aid, db'.stored[w].int = 0
      PROVE  IndexExternal(cache'[w])
  <2>1. w \in db.aid /\ db.stored[w].int = 0
    BY <1>4
  <2>2. CASE w \in DOMAIN cache /\ cache'[w].index = cache[w].index
    BY <2>1, <2>2 DEF RestoreInv, IndexExternal
  <2>3. CASE cache'[w] = loadAddrManager(db.stored[w])
    <3>1. \A a \in db.stored[w].pubs : a[1] = External
      BY <2>1 DEF RestoreInv, KeysLinked
    <3> QED
      BY <2>3, <3>1, LoadedIndex
  <2> QED
    BY <2>2, <2>3
<1>5. api'.pc = "add" => (tx'.db.stored[api'.w].int = 0 => IndexExternal(cache'[api'.w]))
  BY DEF RestoreInv, IndexExternal
<1> QED
  BY <1>2, <1>3, <1>4, <1>5 DEF RestoreInv, IndexExternal

(* A created or imported keystore is linked by the scan itself. *)
LEMMA AddRestores ==
    ASSUME KeystoreInv, RestoreInv, NEW w \in Wallet, NEW ext \in Nat, NEW int \in Nat,
           AddKeystore(w, ext, int)
    PROVE  RestoreInv'
<1> DEFINE c == createManagerKeyScope(db, w, ext, int)
           as == c.stored[w].pubs
           st == IF as = {} THEN "ready" ELSE "importing"
           e == PutNewAddress([c EXCEPT !.status = With(@, w, st)], w, as)
           k == ScopeKeystore(w, ext, int)
<1>1. /\ w \notin db.aid /\ api.pc = "idle"
      /\ tx' = [by |-> "api", w |-> w, db |-> e]
      /\ cache' = With(cache, w, loadAddrManager(c.stored[w]))
      /\ api' = [pc |-> "add", w |-> w]
      /\ hint' = [hint EXCEPT ![w] = Atleast1(ext)]
      /\ UNCHANGED <<db, used>>
  BY DEF AddKeystore, Request, Begin
<1>2. st \in {"ready", "importing"} /\ StoreOK(db)
  BY DEF KeystoreInv
<1> HIDE DEF e, c, st
<1>3. /\ e.aid = db.aid \cup {w}
      /\ \A v \in db.aid : e.stored[v] = db.stored[v]
      /\ e.stored[w] = k /\ c.stored[w] = k
  BY <1>1, <1>2, KeystoreAdded DEF e, c
<1>4. /\ hint' \in [Wallet -> Nat] /\ hint'[w] = Atleast1(ext) /\ hint'[w] # 0
      /\ \A v \in db.aid : hint'[v] = hint[v]
  BY <1>1 DEF RestoreInv, Atleast1, KeystoreInv, StoreOK
<1>5. KeysLinked(used', hint'[w], w, k)
  <2>1. used \subseteq Payees
    BY DEF RestoreInv
  <2>2. k.ext \in Nat /\ k.int \in Nat /\ Linked(used, w, k.ext, Atleast1(ext))
    BY <2>1, ChildNumIs, ScanLinks DEF ScopeKeystore
  <2>3. k.int = 0 => \A a \in k.pubs : a[1] = External
    BY DEF ScopeKeystore, Rows
  <2> QED
    BY <1>1, <1>4, <2>2, <2>3 DEF KeysLinked
<1>6. \A v \in db.aid : KeysLinked(used', hint'[v], v, db.stored[v])
  BY <1>1, <1>4 DEF RestoreInv
<1>7. /\ cache'[w] = loadAddrManager(k)
      /\ \A v \in DOMAIN cache' : v # w => v \in DOMAIN cache /\ cache'[v] = cache[v]
  BY <1>1, <1>3 DEF With
<1> QED
  BY <1>1, <1>3, <1>4, <1>5, <1>6, <1>7, LoadedIndex DEF RestoreInv, KeysLinked, IndexExternal

(* NewAddress refuses an address a whole gap after the last used one. *)
LEMMA NewAddressRestores ==
    ASSUME KeystoreInv, RestoreInv, NewAddress
    PROVE  RestoreInv'
<1> DEFINE w == current
           next == db.stored[w].ext
           e == PutNewAddress(nextAddresses(db, w), w, {<<External, next>>})
<1>1. /\ w # None /\ WithinGap(w, cache[w], next)
      /\ tx' = [by |-> "api", w |-> w, db |-> e]
      /\ cache' = [cache EXCEPT ![w] = updateManagedAddress(@, next)]
      /\ api' = [pc |-> "address", w |-> w]
      /\ UNCHANGED <<db, used, hint>>
  BY DEF NewAddress, Begin
<1>2. StoreOK(db) /\ w \in db.aid /\ w \in DOMAIN cache /\ next \in Nat
  BY <1>1 DEF KeystoreInv, CurrentInv, RestoreInv, KeysLinked
<1>3. /\ e.aid = db.aid
      /\ \A v \in db.aid \ {w} : e.stored[v] = db.stored[v]
      /\ e.stored[w].pubs = db.stored[w].pubs \cup {<<External, next>>}
      /\ e.stored[w].ext = next + 1 /\ e.stored[w].int = db.stored[w].int
  BY <1>2, AddressAdded
<1> HIDE DEF e
<1>4. /\ DOMAIN cache' = DOMAIN cache
      /\ \A v \in DOMAIN cache : v # w => cache'[v] = cache[v]
      /\ cache'[w].index = With(cache[w].index, next, External)
  <2>1. DOMAIN cache[w] = {"addrs", "index", "unlocked", "masterKey", "privKeys"}
    BY <1>2 DEF KeystoreInv, CacheInv
  <2> QED
    BY <1>1, <1>2, <2>1 DEF updateManagedAddress
<1>5. db.stored[w].int = 0 => IndexExternal(cache'[w])
  BY <1>2, <1>4 DEF RestoreInv, IndexExternal, With
<1>6. db.stored[w].int = 0 => Linked(used, w, next + 1, hint[w])
  <2> SUFFICES ASSUME db.stored[w].int = 0, NEW i \in 0..next, ~(i < hint[w] + AddressGapLimit)
               PROVE  \E j \in Nat : j < i /\ i <= j + AddressGapLimit /\ <<w, External, j>> \in used
    BY <1>2 DEF Linked
  <2>1. CASE i # next
    BY <1>2, <2>1, i \in 0..(next - 1) DEF RestoreInv, KeysLinked, Linked
  <2>2. CASE i = next
    <3>1. hint[w] \in Nat
      BY <1>2 DEF RestoreInv, StoreOK
    <3>2. PICK j \in GapWindow(next) \cap DOMAIN cache[w].index : <<w, cache[w].index[j], j>> \in used
      BY <1>1, <1>2, <2>2, <3>1, KeystoreAssumption DEF WithinGap, RestoreInv
    <3>3. cache[w].index[j] = External
      BY <1>2, <3>2 DEF RestoreInv, IndexExternal
    <3>4. <<w, External, j>> \in Payees
      BY <3>2, <3>3 DEF RestoreInv
    <3>5. <<w, External, j>>[3] \in 0..MaxIndex
      BY <3>4, KeystoreAssumption
    <3>6. j \in Nat /\ j < next /\ next <= j + AddressGapLimit
      BY <1>2, <3>2, <3>5, KeystoreAssumption DEF GapWindow
    <3> QED
      BY <2>2, <3>2, <3>3, <3>6
  <2> QED
    BY <2>1, <2>2
<1>7. KeysLinked(used, hint[w], w, e.stored[w])
  BY <1>2, <1>3, <1>6 DEF RestoreInv, KeysLinked
<1>8. \A v \in db.aid : KeysLinked(used', hint'[v], v, e.stored[v])
  BY <1>1, <1>3, <1>7 DEF RestoreInv
<1> QED
  BY <1>1, <1>2, <1>3, <1>4, <1>5, <1>8 DEF RestoreInv, IndexExternal

(* A commit makes the linked keystore of the transaction the stored one. *)
LEMMA CommitRestores ==
    ASSUME KeystoreInv, KeystoreInv', RestoreInv, Commit
    PROVE  RestoreInv'
<1>1. /\ tx.by = "api" /\ db' = tx.db /\ tx'.by = "none" /\ api'.pc = "idle"
      /\ UNCHANGED <<cache, used, hint>>
  BY DEF Commit, NoTx, mem
<1>2. \A w \in DOMAIN cache \cap db'.aid : db'.stored[w].int = 0 => IndexExternal(cache[w])
  <2>1. CASE api.pc = "add"
    BY <1>1, <2>1 DEF KeystoreInv, TxInv, Keeps, RestoreInv
  <2>2. CASE api.pc = "address"
    BY <1>1, <2>2 DEF KeystoreInv, TxInv, Keeps, RestoreInv
  <2> QED
    BY <1>1, <2>1, <2>2 DEF KeystoreInv, ControlInv
<1> QED
  BY <1>1, <1>2 DEF RestoreInv

(* One case per handler. *)
LEMMA NextRestoreInv ==
    KeystoreInv /\ KeystoreInv' /\ RestoreInv /\ [Next]_vars => RestoreInv'
<1> SUFFICES ASSUME KeystoreInv, KeystoreInv', RestoreInv, [Next]_vars PROVE RestoreInv'
  OBVIOUS
<1>0. /\ used \subseteq Payees
      /\ \A w \in DOMAIN cache :
            DOMAIN cache[w] = {"addrs", "index", "unlocked", "masterKey", "privKeys"}
      /\ api.pc = "add" => api.w \in DOMAIN cache
  BY DEF RestoreInv, KeystoreInv, CacheInv, ControlInv, Adding, Deleting
<1> DEFINE SameIndexes ==
              /\ DOMAIN cache' = DOMAIN cache
              /\ \A w \in DOMAIN cache : cache'[w].index = cache[w].index
<1>1. ASSUME NEW w \in Wallet,
             \/ CreateWallet(w)
             \/ \E ext \in ExternalIndexes, int \in InternalIndexes :
                 ImportWallet(w, ext, int) \/ ImportWalletWithMnemonic(w, ext, int)
      PROVE  RestoreInv'
  <2>1. \A n \in Nat : Atleast1(n) \in Nat
    BY DEF Atleast1
  <2> QED
    BY <1>1, <2>1, AddRestores, KeystoreAssumption
       DEF CreateWallet, ImportWallet, ImportWalletWithMnemonic
<1>2. ASSUME UNCHANGED <<tx, api, hint>>, SameIndexes,
             used \subseteq used', used' \subseteq Payees,
             db'.aid = db.aid, db'.stored = db.stored
      PROVE  RestoreInv'
  BY <1>0, <1>2, RestoreKept
<1>3. ASSUME NEW w \in Wallet,
             \/ UseWallet(w) \/ ImportDone(w) \/ RemoveAddresses(w)
             \/ \E right \in BOOLEAN :
                 RemoveWallet(w, right) \/ ExportWallet(w, right) \/ GetMnemonic(w, right)
      PROVE  RestoreInv'
  <2>1. db'.aid = db.aid /\ db'.stored = db.stored
    BY <1>3 DEF UseWallet, ImportDone, RemoveAddresses, RemoveWallet, ExportWallet, GetMnemonic,
               KeystoreInv, StoreOK
  <2>2. UNCHANGED <<tx, api, hint, used>>
    BY <1>3 DEF UseWallet, ImportDone, RemoveAddresses, RemoveWallet, ExportWallet, GetMnemonic
  <2>3. SameIndexes
    <3>1. ASSUME NEW right \in BOOLEAN, w \in DOMAIN cache,
                 \/ cache' = [cache EXCEPT ![w] = safelyCheckPassword(@, right)]
                 \/ cache' = [cache EXCEPT ![w] = getMnemonic(@, right)]
          PROVE  SameIndexes
      BY <1>0, <3>1 DEF safelyCheckPassword, checkPassword, getMnemonic
    <3> QED
      BY <1>3, <3>1 DEF UseWallet, ImportDone, RemoveAddresses, RemoveWallet, ExportWallet,
                        GetMnemonic, CheckPrivPassphrase, mem
  <2> QED
    BY <1>0, <1>2, <2>1, <2>2, <2>3
<1>4. ASSUME NEW a \in Payees, UseAddress(a) PROVE RestoreInv'
  BY <1>0, <1>2, <1>4 DEF UseAddress, mem
<1>15. ASSUME NEW a \in Payees, AddCredits(a) \/ Rollback(a) PROVE RestoreInv'
  BY <1>0, <1>2, <1>15, RowSteps DEF mem
<1>5. ASSUME NEW s \in Signer,
             \/ \E right \in BOOLEAN : SignRawTx(s, right)
             \/ SignHash(s) \/ ClearPrivKey(s)
      PROVE  RestoreInv'
  <2>1. UNCHANGED <<db, tx, api, hint, used>>
    BY <1>5 DEF SignRawTx, SignHash, ClearPrivKey
  <2>2. SameIndexes
    <3>1. CASE \E right \in BOOLEAN : SignRawTx(s, right)
      BY <3>1 DEF SignRawTx
    <3>2. CASE SignHash(s)
      BY <1>0, <3>2 DEF SignHash, checkPassword, signBtcec, KeystoreInv, CurrentInv
    <3>3. CASE ClearPrivKey(s)
      BY <1>0, <3>3 DEF ClearPrivKey, clearPrivKeys
    <3> QED
      BY <1>5, <3>1, <3>2, <3>3
  <2> QED
    BY <1>0, <1>2, <2>1, <2>2
<1>6. CASE UNCHANGED vars
  BY <1>0, <1>2, <1>6 DEF vars, mem
<1>7. CASE CommitFails
  <2>1. tx'.by = "none" /\ api'.pc # "add" /\ UNCHANGED <<db, cache, used, hint>>
    BY <1>7 DEF CommitFails, NoTx, mem, KeystoreInv, ControlInv
  <2> QED
    BY <1>0, <2>1, RestoreKept
<1>8. CASE RemoveCachedKeystore
  <2>1. /\ api.pc = "repair" /\ api'.pc # "add" /\ UNCHANGED <<db, tx, used, hint>>
        /\ \A w \in DOMAIN cache' : w \in DOMAIN cache /\ cache'[w] = cache[w]
    BY <1>8 DEF RemoveCachedKeystore, Uncached, Restrict
  <2> QED
    BY <1>0, <2>1, RestoreKept
<1>9. CASE DeleteKeystore
  <2> DEFINE w == worker.w
             e == [db EXCEPT !.status = Restrict(@, DOMAIN @ \ {w}),
                             !.stored = Restrict(@, DOMAIN @ \ {w}), !.aid = @ \ {w}]
  <2>1. /\ tx.by = "none" /\ UNCHANGED <<db, api, used, hint>> /\ tx'.db = e
        /\ \A v \in DOMAIN cache' : v \in DOMAIN cache /\ cache'[v] = cache[v]
    BY <1>9 DEF DeleteKeystore, CanBegin, NoTx, Begin, Restrict
  <2>2. \A v \in e.aid : v \in db.aid /\ e.stored[v] = db.stored[v]
    BY DEF KeystoreInv, StoreOK, Restrict
  <2>3. api'.pc # "add"
    BY <2>1 DEF KeystoreInv, ControlInv
  <2> HIDE DEF e
  <2> QED
    BY <1>0, <2>1, <2>2, <2>3, RestoreKept
<1>10. CASE DeleteCommits
  <2>1. /\ tx'.by = "none" /\ db' = tx.db /\ worker.pc = "commit" /\ UNCHANGED <<cache, api, used, hint>>
    BY <1>10 DEF DeleteCommits, NoTx, mem
  <2>2. api'.pc # "add" /\ \A v \in db'.aid : v \in db.aid /\ db'.stored[v] = db.stored[v]
    BY <2>1 DEF KeystoreInv, ControlInv, TxInv, Keeps
  <2> QED
    BY <1>0, <2>1, <2>2, RestoreKept
<1>11. CASE DeleteFails
  <2>1. tx'.by = "none" /\ worker.pc = "commit" /\ UNCHANGED <<db, cache, api, used, hint>>
    BY <1>11 DEF DeleteFails, NoTx, mem
  <2>2. api'.pc # "add"
    BY <2>1 DEF KeystoreInv, ControlInv
  <2> QED
    BY <1>0, <2>1, <2>2, RestoreKept
<1>12. CASE UpdateManagedKeystores
  <2>1. UNCHANGED <<db, tx, api, used, hint>>
    BY <1>12 DEF UpdateManagedKeystores
  <2>2. /\ worker.w \in db.aid
        /\ \A v \in DOMAIN cache' :
            \/ v \in DOMAIN cache /\ cache'[v] = cache[v]
            \/ v = worker.w /\ cache'[v] = loadAddrManager(db.stored[v])
    BY <1>12 DEF UpdateManagedKeystores, With, KeystoreInv, ControlInv
  <2>3. api.pc = "add" => cache'[api.w] = cache[api.w]
    BY <1>0, <1>12, <2>2 DEF UpdateManagedKeystores, With, KeystoreInv, ControlInv
  <2> QED
    BY <1>0, <2>1, <2>2, <2>3, RestoreKept
<1>13. ASSUME Restart, UNCHANGED <<used, hint>> PROVE RestoreInv'
  <2>1. /\ tx'.by = "none" /\ api'.pc = "idle" /\ UNCHANGED db
        /\ \A w \in DOMAIN cache' : w \in db.aid /\ cache'[w] = loadAddrManager(db.stored[w])
    BY <1>13 DEF Restart, NoTx
  <2> QED
    BY <1>0, <1>13, <2>1, RestoreKept
<1>14. ASSUME Crash \/ \E s \in Signer : SignPanics(s) PROVE RestoreInv'
  BY <1>13, <1>14 DEF Crash, SignPanics, Restart
<1> QED
  BY <1>1, <1>3, <1>4, <1>5, <1>6, <1>7, <1>8, <1>9, <1>10, <1>11, <1>12, <1>14, <1>15,
     NewAddressRestores, CommitRestores DEF Next

(* A wallet restored with the index it was restored with before finds      *)
(* every used external address, for any gap limit and any addresses used   *)
(* on the chain: NewAddress and createManagerKeyScope agree on the gap.    *)
THEOREM RestoreFinds ==
    Spec => []RestoreFindsUsed
<1>1. Init => RestoreInv
  BY DEF Init, RestoreInv, NoTx
<1>2. KeystoreInv /\ RestoreInv => RestoreFindsUsed
  <2> SUFFICES ASSUME KeystoreInv, RestoreInv, NEW w \in DOMAIN db.stored, db.stored[w].int = 0
               PROVE  \A i \in 0..(db.stored[w].ext - 1) :
                          <<w, External, i>> \in used => i < ChildNum(w, External, hint[w])
    BY DEF RestoreFindsUsed
  <2>1. /\ w \in db.aid /\ used \subseteq Payees /\ hint[w] \in Nat /\ hint[w] # 0
        /\ db.stored[w].ext \in Nat /\ Linked(used, w, db.stored[w].ext, hint[w])
    BY DEF KeystoreInv, StoreOK, RestoreInv, KeysLinked
  <2> QED
    BY <2>1, RestoreCovers
<1> QED
  BY <1>1, <1>2, NextRestoreInv, KeystoreInvariant, PTL DEF Spec
=============================================================================
