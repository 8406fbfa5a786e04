------------------------------ MODULE Envelope ------------------------------
(***************************************************************************)
(* What a keystore keeps encrypted, and under which keys (snacl, db.go and *)
(* the part of KeystoreManager and AddrManager that writes them).          *)
(*                                                                         *)
(* Two master keys come from the public and the private passphrase; they   *)
(* wrap three random crypto keys, and these the public keys, the private   *)
(* account key and the entropy.  Files, changed passphrases and restarts   *)
(* rewrap some of the layers and keep others.                              *)
(*                                                                         *)
(* Keys and plain texts are terms: secretbox opens what was sealed with    *)
(* the same key and nonce and nothing else, scrypt and SHA-256 are         *)
(* injective, and every random value is new.  An account is named by the   *)
(* seed its keys come from.  Calls hold km.mu and their transactions       *)
(* commit; failing commits are in Keystore, and the gap limit too.         *)
(***************************************************************************)
EXTENDS Naturals, Sequences, FiniteSets, SequencesExt, Functions

CONSTANTS
    Passphrase,     \* what users may type
    ValidPassphrase,\* those ValidatePassphrase accepts
    Secret,         \* entropies
    Remark,         \* remarks, with ""
    FirstPub,       \* the public passphrase of the configuration
    MaxCalls,       \* bound: calls
    MaxPub          \* bound: addresses of an account

VARIABLES
    boxes,      \* committed: account -> its bucket
    held,       \* km.managedKeystores: account -> manager
    pubPass,    \* km.pubPassphrase
    files,      \* exported: <<account, keystore file>>
    drawn,      \* entropies that NewEntropy returned
    random,     \* random values used so far
    calls
envVars == <<boxes, held, pubPass, files, drawn, random, calls>>

Failed == [failed |-> TRUE]
Nil == <<>>

-----------------------------------------------------------------------------
(* snacl                                                                   *)

Scrypt(pass, salt) == [pass |-> pass, salt |-> salt]
Sum256(key) == [sum |-> key]
ZeroKey == [zero |-> TRUE]

Encrypt(key, nonce, in) == <<nonce, [nonce |-> nonce, key |-> key, in |-> in]>>
Decrypt(key, c) ==
    IF Len(c) < 2 THEN Failed
    ELSE IF c[2].nonce = c[1] /\ c[2].key = key THEN c[2].in ELSE Failed

GenerateCryptoKey(n) == [cryptoKey |-> n]
NewSecretKey(pass, salt) ==
    [Key |-> Scrypt(pass, salt), Salt |-> salt, Digest |-> Sum256(Scrypt(pass, salt))]
Marshal(sk) == <<sk.Salt, sk.Digest>>
Unmarshal(m) == [Key |-> ZeroKey, Salt |-> m[1], Digest |-> m[2]]
(* The key is filled in before the digest is compared. *)
DeriveKey(sk, pass) == [sk EXCEPT !.Key = Scrypt(pass, sk.Salt)]
Matches(sk) == Sum256(sk.Key) = sk.Digest
ZeroSecret(sk) == [sk EXCEPT !.Key = ZeroKey]

-----------------------------------------------------------------------------
(* Keys of an account, by their path; hdkeychain is in ExtendedKey.        *)

HDKey(account, path, private) == [account |-> account, path |-> path, private |-> private]
AcctKey(account, private) == HDKey(account, <<>>, private)
ChildOf(k, i) == [k EXCEPT !.path = Append(@, i)]
NeuterKey(k) == [k EXCEPT !.private = FALSE]
Branches == {0, 1}      \* ExternalBranch, InternalBranch

-----------------------------------------------------------------------------
(* db.go.  A put of nil writes nothing.                                    *)

PutName(b, name, v) == [n \in DOMAIN b \cup {name} |-> IF n = name THEN v ELSE b[n]]
PutCipher(b, name, c) == IF c = Nil THEN b ELSE PutName(b, name, c)
GetName(b, name) == IF name \in DOMAIN b THEN b[name] ELSE Nil

putMasterKeyParams(b, pub, priv) == PutCipher(PutCipher(b, "mpriv", priv), "mpub", pub)
fetchMasterKeyParams(b) == <<b["mpub"], GetName(b, "mpriv")>>
putCryptoKeys(b, pub, priv, ent) == PutCipher(PutCipher(PutCipher(b, "cpub", pub), "cpriv", priv), "cent", ent)
fetchCryptoKeys(b) == <<b["cpub"], GetName(b, "cpriv"), GetName(b, "cent")>>
putVersion(b, v) == PutName(b, "kver", v)
fetchVersion(b) == IF "kver" \in DOMAIN b THEN b["kver"] ELSE 0
putEntropy(b, c) == PutName(b, "ent", c)
fetchEntropy(b) == GetName(b, "ent")
putRemark(b, r) == PutName(b, "remark", r)
deleteRemark(b) == Restrict(b, DOMAIN b \ {"remark"})
fetchRemark(b) == IF "remark" \in DOMAIN b THEN b["remark"] ELSE ""

serializeHDAccountKey(pub, priv) == <<Len(pub)>> \o pub \o <<Len(priv)>> \o priv
deserializeHDAccountKey(raw) ==
    LET offset == 1 + raw[1]
        privLen == raw[offset + 1]
    IN  <<SubSeq(raw, 2, offset), SubSeq(raw, offset + 2, offset + 1 + privLen)>>
accountMASS == 0
serializeAccountRow(raw) == <<accountMASS, Len(raw)>> \o raw
deserializeAccountRow(row) == SubSeq(row, 3, 2 + row[2])

WalletUsage == 1
putAccountInfo(b, pub, priv) ==
    PutName(PutName(b, "account", WalletUsage),
            "row", serializeAccountRow(serializeHDAccountKey(pub, priv)))
fetchAccountInfo(b) == deserializeHDAccountKey(deserializeAccountRow(b["row"]))
putCoinType(b, coin) == PutName(b, "coinType", coin)
putBranchPubKeys(b, internal, external) == PutName(PutName(b, "exbPubKey", external), "inbPubKey", internal)
fetchBranchPubKeys(b) == <<b["inbPubKey"], b["exbPubKey"]>>

ChildNumName == <<"exChildNum", "inChildNum">>
initBranchChildNum(b) == PutName(PutName(b, "exChildNum", 0), "inChildNum", 0)
updateChildNum(b, branch, n) == PutName(b, ChildNumName[branch + 1], n)
fetchChildNum(b) == <<b["inChildNum"], b["exChildNum"]>>
putEncryptedPubKey(b, branch, index, c) == PutName(b, "pub", PutName(b["pub"], <<branch, index>>, c))
fetchEncryptedPubKey(b) == b["pub"]

-----------------------------------------------------------------------------
(* New buckets.  r: the random values used before.                         *)

deriveAddress(account, branch, index) == NeuterKey(ChildOf(ChildOf(AcctKey(account, TRUE), branch), index))

(* The part of createManagerKeyScope that writes: num external addresses. *)
KeyScopeRows(account, keyPub, keyPriv, num, r) ==
    LET acct == AcctKey(account, TRUE)
        branchEnc(i) == Encrypt(keyPub, r + 3 + i, NeuterKey(ChildOf(acct, i)))
        b1 == putAccountInfo(putCoinType([n \in {"pub"} |-> <<>>], 1),
                             Encrypt(keyPub, r + 1, NeuterKey(acct)), Encrypt(keyPriv, r + 2, acct))
        b2 == initBranchChildNum(putBranchPubKeys(b1, branchEnc(1), branchEnc(0)))
        pks == [p \in {0} \X (0..(num - 1)) |-> Encrypt(keyPub, r + 5 + p[2], deriveAddress(account, 0, p[2]))]
    IN  updateChildNum(PutName(b2, "pub", pks), 0, num)
ScopeRandoms(num) == 4 + num

(* initAcctBucket and allocAddrMgrNamespace wrap alike; the private master *)
(* key is a new one or the file's.                                         *)
NewAcctBucket(account, masterPub, masterPriv, remark, num, r) ==
    LET keyPub == GenerateCryptoKey(r + 1)
        keyPriv == GenerateCryptoKey(r + 2)
        keyEnt == GenerateCryptoKey(r + 3)
        b0 == putVersion(KeyScopeRows(account, keyPub, keyPriv, num, r + 7), 0)
        b1 == IF remark = "" THEN b0 ELSE putRemark(b0, remark)
        b2 == putMasterKeyParams(b1, Marshal(masterPub), Marshal(masterPriv))
        b3 == putEntropy(b2, Encrypt(keyEnt, r + 4, [entropy |-> account.entropy]))
    IN  putCryptoKeys(b3, Encrypt(masterPub.Key, r + 5, keyPub),
                      Encrypt(masterPriv.Key, r + 6, keyPriv), Encrypt(masterPriv.Key, r + 7, keyEnt))

initAcctBucket(account, pub, remark, num, r) ==
    NewAcctBucket(account, NewSecretKey(pub, r + 1), NewSecretKey(account.pass, r + 2), remark, num, r + 2)

unmarshalMasterPrivKey(params, pass) == DeriveKey(Unmarshal(params), pass)

(* Entropy below a private master key *)
OpenEntropy(master, cent, ent) ==
    IF Matches(master) THEN Decrypt(Decrypt(master.Key, cent), ent) ELSE Failed

(* Mutant form: the file's encrypted entropy is stored as it is. *)
AllocKeepsEntropy(file, pass, pub, r) ==
    LET master == unmarshalMasterPrivKey(file.PrivParams, pass)
        account == [entropy |-> OpenEntropy(master, file.CryptoKeyEntropyEnc, file.EntropyEnc).entropy, pass |-> pass]
    IN  putEntropy(NewAcctBucket(account, NewSecretKey(pub, r + 1), master, file.Remarks,
                                 IF file.ExternalChildNum = 0 THEN 1 ELSE file.ExternalChildNum, r + 1),
                   file.EntropyEnc)

allocAddrMgrNamespace(file, pass, pub, r) ==
    LET master == unmarshalMasterPrivKey(file.PrivParams, pass)
        account == [entropy |-> OpenEntropy(master, file.CryptoKeyEntropyEnc, file.EntropyEnc).entropy, pass |-> pass]
    IN  NewAcctBucket(account, NewSecretKey(pub, r + 1), master, file.Remarks,
                      IF file.ExternalChildNum = 0 THEN 1 ELSE file.ExternalChildNum, r + 1)

(* loadAddrManager *)
openAddrManager(b, pub) ==
    LET masterPub == DeriveKey(Unmarshal(fetchMasterKeyParams(b)[1]), pub)
        keys == fetchCryptoKeys(b)
        keyPub == Decrypt(masterPub.Key, keys[1])
        row == fetchAccountInfo(b)
        pks == fetchEncryptedPubKey(b)
    IN  IF ~Matches(masterPub) THEN Failed
        ELSE [masterKeyPub |-> masterPub,
              masterKeyPriv |-> Unmarshal(fetchMasterKeyParams(b)[2]),
              cryptoKeyPub |-> keyPub,
              cryptoKeyPrivEncrypted |-> keys[2],
              cryptoKeyEntropyEncrypted |-> keys[3],
              acctKeyPub |-> Decrypt(keyPub, row[1]),
              acctKeyEncrypted |-> row[2],
              internalBranchPub |-> Decrypt(keyPub, fetchBranchPubKeys(b)[1]),
              externalBranchPub |-> Decrypt(keyPub, fetchBranchPubKeys(b)[2]),
              addrs |-> [p \in DOMAIN pks |-> Decrypt(keyPub, pks[p])],
              nextExternalIndex |-> fetchChildNum(b)[2],
              remark |-> fetchRemark(b), version |-> fetchVersion(b)]

(* AddrManager.getMnemonic, on a locked manager *)
mnemonicOf(am, b, pass) ==
    OpenEntropy(DeriveKey(am.masterKeyPriv, pass), am.cryptoKeyEntropyEncrypted, fetchEntropy(b))

(* getPrivKeyBtcec after checkPassword: the key of an address *)
privKeyOf(am, p, pass) ==
    LET master == DeriveKey(am.masterKeyPriv, pass)
        acct == Decrypt(Decrypt(master.Key, am.cryptoKeyPrivEncrypted), am.acctKeyEncrypted)
    IN  IF ~Matches(master) \/ acct = Failed THEN Failed
        ELSE ChildOf(ChildOf(acct, p[1]), p[2])

(* Mutant form: the file has the private crypto key for the entropy's. *)
ExportWrongKey(b) ==
    [Remarks |-> fetchRemark(b), EntropyEnc |-> fetchEntropy(b),
     PrivParams |-> fetchMasterKeyParams(b)[2], CryptoKeyEntropyEnc |-> fetchCryptoKeys(b)[2],
     ExternalChildNum |-> fetchChildNum(b)[2]]

export(b) ==
    [Remarks |-> fetchRemark(b), EntropyEnc |-> fetchEntropy(b),
     PrivParams |-> fetchMasterKeyParams(b)[2], CryptoKeyEntropyEnc |-> fetchCryptoKeys(b)[3],
     ExternalChildNum |-> fetchChildNum(b)[2]]

-----------------------------------------------------------------------------
Call == calls < MaxCalls /\ calls' = calls + 1

(* createManagerKeyScope refuses an account that is stored. *)
Store(account, b) ==
    /\ account \notin DOMAIN boxes
    /\ openAddrManager(b, pubPass) # Failed
    /\ boxes' = PutName(boxes, account, b)
    /\ held' = PutName(held, account, openAddrManager(b, pubPass))

NewKeystore(secret, pass, remark) ==
    LET account == [entropy |-> secret, pass |-> pass]      \* version 0: genPass
    IN  /\ Call
        /\ {pass, pubPass} \subseteq ValidPassphrase /\ pass # pubPass
        /\ secret \notin drawn
        /\ drawn' = drawn \cup {secret}
        /\ Store(account, initAcctBucket(account, pubPass, remark, 0, random))
        /\ random' = random + 9 + ScopeRandoms(0)
        /\ UNCHANGED <<pubPass, files>>

(* The passphrase is part of the seed and is not checked: another one is   *)
(* another account.                                                        *)
ImportKeystoreWithMnemonic(secret, pass) ==
    LET account == [entropy |-> secret, pass |-> pass]
    IN  /\ Call
        /\ drawn' = drawn \cup {secret}
        /\ Store(account, initAcctBucket(account, pubPass, "", 1, random))
        /\ random' = random + 9 + ScopeRandoms(1)
        /\ UNCHANGED <<pubPass, files>>

ImportKeystore(file, pass) ==
    LET master == unmarshalMasterPrivKey(file.PrivParams, pass)
        entropy == OpenEntropy(master, file.CryptoKeyEntropyEnc, file.EntropyEnc)
    IN  /\ Call
        /\ entropy # Failed
        /\ Store([entropy |-> entropy.entropy, pass |-> pass],
                 allocAddrMgrNamespace(file, pass, pubPass, random))
        /\ random' = random + 8 + ScopeRandoms(1 + file.ExternalChildNum)
        /\ UNCHANGED <<pubPass, files, drawn>>

(* safelyCheckPassword, then export *)
ExportKeystore(account, pass) ==
    /\ Call
    /\ account \in DOMAIN held
    /\ Matches(DeriveKey(held[account].masterKeyPriv, pass))
    /\ held' = [held EXCEPT ![account].masterKeyPriv = ZeroSecret(@)]
    /\ files' = files \cup {<<account, export(boxes[account])>>}
    /\ UNCHANGED <<boxes, pubPass, drawn, random>>

(* nextAddresses and updateManagedAddress, one external address *)
NextAddress(account) ==
    LET am == held[account]
        n == fetchChildNum(boxes[account])[2]
        pub == ChildOf(ChildOf(am.acctKeyPub, 0), n)
    IN  /\ Call
        /\ account \in DOMAIN held
        /\ n < MaxPub
        /\ boxes' = [boxes EXCEPT ![account] =
              updateChildNum(putEncryptedPubKey(@, 0, n, Encrypt(am.cryptoKeyPub, random + 1, pub)), 0, n + 1)]
        /\ held' = [held EXCEPT ![account].addrs = PutName(@, <<0, n>>, pub),
                                ![account].nextExternalIndex = n + 1]
        /\ random' = random + 1
        /\ UNCHANGED <<pubPass, files, drawn>>

(* One keystore of ChangePubPassphrase; the private halves stay. *)
RewrapPub(b, old, new, r) ==
    LET oldMaster == DeriveKey(Unmarshal(fetchMasterKeyParams(b)[1]), old)
        newMaster == NewSecretKey(new, r + 1)
        plain == Decrypt(oldMaster.Key, fetchCryptoKeys(b)[1])
    IN  putCryptoKeys(putMasterKeyParams(b, Marshal(newMaster), Nil),
                      Encrypt(newMaster.Key, r + 2, plain), Nil, Nil)

(* Refused if the new passphrase is the private one of some keystore; the  *)
(* check leaves the key of a wrong passphrase in masterKeyPriv.            *)
ChangePubPassphrase(old, new) ==
    LET order == SetToSeq(DOMAIN held)
        at(a) == random + 2 * CHOOSE i \in DOMAIN order : order[i] = a
    IN  /\ Call
        /\ new \in ValidPassphrase /\ new # old
        /\ \A a \in DOMAIN held :
              /\ ~Matches(DeriveKey(held[a].masterKeyPriv, new))
              /\ Matches(DeriveKey(Unmarshal(fetchMasterKeyParams(boxes[a])[1]), old))
        /\ boxes' = [a \in DOMAIN boxes |-> RewrapPub(boxes[a], old, new, at(a))]
        /\ held' = [a \in DOMAIN held |->
              [held[a] EXCEPT !.masterKeyPriv = DeriveKey(@, new),
                              !.masterKeyPub = NewSecretKey(new, at(a) + 1)]]
        /\ pubPass' = new
        /\ random' = random + 2 * Cardinality(DOMAIN held) + 2
        /\ UNCHANGED <<files, drawn>>

(* changeRemark *)
ChangeRemark(account, remark) ==
    /\ Call
    /\ account \in DOMAIN held
    /\ boxes' = [boxes EXCEPT ![account] = IF remark = "" THEN deleteRemark(@) ELSE putRemark(@, remark)]
    /\ held' = [held EXCEPT ![account].remark = remark]
    /\ UNCHANGED <<pubPass, files, drawn, random>>

(* destroy, deleteAccountID *)
DeleteAccount(account) ==
    /\ Call
    /\ account \in DOMAIN held
    /\ boxes' = Restrict(boxes, DOMAIN boxes \ {account})
    /\ held' = Restrict(held, DOMAIN held \ {account})
    /\ UNCHANGED <<pubPass, files, drawn, random>>

(* A new process, with the public passphrase it is given; it does not come *)
(* up if some keystore does not open.                                      *)
Reopen(pub) ==
    /\ Call
    /\ \A a \in DOMAIN boxes : openAddrManager(boxes[a], pub) # Failed
    /\ held' = [a \in DOMAIN boxes |-> openAddrManager(boxes[a], pub)]
    /\ pubPass' = pub
    /\ UNCHANGED <<boxes, files, drawn, random>>

EnvInit ==
    /\ boxes = <<>> /\ held = <<>> /\ files = {} /\ drawn = {}
    /\ pubPass = FirstPub
    /\ random = 0 /\ calls = 0

EnvNext ==
    \/ \E s \in Secret, p \in Passphrase :
        \/ ImportKeystoreWithMnemonic(s, p)
        \/ \E remark \in Remark : NewKeystore(s, p, remark)
    \/ \E f \in files, p \in Passphrase : ImportKeystore(f[2], p)
    \/ \E a \in DOMAIN held :
        \/ NextAddress(a) \/ DeleteAccount(a)
        \/ \E p \in Passphrase : ExportKeystore(a, p)
        \/ \E remark \in Remark : ChangeRemark(a, remark)
    \/ \E old, new \in Passphrase : ChangePubPassphrase(old, new)
    \/ \E pub \in Passphrase : Reopen(pub)
    \/ calls = MaxCalls /\ UNCHANGED envVars     \* no more calls come

-----------------------------------------------------------------------------
(* What someone learns from a bucket and one passphrase *)
Ciphers(b) ==
    {b["cpub"], b["cpriv"], b["cent"], b["ent"], b["exbPubKey"], b["inbPubKey"]}
    \cup ToSet(fetchAccountInfo(b)) \cup Range(b["pub"])
Opened(b, keys) == {Decrypt(k, c) : k \in keys, c \in Ciphers(b)} \ {Failed}
Learned(b, pass) ==
    LET k0 == {Scrypt(pass, b["mpub"][1]), Scrypt(pass, b["mpriv"][1])}
        k1 == k0 \cup Opened(b, k0)
    IN  k1 \cup Opened(b, k1)
PrivateTo(account) ==
    {[entropy |-> account.entropy]} \cup {AcctKey(account, TRUE)}

IsManagerOf(am, account) ==
    /\ am.acctKeyPub = AcctKey(account, FALSE)
    /\ am.internalBranchPub = ChildOf(AcctKey(account, FALSE), 1)
    /\ am.externalBranchPub = ChildOf(AcctKey(account, FALSE), 0)
    /\ \A p \in DOMAIN am.addrs : am.addrs[p] = deriveAddress(account, p[1], p[2])
    /\ DOMAIN am.addrs = {0} \X (0..(am.nextExternalIndex - 1))

(* A keystore opens with its own passphrases and with no others, whatever  *)
(* created it and whatever was rewrapped since: a restart with the public  *)
(* passphrase finds the cached manager again, the private one, and only    *)
(* that, gives the entropy of the account and the private keys of its      *)
(* addresses, and the public passphrase alone gives neither.               *)
EnvelopeOpens ==
    \A a \in DOMAIN boxes :
        LET am == openAddrManager(boxes[a], pubPass)
        IN  /\ am # Failed
            /\ IsManagerOf(am, a)
            /\ held[a] = [am EXCEPT !.masterKeyPriv = held[a].masterKeyPriv]
            /\ Matches(held[a].masterKeyPriv) => pubPass = a.pass
            /\ \A p \in Passphrase :
                /\ mnemonicOf(held[a], boxes[a], p) = IF p = a.pass THEN [entropy |-> a.entropy] ELSE Failed
                /\ \A i \in DOMAIN am.addrs :
                     LET k == privKeyOf(held[a], i, p)
                     IN  IF p = a.pass THEN k.private /\ NeuterKey(k) = am.addrs[i] ELSE k = Failed
            /\ a.pass # pubPass => PrivateTo(a) \cap Learned(boxes[a], pubPass) = {}
            /\ PrivateTo(a) \subseteq Learned(boxes[a], a.pass)

(* A keystore file is a backup: with the private passphrase of its account *)
(* and no other it gives back the account, with at least the addresses it  *)
(* had, also after passphrases changed or the account was deleted; and it  *)
(* tells nothing to one who knows other passphrases.                       *)
ExportRestores ==
    \A f \in files : \A p \in Passphrase :
        LET master == unmarshalMasterPrivKey(f[2].PrivParams, p)
            entropy == OpenEntropy(master, f[2].CryptoKeyEntropyEnc, f[2].EntropyEnc)
            b == allocAddrMgrNamespace(f[2], p, pubPass, random)
        IN  IF p # f[1].pass THEN entropy = Failed
            ELSE /\ entropy = [entropy |-> f[1].entropy]
                 /\ IsManagerOf(openAddrManager(b, pubPass), f[1])
                 /\ fetchChildNum(b)[2] >= f[2].ExternalChildNum
                 /\ fetchRemark(b) = f[2].Remarks
                 /\ mnemonicOf(openAddrManager(b, pubPass), b, p) = entropy
=============================================================================
