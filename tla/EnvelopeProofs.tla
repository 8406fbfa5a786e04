--------------------------- MODULE EnvelopeProofs ---------------------------
(***************************************************************************)
(* A keystore opens with its own passphrases and with no others, and a     *)
(* keystore file gives its account back, for any passphrases, secrets,     *)
(* remarks and number of calls.                                            *)
(***************************************************************************)
EXTENDS Envelope, FiniteSetTheorems, SequenceTheorems, TLAPS

EnvSpec == EnvInit /\ [][EnvNext]_envVars

-----------------------------------------------------------------------------
(* What a bucket holds, layer by layer.                                    *)

(* c is in sealed under key, with the nonce it names. *)
Sealed(c, key, in) == c = Encrypt(key, c[1], in)

(* m: the stored parameters of the master key of a passphrase *)
Master(m, pass) == m = Marshal(NewSecretKey(pass, m[1]))

(* The three crypto keys of a bucket were drawn one after the other. *)
KeyPub(r) == GenerateCryptoKey(r + 1)
KeyPriv(r) == GenerateCryptoKey(r + 2)
KeyEnt(r) == GenerateCryptoKey(r + 3)

RowNames ==
    {"pub", "coinType", "account", "row", "exbPubKey", "inbPubKey", "exChildNum", "inChildNum",
     "kver", "mpub", "mpriv", "ent", "cpub", "cpriv", "cent"}

MasterLayer(b, a, pub) == Master(b["mpub"], pub) /\ Master(b["mpriv"], a.pass)
CryptoLayer(b, a, pub, r) ==
    /\ Sealed(b["cpub"], Scrypt(pub, b["mpub"][1]), KeyPub(r))
    /\ Sealed(b["cpriv"], Scrypt(a.pass, b["mpriv"][1]), KeyPriv(r))
    /\ Sealed(b["cent"], Scrypt(a.pass, b["mpriv"][1]), KeyEnt(r))
AccountLayer(b, a, r) ==
    /\ Sealed(b["ent"], KeyEnt(r), [entropy |-> a.entropy])
    /\ Sealed(b["inbPubKey"], KeyPub(r), ChildOf(AcctKey(a, FALSE), 1))
    /\ Sealed(b["exbPubKey"], KeyPub(r), ChildOf(AcctKey(a, FALSE), 0))
    /\ fetchAccountInfo(b) = <<fetchAccountInfo(b)[1], fetchAccountInfo(b)[2]>>
    /\ Sealed(fetchAccountInfo(b)[1], KeyPub(r), AcctKey(a, FALSE))
    /\ Sealed(fetchAccountInfo(b)[2], KeyPriv(r), AcctKey(a, TRUE))
AddressLayer(b, a, r) ==
    /\ b["exChildNum"] \in Nat
    /\ DOMAIN b["pub"] = {0} \X (0..(b["exChildNum"] - 1))
    /\ \A p \in DOMAIN b["pub"] : Sealed(b["pub"][p], KeyPub(r), deriveAddress(a, p[1], p[2]))

BucketOf(b, a, pub, r) ==
    /\ RowNames \subseteq DOMAIN b
    /\ MasterLayer(b, a, pub)
    /\ CryptoLayer(b, a, pub, r)
    /\ AccountLayer(b, a, r)
    /\ AddressLayer(b, a, r)

(* A cached manager is the opened bucket, but for the key that a check of  *)
(* a passphrase leaves behind, which is never the right one.               *)
Caches(am, b, pub) ==
    /\ am = [openAddrManager(b, pub) EXCEPT !.masterKeyPriv = am.masterKeyPriv]
    /\ am.masterKeyPriv = [Unmarshal(b["mpriv"]) EXCEPT !.Key = am.masterKeyPriv.Key]
    /\ ~Matches(am.masterKeyPriv)

(* A file carries the private layers of its account. *)
FileOf(file, a, r) ==
    /\ Master(file.PrivParams, a.pass)
    /\ Sealed(file.CryptoKeyEntropyEnc, Scrypt(a.pass, file.PrivParams[1]), KeyEnt(r))
    /\ Sealed(file.EntropyEnc, KeyEnt(r), [entropy |-> a.entropy])
    /\ file.ExternalChildNum \in Nat

IsAccount(a) == a = [entropy |-> a.entropy, pass |-> a.pass]

(* A bucket and its cached manager *)
Holds(b, am, a, pub) ==
    /\ IsAccount(a)
    /\ \E r \in Nat : BucketOf(b, a, pub, r)
    /\ Caches(am, b, pub)

BoxesInv ==
    /\ random \in Nat
    /\ IsFiniteSet(DOMAIN boxes)
    /\ DOMAIN held = DOMAIN boxes
    /\ \A a \in DOMAIN boxes : Holds(boxes[a], held[a], a, pubPass)
FilesInv ==
    \A f \in files :
        /\ f = <<f[1], f[2]>> /\ IsAccount(f[1])
        /\ \E r \in Nat : FileOf(f[2], f[1], r)
EnvInv == BoxesInv /\ FilesInv

-----------------------------------------------------------------------------
(* Decrypt opens what was sealed with its key, and nothing else. *)
LEMMA OpenSealed ==
    ASSUME NEW c, NEW key, NEW in, NEW k, Sealed(c, key, in)
    PROVE  Decrypt(k, c) = IF k = key THEN in ELSE Failed
BY DEF Sealed, Encrypt, Decrypt

LEMMA EncryptSeals ==
    ASSUME NEW key, NEW n, NEW in
    PROVE  Sealed(Encrypt(key, n, in), key, in)
BY DEF Sealed, Encrypt

LEMMA KeysDiffer ==
    ASSUME NEW r \in Nat
    PROVE  /\ KeyPub(r) # KeyPriv(r) /\ KeyPub(r) # KeyEnt(r) /\ KeyPriv(r) # KeyEnt(r)
           /\ \A p, s : Scrypt(p, s) \notin {KeyPub(r), KeyPriv(r), KeyEnt(r)}
<1>1. \A m, n : [cryptoKey |-> m] = [cryptoKey |-> n] => m = n
  <2>1. SUFFICES ASSUME NEW m, NEW n, [cryptoKey |-> m] = [cryptoKey |-> n] PROVE m = n
    OBVIOUS
  <2>2. [cryptoKey |-> m].cryptoKey = m /\ [cryptoKey |-> n].cryptoKey = n
    OBVIOUS
  <2> QED BY <2>1, <2>2
<1>2. ASSUME NEW p, NEW s, NEW n PROVE Scrypt(p, s) # [cryptoKey |-> n]
  <2>1. DOMAIN Scrypt(p, s) = {"pass", "salt"} /\ DOMAIN [cryptoKey |-> n] = {"cryptoKey"}
    BY DEF Scrypt
  <2> QED BY <2>1
<1>3. r + 1 # r + 2 /\ r + 1 # r + 3 /\ r + 2 # r + 3
  OBVIOUS
<1>4. KeyPub(r) # KeyPriv(r) /\ KeyPub(r) # KeyEnt(r) /\ KeyPriv(r) # KeyEnt(r)
  BY <1>1, <1>3 DEF KeyPub, KeyPriv, KeyEnt, GenerateCryptoKey
<1>5. \A p, s : Scrypt(p, s) \notin {KeyPub(r), KeyPriv(r), KeyEnt(r)}
  BY <1>2 DEF KeyPub, KeyPriv, KeyEnt, GenerateCryptoKey
<1> QED BY <1>4, <1>5

(* Scrypt and the digest tell passphrases apart. *)
LEMMA ScryptInjective ==
    ASSUME NEW p, NEW q, NEW s, NEW t
    PROVE  /\ Scrypt(p, s) = Scrypt(q, t) <=> p = q /\ s = t
           /\ Sum256(Scrypt(p, s)) = Sum256(Scrypt(q, t)) <=> p = q /\ s = t
           /\ Sum256(ZeroKey) # Sum256(Scrypt(p, s))
<1>1. Scrypt(p, s).pass = p /\ Scrypt(p, s).salt = s /\ Scrypt(q, t).pass = q /\ Scrypt(q, t).salt = t
  BY DEF Scrypt
<1>2. ASSUME NEW x, NEW y PROVE Sum256(x) = Sum256(y) <=> x = y
  <2>1. Sum256(x).sum = x /\ Sum256(y).sum = y
    BY DEF Sum256
  <2> QED BY <2>1
<1>3. Scrypt(p, s) # ZeroKey
  <2>1. DOMAIN Scrypt(p, s) = {"pass", "salt"} /\ DOMAIN ZeroKey = {"zero"}
    BY DEF Scrypt, ZeroKey
  <2> QED BY <2>1
<1> QED BY <1>1, <1>2, <1>3

(* A master key derived from a passphrase matches its parameters if it is  *)
(* the passphrase they were made from.                                     *)
LEMMA MasterMatches ==
    ASSUME NEW m, NEW pass, NEW p, NEW sk, Master(m, pass),
           sk.Salt = m[1], sk.Digest = m[2], sk = [Key |-> sk.Key, Salt |-> sk.Salt, Digest |-> sk.Digest]
    PROVE  /\ DeriveKey(sk, p) = [Key |-> Scrypt(p, m[1]), Salt |-> m[1], Digest |-> m[2]]
           /\ Matches(DeriveKey(sk, p)) <=> p = pass
<1>1. m[2] = Sum256(Scrypt(pass, m[1]))
  BY DEF Master, Marshal, NewSecretKey
<1>2. DeriveKey(sk, p) = [Key |-> Scrypt(p, m[1]), Salt |-> m[1], Digest |-> m[2]]
  BY DEF DeriveKey
<1>3. Matches(DeriveKey(sk, p)) <=> Sum256(Scrypt(p, m[1])) = Sum256(Scrypt(pass, m[1]))
  BY <1>1, <1>2 DEF Matches
<1> QED BY <1>2, <1>3, ScryptInjective

LEMMA PutNameIs ==
    ASSUME NEW b, NEW name, NEW v
    PROVE  /\ DOMAIN PutName(b, name, v) = DOMAIN b \cup {name}
           /\ PutName(b, name, v)[name] = v
           /\ \A n \in DOMAIN b : n # name => PutName(b, name, v)[n] = b[n]
BY DEF PutName

-----------------------------------------------------------------------------
(* The account row: what serializeHDAccountKey writes, it reads back. *)

LEMMA SameSeq ==
    ASSUME NEW S, NEW s \in Seq(S), NEW t \in Seq(S), Len(s) = Len(t),
           \A i \in 1..Len(s) : s[i] = t[i]
    PROVE  s = t
OBVIOUS

LEMMA Window ==
    ASSUME NEW S, NEW s \in Seq(S), NEW t \in Seq(S), NEW u \in Seq(S), NEW m \in Nat, NEW n \in Nat,
           m = Len(s) + 1, n = Len(s) + Len(t)
    PROVE  SubSeq((s \o t) \o u, m, n) = t
<1> DEFINE w == (s \o t) \o u
           v == SubSeq(w, m, n)
<1>1. s \o t \in Seq(S) /\ Len(s \o t) = Len(s) + Len(t)
      /\ \A i \in 1..(Len(s) + Len(t)) : (s \o t)[i] = IF i <= Len(s) THEN s[i] ELSE t[i - Len(s)]
  BY ConcatProperties
<1>2. w \in Seq(S) /\ Len(w) = Len(s) + Len(t) + Len(u)
      /\ \A i \in 1..(Len(s) + Len(t)) : w[i] = (s \o t)[i]
  BY <1>1, ConcatProperties
<1>3. Len(s) \in Nat /\ Len(t) \in Nat /\ Len(u) \in Nat
  OBVIOUS
<1>4. \A i \in m..n : w[i] \in S
  BY <1>2, <1>3
<1> HIDE DEF w
<1>5. v \in Seq(S) /\ Len(v) = (IF m <= n THEN n - m + 1 ELSE 0) /\ \A i \in 1..(n - m + 1) : v[i] = w[m + i - 1]
  BY <1>4, SubSeqProperties
<1> HIDE DEF v
<1>6. Len(v) = Len(t)
  BY <1>3, <1>5
<1>7. \A i \in 1..Len(v) : v[i] = t[i]
  <2> SUFFICES ASSUME NEW i \in 1..Len(v) PROVE v[i] = t[i]
    OBVIOUS
  <2>1. i \in 1..(n - m + 1) /\ m + i - 1 \in 1..(Len(s) + Len(t)) /\ ~(m + i - 1 <= Len(s)) /\ (m + i - 1) - Len(s) = i
    BY <1>3, <1>6
  <2>2. v[i] = (s \o t)[m + i - 1]
    BY <1>2, <1>5, <2>1
  <2> QED BY <1>1, <2>1, <2>2
<1>8. v = t
  BY <1>5, <1>6, <1>7, SameSeq
<1> QED BY <1>8 DEF v, w

LEMMA AccountRowReadBack ==
    ASSUME NEW S, NEW pub \in Seq(S), NEW priv \in Seq(S)
    PROVE  deserializeHDAccountKey(deserializeAccountRow(serializeAccountRow(serializeHDAccountKey(pub, priv))))
             = <<pub, priv>>
<1> DEFINE T == S \cup Nat
           lp == Len(pub)
           lq == Len(priv)
           raw == ((<<lp>> \o pub) \o <<lq>>) \o priv
           row == <<accountMASS, Len(raw)>> \o raw
<1>1. lp \in Nat /\ lq \in Nat /\ pub \in Seq(T) /\ priv \in Seq(T) /\ <<lp>> \in Seq(T) /\ <<lq>> \in Seq(T)
      /\ <<>> \in Seq(T)
  OBVIOUS
<1> HIDE DEF T
<1>2. Len(pub) = lp /\ Len(priv) = lq
  OBVIOUS
<1> HIDE DEF lp, lq
<1>3. <<lp>> \o pub \in Seq(T) /\ Len(<<lp>> \o pub) = lp + 1 /\ (<<lp>> \o pub)[1] = lp
  <2>1. Len(<<lp>>) = 1 /\ <<lp>>[1] = lp /\ 1 \in 1..(1 + lp)
    BY <1>1
  <2> QED BY <1>1, <1>2, <2>1, ConcatProperties
<1>4. /\ (<<lp>> \o pub) \o <<lq>> \in Seq(T) /\ Len((<<lp>> \o pub) \o <<lq>>) = lp + 2
      /\ ((<<lp>> \o pub) \o <<lq>>)[1] = lp /\ ((<<lp>> \o pub) \o <<lq>>)[lp + 2] = lq
  <2> DEFINE x == <<lp>> \o pub
             y == <<lq>>
  <2>1. x \in Seq(T) /\ Len(x) = lp + 1 /\ x[1] = lp /\ y \in Seq(T) /\ Len(y) = 1 /\ y[1] = lq
    BY <1>1, <1>3
  <2> HIDE DEF x, y
  <2>2. x \o y \in Seq(T) /\ Len(x \o y) = Len(x) + Len(y)
        /\ \A i \in 1..(Len(x) + Len(y)) : (x \o y)[i] = IF i <= Len(x) THEN x[i] ELSE y[i - Len(x)]
    BY <2>1, ConcatProperties
  <2>3. 1 \in 1..(Len(x) + Len(y)) /\ lp + 2 \in 1..(Len(x) + Len(y)) /\ 1 <= Len(x)
        /\ ~(lp + 2 <= Len(x)) /\ (lp + 2) - Len(x) = 1 /\ Len(x) + Len(y) = lp + 2
    BY <1>1, <2>1
  <2> QED BY <2>1, <2>2, <2>3 DEF x, y
<1>5. raw \in Seq(T) /\ Len(raw) \in Nat /\ raw[1] = lp /\ raw[lp + 2] = lq
  <2> DEFINE x == (<<lp>> \o pub) \o <<lq>>
  <2>1. x \in Seq(T) /\ Len(x) = lp + 2 /\ x[1] = lp /\ x[lp + 2] = lq
    BY <1>4
  <2> HIDE DEF x
  <2>2. x \o priv \in Seq(T) /\ Len(x \o priv) = Len(x) + Len(priv)
        /\ \A i \in 1..(Len(x) + Len(priv)) : (x \o priv)[i] = IF i <= Len(x) THEN x[i] ELSE priv[i - Len(x)]
    BY <1>1, <2>1, ConcatProperties
  <2>3. 1 \in 1..(Len(x) + Len(priv)) /\ lp + 2 \in 1..(Len(x) + Len(priv)) /\ 1 <= Len(x) /\ lp + 2 <= Len(x)
    BY <1>1, <1>2, <2>1
  <2> QED BY <1>1, <1>2, <2>1, <2>2, <2>3 DEF x
<1>6. SubSeq(raw, 2, 1 + lp) = pub
  <2> DEFINE u == <<lq>> \o priv
  <2>1. u \in Seq(T)
    BY <1>1, ConcatProperties
  <2>2. raw = (<<lp>> \o pub) \o u
    <3>1. <<lp>> \o pub \in Seq(T)
      BY <1>3
    <3> QED BY <1>1, <3>1, ConcatAssociative
  <2> HIDE DEF u, raw
  <2>3. Len(<<lp>>) = 1 /\ 2 = Len(<<lp>>) + 1 /\ 1 + lp = Len(<<lp>>) + Len(pub) /\ 2 \in Nat /\ 1 + lp \in Nat
    BY <1>1, <1>2
  <2>4. SubSeq((<<lp>> \o pub) \o u, 2, 1 + lp) = pub
    BY <1>1, <2>1, <2>3, Window
  <2> QED BY <2>2, <2>4
<1>7. SubSeq(raw, lp + 3, lp + 2 + lq) = priv
  <2> DEFINE x == (<<lp>> \o pub) \o <<lq>>
  <2>1. x \in Seq(T) /\ Len(x) = lp + 2
    BY <1>4
  <2> HIDE DEF x
  <2>2. (x \o priv) \o <<>> = x \o priv
    <3>1. x \o priv \in Seq(T)
      BY <1>1, <2>1, ConcatProperties
    <3> QED BY <3>1, ConcatEmptySeq
  <2>3. lp + 3 = Len(x) + 1 /\ lp + 2 + lq = Len(x) + Len(priv) /\ lp + 3 \in Nat /\ lp + 2 + lq \in Nat
    BY <1>1, <1>2, <2>1
  <2>4. SubSeq((x \o priv) \o <<>>, lp + 3, lp + 2 + lq) = priv
    BY <1>1, <2>1, <2>3, Window
  <2> QED BY <2>2, <2>4 DEF x
<1>8. raw = serializeHDAccountKey(pub, priv)
  BY DEF serializeHDAccountKey, lp, lq
<1> HIDE DEF raw
<1>9. deserializeHDAccountKey(raw) = <<pub, priv>>
  <2>1. raw[(1 + lp) + 1] = lq /\ (1 + lp) + 2 = lp + 3 /\ (1 + lp) + 1 + lq = lp + 2 + lq
    <3>1. (1 + lp) + 1 = lp + 2 /\ (1 + lp) + 2 = lp + 3 /\ (1 + lp) + 1 + lq = lp + 2 + lq
      BY <1>1
    <3> QED BY <1>5, <3>1
  <2> QED BY <1>5, <1>6, <1>7, <2>1 DEF deserializeHDAccountKey
<1>10. deserializeAccountRow(row) = raw
  <2> DEFINE x == <<accountMASS, Len(raw)>>
  <2>1. x \in Seq(T) /\ Len(x) = 2 /\ x[2] = Len(raw)
    BY <1>5 DEF T, accountMASS
  <2>2. row = x \o raw
    OBVIOUS
  <2> HIDE DEF x, row
  <2>3. row[2] = Len(raw) /\ row \in Seq(T)
    <3>1. 2 \in 1..(Len(x) + Len(raw)) /\ 2 <= Len(x)
      BY <1>5, <2>1
    <3> QED BY <1>5, <2>1, <2>2, <3>1, ConcatProperties
  <2>4. (x \o raw) \o <<>> = x \o raw
    BY <2>2, <2>3, ConcatEmptySeq
  <2> DEFINE m == 3
             n == 2 + Len(raw)
             e == <<>>
  <2>5. m = Len(x) + 1 /\ n = Len(x) + Len(raw) /\ m \in Nat /\ n \in Nat /\ e \in Seq(T) /\ raw \in Seq(T) /\ x \in Seq(T)
    BY <1>1, <1>5, <2>1
  <2> HIDE DEF m, n, e
  <2>6. SubSeq((x \o raw) \o e, m, n) = raw
    BY <2>5, Window
  <2> QED BY <2>2, <2>3, <2>4, <2>6 DEF deserializeAccountRow, m, n, e
<1>11. serializeAccountRow(raw) = row
  BY DEF serializeAccountRow
<1> QED BY <1>8, <1>9, <1>10, <1>11

-----------------------------------------------------------------------------
(* New buckets *)

LEMMA PublicKeys ==
    ASSUME NEW a, NEW i, NEW branch
    PROVE  /\ NeuterKey(AcctKey(a, TRUE)) = AcctKey(a, FALSE)
           /\ NeuterKey(ChildOf(AcctKey(a, TRUE), i)) = ChildOf(AcctKey(a, FALSE), i)
           /\ deriveAddress(a, branch, i) = ChildOf(ChildOf(AcctKey(a, FALSE), branch), i)
           /\ NeuterKey(ChildOf(ChildOf(AcctKey(a, TRUE), branch), i)) = deriveAddress(a, branch, i)
           /\ ChildOf(ChildOf(AcctKey(a, TRUE), branch), i).private = TRUE
<1>1. ASSUME NEW path, NEW j, NEW x PROVE ChildOf(HDKey(a, path, x), j) = HDKey(a, Append(path, j), x)
  BY DEF HDKey, ChildOf
<1>2. ASSUME NEW path, NEW x PROVE NeuterKey(HDKey(a, path, x)) = HDKey(a, path, FALSE)
  <2>1. ASSUME NEW y PROVE [HDKey(a, path, x) EXCEPT !.private = y] = HDKey(a, path, y)
    BY DEF HDKey
  <2> QED BY <2>1, Zenon DEF NeuterKey
<1>3. ASSUME NEW path, NEW x PROVE HDKey(a, path, x).private = x
  BY DEF HDKey
<1>4. AcctKey(a, TRUE) = HDKey(a, <<>>, TRUE) /\ AcctKey(a, FALSE) = HDKey(a, <<>>, FALSE)
  BY Zenon DEF AcctKey
<1>5. ASSUME NEW x
      PROVE  /\ ChildOf(HDKey(a, <<>>, x), i) = HDKey(a, Append(<<>>, i), x)
             /\ ChildOf(ChildOf(HDKey(a, <<>>, x), branch), i) = HDKey(a, Append(Append(<<>>, branch), i), x)
  <2> DEFINE path == <<>>
             below == Append(path, branch)
  <2> HIDE DEF path
  <2>1. ChildOf(HDKey(a, path, x), branch) = HDKey(a, below, x) /\ ChildOf(HDKey(a, path, x), i) = HDKey(a, Append(path, i), x)
    BY <1>1
  <2> HIDE DEF below
  <2>2. ChildOf(HDKey(a, below, x), i) = HDKey(a, Append(below, i), x)
    BY <1>1
  <2> QED BY <2>1, <2>2, Zenon DEF below, path
<1> QED BY <1>2, <1>3, <1>4, <1>5, Zenon DEF deriveAddress

LEMMA CiphersAreSequences ==
    ASSUME NEW key, NEW n, NEW in
    PROVE  /\ Encrypt(key, n, in) # Nil
           /\ Encrypt(key, n, in) \in Seq({n, [nonce |-> n, key |-> key, in |-> in]})
BY DEF Encrypt, Nil

ScopeNames == {"pub", "coinType", "account", "row", "exbPubKey", "inbPubKey", "exChildNum", "inChildNum"}

(* What createManagerKeyScope writes for an account and the two keys *)
ScopeOf(b, a, keyPub, keyPriv, num) ==
    /\ DOMAIN b = ScopeNames
    /\ Sealed(b["inbPubKey"], keyPub, ChildOf(AcctKey(a, FALSE), 1))
    /\ Sealed(b["exbPubKey"], keyPub, ChildOf(AcctKey(a, FALSE), 0))
    /\ fetchAccountInfo(b) = <<fetchAccountInfo(b)[1], fetchAccountInfo(b)[2]>>
    /\ Sealed(fetchAccountInfo(b)[1], keyPub, AcctKey(a, FALSE))
    /\ Sealed(fetchAccountInfo(b)[2], keyPriv, AcctKey(a, TRUE))
    /\ b["exChildNum"] = num
    /\ DOMAIN b["pub"] = {0} \X (0..(num - 1))
    /\ \A p \in DOMAIN b["pub"] : Sealed(b["pub"][p], keyPub, deriveAddress(a, p[1], p[2]))

LEMMA KeyScopeIs ==
    ASSUME NEW a, NEW keyPub, NEW keyPriv, NEW num \in Nat, NEW r \in Nat
    PROVE  ScopeOf(KeyScopeRows(a, keyPub, keyPriv, num, r), a, keyPub, keyPriv, num)
<1> DEFINE acct == AcctKey(a, TRUE)
           branchEnc(i) == Encrypt(keyPub, r + 3 + i, NeuterKey(ChildOf(acct, i)))
           in == branchEnc(1)
           ex == branchEnc(0)
           pub == Encrypt(keyPub, r + 1, NeuterKey(acct))
           priv == Encrypt(keyPriv, r + 2, acct)
           row == serializeAccountRow(serializeHDAccountKey(pub, priv))
           pks == [p \in {0} \X (0..(num - 1)) |-> Encrypt(keyPub, r + 5 + p[2], deriveAddress(a, 0, p[2]))]
           c0 == [n \in {"pub"} |-> <<>>]
           c1 == PutName(c0, "coinType", 1)
           c2 == PutName(c1, "account", WalletUsage)
           c3 == PutName(c2, "row", row)
           c4 == PutName(c3, "exbPubKey", ex)
           c5 == PutName(c4, "inbPubKey", in)
           c6 == PutName(c5, "exChildNum", 0)
           c7 == PutName(c6, "inChildNum", 0)
           c8 == PutName(c7, "pub", pks)
           c9 == PutName(c8, "exChildNum", num)
<1>1. KeyScopeRows(a, keyPub, keyPriv, num, r) = c9
  <2>1. ChildNumName[0 + 1] = "exChildNum"
    BY DEF ChildNumName
  <2> QED BY <2>1 DEF KeyScopeRows, updateChildNum, initBranchChildNum, putBranchPubKeys, putAccountInfo, putCoinType
<1>2. Sealed(in, keyPub, ChildOf(AcctKey(a, FALSE), 1)) /\ Sealed(ex, keyPub, ChildOf(AcctKey(a, FALSE), 0))
  BY EncryptSeals, PublicKeys
<1>3. Sealed(pub, keyPub, AcctKey(a, FALSE)) /\ Sealed(priv, keyPriv, AcctKey(a, TRUE))
  BY EncryptSeals, PublicKeys
<1>4. DOMAIN pks = {0} \X (0..(num - 1)) /\ \A p \in DOMAIN pks : Sealed(pks[p], keyPub, deriveAddress(a, p[1], p[2]))
  <2>1. DOMAIN pks = {0} \X (0..(num - 1))
    OBVIOUS
  <2>2. ASSUME NEW p \in DOMAIN pks PROVE Sealed(pks[p], keyPub, deriveAddress(a, p[1], p[2]))
    <3>1. p[1] = 0 /\ pks[p] = Encrypt(keyPub, r + 5 + p[2], deriveAddress(a, 0, p[2]))
      BY <2>2
    <3> QED BY <3>1, EncryptSeals
  <2> QED BY <2>1, <2>2
<1>5. deserializeHDAccountKey(deserializeAccountRow(row)) = <<pub, priv>>
  <2> DEFINE x1 == r + 1
             x2 == [nonce |-> r + 1, key |-> keyPub, in |-> NeuterKey(acct)]
             x3 == r + 2
             x4 == [nonce |-> r + 2, key |-> keyPriv, in |-> acct]
  <2>1. pub = <<x1, x2>> /\ priv = <<x3, x4>>
    BY DEF Encrypt
  <2> HIDE DEF x1, x2, x3, x4
  <2>2. <<x1, x2>> \in Seq({x1, x2, x3, x4}) /\ <<x3, x4>> \in Seq({x1, x2, x3, x4})
    OBVIOUS
  <2>3. deserializeHDAccountKey(deserializeAccountRow(serializeAccountRow(serializeHDAccountKey(<<x1, x2>>, <<x3, x4>>))))
           = <<<<x1, x2>>, <<x3, x4>>>>
    BY <2>2, AccountRowReadBack
  <2> QED BY <2>1, <2>3
<1> HIDE DEF in, ex, pub, priv, row, pks
<1>6. DOMAIN c3 = {"pub", "coinType", "account", "row"} /\ c3["row"] = row
  <2>1. DOMAIN c0 = {"pub"}
    OBVIOUS
  <2> HIDE DEF c0
  <2>2. DOMAIN c1 = {"pub", "coinType"}
    BY <2>1 DEF PutName
  <2> HIDE DEF c1
  <2>3. DOMAIN c2 = {"pub", "coinType", "account"}
    BY <2>2 DEF PutName
  <2> HIDE DEF c2
  <2> QED BY <2>3 DEF PutName
<1> HIDE DEF c3
<1>7. DOMAIN c5 = {"pub", "coinType", "account", "row", "exbPubKey", "inbPubKey"}
      /\ c5["row"] = row /\ c5["exbPubKey"] = ex /\ c5["inbPubKey"] = in
  <2>1. DOMAIN c4 = {"pub", "coinType", "account", "row", "exbPubKey"} /\ c4["row"] = row /\ c4["exbPubKey"] = ex
    BY <1>6 DEF PutName
  <2> HIDE DEF c4
  <2> QED BY <2>1 DEF PutName
<1> HIDE DEF c5
<1>8. DOMAIN c7 = ScopeNames /\ c7["row"] = row /\ c7["exbPubKey"] = ex /\ c7["inbPubKey"] = in
  <2>1. DOMAIN c6 = {"pub", "coinType", "account", "row", "exbPubKey", "inbPubKey", "exChildNum"}
        /\ c6["row"] = row /\ c6["exbPubKey"] = ex /\ c6["inbPubKey"] = in
    BY <1>7 DEF PutName
  <2> HIDE DEF c6
  <2> QED BY <2>1 DEF PutName, ScopeNames
<1> HIDE DEF c7
<1>9. DOMAIN c9 = ScopeNames /\ c9["row"] = row /\ c9["exbPubKey"] = ex /\ c9["inbPubKey"] = in
      /\ c9["pub"] = pks /\ c9["exChildNum"] = num
  <2>1. DOMAIN c8 = ScopeNames
        /\ c8["row"] = row /\ c8["exbPubKey"] = ex /\ c8["inbPubKey"] = in /\ c8["pub"] = pks
    BY <1>8 DEF PutName, ScopeNames
  <2> HIDE DEF c8
  <2> QED BY <2>1 DEF PutName, ScopeNames
<1> HIDE DEF c9
<1>10. fetchAccountInfo(c9) = <<pub, priv>>
  BY <1>5, <1>9 DEF fetchAccountInfo
<1>11. fetchAccountInfo(c9)[1] = pub /\ fetchAccountInfo(c9)[2] = priv
  BY <1>10
<1>12. ScopeOf(c9, a, keyPub, keyPriv, num)
  BY <1>2, <1>3, <1>4, <1>9, <1>10, <1>11 DEF ScopeOf
<1> QED BY <1>1, <1>12

(* The layers of a bucket are rows of their own. *)
LEMMA LayersKept ==
    ASSUME NEW b, NEW c, NEW a, NEW pub, NEW r
    PROVE  /\ (b["mpub"] = c["mpub"] /\ b["mpriv"] = c["mpriv"]) => (MasterLayer(b, a, pub) <=> MasterLayer(c, a, pub))
           /\ (\A n \in {"mpub", "mpriv", "cpub", "cpriv", "cent"} : b[n] = c[n])
                => (CryptoLayer(b, a, pub, r) <=> CryptoLayer(c, a, pub, r))
           /\ (\A n \in {"ent", "inbPubKey", "exbPubKey", "row"} : b[n] = c[n])
                => (AccountLayer(b, a, r) <=> AccountLayer(c, a, r))
           /\ (\A n \in {"exChildNum", "pub"} : b[n] = c[n]) => (AddressLayer(b, a, r) <=> AddressLayer(c, a, r))
<1>1. (b["mpub"] = c["mpub"] /\ b["mpriv"] = c["mpriv"]) => (MasterLayer(b, a, pub) <=> MasterLayer(c, a, pub))
  BY DEF MasterLayer
<1>2. (\A n \in {"mpub", "mpriv", "cpub", "cpriv", "cent"} : b[n] = c[n])
        => (CryptoLayer(b, a, pub, r) <=> CryptoLayer(c, a, pub, r))
  BY DEF CryptoLayer
<1>3. (\A n \in {"ent", "inbPubKey", "exbPubKey", "row"} : b[n] = c[n])
        => (AccountLayer(b, a, r) <=> AccountLayer(c, a, r))
  <2> SUFFICES ASSUME \A n \in {"ent", "inbPubKey", "exbPubKey", "row"} : b[n] = c[n]
               PROVE  AccountLayer(b, a, r) <=> AccountLayer(c, a, r)
    OBVIOUS
  <2>1. fetchAccountInfo(b) = fetchAccountInfo(c)
    BY DEF fetchAccountInfo
  <2> QED BY <2>1 DEF AccountLayer
<1>4. (\A n \in {"exChildNum", "pub"} : b[n] = c[n]) => (AddressLayer(b, a, r) <=> AddressLayer(c, a, r))
  BY DEF AddressLayer
<1> QED BY <1>1, <1>2, <1>3, <1>4

IsNewBucket(b, a, pub, r, num, remark) ==
    BucketOf(b, a, pub, r) /\ b["exChildNum"] = num /\ fetchRemark(b) = remark

LEMMA NewAcctBucketIs ==
    ASSUME NEW a, NEW pub, NEW s, NEW t, NEW remark, NEW num \in Nat, NEW r \in Nat
    PROVE  IsNewBucket(NewAcctBucket(a, NewSecretKey(pub, s), NewSecretKey(a.pass, t), remark, num, r),
                       a, pub, r, num, remark)
<1> DEFINE mp == NewSecretKey(pub, s)
           mq == NewSecretKey(a.pass, t)
           k == KeyScopeRows(a, KeyPub(r), KeyPriv(r), num, r + 7)
           d0 == PutName(k, "kver", 0)
           d1 == IF remark = "" THEN d0 ELSE PutName(d0, "remark", remark)
           x1 == Marshal(mp)
           x2 == Marshal(mq)
           d2 == PutName(d1, "mpriv", x2)
           d3 == PutName(d2, "mpub", x1)
           x3 == Encrypt(KeyEnt(r), r + 4, [entropy |-> a.entropy])
           d4 == PutName(d3, "ent", x3)
           x4 == Encrypt(mp.Key, r + 5, KeyPub(r))
           x5 == Encrypt(mq.Key, r + 6, KeyPriv(r))
           x6 == Encrypt(mq.Key, r + 7, KeyEnt(r))
           d5 == PutName(d4, "cpub", x4)
           d6 == PutName(d5, "cpriv", x5)
           d7 == PutName(d6, "cent", x6)
           S == {"row", "exbPubKey", "inbPubKey", "exChildNum", "pub"}
<1>1. x1 # Nil /\ x2 # Nil /\ x4 # Nil /\ x5 # Nil /\ x6 # Nil
  <2>1. x4 # Nil /\ x5 # Nil /\ x6 # Nil
    BY CiphersAreSequences
  <2>2. ASSUME NEW x, NEW y PROVE <<x, y>> # Nil
    BY DEF Nil
  <2> QED BY <2>1, <2>2 DEF Marshal
<1>2. NewAcctBucket(a, mp, mq, remark, num, r) = d7
  <2>1. NewAcctBucket(a, mp, mq, remark, num, r) = putCryptoKeys(putEntropy(putMasterKeyParams(d1, x1, x2), x3), x4, x5, x6)
    BY DEF NewAcctBucket, KeyPub, KeyPriv, KeyEnt, putVersion, putRemark
  <2> HIDE DEF d1, x1, x2, x3, x4, x5, x6
  <2>2. putMasterKeyParams(d1, x1, x2) = d3
    BY <1>1 DEF putMasterKeyParams, PutCipher
  <2>3. putEntropy(d3, x3) = d4
    BY DEF putEntropy
  <2> HIDE DEF d4
  <2>4. putCryptoKeys(d4, x4, x5, x6) = d7
    BY <1>1 DEF putCryptoKeys, PutCipher
  <2> QED BY <2>1, <2>2, <2>3, <2>4
<1>3. mp.Key = Scrypt(pub, s) /\ mq.Key = Scrypt(a.pass, t) /\ x1[1] = s /\ x2[1] = t
  BY DEF NewSecretKey, Marshal
<1>4. Master(x1, pub) /\ Master(x2, a.pass)
  BY <1>3 DEF Master
<1>5. Sealed(x3, KeyEnt(r), [entropy |-> a.entropy]) /\ Sealed(x4, Scrypt(pub, x1[1]), KeyPub(r))
      /\ Sealed(x5, Scrypt(a.pass, x2[1]), KeyPriv(r)) /\ Sealed(x6, Scrypt(a.pass, x2[1]), KeyEnt(r))
  BY <1>3, EncryptSeals
<1>6. ScopeOf(k, a, KeyPub(r), KeyPriv(r), num)
  <2>1. r + 7 \in Nat
    OBVIOUS
  <2> QED BY <2>1, KeyScopeIs
<1> HIDE DEF x1, x2, x3, x4, x5, x6, k
<1>7. DOMAIN k = ScopeNames
  BY <1>6 DEF ScopeOf
<1>8. DOMAIN d0 = ScopeNames \cup {"kver"} /\ \A n \in S : d0[n] = k[n]
  BY <1>7 DEF PutName, ScopeNames
<1> HIDE DEF d0
<1>9. /\ DOMAIN d1 = ScopeNames \cup {"kver"} \cup (IF remark = "" THEN {} ELSE {"remark"})
      /\ \A n \in S : d1[n] = k[n]
      /\ remark # "" => d1["remark"] = remark
  <2>1. CASE remark = ""
    BY <1>8, <2>1
  <2>2. CASE remark # ""
    BY <1>8, <2>2 DEF PutName, ScopeNames
  <2> QED BY <2>1, <2>2
<1> HIDE DEF d1
<1> DEFINE D == DOMAIN d1
<1>10. "ent" \notin D /\ (ScopeNames \cup {"kver"} \subseteq D) /\ ("remark" \in D <=> remark # "")
       /\ D \subseteq ScopeNames \cup {"kver", "remark"}
  BY <1>9 DEF ScopeNames
<1>11. /\ DOMAIN d3 = D \cup {"mpriv", "mpub"}
       /\ d3["mpriv"] = x2 /\ d3["mpub"] = x1
       /\ \A n \in D : d3[n] = d1[n]
  BY <1>10 DEF PutName, ScopeNames
<1> HIDE DEF d2, d3
<1>12. /\ DOMAIN d4 = D \cup {"mpriv", "mpub", "ent"}
       /\ d4["mpriv"] = x2 /\ d4["mpub"] = x1 /\ d4["ent"] = x3
       /\ \A n \in D : d4[n] = d1[n]
  BY <1>10, <1>11 DEF PutName
<1> HIDE DEF d4
<1>13. /\ DOMAIN d7 = D \cup {"mpriv", "mpub", "ent", "cpub", "cpriv", "cent"}
       /\ d7["mpriv"] = x2 /\ d7["mpub"] = x1 /\ d7["ent"] = x3
       /\ d7["cpub"] = x4 /\ d7["cpriv"] = x5 /\ d7["cent"] = x6
       /\ \A n \in D : d7[n] = d1[n]
  <2>1. /\ DOMAIN d5 = D \cup {"mpriv", "mpub", "ent", "cpub"}
        /\ d5["mpriv"] = x2 /\ d5["mpub"] = x1 /\ d5["ent"] = x3 /\ d5["cpub"] = x4
        /\ \A n \in D : d5[n] = d1[n]
    BY <1>10, <1>12 DEF PutName, ScopeNames
  <2> HIDE DEF d5
  <2>2. /\ DOMAIN d6 = D \cup {"mpriv", "mpub", "ent", "cpub", "cpriv"}
        /\ d6["mpriv"] = x2 /\ d6["mpub"] = x1 /\ d6["ent"] = x3 /\ d6["cpub"] = x4 /\ d6["cpriv"] = x5
        /\ \A n \in D : d6[n] = d1[n]
    BY <1>10, <2>1 DEF PutName, ScopeNames
  <2> HIDE DEF d6
  <2> QED BY <1>10, <2>2 DEF PutName, ScopeNames
<1> HIDE DEF d7
<1>14. \A n \in S : d7[n] = k[n]
  BY <1>9, <1>10, <1>13 DEF ScopeNames
<1>15. RowNames \subseteq DOMAIN d7
  BY <1>10, <1>13 DEF RowNames, ScopeNames
<1>16. MasterLayer(d7, a, pub) /\ CryptoLayer(d7, a, pub, r)
  BY <1>4, <1>5, <1>13 DEF MasterLayer, CryptoLayer
<1>17. AccountLayer(d7, a, r)
  <2>1. fetchAccountInfo(d7) = fetchAccountInfo(k) /\ d7["inbPubKey"] = k["inbPubKey"] /\ d7["exbPubKey"] = k["exbPubKey"]
    BY <1>14 DEF fetchAccountInfo
  <2> QED BY <1>5, <1>6, <1>13, <2>1 DEF AccountLayer, ScopeOf
<1>18. AddressLayer(d7, a, r) /\ d7["exChildNum"] = num
  <2>1. d7["exChildNum"] = k["exChildNum"] /\ d7["pub"] = k["pub"]
    BY <1>14
  <2> QED BY <1>6, <2>1 DEF AddressLayer, ScopeOf
<1>19. fetchRemark(d7) = remark
  <2>1. "remark" \in DOMAIN d7 <=> remark # ""
    BY <1>10, <1>13
  <2>2. remark # "" => d7["remark"] = remark
    BY <1>9, <1>10, <1>13
  <2> QED BY <2>1, <2>2 DEF fetchRemark
<1> QED BY <1>2, <1>15, <1>16, <1>17, <1>18, <1>19 DEF BucketOf, IsNewBucket

-----------------------------------------------------------------------------
(* What loadAddrManager makes of a bucket *)

AddrsOf(b, a) == [p \in DOMAIN b["pub"] |-> deriveAddress(a, p[1], p[2])]
MasterPubOf(b, pub) == [Key |-> Scrypt(pub, b["mpub"][1]), Salt |-> b["mpub"][1], Digest |-> b["mpub"][2]]
Manager(mpub, mpriv, kp, cp, ce, ap, ae, ib, eb, ad, ni, rem, ver) ==
    [masterKeyPub |-> mpub, masterKeyPriv |-> mpriv, cryptoKeyPub |-> kp, cryptoKeyPrivEncrypted |-> cp,
     cryptoKeyEntropyEncrypted |-> ce, acctKeyPub |-> ap, acctKeyEncrypted |-> ae, internalBranchPub |-> ib,
     externalBranchPub |-> eb, addrs |-> ad, nextExternalIndex |-> ni, remark |-> rem, version |-> ver]
AcctPub(a) == AcctKey(a, FALSE)
(* with mk for the private master key *)
ManagerWith(b, a, pub, r, mk) ==
    Manager(MasterPubOf(b, pub), mk, KeyPub(r), b["cpriv"], b["cent"], AcctPub(a), fetchAccountInfo(b)[2],
            ChildOf(AcctPub(a), 1), ChildOf(AcctPub(a), 0), AddrsOf(b, a), b["exChildNum"],
            fetchRemark(b), fetchVersion(b))
ManagerOf(b, a, pub, r) == ManagerWith(b, a, pub, r, Unmarshal(b["mpriv"]))

SetPriv(am, x) == [am EXCEPT !.masterKeyPriv = x]
SetMasters(am, x, y) == [am EXCEPT !.masterKeyPriv = x, !.masterKeyPub = y]
SetAddrs(am, x, y) == [am EXCEPT !.addrs = x, !.nextExternalIndex = y]
SetRemark(am, x) == [am EXCEPT !.remark = x]

LEMMA ManagerSetPriv ==
    ASSUME NEW mpub, NEW mpriv, NEW kp, NEW cp, NEW ce, NEW ap, NEW ae, NEW ib, NEW eb, NEW ad, NEW ni, NEW rem,
           NEW ver, NEW x
    PROVE  SetPriv(Manager(mpub, mpriv, kp, cp, ce, ap, ae, ib, eb, ad, ni, rem, ver), x) = Manager(mpub, x, kp, cp, ce, ap, ae, ib, eb, ad, ni, rem, ver)
BY DEF Manager, SetPriv

LEMMA ManagerSetRemark ==
    ASSUME NEW mpub, NEW mpriv, NEW kp, NEW cp, NEW ce, NEW ap, NEW ae, NEW ib, NEW eb, NEW ad, NEW ni, NEW rem,
           NEW ver, NEW x
    PROVE  SetRemark(Manager(mpub, mpriv, kp, cp, ce, ap, ae, ib, eb, ad, ni, rem, ver), x) = Manager(mpub, mpriv, kp, cp, ce, ap, ae, ib, eb, ad, ni, x, ver)
BY DEF Manager, SetRemark

LEMMA ManagerSetMasters ==
    ASSUME NEW mpub, NEW mpriv, NEW kp, NEW cp, NEW ce, NEW ap, NEW ae, NEW ib, NEW eb, NEW ad, NEW ni, NEW rem,
           NEW ver, NEW x, NEW y
    PROVE  SetMasters(Manager(mpub, mpriv, kp, cp, ce, ap, ae, ib, eb, ad, ni, rem, ver), x, y) = Manager(y, x, kp, cp, ce, ap, ae, ib, eb, ad, ni, rem, ver)
<1> DEFINE k == Manager(mpub, mpriv, kp, cp, ce, ap, ae, ib, eb, ad, ni, rem, ver)
           l == Manager(mpub, x, kp, cp, ce, ap, ae, ib, eb, ad, ni, rem, ver)
           m == Manager(y, x, kp, cp, ce, ap, ae, ib, eb, ad, ni, rem, ver)
<1>1. [k EXCEPT !.masterKeyPriv = x] = l
  BY DEF Manager
<1>2. [l EXCEPT !.masterKeyPub = y] = m
  BY DEF Manager
<1> HIDE DEF k, l, m
<1>3. [k EXCEPT !.masterKeyPriv = x, !.masterKeyPub = y] = m
  BY <1>1, <1>2
<1> QED BY <1>3 DEF SetMasters, k, m

LEMMA ManagerSetAddrs ==
    ASSUME NEW mpub, NEW mpriv, NEW kp, NEW cp, NEW ce, NEW ap, NEW ae, NEW ib, NEW eb, NEW ad, NEW ni, NEW rem,
           NEW ver, NEW x, NEW y
    PROVE  SetAddrs(Manager(mpub, mpriv, kp, cp, ce, ap, ae, ib, eb, ad, ni, rem, ver), x, y) = Manager(mpub, mpriv, kp, cp, ce, ap, ae, ib, eb, x, y, rem, ver)
<1> DEFINE k == Manager(mpub, mpriv, kp, cp, ce, ap, ae, ib, eb, ad, ni, rem, ver)
           l == Manager(mpub, mpriv, kp, cp, ce, ap, ae, ib, eb, x, ni, rem, ver)
           m == Manager(mpub, mpriv, kp, cp, ce, ap, ae, ib, eb, x, y, rem, ver)
<1>1. [k EXCEPT !.addrs = x] = l
  BY DEF Manager
<1>2. [l EXCEPT !.nextExternalIndex = y] = m
  BY DEF Manager
<1> HIDE DEF k, l, m
<1>3. [k EXCEPT !.addrs = x, !.nextExternalIndex = y] = m
  BY <1>1, <1>2
<1> QED BY <1>3 DEF SetAddrs, k, m

HasFields(am, b, a, pub, r, mk) ==
    /\ am.masterKeyPriv = mk /\ am.addrs = AddrsOf(b, a) /\ am.cryptoKeyPub = KeyPub(r) /\ am.acctKeyPub = AcctPub(a)
    /\ am.cryptoKeyPrivEncrypted = b["cpriv"] /\ am.cryptoKeyEntropyEncrypted = b["cent"]
    /\ am.acctKeyEncrypted = fetchAccountInfo(b)[2]
    /\ am.internalBranchPub = ChildOf(AcctPub(a), 1) /\ am.externalBranchPub = ChildOf(AcctPub(a), 0)
    /\ am.nextExternalIndex = b["exChildNum"]
    /\ "addrs" \in DOMAIN am

LEMMA WithFields ==
    ASSUME NEW b, NEW a, NEW pub, NEW r, NEW mk
    PROVE  HasFields(ManagerWith(b, a, pub, r, mk), b, a, pub, r, mk)
BY DEF ManagerWith, Manager, HasFields

LEMMA WithSetPriv ==
    ASSUME NEW b, NEW a, NEW pub, NEW r, NEW mk, NEW x
    PROVE  SetPriv(ManagerWith(b, a, pub, r, mk), x) = ManagerWith(b, a, pub, r, x)
BY ManagerSetPriv DEF ManagerWith

LEMMA UnmarshalIs ==
    ASSUME NEW m
    PROVE  /\ Unmarshal(m).Salt = m[1] /\ Unmarshal(m).Digest = m[2] /\ Unmarshal(m).Key = ZeroKey
           /\ Unmarshal(m) = [Key |-> Unmarshal(m).Key, Salt |-> Unmarshal(m).Salt, Digest |-> Unmarshal(m).Digest]
BY DEF Unmarshal

LEMMA OpensOnlyWith ==
    ASSUME NEW b, NEW a, NEW pub, NEW r \in Nat, NEW q, BucketOf(b, a, pub, r)
    PROVE  openAddrManager(b, q) = IF q = pub THEN ManagerOf(b, a, pub, r) ELSE Failed
<1> DEFINE master == DeriveKey(Unmarshal(b["mpub"]), q)
           key == Scrypt(pub, b["mpub"][1])
<1>1. MasterLayer(b, a, pub) /\ CryptoLayer(b, a, pub, r) /\ AccountLayer(b, a, r) /\ AddressLayer(b, a, r)
      /\ RowNames \subseteq DOMAIN b
  BY DEF BucketOf
<1>2. /\ master = [Key |-> Scrypt(q, b["mpub"][1]), Salt |-> b["mpub"][1], Digest |-> b["mpub"][2]]
      /\ Matches(master) <=> q = pub
  <2>1. Master(b["mpub"], pub)
    BY <1>1 DEF MasterLayer
  <2> QED BY <2>1, UnmarshalIs, MasterMatches
<1>3. fetchMasterKeyParams(b)[1] = b["mpub"] /\ fetchMasterKeyParams(b)[2] = b["mpriv"]
  BY <1>1 DEF fetchMasterKeyParams, GetName, RowNames
<1>4. fetchCryptoKeys(b)[1] = b["cpub"] /\ fetchCryptoKeys(b)[2] = b["cpriv"] /\ fetchCryptoKeys(b)[3] = b["cent"]
  BY <1>1 DEF fetchCryptoKeys, GetName, RowNames
<1>5. fetchBranchPubKeys(b)[1] = b["inbPubKey"] /\ fetchBranchPubKeys(b)[2] = b["exbPubKey"]
      /\ fetchChildNum(b)[2] = b["exChildNum"] /\ fetchEncryptedPubKey(b) = b["pub"]
  BY DEF fetchBranchPubKeys, fetchChildNum, fetchEncryptedPubKey
<1>6. CASE q # pub
  <2>1. ~Matches(DeriveKey(Unmarshal(fetchMasterKeyParams(b)[1]), q))
    BY <1>2, <1>3, <1>6
  <2> QED BY <1>6, <2>1 DEF openAddrManager
<1>7. CASE q = pub
  <2>1. Matches(DeriveKey(Unmarshal(fetchMasterKeyParams(b)[1]), q))
    BY <1>2, <1>3, <1>7
  <2>2. master.Key = key /\ master = MasterPubOf(b, pub)
    BY <1>2, <1>7 DEF MasterPubOf
  <2>3. Decrypt(key, b["cpub"]) = KeyPub(r)
    BY <1>1, OpenSealed DEF CryptoLayer
  <2>4. Decrypt(KeyPub(r), fetchAccountInfo(b)[1]) = AcctKey(a, FALSE)
    BY <1>1, OpenSealed DEF AccountLayer
  <2>5. Decrypt(KeyPub(r), b["inbPubKey"]) = ChildOf(AcctKey(a, FALSE), 1)
        /\ Decrypt(KeyPub(r), b["exbPubKey"]) = ChildOf(AcctKey(a, FALSE), 0)
    BY <1>1, OpenSealed DEF AccountLayer
  <2>6. [p \in DOMAIN b["pub"] |-> Decrypt(KeyPub(r), b["pub"][p])] = AddrsOf(b, a)
    <3>1. ASSUME NEW p \in DOMAIN b["pub"] PROVE Decrypt(KeyPub(r), b["pub"][p]) = deriveAddress(a, p[1], p[2])
      BY <1>1, OpenSealed DEF AddressLayer
    <3> QED BY <3>1 DEF AddrsOf
  <2> HIDE DEF master, key
  <2>7. DeriveKey(Unmarshal(fetchMasterKeyParams(b)[1]), q) = master
    BY <1>3 DEF master
  <2>8. Decrypt(master.Key, fetchCryptoKeys(b)[1]) = KeyPub(r)
    BY <1>4, <2>2, <2>3
  <2>9. openAddrManager(b, q) = ManagerOf(b, a, pub, r)
    <3>1. ~(~Matches(DeriveKey(Unmarshal(fetchMasterKeyParams(b)[1]), q)))
      BY <2>1
    <3> QED BY <3>1, <1>3, <1>4, <1>5, <2>2, <2>4, <2>5, <2>6, <2>7, <2>8 DEF openAddrManager, ManagerOf, ManagerWith, Manager, AcctPub
  <2> QED BY <1>7, <2>9
<1> QED BY <1>6, <1>7

LEMMA CachedFields ==
    ASSUME NEW am, NEW b, NEW a, NEW pub, NEW r \in Nat, BucketOf(b, a, pub, r), Caches(am, b, pub)
    PROVE  /\ am = ManagerWith(b, a, pub, r, am.masterKeyPriv)
           /\ am.masterKeyPriv.Salt = b["mpriv"][1] /\ am.masterKeyPriv.Digest = b["mpriv"][2]
           /\ am.masterKeyPriv = [Key |-> am.masterKeyPriv.Key, Salt |-> am.masterKeyPriv.Salt,
                                  Digest |-> am.masterKeyPriv.Digest]
           /\ am.cryptoKeyPub = KeyPub(r) /\ am.acctKeyPub = AcctKey(a, FALSE)
           /\ am.cryptoKeyPrivEncrypted = b["cpriv"] /\ am.cryptoKeyEntropyEncrypted = b["cent"]
           /\ am.acctKeyEncrypted = fetchAccountInfo(b)[2]
<1>1. am = ManagerWith(b, a, pub, r, am.masterKeyPriv)
  <2>1. openAddrManager(b, pub) = ManagerWith(b, a, pub, r, Unmarshal(b["mpriv"]))
    BY OpensOnlyWith DEF ManagerOf
  <2>2. am = SetPriv(openAddrManager(b, pub), am.masterKeyPriv)
    BY DEF Caches, SetPriv
  <2> QED BY <2>1, <2>2, WithSetPriv
<1>2. am.masterKeyPriv = [Key |-> am.masterKeyPriv.Key, Salt |-> b["mpriv"][1], Digest |-> b["mpriv"][2]]
  <2> DEFINE key == am.masterKeyPriv.Key
  <2>1. am.masterKeyPriv = [Unmarshal(b["mpriv"]) EXCEPT !.Key = key]
    BY DEF Caches
  <2> HIDE DEF key
  <2>2. am.masterKeyPriv = [Key |-> key, Salt |-> b["mpriv"][1], Digest |-> b["mpriv"][2]]
    BY <2>1 DEF Unmarshal
  <2> QED BY <2>2 DEF key
<1>3. am.masterKeyPriv.Salt = b["mpriv"][1] /\ am.masterKeyPriv.Digest = b["mpriv"][2]
  <2> DEFINE key == am.masterKeyPriv.Key
  <2> HIDE DEF key
  <2>1. am.masterKeyPriv = [Key |-> key, Salt |-> b["mpriv"][1], Digest |-> b["mpriv"][2]]
    BY <1>2 DEF key
  <2> QED BY <2>1
<1>4. /\ am.cryptoKeyPub = KeyPub(r) /\ am.acctKeyPub = AcctKey(a, FALSE)
      /\ am.cryptoKeyPrivEncrypted = b["cpriv"] /\ am.cryptoKeyEntropyEncrypted = b["cent"]
      /\ am.acctKeyEncrypted = fetchAccountInfo(b)[2]
  <2>1. HasFields(am, b, a, pub, r, am.masterKeyPriv)
    BY <1>1, WithFields
  <2> QED BY <2>1 DEF HasFields, AcctPub
<1> QED BY <1>1, <1>2, <1>3, <1>4

(* The private passphrase gives the entropy, no other gives anything. *)
LEMMA EntropyOpens ==
    ASSUME NEW sk, NEW m, NEW cent, NEW ent, NEW pass, NEW entropy, NEW r, NEW p,
           Master(m, pass), sk.Salt = m[1], sk.Digest = m[2],
           sk = [Key |-> sk.Key, Salt |-> sk.Salt, Digest |-> sk.Digest],
           Sealed(cent, Scrypt(pass, m[1]), KeyEnt(r)), Sealed(ent, KeyEnt(r), entropy)
    PROVE  OpenEntropy(DeriveKey(sk, p), cent, ent) = IF p = pass THEN entropy ELSE Failed
<1> DEFINE master == DeriveKey(sk, p)
<1>1. master = [Key |-> Scrypt(p, m[1]), Salt |-> m[1], Digest |-> m[2]] /\ (Matches(master) <=> p = pass)
  BY MasterMatches
<1> HIDE DEF master
<1>2. master.Key = Scrypt(p, m[1])
  BY <1>1
<1>3. CASE p # pass
  BY <1>1, <1>3 DEF OpenEntropy, master
<1>4. CASE p = pass
  <2>1. Decrypt(master.Key, cent) = KeyEnt(r)
    BY <1>2, <1>4, OpenSealed
  <2>2. Decrypt(KeyEnt(r), ent) = entropy
    BY OpenSealed
  <2> QED BY <1>1, <1>4, <2>1, <2>2 DEF OpenEntropy, master
<1> QED BY <1>3, <1>4

LEMMA MnemonicOpens ==
    ASSUME NEW am, NEW b, NEW a, NEW pub, NEW r \in Nat, NEW p, BucketOf(b, a, pub, r), Caches(am, b, pub)
    PROVE  mnemonicOf(am, b, p) = IF p = a.pass THEN [entropy |-> a.entropy] ELSE Failed
<1>1. /\ am.masterKeyPriv.Salt = b["mpriv"][1] /\ am.masterKeyPriv.Digest = b["mpriv"][2]
      /\ am.masterKeyPriv = [Key |-> am.masterKeyPriv.Key, Salt |-> am.masterKeyPriv.Salt,
                             Digest |-> am.masterKeyPriv.Digest]
      /\ am.cryptoKeyEntropyEncrypted = b["cent"]
  BY CachedFields
<1>2. fetchEntropy(b) = b["ent"]
  BY DEF fetchEntropy, GetName, BucketOf, RowNames
<1>3. Master(b["mpriv"], a.pass) /\ Sealed(b["cent"], Scrypt(a.pass, b["mpriv"][1]), KeyEnt(r))
      /\ Sealed(b["ent"], KeyEnt(r), [entropy |-> a.entropy])
  BY DEF BucketOf, MasterLayer, CryptoLayer, AccountLayer
<1> DEFINE sk == am.masterKeyPriv
           e == [entropy |-> a.entropy]
<1> HIDE DEF sk, e
<1>4. OpenEntropy(DeriveKey(sk, p), b["cent"], b["ent"]) = IF p = a.pass THEN e ELSE Failed
  <2>1. sk.Salt = b["mpriv"][1] /\ sk.Digest = b["mpriv"][2] /\ sk = [Key |-> sk.Key, Salt |-> sk.Salt, Digest |-> sk.Digest]
    BY <1>1 DEF sk
  <2>2. Sealed(b["ent"], KeyEnt(r), e)
    BY <1>3 DEF e
  <2> QED BY <1>3, <2>1, <2>2, EntropyOpens
<1> QED BY <1>1, <1>2, <1>4 DEF mnemonicOf, sk, e

LEMMA PrivateKeyOpens ==
    ASSUME NEW am, NEW b, NEW a, NEW pub, NEW r \in Nat, NEW p, NEW i, BucketOf(b, a, pub, r), Caches(am, b, pub)
    PROVE  privKeyOf(am, i, p) = IF p = a.pass THEN ChildOf(ChildOf(AcctKey(a, TRUE), i[1]), i[2]) ELSE Failed
<1> DEFINE sk == am.masterKeyPriv
           master == DeriveKey(sk, p)
<1>1. /\ sk.Salt = b["mpriv"][1] /\ sk.Digest = b["mpriv"][2]
      /\ sk = [Key |-> sk.Key, Salt |-> sk.Salt, Digest |-> sk.Digest]
      /\ am.cryptoKeyPrivEncrypted = b["cpriv"] /\ am.acctKeyEncrypted = fetchAccountInfo(b)[2]
  BY CachedFields
<1>2. Master(b["mpriv"], a.pass) /\ Sealed(b["cpriv"], Scrypt(a.pass, b["mpriv"][1]), KeyPriv(r))
      /\ Sealed(fetchAccountInfo(b)[2], KeyPriv(r), AcctKey(a, TRUE))
  BY DEF BucketOf, MasterLayer, CryptoLayer, AccountLayer
<1> HIDE DEF sk
<1>3. master = [Key |-> Scrypt(p, b["mpriv"][1]), Salt |-> b["mpriv"][1], Digest |-> b["mpriv"][2]]
      /\ (Matches(master) <=> p = a.pass)
  BY <1>1, <1>2, MasterMatches
<1> HIDE DEF master
<1>4. master.Key = Scrypt(p, b["mpriv"][1])
  BY <1>3
<1>5. CASE p # a.pass
  BY <1>3, <1>5 DEF privKeyOf, master, sk
<1>6. CASE p = a.pass
  <2>1. Decrypt(Decrypt(master.Key, am.cryptoKeyPrivEncrypted), am.acctKeyEncrypted) = AcctKey(a, TRUE)
    <3>1. Decrypt(master.Key, b["cpriv"]) = KeyPriv(r)
      BY <1>2, <1>4, <1>6, OpenSealed
    <3>2. Decrypt(KeyPriv(r), fetchAccountInfo(b)[2]) = AcctKey(a, TRUE)
      BY <1>2, OpenSealed
    <3> QED BY <1>1, <3>1, <3>2
  <2>2. AcctKey(a, TRUE) # Failed
    <3>1. DOMAIN AcctKey(a, TRUE) = {"account", "path", "private"} /\ DOMAIN Failed = {"failed"}
      BY DEF AcctKey, HDKey, Failed
    <3> QED BY <3>1
  <2> QED BY <1>3, <1>6, <2>1, <2>2 DEF privKeyOf, master, sk
<1> QED BY <1>5, <1>6

SigningKey(a, i) == ChildOf(ChildOf(AcctKey(a, TRUE), i[1]), i[2])
LEMMA SigningKeyOpens ==
    ASSUME NEW am, NEW b, NEW a, NEW pub, NEW r \in Nat, NEW p, NEW i, BucketOf(b, a, pub, r), Caches(am, b, pub)
    PROVE  privKeyOf(am, i, p) = IF p = a.pass THEN SigningKey(a, i) ELSE Failed
BY PrivateKeyOpens, Zenon DEF SigningKey

-----------------------------------------------------------------------------
(* What a bucket and one passphrase tell *)

IsPublic(x) == DOMAIN x = {"account", "path", "private"} /\ x.private = FALSE

(* How a ciphertext of a bucket is sealed *)
Kind(c, b, a, pub, r) ==
    \/ Sealed(c, Scrypt(pub, b["mpub"][1]), KeyPub(r))
    \/ \E x \in {KeyPriv(r), KeyEnt(r)} : Sealed(c, Scrypt(a.pass, b["mpriv"][1]), x)
    \/ \E x : IsPublic(x) /\ Sealed(c, KeyPub(r), x)
    \/ Sealed(c, KeyEnt(r), [entropy |-> a.entropy])
    \/ Sealed(c, KeyPriv(r), AcctKey(a, TRUE))

LEMMA PublicIsPublic ==
    ASSUME NEW a, NEW i, NEW j
    PROVE  /\ IsPublic(AcctKey(a, FALSE)) /\ IsPublic(ChildOf(AcctKey(a, FALSE), i))
           /\ IsPublic(deriveAddress(a, i, j))
           /\ ~IsPublic(AcctKey(a, TRUE))
<1>1. ASSUME NEW path PROVE IsPublic(HDKey(a, path, FALSE)) /\ ~IsPublic(HDKey(a, path, TRUE))
  <2>1. ASSUME NEW x PROVE DOMAIN HDKey(a, path, x) = {"account", "path", "private"} /\ HDKey(a, path, x).private = x
    BY DEF HDKey
  <2> QED BY <2>1, Zenon DEF IsPublic
<1>2. ASSUME NEW path, NEW x, NEW n PROVE ChildOf(HDKey(a, path, x), n) = HDKey(a, Append(path, n), x)
  BY DEF HDKey, ChildOf
<1>3. AcctKey(a, FALSE) = HDKey(a, <<>>, FALSE) /\ AcctKey(a, TRUE) = HDKey(a, <<>>, TRUE)
  BY Zenon DEF AcctKey
<1>4. IsPublic(AcctKey(a, FALSE)) /\ ~IsPublic(AcctKey(a, TRUE))
  BY <1>1, <1>3, Zenon
<1> DEFINE no == FALSE
           e == <<>>
<1>5. IsPublic(ChildOf(AcctKey(a, FALSE), i)) /\ IsPublic(ChildOf(ChildOf(AcctKey(a, FALSE), i), j))
  <2>1. AcctKey(a, FALSE) = HDKey(a, e, no) /\ \A path : IsPublic(HDKey(a, path, no))
    BY <1>1, <1>3, Zenon
  <2> DEFINE k == AcctKey(a, FALSE)
             path == Append(e, i)
  <2>2. k = HDKey(a, e, no)
    BY <2>1
  <2> HIDE DEF no, e, k
  <2>3. ChildOf(k, i) = HDKey(a, path, no)
    BY <1>2, <2>2
  <2> HIDE DEF path
  <2>4. ChildOf(ChildOf(k, i), j) = HDKey(a, Append(path, j), no)
    BY <1>2, <2>3
  <2>5. IsPublic(ChildOf(k, i)) /\ IsPublic(ChildOf(ChildOf(k, i), j))
    BY <2>1, <2>3, <2>4, Zenon
  <2> QED BY <2>5 DEF k
<1>6. deriveAddress(a, i, j) = ChildOf(ChildOf(AcctKey(a, FALSE), i), j)
  BY PublicKeys
<1> QED BY <1>4, <1>5, <1>6

LEMMA CipherKinds ==
    ASSUME NEW b, NEW a, NEW pub, NEW r \in Nat, BucketOf(b, a, pub, r), NEW c \in Ciphers(b)
    PROVE  Kind(c, b, a, pub, r)
<1>1. CryptoLayer(b, a, pub, r) /\ AccountLayer(b, a, r) /\ AddressLayer(b, a, r)
  BY DEF BucketOf
<1> DEFINE info == fetchAccountInfo(b)
<1>2. c \in {b["cpub"], b["cpriv"], b["cent"], b["ent"], b["exbPubKey"], b["inbPubKey"]}
      \/ c \in ToSet(info) \/ c \in Range(b["pub"])
  BY DEF Ciphers
<1>3. c \in ToSet(info) => c \in {info[1], info[2]}
  <2>1. info = <<info[1], info[2]>>
    BY <1>1 DEF AccountLayer
  <2>2. DOMAIN <<info[1], info[2]>> = {1, 2}
    OBVIOUS
  <2>3. DOMAIN info = {1, 2}
    BY <2>1, <2>2
  <2> HIDE DEF info
  <2> QED BY <2>3 DEF ToSet
<1>4. c \in Range(b["pub"]) => \E p \in DOMAIN b["pub"] : c = b["pub"][p]
  BY DEF Range
<1>5. CASE c = b["cpub"]
  BY <1>1, <1>5 DEF CryptoLayer, Kind
<1>6. CASE c \in {b["cpriv"], b["cent"]}
  BY <1>1, <1>6 DEF CryptoLayer, Kind
<1>7. CASE c \in {b["exbPubKey"], b["inbPubKey"], info[1]}
  BY <1>1, <1>7, PublicIsPublic DEF AccountLayer, Kind
<1>8. CASE c = b["ent"]
  BY <1>1, <1>8 DEF AccountLayer, Kind
<1>9. CASE c = info[2]
  BY <1>1, <1>9 DEF AccountLayer, Kind
<1>10. CASE c \in Range(b["pub"])
  <2>1. PICK p \in DOMAIN b["pub"] : c = b["pub"][p]
    BY <1>4, <1>10
  <2>2. Sealed(c, KeyPub(r), deriveAddress(a, p[1], p[2]))
    BY <1>1, <2>1 DEF AddressLayer
  <2> QED BY <2>2, PublicIsPublic DEF Kind
<1> QED BY <1>2, <1>3, <1>5, <1>6, <1>7, <1>8, <1>9, <1>10

LEMMA KindOpens ==
    ASSUME NEW c, NEW b, NEW a, NEW pub, NEW r, NEW k, Kind(c, b, a, pub, r)
    PROVE  \/ Decrypt(k, c) = Failed
           \/ Decrypt(k, c) = KeyPub(r)
           \/ k = Scrypt(a.pass, b["mpriv"][1]) \/ k = KeyEnt(r) \/ k = KeyPriv(r)
           \/ k = KeyPub(r) /\ IsPublic(Decrypt(k, c))
<1> DEFINE kp == Scrypt(pub, b["mpub"][1])
           kq == Scrypt(a.pass, b["mpriv"][1])
           e == [entropy |-> a.entropy]
<1>1. CASE Sealed(c, kp, KeyPub(r))
  <2> HIDE DEF kp
  <2>1. Decrypt(k, c) = IF k = kp THEN KeyPub(r) ELSE Failed
    BY <1>1, OpenSealed
  <2> QED BY <2>1
<1>2. CASE \E x \in {KeyPriv(r), KeyEnt(r)} : Sealed(c, kq, x)
  <2>1. PICK x : Sealed(c, kq, x)
    BY <1>2
  <2>2. Decrypt(k, c) = IF k = kq THEN x ELSE Failed
    BY <2>1, OpenSealed
  <2> QED BY <2>2
<1>3. CASE \E x : IsPublic(x) /\ Sealed(c, KeyPub(r), x)
  <2>1. PICK x : IsPublic(x) /\ Sealed(c, KeyPub(r), x)
    BY <1>3
  <2>2. Decrypt(k, c) = IF k = KeyPub(r) THEN x ELSE Failed
    BY <2>1, OpenSealed
  <2> QED BY <2>1, <2>2
<1>4. CASE Sealed(c, KeyEnt(r), e)
  <2> HIDE DEF e
  <2>1. Decrypt(k, c) = IF k = KeyEnt(r) THEN e ELSE Failed
    BY <1>4, OpenSealed
  <2> QED BY <2>1
<1>5. CASE Sealed(c, KeyPriv(r), AcctKey(a, TRUE))
  <2>1. Decrypt(k, c) = IF k = KeyPriv(r) THEN AcctKey(a, TRUE) ELSE Failed
    BY <1>5, OpenSealed
  <2> QED BY <2>1
<1> QED BY <1>1, <1>2, <1>3, <1>4, <1>5, Zenon DEF Kind

LEMMA KindsDiffer ==
    ASSUME NEW r, NEW p, NEW s, NEW e
    PROVE  /\ Failed \notin {KeyPub(r), KeyPriv(r), KeyEnt(r), [entropy |-> e]}
           /\ [entropy |-> e] \notin {KeyPub(r), Scrypt(p, s)}
           /\ ~IsPublic([entropy |-> e]) /\ ~IsPublic(KeyPub(r)) /\ ~IsPublic(Scrypt(p, s)) /\ ~IsPublic(Failed)
           /\ \A a : AcctKey(a, TRUE) \notin {KeyPub(r), Scrypt(p, s), Failed}
<1>1. /\ DOMAIN Failed = {"failed"} /\ DOMAIN [entropy |-> e] = {"entropy"} /\ DOMAIN Scrypt(p, s) = {"pass", "salt"}
      /\ DOMAIN KeyPub(r) = {"cryptoKey"} /\ DOMAIN KeyPriv(r) = {"cryptoKey"} /\ DOMAIN KeyEnt(r) = {"cryptoKey"}
      /\ \A a : DOMAIN AcctKey(a, TRUE) = {"account", "path", "private"}
  BY DEF Failed, Scrypt, KeyPub, KeyPriv, KeyEnt, GenerateCryptoKey, AcctKey, HDKey
<1>2. Failed \notin {KeyPub(r), KeyPriv(r), KeyEnt(r), [entropy |-> e]}
  BY <1>1
<1>3. [entropy |-> e] \notin {KeyPub(r), Scrypt(p, s)}
  BY <1>1
<1>4. \A a : AcctKey(a, TRUE) \notin {KeyPub(r), Scrypt(p, s), Failed}
  BY <1>1
<1>5. ~IsPublic([entropy |-> e]) /\ ~IsPublic(KeyPub(r)) /\ ~IsPublic(Scrypt(p, s)) /\ ~IsPublic(Failed)
  BY <1>1 DEF IsPublic
<1> QED BY <1>2, <1>3, <1>4, <1>5

LEMMA PublicTellsNothing ==
    ASSUME NEW b, NEW a, NEW pub, NEW r \in Nat, BucketOf(b, a, pub, r), a.pass # pub
    PROVE  PrivateTo(a) \cap Learned(b, pub) = {}
<1> DEFINE sp == b["mpub"][1]
           sq == b["mpriv"][1]
           k0 == {Scrypt(pub, sp), Scrypt(pub, sq)}
           k1 == k0 \cup Opened(b, k0)
<1>1. ASSUME NEW c \in Ciphers(b), NEW k \in k0 PROVE Decrypt(k, c) \in {Failed, KeyPub(r)}
  <2>1. Kind(c, b, a, pub, r)
    BY CipherKinds
  <2>2. k # Scrypt(a.pass, sq) /\ k # KeyPub(r) /\ k # KeyPriv(r) /\ k # KeyEnt(r)
    BY KeysDiffer, ScryptInjective
  <2> HIDE DEF k0
  <2> QED BY <2>1, <2>2, KindOpens
<1>2. Opened(b, k0) \subseteq {KeyPub(r)}
  BY <1>1 DEF Opened
<1>3. ASSUME NEW c \in Ciphers(b), NEW k \in k1
      PROVE  Decrypt(k, c) \in {Failed, KeyPub(r)} \/ IsPublic(Decrypt(k, c))
  <2>1. k \in k0 \/ k = KeyPub(r)
    BY <1>2
  <2>2. Kind(c, b, a, pub, r)
    BY CipherKinds
  <2> HIDE DEF k0
  <2>3. CASE k = KeyPub(r)
    <3>1. k # KeyPriv(r) /\ k # KeyEnt(r) /\ \A p, s : k # Scrypt(p, s)
      BY <2>3, KeysDiffer
    <3> QED BY <2>2, <3>1, KindOpens
  <2> QED BY <1>1, <2>1, <2>3
<1> HIDE DEF k1
<1>4. ASSUME NEW x \in Opened(b, k1) PROVE x = KeyPub(r) \/ IsPublic(x)
  BY <1>3 DEF Opened
<1>5. Learned(b, pub) = k1 \cup Opened(b, k1)
  BY DEF Learned, k1
<1>6. ASSUME NEW x \in Learned(b, pub) PROVE x \in k0 \/ x = KeyPub(r) \/ IsPublic(x)
  BY <1>2, <1>4, <1>5 DEF k1
<1>7. [entropy |-> a.entropy] \notin Learned(b, pub)
  <2> DEFINE e == [entropy |-> a.entropy]
  <2>1. ~IsPublic(e) /\ e # KeyPub(r) /\ e \notin k0
    BY KindsDiffer
  <2> HIDE DEF e
  <2>2. e \notin Learned(b, pub)
    BY <1>6, <2>1
  <2> QED BY <2>2 DEF e
<1>8. AcctKey(a, TRUE) \notin Learned(b, pub)
  <2>1. ~IsPublic(AcctKey(a, TRUE)) /\ AcctKey(a, TRUE) # KeyPub(r) /\ AcctKey(a, TRUE) \notin k0
    BY KindsDiffer, PublicIsPublic
  <2> HIDE DEF k0
  <2> QED BY <1>6, <2>1
<1> QED BY <1>7, <1>8 DEF PrivateTo

LEMMA PrivateTellsAll ==
    ASSUME NEW b, NEW a, NEW pub, NEW r \in Nat, BucketOf(b, a, pub, r)
    PROVE  PrivateTo(a) \subseteq Learned(b, a.pass)
<1> DEFINE sp == b["mpub"][1]
           sq == b["mpriv"][1]
           k0 == {Scrypt(a.pass, sp), Scrypt(a.pass, sq)}
           k1 == k0 \cup Opened(b, k0)
           info == fetchAccountInfo(b)
           e == [entropy |-> a.entropy]
<1>1. CryptoLayer(b, a, pub, r) /\ AccountLayer(b, a, r)
  BY DEF BucketOf
<1>2. {b["cpriv"], b["cent"], b["ent"], info[2]} \subseteq Ciphers(b)
  <2>1. info = <<info[1], info[2]>>
    BY <1>1 DEF AccountLayer
  <2>2. DOMAIN <<info[1], info[2]>> = {1, 2}
    OBVIOUS
  <2>3. DOMAIN info = {1, 2}
    BY <2>1, <2>2
  <2>4. info[2] \in ToSet(info)
    BY <2>3 DEF ToSet
  <2> QED BY <2>4 DEF Ciphers
<1>3. Learned(b, a.pass) = k1 \cup Opened(b, k1)
  BY DEF Learned
<1>4. Decrypt(Scrypt(a.pass, sq), b["cpriv"]) = KeyPriv(r) /\ Decrypt(Scrypt(a.pass, sq), b["cent"]) = KeyEnt(r)
  BY <1>1, OpenSealed DEF CryptoLayer
<1>5. KeyPriv(r) # Failed /\ KeyEnt(r) # Failed /\ e # Failed /\ AcctKey(a, TRUE) # Failed
  BY KindsDiffer
<1>6. Decrypt(KeyEnt(r), b["ent"]) = e /\ Decrypt(KeyPriv(r), info[2]) = AcctKey(a, TRUE)
  BY <1>1, OpenSealed DEF AccountLayer
<1> HIDE DEF e, info
<1>7. {KeyPriv(r), KeyEnt(r)} \subseteq Opened(b, k0)
  BY <1>2, <1>4, <1>5 DEF Opened
<1>8. {KeyPriv(r), KeyEnt(r)} \subseteq k1
  BY <1>7
<1> HIDE DEF k1
<1>9. {e, AcctKey(a, TRUE)} \subseteq Opened(b, k1)
  <2>1. ASSUME NEW k \in k1, NEW c \in Ciphers(b), Decrypt(k, c) # Failed PROVE Decrypt(k, c) \in Opened(b, k1)
    BY <2>1 DEF Opened
  <2>2. e \in Opened(b, k1)
    BY <1>2, <1>5, <1>6, <1>8, <2>1
  <2>3. AcctKey(a, TRUE) \in Opened(b, k1)
    <3>1. KeyPriv(r) \in k1 /\ info[2] \in Ciphers(b) /\ Decrypt(KeyPriv(r), info[2]) # Failed
      BY <1>2, <1>5, <1>6, <1>8
    <3> QED BY <1>6, <2>1, <3>1
  <2> QED BY <2>2, <2>3
<1> QED BY <1>3, <1>9 DEF PrivateTo, e

-----------------------------------------------------------------------------
(* One lemma for each way a bucket and its manager change. *)

LEMMA FreshHolds ==
    ASSUME NEW b, NEW a, NEW pub, NEW r \in Nat, BucketOf(b, a, pub, r), IsAccount(a)
    PROVE  Holds(b, openAddrManager(b, pub), a, pub) /\ openAddrManager(b, pub) # Failed
<1> DEFINE am == openAddrManager(b, pub)
           m == b["mpriv"]
<1>1. am = ManagerOf(b, a, pub, r)
  BY OpensOnlyWith
<1>2. am.masterKeyPriv = Unmarshal(m) /\ am = [am EXCEPT !.masterKeyPriv = am.masterKeyPriv]
  <2> HIDE DEF am
  <2>1. am.masterKeyPriv = Unmarshal(m)
    <3>1. HasFields(am, b, a, pub, r, Unmarshal(m))
      BY <1>1, WithFields DEF ManagerOf
    <3> QED BY <3>1 DEF HasFields
  <2>2. am = SetPriv(am, am.masterKeyPriv)
    BY <1>1, <2>1, WithSetPriv DEF ManagerOf
  <2> QED BY <2>1, <2>2 DEF SetPriv
<1>3. am # Failed
  <2>1. "addrs" \in DOMAIN ManagerOf(b, a, pub, r)
    BY WithFields DEF ManagerOf, HasFields
  <2>2. "addrs" \notin DOMAIN Failed
    BY DEF Failed
  <2> HIDE DEF am
  <2> QED BY <1>1, <2>1, <2>2
<1> HIDE DEF am
<1>4. Unmarshal(m) = [Unmarshal(m) EXCEPT !.Key = Unmarshal(m).Key]
  BY DEF Unmarshal
<1>5. ~Matches(Unmarshal(m))
  <2>1. m[2] = Sum256(Scrypt(a.pass, m[1]))
    <3>1. Master(m, a.pass)
      BY DEF BucketOf, MasterLayer
    <3> QED BY <3>1 DEF Master, Marshal, NewSecretKey
  <2>2. Unmarshal(m).Key = ZeroKey /\ Unmarshal(m).Digest = m[2]
    BY UnmarshalIs
  <2> QED BY <2>1, <2>2, ScryptInjective DEF Matches
<1>6. Caches(am, b, pub)
  BY <1>2, <1>4, <1>5 DEF Caches, am
<1> QED BY <1>3, <1>6 DEF Holds, am

(* A check of a passphrase leaves a wrong key behind, a cleared one zero. *)
LEMMA RekeyHolds ==
    ASSUME NEW b, NEW am, NEW a, NEW pub, NEW key, Holds(b, am, a, pub), Sum256(key) # b["mpriv"][2]
    PROVE  Holds(b, [am EXCEPT !.masterKeyPriv = [@ EXCEPT !.Key = key]], a, pub)
<1> DEFINE m == b["mpriv"]
           open == openAddrManager(b, pub)
           mk == [am.masterKeyPriv EXCEPT !.Key = key]
           am2 == [am EXCEPT !.masterKeyPriv = mk]
<1>1. PICK r \in Nat : BucketOf(b, a, pub, r)
  BY DEF Holds
<1>2. Caches(am, b, pub)
  BY DEF Holds
<1>3. open = ManagerOf(b, a, pub, r)
  BY <1>1, OpensOnlyWith
<1>4. am2 = [open EXCEPT !.masterKeyPriv = mk] /\ am2.masterKeyPriv = mk
  <2> DEFINE x == am.masterKeyPriv
             u == Unmarshal(m)
  <2>1. am = ManagerWith(b, a, pub, r, x) /\ open = ManagerWith(b, a, pub, r, u)
    BY <1>1, <1>2, <1>3, CachedFields DEF ManagerOf
  <2> HIDE DEF x, mk, u
  <2>2. SetPriv(am, mk) = ManagerWith(b, a, pub, r, mk) /\ SetPriv(open, mk) = ManagerWith(b, a, pub, r, mk)
    <3> HIDE DEF open
    <3> QED BY <2>1, WithSetPriv
  <2>3. SetPriv(am, mk) = am2 /\ SetPriv(open, mk) = [open EXCEPT !.masterKeyPriv = mk]
    BY DEF SetPriv
  <2> HIDE DEF am2, open
  <2>4. HasFields(am2, b, a, pub, r, mk)
    <3>1. am2 = ManagerWith(b, a, pub, r, mk)
      BY <2>2, <2>3
    <3> QED BY <3>1, WithFields
  <2> QED BY <2>2, <2>3, <2>4 DEF HasFields
<1>5. mk = [Unmarshal(m) EXCEPT !.Key = mk.Key] /\ mk.Key = key /\ mk.Digest = m[2]
  <2> DEFINE x == am.masterKeyPriv
             k == x.Key
  <2>1. x = [Unmarshal(m) EXCEPT !.Key = k] /\ mk = [x EXCEPT !.Key = key]
    BY <1>2 DEF Caches
  <2> HIDE DEF k, mk, x
  <2>2. mk = [Key |-> key, Salt |-> m[1], Digest |-> m[2]]
    BY <2>1 DEF Unmarshal
  <2> QED BY <2>2 DEF Unmarshal
<1>6. ~Matches(mk)
  BY <1>5 DEF Matches
<1> HIDE DEF mk, am2
<1>7. Caches(am2, b, pub)
  BY <1>4, <1>5, <1>6 DEF Caches
<1> QED BY <1>1, <1>7 DEF Holds, am2, mk

LEMMA AllocIs ==
    ASSUME NEW file, NEW a, NEW k \in Nat, NEW q, NEW r \in Nat, FileOf(file, a, k), IsAccount(a)
    PROVE  IsNewBucket(allocAddrMgrNamespace(file, a.pass, q, r), a, q, r + 1,
                       IF file.ExternalChildNum = 0 THEN 1 ELSE file.ExternalChildNum, file.Remarks)
<1> DEFINE m == file.PrivParams
           master == unmarshalMasterPrivKey(m, a.pass)
           num == IF file.ExternalChildNum = 0 THEN 1 ELSE file.ExternalChildNum
           remark == file.Remarks
           e == [entropy |-> a.entropy]
<1>1. m = Marshal(NewSecretKey(a.pass, m[1])) /\ Master(m, a.pass)
  BY DEF FileOf, Master
<1>2. master = NewSecretKey(a.pass, m[1])
  <2>1. master = [Key |-> Scrypt(a.pass, m[1]), Salt |-> m[1], Digest |-> m[2]]
    BY <1>1, UnmarshalIs, MasterMatches DEF unmarshalMasterPrivKey
  <2>2. m[2] = Sum256(Scrypt(a.pass, m[1]))
    BY <1>1 DEF Marshal, NewSecretKey
  <2> QED BY <2>1, <2>2 DEF NewSecretKey
<1>3. OpenEntropy(master, file.CryptoKeyEntropyEnc, file.EntropyEnc) = e
  <2> DEFINE sk == Unmarshal(m)
  <2>1. sk.Salt = m[1] /\ sk.Digest = m[2] /\ sk = [Key |-> sk.Key, Salt |-> sk.Salt, Digest |-> sk.Digest]
    BY UnmarshalIs
  <2>2. Sealed(file.CryptoKeyEntropyEnc, Scrypt(a.pass, m[1]), KeyEnt(k)) /\ Sealed(file.EntropyEnc, KeyEnt(k), e)
    BY DEF FileOf
  <2> HIDE DEF sk, e
  <2>3. OpenEntropy(DeriveKey(sk, a.pass), file.CryptoKeyEntropyEnc, file.EntropyEnc) = e
    BY <1>1, <2>1, <2>2, EntropyOpens
  <2> QED BY <2>3 DEF sk, unmarshalMasterPrivKey
<1>4. [entropy |-> OpenEntropy(master, file.CryptoKeyEntropyEnc, file.EntropyEnc).entropy, pass |-> a.pass] = a
  <2>1. e.entropy = a.entropy
    OBVIOUS
  <2> QED BY <1>3, <2>1 DEF IsAccount
<1>5. num \in Nat /\ r + 1 \in Nat
  BY DEF FileOf
<1> DEFINE b == NewAcctBucket(a, NewSecretKey(q, r + 1), NewSecretKey(a.pass, m[1]), remark, num, r + 1)
<1>6. allocAddrMgrNamespace(file, a.pass, q, r) = b
  BY <1>2, <1>4 DEF allocAddrMgrNamespace
<1> HIDE DEF num, remark
<1>7. IsNewBucket(b, a, q, r + 1, num, remark)
  <2> DEFINE s == r + 1
             t == m[1]
  <2>1. s \in Nat
    BY <1>5
  <2> HIDE DEF s, t
  <2>2. IsNewBucket(NewAcctBucket(a, NewSecretKey(q, s), NewSecretKey(a.pass, t), remark, num, s), a, q, s, num, remark)
    BY <1>5, <2>1, NewAcctBucketIs
  <2> QED BY <2>2 DEF s, t
<1> QED BY <1>6, <1>7 DEF num, remark

(* nextAddresses: the address is derived from the public account key, as   *)
(* its private key will be from the private one.                           *)
LEMMA AddressHolds ==
    ASSUME NEW b, NEW am, NEW a, NEW pub, NEW nonce, Holds(b, am, a, pub)
    PROVE  LET n == fetchChildNum(b)[2]
               key == ChildOf(ChildOf(am.acctKeyPub, 0), n)
           IN  Holds(updateChildNum(putEncryptedPubKey(b, 0, n, Encrypt(am.cryptoKeyPub, nonce, key)), 0, n + 1),
                     [am EXCEPT !.addrs = PutName(@, <<0, n>>, key), !.nextExternalIndex = n + 1], a, pub)
<1>1. PICK r \in Nat : BucketOf(b, a, pub, r)
  BY DEF Holds
<1>2. Caches(am, b, pub)
  BY DEF Holds
<1> DEFINE n == b["exChildNum"]
           pks == b["pub"]
           key == deriveAddress(a, 0, n)
           c == Encrypt(KeyPub(r), nonce, key)
           pks2 == PutName(pks, <<0, n>>, c)
           b1 == PutName(b, "pub", pks2)
           b2 == PutName(b1, "exChildNum", n + 1)
           mk == am.masterKeyPriv
           am2 == [am EXCEPT !.addrs = PutName(@, <<0, n>>, key), !.nextExternalIndex = n + 1]
<1>3. /\ am = ManagerWith(b, a, pub, r, mk)
      /\ am.cryptoKeyPub = KeyPub(r) /\ am.acctKeyPub = AcctKey(a, FALSE)
  BY <1>1, <1>2, CachedFields
<1>4. fetchChildNum(b)[2] = n /\ ChildOf(ChildOf(am.acctKeyPub, 0), n) = key
  <2>1. fetchChildNum(b)[2] = n
    BY DEF fetchChildNum
  <2>2. am.acctKeyPub = AcctKey(a, FALSE)
    BY <1>3
  <2> HIDE DEF n
  <2>3. ChildOf(ChildOf(AcctKey(a, FALSE), 0), n) = key
    BY PublicKeys
  <2> QED BY <2>1, <2>2, <2>3
<1>5. updateChildNum(putEncryptedPubKey(b, 0, n, c), 0, n + 1) = b2
  <2>1. ChildNumName[0 + 1] = "exChildNum"
    BY DEF ChildNumName
  <2> QED BY <2>1 DEF updateChildNum, putEncryptedPubKey
<1>6. n \in Nat /\ DOMAIN pks = {0} \X (0..(n - 1)) /\ RowNames \subseteq DOMAIN b
      /\ \A p \in DOMAIN pks : Sealed(pks[p], KeyPub(r), deriveAddress(a, p[1], p[2]))
  BY <1>1 DEF BucketOf, AddressLayer
<1>7. Sealed(c, KeyPub(r), key)
  BY EncryptSeals
<1> HIDE DEF n, pks, c, mk
<1>8. /\ DOMAIN pks2 = {0} \X (0..n) /\ <<0, n>> \in DOMAIN pks2 /\ <<0, n>> \notin DOMAIN pks
      /\ pks2[<<0, n>>] = c /\ \A p \in DOMAIN pks : pks2[p] = pks[p]
      /\ DOMAIN pks2 = DOMAIN pks \cup {<<0, n>>}
  <2>1. DOMAIN pks2 = DOMAIN pks \cup {<<0, n>>}
    BY DEF PutName
  <2>2. <<0, n>> \notin DOMAIN pks
    BY <1>6
  <2>3. {0} \X (0..n) = ({0} \X (0..(n - 1))) \cup {<<0, n>>}
    <3>1. 0..n = 0..(n - 1) \cup {n}
      BY <1>6
    <3> QED BY <3>1
  <2>4. pks2[<<0, n>>] = c /\ \A p \in DOMAIN pks : pks2[p] = pks[p]
    <3> DEFINE z == <<0, n>>
    <3> HIDE DEF z
    <3>1. z \notin DOMAIN pks /\ pks2 = PutName(pks, z, c)
      BY <2>2 DEF z
    <3> HIDE DEF pks2
    <3>2. pks2[z] = c /\ \A p \in DOMAIN pks : pks2[p] = pks[p]
      BY <3>1 DEF PutName
    <3> QED BY <3>2 DEF z
  <2> QED BY <1>6, <2>1, <2>2, <2>3, <2>4
<1>9. \A p \in DOMAIN pks2 : Sealed(pks2[p], KeyPub(r), deriveAddress(a, p[1], p[2]))
  <2> SUFFICES ASSUME NEW p \in DOMAIN pks2 PROVE Sealed(pks2[p], KeyPub(r), deriveAddress(a, p[1], p[2]))
    OBVIOUS
  <2>1. CASE p \in DOMAIN pks
    BY <1>6, <1>8, <2>1
  <2>2. CASE p = <<0, n>>
    <3>1. p[1] = 0 /\ p[2] = n
      BY <2>2
    <3> QED BY <1>7, <1>8, <2>2, <3>1
  <2> QED BY <1>8, <2>1, <2>2
<1> HIDE DEF pks2, key
<1>10. /\ DOMAIN b2 = DOMAIN b /\ b2["pub"] = pks2 /\ b2["exChildNum"] = n + 1
       /\ \A x \in DOMAIN b : x \notin {"pub", "exChildNum"} => b2[x] = b[x]
  BY <1>6 DEF PutName, RowNames
<1> HIDE DEF b1, b2
<1>11. \A x \in RowNames : x \notin {"pub", "exChildNum"} => b2[x] = b[x]
  BY <1>6, <1>10
<1>12. BucketOf(b2, a, pub, r)
  <2>1. MasterLayer(b2, a, pub) /\ CryptoLayer(b2, a, pub, r) /\ AccountLayer(b2, a, r)
    <3>1. MasterLayer(b, a, pub) /\ CryptoLayer(b, a, pub, r) /\ AccountLayer(b, a, r)
      BY <1>1 DEF BucketOf
    <3> QED BY <1>11, <3>1, LayersKept DEF RowNames
  <2>2. AddressLayer(b2, a, r)
    <3>1. n + 1 \in Nat /\ (n + 1) - 1 = n
      BY <1>6
    <3> QED BY <1>8, <1>9, <1>10, <3>1 DEF AddressLayer
  <2> QED BY <1>6, <1>10, <2>1, <2>2 DEF BucketOf
<1>13. Caches(am2, b2, pub)
  <2> DEFINE u == Unmarshal(b2["mpriv"])
             as == [p \in DOMAIN pks |-> deriveAddress(a, p[1], p[2])]
             as2 == [p \in DOMAIN pks2 |-> deriveAddress(a, p[1], p[2])]
  <2>1. openAddrManager(b2, pub) = ManagerWith(b2, a, pub, r, u)
    BY <1>12, OpensOnlyWith DEF ManagerOf
  <2>2. PutName(as, <<0, n>>, key) = as2
    <3> DEFINE z == <<0, n>>
    <3>1. z[1] = 0 /\ z[2] = n
      OBVIOUS
    <3> HIDE DEF z
    <3>2. DOMAIN pks2 = DOMAIN pks \cup {z}
      BY <1>8 DEF z
    <3>3. PutName(as, z, key) = [p \in DOMAIN pks \cup {z} |-> IF p = z THEN key ELSE as[p]]
      BY DEF PutName
    <3>4. ASSUME NEW p \in DOMAIN pks \cup {z} PROVE (IF p = z THEN key ELSE as[p]) = deriveAddress(a, p[1], p[2])
      BY <3>1 DEF key
    <3>5. PutName(as, z, key) = as2
      BY <3>2, <3>3, <3>4
    <3> QED BY <3>5 DEF z
  <2>3. b2["mpriv"] = b["mpriv"] /\ b2["mpub"] = b["mpub"] /\ b2["cpriv"] = b["cpriv"] /\ b2["cent"] = b["cent"]
        /\ b2["row"] = b["row"]
    BY <1>11 DEF RowNames
  <2>4. fetchAccountInfo(b2) = fetchAccountInfo(b) /\ fetchRemark(b2) = fetchRemark(b) /\ fetchVersion(b2) = fetchVersion(b)
    BY <1>10, <2>3 DEF fetchAccountInfo, fetchRemark, fetchVersion
  <2>5. AddrsOf(b, a) = as /\ AddrsOf(b2, a) = as2
    BY <1>10 DEF AddrsOf, pks
  <2> HIDE DEF as, as2, u
  <2>6. SetAddrs(ManagerWith(b, a, pub, r, mk), as2, n + 1) = ManagerWith(b2, a, pub, r, mk)
    <3>1. MasterPubOf(b, pub) = MasterPubOf(b2, pub)
      BY <2>3 DEF MasterPubOf
    <3> DEFINE n2 == n + 1
    <3>2. b2["exChildNum"] = n2
      BY <1>10
    <3> HIDE DEF n2
    <3>3. SetAddrs(ManagerWith(b, a, pub, r, mk), as2, n2) = ManagerWith(b2, a, pub, r, mk)
      <4> DEFINE man == Manager(MasterPubOf(b, pub), mk, KeyPub(r), b["cpriv"], b["cent"], AcctPub(a), fetchAccountInfo(b)[2],
                                ChildOf(AcctPub(a), 1), ChildOf(AcctPub(a), 0), as2, n2, fetchRemark(b), fetchVersion(b))
      <4>1. SetAddrs(ManagerWith(b, a, pub, r, mk), as2, n2) = man
        BY ManagerSetAddrs DEF ManagerWith
      <4>2. man = ManagerWith(b2, a, pub, r, mk)
        BY <2>3, <2>4, <2>5, <3>1, <3>2 DEF ManagerWith
      <4> HIDE DEF man
      <4> QED BY <4>1, <4>2
    <3> QED BY <3>3 DEF n2
  <2>7. am.addrs = as
    <3>1. HasFields(am, b, a, pub, r, mk)
      BY <1>3, WithFields
    <3> QED BY <2>5, <3>1 DEF HasFields
  <2>8. am2 = ManagerWith(b2, a, pub, r, mk)
    <3>1. am2 = SetAddrs(am, as2, n + 1)
      BY <2>2, <2>7 DEF SetAddrs
    <3> HIDE DEF am2
    <3> QED BY <1>3, <2>6, <3>1
  <2> HIDE DEF am2
  <2>9. am2 = [openAddrManager(b2, pub) EXCEPT !.masterKeyPriv = mk] /\ am2.masterKeyPriv = mk
    <3>1. am2 = SetPriv(openAddrManager(b2, pub), mk)
      BY <2>1, <2>8, WithSetPriv
    <3>2. HasFields(am2, b2, a, pub, r, mk)
      BY <2>8, WithFields
    <3> QED BY <3>1, <3>2 DEF SetPriv, HasFields
  <2>10. mk = [Unmarshal(b2["mpriv"]) EXCEPT !.Key = mk.Key] /\ ~Matches(mk)
    BY <1>2, <2>3 DEF Caches, mk
  <2> QED BY <2>9, <2>10 DEF Caches
<1>14. Holds(b2, am2, a, pub)
  BY <1>12, <1>13 DEF Holds
<1> QED BY <1>3, <1>4, <1>5, <1>14 DEF c

(* A new remark, or none *)
LEMMA RemarkHolds ==
    ASSUME NEW b, NEW am, NEW a, NEW pub, NEW remark, Holds(b, am, a, pub)
    PROVE  Holds(IF remark = "" THEN deleteRemark(b) ELSE putRemark(b, remark), [am EXCEPT !.remark = remark], a, pub)
<1> DEFINE b2 == IF remark = "" THEN deleteRemark(b) ELSE putRemark(b, remark)
           mk == am.masterKeyPriv
           am2 == [am EXCEPT !.remark = remark]
<1>1. PICK r \in Nat : BucketOf(b, a, pub, r)
  BY DEF Holds
<1>2. Caches(am, b, pub)
  BY DEF Holds
<1>3. am = ManagerWith(b, a, pub, r, mk)
  BY <1>1, <1>2, CachedFields
<1>4. RowNames \subseteq DOMAIN b
  BY <1>1 DEF BucketOf
<1>5. RowNames \subseteq DOMAIN b2 /\ (\A n \in RowNames : b2[n] = b[n]) /\ fetchRemark(b2) = remark
  <2>1. CASE remark = ""
    BY <1>4, <2>1 DEF deleteRemark, Restrict, fetchRemark, RowNames
  <2>2. CASE remark # ""
    BY <1>4, <2>2 DEF putRemark, PutName, fetchRemark, RowNames
  <2> QED BY <2>1, <2>2
<1> HIDE DEF b2, mk
<1>6. BucketOf(b2, a, pub, r)
  <2>1. MasterLayer(b, a, pub) /\ CryptoLayer(b, a, pub, r) /\ AccountLayer(b, a, r) /\ AddressLayer(b, a, r)
    BY <1>1 DEF BucketOf
  <2> QED BY <1>5, <2>1, LayersKept DEF RowNames, BucketOf
<1>7. Caches(am2, b2, pub)
  <2> DEFINE u == Unmarshal(b2["mpriv"])
  <2>1. openAddrManager(b2, pub) = ManagerWith(b2, a, pub, r, u)
    BY <1>6, OpensOnlyWith DEF ManagerOf
  <2> HIDE DEF u
  <2>2. /\ b2["mpriv"] = b["mpriv"] /\ b2["mpub"] = b["mpub"] /\ b2["cpriv"] = b["cpriv"] /\ b2["cent"] = b["cent"]
        /\ b2["row"] = b["row"] /\ b2["pub"] = b["pub"] /\ b2["exChildNum"] = b["exChildNum"] /\ b2["kver"] = b["kver"]
    BY <1>5 DEF RowNames
  <2>3. fetchAccountInfo(b2) = fetchAccountInfo(b) /\ fetchVersion(b2) = fetchVersion(b)
        /\ AddrsOf(b2, a) = AddrsOf(b, a) /\ MasterPubOf(b2, pub) = MasterPubOf(b, pub)
    BY <1>4, <1>5, <2>2 DEF fetchAccountInfo, fetchVersion, AddrsOf, MasterPubOf, RowNames
  <2> DEFINE man == Manager(MasterPubOf(b, pub), mk, KeyPub(r), b["cpriv"], b["cent"], AcctPub(a), fetchAccountInfo(b)[2],
                            ChildOf(AcctPub(a), 1), ChildOf(AcctPub(a), 0), AddrsOf(b, a), b["exChildNum"],
                            remark, fetchVersion(b))
  <2>4. SetRemark(ManagerWith(b, a, pub, r, mk), remark) = man
    BY ManagerSetRemark DEF ManagerWith
  <2>5. man = ManagerWith(b2, a, pub, r, mk)
    BY <1>5, <2>2, <2>3 DEF ManagerWith
  <2> HIDE DEF man
  <2>6. am2 = ManagerWith(b2, a, pub, r, mk)
    <3>1. am2 = SetRemark(am, remark)
      BY DEF SetRemark
    <3> HIDE DEF am2
    <3> QED BY <1>3, <2>4, <2>5, <3>1
  <2> HIDE DEF am2
  <2>7. am2 = [openAddrManager(b2, pub) EXCEPT !.masterKeyPriv = mk] /\ am2.masterKeyPriv = mk
    <3>1. am2 = SetPriv(openAddrManager(b2, pub), mk)
      BY <2>1, <2>6, WithSetPriv
    <3>2. HasFields(am2, b2, a, pub, r, mk)
      BY <2>6, WithFields
    <3> QED BY <3>1, <3>2 DEF SetPriv, HasFields
  <2>8. mk = [Unmarshal(b2["mpriv"]) EXCEPT !.Key = mk.Key] /\ ~Matches(mk)
    BY <1>2, <2>2 DEF Caches, mk
  <2> QED BY <2>7, <2>8 DEF Caches
<1>8. Holds(b2, am2, a, pub)
  BY <1>6, <1>7 DEF Holds
<1> QED BY <1>8 DEF b2

(* One keystore of ChangePubPassphrase: the public crypto key is wrapped   *)
(* by a new master key, everything below it stays.                         *)
LEMMA RewrapHolds ==
    ASSUME NEW b, NEW am, NEW a, NEW pub, NEW new, NEW n, Holds(b, am, a, pub),
           ~Matches(DeriveKey(am.masterKeyPriv, new))
    PROVE  Holds(RewrapPub(b, pub, new, n),
                 [am EXCEPT !.masterKeyPriv = DeriveKey(@, new), !.masterKeyPub = NewSecretKey(new, n + 1)], a, new)
<1>1. PICK r \in Nat : BucketOf(b, a, pub, r)
  BY DEF Holds
<1>2. Caches(am, b, pub)
  BY DEF Holds
<1> DEFINE master == NewSecretKey(new, n + 1)
           x1 == Marshal(master)
           x2 == Encrypt(master.Key, n + 2, KeyPub(r))
           b1 == PutName(b, "mpub", x1)
           b2 == PutName(b1, "cpub", x2)
           mk == am.masterKeyPriv
           mk2 == DeriveKey(mk, new)
           am2 == [am EXCEPT !.masterKeyPriv = DeriveKey(@, new), !.masterKeyPub = master]
<1>3. am = ManagerWith(b, a, pub, r, mk) /\ mk.Salt = b["mpriv"][1] /\ mk.Digest = b["mpriv"][2]
      /\ mk = [Key |-> mk.Key, Salt |-> mk.Salt, Digest |-> mk.Digest]
  BY <1>1, <1>2, CachedFields
<1>4. RowNames \subseteq DOMAIN b /\ MasterLayer(b, a, pub) /\ CryptoLayer(b, a, pub, r)
  BY <1>1 DEF BucketOf
<1>5. RewrapPub(b, pub, new, n) = b2
  <2>1. Decrypt(DeriveKey(Unmarshal(fetchMasterKeyParams(b)[1]), pub).Key, fetchCryptoKeys(b)[1]) = KeyPub(r)
    <3> DEFINE sk == Unmarshal(b["mpub"])
    <3>1. fetchMasterKeyParams(b)[1] = b["mpub"] /\ fetchCryptoKeys(b)[1] = b["cpub"]
      BY DEF fetchMasterKeyParams, fetchCryptoKeys
    <3>2. sk.Salt = b["mpub"][1] /\ sk.Digest = b["mpub"][2] /\ sk = [Key |-> sk.Key, Salt |-> sk.Salt, Digest |-> sk.Digest]
      BY UnmarshalIs
    <3>3. Master(b["mpub"], pub)
      BY <1>4 DEF MasterLayer
    <3> HIDE DEF sk
    <3>4. DeriveKey(sk, pub) = [Key |-> Scrypt(pub, b["mpub"][1]), Salt |-> b["mpub"][1], Digest |-> b["mpub"][2]]
      BY <3>2, <3>3, MasterMatches
    <3>5. DeriveKey(sk, pub).Key = Scrypt(pub, b["mpub"][1])
      BY <3>4
    <3>6. Decrypt(Scrypt(pub, b["mpub"][1]), b["cpub"]) = KeyPub(r)
      BY <1>4, OpenSealed DEF CryptoLayer
    <3> QED BY <3>1, <3>5, <3>6 DEF sk
  <2>2. x1 # Nil /\ x2 # Nil
    <3>1. ASSUME NEW x, NEW y PROVE <<x, y>> # Nil
      BY DEF Nil
    <3> QED BY <3>1, CiphersAreSequences DEF Marshal
  <2>3. RewrapPub(b, pub, new, n) = putCryptoKeys(putMasterKeyParams(b, x1, Nil), x2, Nil, Nil)
    BY <2>1 DEF RewrapPub
  <2> HIDE DEF x1, x2
  <2>4. putMasterKeyParams(b, x1, Nil) = b1
    BY <2>2 DEF putMasterKeyParams, PutCipher
  <2> HIDE DEF b1
  <2>5. putCryptoKeys(b1, x2, Nil, Nil) = b2
    BY <2>2 DEF putCryptoKeys, PutCipher
  <2> QED BY <2>3, <2>4, <2>5
<1>6. Master(x1, new) /\ Sealed(x2, Scrypt(new, x1[1]), KeyPub(r))
      /\ master = [Key |-> Scrypt(new, x1[1]), Salt |-> x1[1], Digest |-> x1[2]]
  <2>1. x1[1] = n + 1 /\ x1[2] = Sum256(Scrypt(new, n + 1)) /\ master.Key = Scrypt(new, n + 1)
    BY DEF Marshal, NewSecretKey
  <2>2. Master(x1, new)
    BY <2>1 DEF Master
  <2>3. Sealed(x2, Scrypt(new, x1[1]), KeyPub(r))
    BY <2>1, EncryptSeals
  <2> QED BY <2>1, <2>2, <2>3 DEF NewSecretKey
<1> HIDE DEF x1, x2, master
<1>7. /\ DOMAIN b2 = DOMAIN b /\ b2["mpub"] = x1 /\ b2["cpub"] = x2
      /\ \A x \in DOMAIN b : x \notin {"mpub", "cpub"} => b2[x] = b[x]
  BY <1>4 DEF PutName, RowNames
<1> HIDE DEF b1, b2
<1>8. \A x \in RowNames : x \notin {"mpub", "cpub"} => b2[x] = b[x]
  BY <1>4, <1>7
<1>9. BucketOf(b2, a, new, r)
  <2>1. AccountLayer(b2, a, r) /\ AddressLayer(b2, a, r)
    <3>1. AccountLayer(b, a, r) /\ AddressLayer(b, a, r)
      BY <1>1 DEF BucketOf
    <3> QED BY <1>8, <3>1, LayersKept DEF RowNames
  <2>2. b2["mpriv"] = b["mpriv"] /\ b2["cpriv"] = b["cpriv"] /\ b2["cent"] = b["cent"]
    BY <1>8 DEF RowNames
  <2>3. MasterLayer(b2, a, new) /\ CryptoLayer(b2, a, new, r)
    BY <1>4, <1>6, <1>7, <2>2 DEF MasterLayer, CryptoLayer
  <2> QED BY <1>4, <1>7, <2>1, <2>3 DEF BucketOf
<1>10. Caches(am2, b2, new)
  <2> DEFINE u == Unmarshal(b2["mpriv"])
  <2>1. openAddrManager(b2, new) = ManagerWith(b2, a, new, r, u)
    BY <1>9, OpensOnlyWith DEF ManagerOf
  <2> HIDE DEF u, mk
  <2>2. /\ b2["mpriv"] = b["mpriv"] /\ b2["cpriv"] = b["cpriv"] /\ b2["cent"] = b["cent"]
        /\ b2["row"] = b["row"] /\ b2["pub"] = b["pub"] /\ b2["exChildNum"] = b["exChildNum"] /\ b2["kver"] = b["kver"]
    BY <1>8 DEF RowNames
  <2>3. fetchAccountInfo(b2) = fetchAccountInfo(b) /\ fetchVersion(b2) = fetchVersion(b) /\ fetchRemark(b2) = fetchRemark(b)
        /\ AddrsOf(b2, a) = AddrsOf(b, a) /\ MasterPubOf(b2, new) = master
    BY <1>4, <1>6, <1>7, <2>2 DEF fetchAccountInfo, fetchVersion, fetchRemark, AddrsOf, MasterPubOf, RowNames
  <2> HIDE DEF mk2
  <2> DEFINE man == Manager(master, mk2, KeyPub(r), b["cpriv"], b["cent"], AcctPub(a), fetchAccountInfo(b)[2],
                            ChildOf(AcctPub(a), 1), ChildOf(AcctPub(a), 0), AddrsOf(b, a), b["exChildNum"],
                            fetchRemark(b), fetchVersion(b))
  <2>4. SetMasters(ManagerWith(b, a, pub, r, mk), mk2, master) = man
    BY ManagerSetMasters DEF ManagerWith
  <2>5. man = ManagerWith(b2, a, new, r, mk2)
    BY <2>2, <2>3 DEF ManagerWith
  <2> HIDE DEF man
  <2>6. am2 = ManagerWith(b2, a, new, r, mk2)
    <3>1. am2 = SetMasters(am, mk2, master)
      BY DEF SetMasters, mk2, mk
    <3> HIDE DEF am2
    <3> QED BY <1>3, <2>4, <2>5, <3>1
  <2> HIDE DEF am2
  <2>7. am2 = [openAddrManager(b2, new) EXCEPT !.masterKeyPriv = mk2] /\ am2.masterKeyPriv = mk2
    <3>1. am2 = SetPriv(openAddrManager(b2, new), mk2)
      BY <2>1, <2>6, WithSetPriv
    <3>2. HasFields(am2, b2, a, new, r, mk2)
      BY <2>6, WithFields
    <3> QED BY <3>1, <3>2 DEF SetPriv, HasFields
  <2>8. mk2 = [Unmarshal(b2["mpriv"]) EXCEPT !.Key = mk2.Key] /\ ~Matches(mk2)
    <3> DEFINE s == b["mpriv"][1]
               d == b["mpriv"][2]
    <3> HIDE DEF s, d
    <3>1. mk2 = [Key |-> Scrypt(new, s), Salt |-> s, Digest |-> d]
      BY <1>3 DEF mk2, DeriveKey, s, d
    <3>2. Unmarshal(b2["mpriv"]) = [Key |-> ZeroKey, Salt |-> s, Digest |-> d]
      BY <2>2 DEF Unmarshal, s, d
    <3>3. mk2 = [Unmarshal(b2["mpriv"]) EXCEPT !.Key = mk2.Key]
      <4>1. mk2.Key = Scrypt(new, s)
        BY <3>1
      <4> QED BY <3>1, <3>2, <4>1
    <3> QED BY <3>3 DEF mk2, mk
  <2> QED BY <2>7, <2>8 DEF Caches
<1>11. Holds(b2, am2, a, new)
  BY <1>9, <1>10 DEF Holds
<1> QED BY <1>5, <1>11 DEF master

LEMMA ExportIs ==
    ASSUME NEW b, NEW a, NEW pub, NEW r \in Nat, BucketOf(b, a, pub, r)
    PROVE  FileOf(export(b), a, r)
<1>1. RowNames \subseteq DOMAIN b /\ MasterLayer(b, a, pub) /\ CryptoLayer(b, a, pub, r) /\ AccountLayer(b, a, r)
      /\ b["exChildNum"] \in Nat
  BY DEF BucketOf, AddressLayer
<1>2. export(b).PrivParams = b["mpriv"] /\ export(b).CryptoKeyEntropyEnc = b["cent"] /\ export(b).EntropyEnc = b["ent"]
      /\ export(b).ExternalChildNum = b["exChildNum"]
  BY <1>1 DEF export, fetchEntropy, fetchMasterKeyParams, fetchCryptoKeys, fetchChildNum, GetName, RowNames
<1> QED BY <1>1, <1>2 DEF FileOf, MasterLayer, CryptoLayer, AccountLayer

-----------------------------------------------------------------------------
(* The calls *)

LEMMA StoreKeeps ==
    ASSUME BoxesInv, NEW a, NEW b, NEW r \in Nat, Store(a, b), BucketOf(b, a, pubPass, r), IsAccount(a),
           pubPass' = pubPass, random' \in Nat
    PROVE  BoxesInv'
<1> DEFINE am == openAddrManager(b, pubPass)
<1>1. Holds(b, am, a, pubPass)
  BY FreshHolds
<1> HIDE DEF am
<1>2. boxes' = PutName(boxes, a, b) /\ held' = PutName(held, a, am) /\ a \notin DOMAIN boxes
  BY DEF Store, am
<1>3. DOMAIN held = DOMAIN boxes /\ IsFiniteSet(DOMAIN boxes)
  BY DEF BoxesInv
<1>4. DOMAIN boxes' = DOMAIN boxes \cup {a} /\ DOMAIN held' = DOMAIN boxes \cup {a}
  <2>1. DOMAIN boxes' = DOMAIN boxes \cup {a}
    BY <1>2 DEF PutName
  <2>2. DOMAIN held' = DOMAIN held \cup {a}
    BY <1>2 DEF PutName
  <2> QED BY <1>3, <2>1, <2>2
<1>5. IsFiniteSet(DOMAIN boxes')
  BY <1>3, <1>4, FS_AddElement
<1>6. ASSUME NEW c \in DOMAIN boxes' PROVE Holds(boxes'[c], held'[c], c, pubPass')
  <2>1. CASE c = a
    <3>1. boxes'[a] = b
      BY <1>2 DEF PutName
    <3>2. held'[a] = am
      BY <1>2 DEF PutName
    <3> QED BY <1>1, <2>1, <3>1, <3>2
  <2>2. CASE c # a
    <3>1. c \in DOMAIN boxes /\ c \in DOMAIN held
      BY <1>3, <1>4, <2>2
    <3>2. boxes'[c] = boxes[c]
      BY <1>2, <2>2, <3>1 DEF PutName
    <3>3. held'[c] = held[c]
      BY <1>2, <2>2, <3>1 DEF PutName
    <3> QED BY <3>1, <3>2, <3>3 DEF BoxesInv
  <2> QED BY <2>1, <2>2
<1> QED BY <1>4, <1>5, <1>6 DEF BoxesInv

LEMMA AccountIs ==
    ASSUME NEW s, NEW p
    PROVE  IsAccount([entropy |-> s, pass |-> p]) /\ [entropy |-> s, pass |-> p].pass = p
           /\ [entropy |-> s, pass |-> p].entropy = s
BY DEF IsAccount

(* initAcctBucket, for NewKeystore and ImportKeystoreWithMnemonic *)
LEMMA InitStores ==
    ASSUME BoxesInv, NEW s, NEW p, NEW remark, NEW num \in Nat,
           Store([entropy |-> s, pass |-> p], initAcctBucket([entropy |-> s, pass |-> p], pubPass, remark, num, random)),
           pubPass' = pubPass, random' \in Nat
    PROVE  BoxesInv'
<1> DEFINE a == [entropy |-> s, pass |-> p]
           b == initAcctBucket(a, pubPass, remark, num, random)
<1>1. random \in Nat
  BY DEF BoxesInv
<1>2. IsAccount(a)
  BY AccountIs
<1>3. Store(a, b)
  OBVIOUS
<1> HIDE DEF a
<1>4. BucketOf(b, a, pubPass, random + 2)
  <2> DEFINE x1 == random + 1
             x2 == random + 2
  <2>1. x2 \in Nat
    BY <1>1
  <2>2. b = NewAcctBucket(a, NewSecretKey(pubPass, x1), NewSecretKey(a.pass, x2), remark, num, x2)
    BY DEF initAcctBucket
  <2> HIDE DEF x1, x2, b
  <2>3. IsNewBucket(b, a, pubPass, x2, num, remark)
    BY <2>1, <2>2, NewAcctBucketIs
  <2> QED BY <2>3 DEF IsNewBucket, x2
<1>5. random + 2 \in Nat
  BY <1>1
<1> HIDE DEF b
<1> QED BY <1>2, <1>3, <1>4, <1>5, StoreKeeps

LEMMA StoringSteps ==
    ASSUME EnvInv, NEW s, NEW p, NEW remark
    PROVE  /\ NewKeystore(s, p, remark) => EnvInv'
           /\ ImportKeystoreWithMnemonic(s, p) => EnvInv'
<1> USE DEF EnvInv
<1>1. random \in Nat
  BY DEF BoxesInv
<1>2. ASSUME NewKeystore(s, p, remark) PROVE EnvInv'
  <2>1. /\ Store([entropy |-> s, pass |-> p], initAcctBucket([entropy |-> s, pass |-> p], pubPass, remark, 0, random))
        /\ random' = random + 9 + ScopeRandoms(0) /\ pubPass' = pubPass /\ files' = files
    BY <1>2 DEF NewKeystore
  <2>2. random' \in Nat /\ 0 \in Nat
    BY <1>1, <2>1 DEF ScopeRandoms
  <2>3. BoxesInv'
    BY <2>1, <2>2, InitStores
  <2> QED BY <2>1, <2>3 DEF FilesInv
<1>3. ASSUME ImportKeystoreWithMnemonic(s, p) PROVE EnvInv'
  <2>1. /\ Store([entropy |-> s, pass |-> p], initAcctBucket([entropy |-> s, pass |-> p], pubPass, "", 1, random))
        /\ random' = random + 9 + ScopeRandoms(1) /\ pubPass' = pubPass /\ files' = files
    BY <1>3 DEF ImportKeystoreWithMnemonic
  <2>2. random' \in Nat
    <3>1. random' = random + 9 + (4 + 1)
      BY <2>1 DEF ScopeRandoms
    <3> QED BY <1>1, <3>1
  <2>3. BoxesInv'
    BY <2>1, <2>2, InitStores
  <2> QED BY <2>1, <2>3 DEF FilesInv
<1> QED BY <1>2, <1>3

(* What a file opens with which passphrase *)
LEMMA FileOpens ==
    ASSUME NEW file, NEW a, NEW k, NEW p, FileOf(file, a, k)
    PROVE  OpenEntropy(unmarshalMasterPrivKey(file.PrivParams, p), file.CryptoKeyEntropyEnc, file.EntropyEnc)
             = IF p = a.pass THEN [entropy |-> a.entropy] ELSE Failed
<1> DEFINE m == file.PrivParams
           sk == Unmarshal(m)
           e == [entropy |-> a.entropy]
<1>1. sk.Salt = m[1] /\ sk.Digest = m[2] /\ sk = [Key |-> sk.Key, Salt |-> sk.Salt, Digest |-> sk.Digest]
  BY UnmarshalIs
<1>2. Master(m, a.pass) /\ Sealed(file.CryptoKeyEntropyEnc, Scrypt(a.pass, m[1]), KeyEnt(k)) /\ Sealed(file.EntropyEnc, KeyEnt(k), e)
  BY DEF FileOf
<1> HIDE DEF sk, e
<1>3. OpenEntropy(DeriveKey(sk, p), file.CryptoKeyEntropyEnc, file.EntropyEnc) = IF p = a.pass THEN e ELSE Failed
  BY <1>1, <1>2, EntropyOpens
<1> QED BY <1>3 DEF sk, e, unmarshalMasterPrivKey

LEMMA ImportStep ==
    ASSUME EnvInv, NEW f \in files, NEW p, ImportKeystore(f[2], p)
    PROVE  EnvInv'
<1> USE DEF EnvInv
<1> DEFINE a == f[1]
           file == f[2]
           opened == OpenEntropy(unmarshalMasterPrivKey(file.PrivParams, p), file.CryptoKeyEntropyEnc, file.EntropyEnc)
           b == allocAddrMgrNamespace(file, p, pubPass, random)
<1>1. PICK k \in Nat : FileOf(file, a, k)
  BY DEF FilesInv
<1>2. IsAccount(a) /\ random \in Nat
  BY DEF FilesInv, BoxesInv
<1>3. opened # Failed /\ Store([entropy |-> opened.entropy, pass |-> p], b)
      /\ random' = random + 8 + ScopeRandoms(1 + file.ExternalChildNum) /\ pubPass' = pubPass /\ files' = files
  BY DEF ImportKeystore
<1>4. p = a.pass /\ opened = [entropy |-> a.entropy]
  BY <1>1, <1>3, FileOpens
<1>5. [entropy |-> opened.entropy, pass |-> p] = a
  BY <1>2, <1>4 DEF IsAccount
<1> HIDE DEF opened
<1>6. BucketOf(b, a, pubPass, random + 1)
  BY <1>1, <1>2, <1>4, AllocIs DEF IsNewBucket
<1>7. random' \in Nat /\ random + 1 \in Nat
  <2>1. file.ExternalChildNum \in Nat
    BY <1>1 DEF FileOf
  <2> HIDE DEF file
  <2> QED BY <1>2, <1>3, <2>1 DEF ScopeRandoms
<1> HIDE DEF a, b
<1>8. BoxesInv'
  BY <1>2, <1>3, <1>5, <1>6, <1>7, StoreKeeps
<1> QED BY <1>3, <1>8 DEF FilesInv

(* Steps that change one keystore, in its bucket and its manager *)
LEMMA OneKeeps ==
    ASSUME BoxesInv, NEW a \in DOMAIN boxes, NEW b, NEW am, Holds(b, am, a, pubPass),
           boxes' = [boxes EXCEPT ![a] = b], held' = [held EXCEPT ![a] = am], pubPass' = pubPass, random' \in Nat
    PROVE  BoxesInv'
<1>1. DOMAIN boxes' = DOMAIN boxes /\ DOMAIN held' = DOMAIN held
  OBVIOUS
<1>2. ASSUME NEW c \in DOMAIN boxes' PROVE Holds(boxes'[c], held'[c], c, pubPass')
  <2>1. c \in DOMAIN boxes /\ c \in DOMAIN held
    BY <1>1 DEF BoxesInv
  <2>2. CASE c = a
    BY <2>1, <2>2
  <2>3. CASE c # a
    BY <2>1, <2>3 DEF BoxesInv
  <2> QED BY <2>2, <2>3
<1> QED BY <1>1, <1>2 DEF BoxesInv

LEMMA ExportStep ==
    ASSUME EnvInv, NEW a \in DOMAIN held, NEW p, ExportKeystore(a, p)
    PROVE  EnvInv'
<1> USE DEF EnvInv
<1>1. a \in DOMAIN boxes /\ Holds(boxes[a], held[a], a, pubPass) /\ random \in Nat
  BY DEF BoxesInv
<1>2. PICK r \in Nat : BucketOf(boxes[a], a, pubPass, r)
  BY <1>1 DEF Holds
<1> DEFINE am == [held[a] EXCEPT !.masterKeyPriv = [@ EXCEPT !.Key = ZeroKey]]
<1>3. Holds(boxes[a], am, a, pubPass)
  <2>1. Sum256(ZeroKey) # boxes[a]["mpriv"][2]
    <3>1. boxes[a]["mpriv"][2] = Sum256(Scrypt(a.pass, boxes[a]["mpriv"][1]))
      <4> DEFINE m == boxes[a]["mpriv"]
      <4>1. m = Marshal(NewSecretKey(a.pass, m[1]))
        BY <1>2 DEF BucketOf, MasterLayer, Master
      <4> HIDE DEF m
      <4>2. m[2] = Sum256(Scrypt(a.pass, m[1]))
        BY <4>1 DEF Marshal, NewSecretKey
      <4> QED BY <4>2 DEF m
    <3> QED BY <3>1, ScryptInjective
  <2> DEFINE zero == ZeroKey
  <2> HIDE DEF zero
  <2>2. Sum256(zero) # boxes[a]["mpriv"][2]
    BY <2>1 DEF zero
  <2>3. Holds(boxes[a], [held[a] EXCEPT !.masterKeyPriv = [@ EXCEPT !.Key = zero]], a, pubPass)
    BY <1>1, <2>2, RekeyHolds
  <2> QED BY <2>3 DEF zero
<1>4. held' = [held EXCEPT ![a] = am] /\ boxes' = boxes /\ pubPass' = pubPass /\ random' = random
      /\ files' = files \cup {<<a, export(boxes[a])>>}
  BY DEF ExportKeystore, ZeroSecret
<1> HIDE DEF am
<1>5. BoxesInv'
  <2>1. DOMAIN held' = DOMAIN held /\ held'[a] = am /\ \A c \in DOMAIN held : c # a => held'[c] = held[c]
    BY <1>4
  <2> QED BY <1>1, <1>3, <1>4, <2>1 DEF BoxesInv
<1>6. FilesInv'
  <2> SUFFICES ASSUME NEW f \in files'
               PROVE  f = <<f[1], f[2]>> /\ IsAccount(f[1]) /\ \E k \in Nat : FileOf(f[2], f[1], k)
    BY DEF FilesInv
  <2>1. CASE f \in files
    BY <2>1 DEF FilesInv
  <2>2. CASE f = <<a, export(boxes[a])>>
    <3>1. f[1] = a /\ f[2] = export(boxes[a])
      BY <2>2
    <3>2. FileOf(export(boxes[a]), a, r)
      BY <1>2, ExportIs
    <3>3. IsAccount(a)
      BY <1>1 DEF Holds
    <3> QED BY <2>2, <3>1, <3>2, <3>3
  <2> QED BY <1>4, <2>1, <2>2
<1> QED BY <1>5, <1>6

LEMMA AddressStep ==
    ASSUME EnvInv, NEW a \in DOMAIN held, NextAddress(a)
    PROVE  EnvInv'
<1> USE DEF EnvInv
<1>1. a \in DOMAIN boxes /\ Holds(boxes[a], held[a], a, pubPass) /\ random \in Nat
  BY DEF BoxesInv
<1> DEFINE n == fetchChildNum(boxes[a])[2]
           key == ChildOf(ChildOf(held[a].acctKeyPub, 0), n)
           b == updateChildNum(putEncryptedPubKey(boxes[a], 0, n, Encrypt(held[a].cryptoKeyPub, random + 1, key)), 0, n + 1)
           am == [held[a] EXCEPT !.addrs = PutName(@, <<0, n>>, key), !.nextExternalIndex = n + 1]
<1>2. Holds(b, am, a, pubPass)
  BY <1>1, AddressHolds
<1>3. boxes' = [boxes EXCEPT ![a] = b]
  BY DEF NextAddress
<1>4. held' = [held EXCEPT ![a] = am]
  <2>1. held' = [held EXCEPT ![a].addrs = PutName(@, <<0, n>>, key), ![a].nextExternalIndex = n + 1]
    BY DEF NextAddress
  <2> HIDE DEF n, key
  <2> QED BY <2>1
<1>5. pubPass' = pubPass /\ random' = random + 1 /\ files' = files
  BY DEF NextAddress
<1>6. random' \in Nat
  BY <1>1, <1>5
<1> HIDE DEF am, b
<1>7. BoxesInv'
  BY <1>1, <1>2, <1>3, <1>4, <1>5, <1>6, OneKeeps
<1> QED BY <1>5, <1>7 DEF FilesInv

LEMMA RemarkStep ==
    ASSUME EnvInv, NEW a \in DOMAIN held, NEW remark, ChangeRemark(a, remark)
    PROVE  EnvInv'
<1> USE DEF EnvInv
<1>1. a \in DOMAIN boxes /\ Holds(boxes[a], held[a], a, pubPass) /\ random \in Nat
  BY DEF BoxesInv
<1> DEFINE b == IF remark = "" THEN deleteRemark(boxes[a]) ELSE putRemark(boxes[a], remark)
           am == [held[a] EXCEPT !.remark = remark]
<1>2. Holds(b, am, a, pubPass)
  BY <1>1, RemarkHolds
<1>3. boxes' = [boxes EXCEPT ![a] = b] /\ held' = [held EXCEPT ![a] = am] /\ pubPass' = pubPass /\ random' = random /\ files' = files
  BY DEF ChangeRemark
<1>4. random' \in Nat
  BY <1>1, <1>3
<1> HIDE DEF am, b
<1>5. BoxesInv'
  BY <1>1, <1>2, <1>3, <1>4, OneKeeps
<1> QED BY <1>3, <1>5 DEF FilesInv

LEMMA DeleteStep ==
    ASSUME EnvInv, NEW a \in DOMAIN held, DeleteAccount(a)
    PROVE  EnvInv'
<1> USE DEF EnvInv
<1>1. boxes' = Restrict(boxes, DOMAIN boxes \ {a}) /\ held' = Restrict(held, DOMAIN held \ {a})
      /\ pubPass' = pubPass /\ random' = random /\ files' = files
  BY DEF DeleteAccount
<1>2. DOMAIN boxes' = DOMAIN boxes \ {a} /\ DOMAIN held' = DOMAIN held \ {a}
      /\ (\A c \in DOMAIN boxes \ {a} : boxes'[c] = boxes[c]) /\ (\A c \in DOMAIN held \ {a} : held'[c] = held[c])
  BY <1>1 DEF Restrict
<1>3. IsFiniteSet(DOMAIN boxes')
  BY <1>2, FS_Subset DEF BoxesInv
<1>4. BoxesInv'
  BY <1>1, <1>2, <1>3 DEF BoxesInv
<1> QED BY <1>1, <1>4 DEF FilesInv

LEMMA ReopenStep ==
    ASSUME EnvInv, NEW pub, Reopen(pub)
    PROVE  EnvInv'
<1> USE DEF EnvInv
<1>1. /\ \A a \in DOMAIN boxes : openAddrManager(boxes[a], pub) # Failed
      /\ held' = [a \in DOMAIN boxes |-> openAddrManager(boxes[a], pub)]
      /\ pubPass' = pub /\ boxes' = boxes /\ files' = files /\ random' = random
  BY DEF Reopen
<1>2. ASSUME NEW a \in DOMAIN boxes PROVE Holds(boxes[a], held'[a], a, pub)
  <2>1. Holds(boxes[a], held[a], a, pubPass)
    BY DEF BoxesInv
  <2>2. PICK r \in Nat : BucketOf(boxes[a], a, pubPass, r)
    BY <2>1 DEF Holds
  <2>3. pub = pubPass
    BY <1>1, <2>2, OpensOnlyWith
  <2>4. held'[a] = openAddrManager(boxes[a], pub)
    BY <1>1
  <2>5. IsAccount(a)
    BY <2>1 DEF Holds
  <2> QED BY <2>2, <2>3, <2>4, <2>5, FreshHolds
<1>3. DOMAIN held' = DOMAIN boxes
  BY <1>1
<1>4. BoxesInv'
  BY <1>1, <1>2, <1>3 DEF BoxesInv
<1> QED BY <1>1, <1>4 DEF FilesInv

LEMMA ChangePubStep ==
    ASSUME EnvInv, NEW old, NEW new, ChangePubPassphrase(old, new)
    PROVE  EnvInv'
<1> USE DEF EnvInv
<1> DEFINE order == SetToSeq(DOMAIN held)
           at(a) == random + 2 * CHOOSE i \in DOMAIN order : order[i] = a
<1>1. /\ \A a \in DOMAIN held :
            /\ ~Matches(DeriveKey(held[a].masterKeyPriv, new))
            /\ Matches(DeriveKey(Unmarshal(fetchMasterKeyParams(boxes[a])[1]), old))
      /\ boxes' = [a \in DOMAIN boxes |-> RewrapPub(boxes[a], old, new, at(a))]
      /\ held' = [a \in DOMAIN held |->
            [held[a] EXCEPT !.masterKeyPriv = DeriveKey(@, new), !.masterKeyPub = NewSecretKey(new, at(a) + 1)]]
      /\ pubPass' = new /\ random' = random + 2 * Cardinality(DOMAIN held) + 2 /\ files' = files
  BY DEF ChangePubPassphrase
<1>2. DOMAIN held = DOMAIN boxes /\ IsFiniteSet(DOMAIN boxes) /\ random \in Nat
  BY DEF BoxesInv
<1>3. random' \in Nat
  <2> DEFINE n == Cardinality(DOMAIN held)
  <2>1. n \in Nat
    BY <1>2, FS_CardinalityType
  <2>2. random' = random + 2 * n + 2
    BY <1>1
  <2> HIDE DEF n
  <2> QED BY <1>2, <2>1, <2>2
<1> HIDE DEF at
<1>4. ASSUME NEW a \in DOMAIN boxes PROVE Holds(boxes'[a], held'[a], a, new)
  <2>1. Holds(boxes[a], held[a], a, pubPass)
    BY DEF BoxesInv
  <2>2. PICK r \in Nat : BucketOf(boxes[a], a, pubPass, r)
    BY <2>1 DEF Holds
  <2>3. old = pubPass
    <3> DEFINE m == boxes[a]["mpub"]
               sk == Unmarshal(m)
    <3>1. Master(m, pubPass)
      BY <2>2 DEF BucketOf, MasterLayer
    <3>2. fetchMasterKeyParams(boxes[a])[1] = m
      BY DEF fetchMasterKeyParams
    <3>3. sk.Salt = m[1] /\ sk.Digest = m[2] /\ sk = [Key |-> sk.Key, Salt |-> sk.Salt, Digest |-> sk.Digest]
      BY UnmarshalIs
    <3>4. Matches(DeriveKey(sk, old))
      BY <1>1, <1>2, <3>2
    <3> HIDE DEF sk, m
    <3> QED BY <3>1, <3>3, <3>4, MasterMatches
  <2>4. ~Matches(DeriveKey(held[a].masterKeyPriv, new))
    BY <1>1, <1>2
  <2> DEFINE n == at(a)
             b == RewrapPub(boxes[a], pubPass, new, n)
             am == [held[a] EXCEPT !.masterKeyPriv = DeriveKey(@, new), !.masterKeyPub = NewSecretKey(new, n + 1)]
  <2>5. boxes'[a] = b /\ held'[a] = am
    BY <1>1, <1>2, <2>3
  <2>6. Holds(b, am, a, new)
    <3> HIDE DEF n
    <3> QED BY <2>1, <2>4, RewrapHolds
  <2> HIDE DEF b, am
  <2> QED BY <2>5, <2>6
<1>5. DOMAIN held' = DOMAIN held /\ DOMAIN boxes' = DOMAIN boxes
  BY <1>1
<1>6. BoxesInv'
  BY <1>1, <1>2, <1>3, <1>4, <1>5 DEF BoxesInv
<1> QED BY <1>1, <1>6 DEF FilesInv

-----------------------------------------------------------------------------
(* The theorems *)

LEMMA EnvInitial ==
    ASSUME EnvInit
    PROVE  EnvInv
<1>1. boxes = <<>> /\ held = <<>> /\ files = {} /\ random = 0
  BY DEF EnvInit
<1>2. DOMAIN boxes = {} /\ DOMAIN held = {}
  BY <1>1
<1>3. IsFiniteSet(DOMAIN boxes)
  BY <1>2, FS_EmptySet
<1> QED BY <1>1, <1>2, <1>3 DEF EnvInv, BoxesInv, FilesInv

LEMMA EnvStep ==
    ASSUME EnvInv, [EnvNext]_envVars
    PROVE  EnvInv'
<1>1. ASSUME NEW s \in Secret, NEW p \in Passphrase, ImportKeystoreWithMnemonic(s, p) PROVE EnvInv'
  BY <1>1, StoringSteps
<1>2. ASSUME NEW s \in Secret, NEW p \in Passphrase, NEW remark \in Remark, NewKeystore(s, p, remark) PROVE EnvInv'
  BY <1>2, StoringSteps
<1>3. ASSUME NEW f \in files, NEW p \in Passphrase, ImportKeystore(f[2], p) PROVE EnvInv'
  BY <1>3, ImportStep
<1>4. ASSUME NEW a \in DOMAIN held, NextAddress(a) PROVE EnvInv'
  BY <1>4, AddressStep
<1>5. ASSUME NEW a \in DOMAIN held, DeleteAccount(a) PROVE EnvInv'
  BY <1>5, DeleteStep
<1>6. ASSUME NEW a \in DOMAIN held, NEW p \in Passphrase, ExportKeystore(a, p) PROVE EnvInv'
  BY <1>6, ExportStep
<1>7. ASSUME NEW a \in DOMAIN held, NEW remark \in Remark, ChangeRemark(a, remark) PROVE EnvInv'
  BY <1>7, RemarkStep
<1>8. ASSUME NEW old \in Passphrase, NEW new \in Passphrase, ChangePubPassphrase(old, new) PROVE EnvInv'
  BY <1>8, ChangePubStep
<1>9. ASSUME NEW pub \in Passphrase, Reopen(pub) PROVE EnvInv'
  BY <1>9, ReopenStep
<1>10. ASSUME UNCHANGED envVars PROVE EnvInv'
  BY <1>10 DEF envVars, EnvInv, BoxesInv, FilesInv
<1> QED BY <1>1, <1>2, <1>3, <1>4, <1>5, <1>6, <1>7, <1>8, <1>9, <1>10 DEF EnvNext

(* The inductive invariant: every bucket is wrapped layer by layer under   *)
(* the passphrases of its account and of the process, its cached manager   *)
(* is what opening it gives, and every file carries the private layers.    *)
THEOREM EnvelopeInvariant == EnvSpec => []EnvInv
<1>1. EnvInit => EnvInv
  BY EnvInitial
<1>2. EnvInv /\ [EnvNext]_envVars => EnvInv'
  BY EnvStep
<1> QED BY <1>1, <1>2, PTL DEF EnvSpec

LEMMA FreshManager ==
    ASSUME NEW b, NEW a, NEW pub, NEW r \in Nat, BucketOf(b, a, pub, r)
    PROVE  /\ IsManagerOf(openAddrManager(b, pub), a)
           /\ openAddrManager(b, pub).addrs = AddrsOf(b, a)
<1> DEFINE am == openAddrManager(b, pub)
           mk == Unmarshal(b["mpriv"])
<1>1. HasFields(am, b, a, pub, r, mk)
  <2>1. am = ManagerWith(b, a, pub, r, mk)
    BY OpensOnlyWith DEF ManagerOf
  <2> HIDE DEF am, mk
  <2> QED BY <2>1, WithFields
<1> HIDE DEF am
<1>2. am.addrs = AddrsOf(b, a) /\ am.nextExternalIndex = b["exChildNum"]
  BY <1>1 DEF HasFields
<1>3. DOMAIN b["pub"] = {0} \X (0..(b["exChildNum"] - 1))
  BY DEF BucketOf, AddressLayer
<1>4. DOMAIN AddrsOf(b, a) = DOMAIN b["pub"]
  BY DEF AddrsOf
<1>5. DOMAIN am.addrs = {0} \X (0..(am.nextExternalIndex - 1))
  BY <1>2, <1>3, <1>4
<1>6. ASSUME NEW p \in DOMAIN am.addrs PROVE am.addrs[p] = deriveAddress(a, p[1], p[2])
  BY <1>2, <1>4 DEF AddrsOf
<1>7. am.acctKeyPub = AcctKey(a, FALSE)
  BY <1>1 DEF HasFields, AcctPub
<1>8. am.internalBranchPub = ChildOf(AcctKey(a, FALSE), 1) /\ am.externalBranchPub = ChildOf(AcctKey(a, FALSE), 0)
  BY <1>1 DEF HasFields, AcctPub
<1>9. IsManagerOf(am, a)
  BY <1>5, <1>6, <1>7, <1>8 DEF IsManagerOf
<1> QED BY <1>2, <1>9 DEF am

(* The private key of an address is the one its public key was derived     *)
(* from: deriving and neutering commute.                                   *)
LEMMA ChildKeys ==
    ASSUME NEW a, NEW i, NEW j
    PROVE  LET k == ChildOf(ChildOf(AcctKey(a, TRUE), i), j)
           IN  k.private /\ NeuterKey(k) = deriveAddress(a, i, j)
<1>1. ChildOf(ChildOf(AcctKey(a, TRUE), i), j).private
  BY DEF ChildOf, AcctKey, HDKey
<1> QED BY <1>1 DEF deriveAddress

(* For one keystore, what EnvelopeOpens says of it *)
Opens(a) ==
    LET am == openAddrManager(boxes[a], pubPass)
    IN  /\ am # Failed
        /\ IsManagerOf(am, a)
        /\ held[a] = [am EXCEPT !.masterKeyPriv = held[a].masterKeyPriv]
        /\ Matches(held[a].masterKeyPriv) => pubPass = a.pass
        /\ \A p \in Passphrase :
            /\ mnemonicOf(held[a], boxes[a], p) = IF p = a.pass THEN [entropy |-> a.entropy] ELSE Failed
            /\ \A i \in DOMAIN am.addrs :
                 LET k == privKeyOf(held[a], i, p)
                 IN  IF p = a.pass THEN k.private /\ NeuterKey(k) = am.addrs[i] ELSE k = Failed
        /\ a.pass # pubPass => PrivateTo(a) \cap Learned(boxes[a], pubPass) = {}
        /\ PrivateTo(a) \subseteq Learned(boxes[a], a.pass)

LEMMA HoldsOpens ==
    ASSUME BoxesInv, NEW a \in DOMAIN boxes
    PROVE  Opens(a)
<1> DEFINE am == openAddrManager(boxes[a], pubPass)
<1>1. Holds(boxes[a], held[a], a, pubPass)
  BY DEF BoxesInv
<1>2. PICK r \in Nat : BucketOf(boxes[a], a, pubPass, r)
  BY <1>1 DEF Holds
<1>3. IsAccount(a) /\ Caches(held[a], boxes[a], pubPass)
  BY <1>1 DEF Holds
<1>4. am # Failed
  BY <1>2, <1>3, FreshHolds
<1>5. IsManagerOf(am, a) /\ am.addrs = AddrsOf(boxes[a], a)
  BY <1>2, FreshManager
<1>6. held[a] = [am EXCEPT !.masterKeyPriv = held[a].masterKeyPriv] /\ ~Matches(held[a].masterKeyPriv)
  BY <1>3 DEF Caches
<1>7. ASSUME NEW p \in Passphrase
      PROVE  mnemonicOf(held[a], boxes[a], p) = IF p = a.pass THEN [entropy |-> a.entropy] ELSE Failed
  BY <1>2, <1>3, MnemonicOpens
<1>8. ASSUME NEW p \in Passphrase, NEW i \in DOMAIN am.addrs
      PROVE  LET k == privKeyOf(held[a], i, p)
             IN  IF p = a.pass THEN k.private /\ NeuterKey(k) = am.addrs[i] ELSE k = Failed
  <2> DEFINE k == privKeyOf(held[a], i, p)
             c == ChildOf(ChildOf(AcctKey(a, TRUE), i[1]), i[2])
  <2>1. k = IF p = a.pass THEN c ELSE Failed
    <3>1. k = IF p = a.pass THEN SigningKey(a, i) ELSE Failed
      BY <1>2, <1>3, SigningKeyOpens
    <3> QED BY <3>1 DEF SigningKey
  <2>2. c.private /\ NeuterKey(c) = deriveAddress(a, i[1], i[2])
    BY ChildKeys
  <2>3. am.addrs[i] = deriveAddress(a, i[1], i[2])
    BY <1>5 DEF IsManagerOf
  <2> HIDE DEF k, c, am
  <2> QED BY <2>1, <2>2, <2>3 DEF k
<1>9. a.pass # pubPass => PrivateTo(a) \cap Learned(boxes[a], pubPass) = {}
  BY <1>2, PublicTellsNothing
<1>10. PrivateTo(a) \subseteq Learned(boxes[a], a.pass)
  BY <1>2, PrivateTellsAll
<1> HIDE DEF am
<1> QED BY <1>4, <1>5, <1>6, <1>7, <1>8, <1>9, <1>10 DEF Opens, am

(* EnvelopeOpens: whatever created, rewrapped, imported or reopened it, a  *)
(* keystore opens with its own passphrases and with no others.             *)
THEOREM EnvelopeAlwaysOpens == EnvSpec => []EnvelopeOpens
<1>1. EnvInv => EnvelopeOpens
  BY HoldsOpens DEF EnvInv, EnvelopeOpens, Opens
<1> QED BY <1>1, EnvelopeInvariant, PTL

(* For one file and one passphrase, what ExportRestores says of them *)
Restores(a, file, p) ==
    LET master == unmarshalMasterPrivKey(file.PrivParams, p)
        entropy == OpenEntropy(master, file.CryptoKeyEntropyEnc, file.EntropyEnc)
        b == allocAddrMgrNamespace(file, p, pubPass, random)
    IN  IF p # a.pass THEN entropy = Failed
        ELSE /\ entropy = [entropy |-> a.entropy]
             /\ IsManagerOf(openAddrManager(b, pubPass), a)
             /\ fetchChildNum(b)[2] >= file.ExternalChildNum
             /\ fetchRemark(b) = file.Remarks
             /\ mnemonicOf(openAddrManager(b, pubPass), b, p) = entropy

LEMMA FileRestores ==
    ASSUME NEW file, NEW a, NEW k \in Nat, NEW p, FileOf(file, a, k), IsAccount(a), random \in Nat
    PROVE  Restores(a, file, p)
<1> DEFINE entropy == OpenEntropy(unmarshalMasterPrivKey(file.PrivParams, p), file.CryptoKeyEntropyEnc, file.EntropyEnc)
           e == [entropy |-> a.entropy]
<1>1. entropy = IF p = a.pass THEN e ELSE Failed
  BY FileOpens
<1> HIDE DEF entropy, e
<1>2. CASE p # a.pass
  BY <1>1, <1>2 DEF Restores, entropy
<1>3. CASE p = a.pass
  <2> DEFINE b == allocAddrMgrNamespace(file, p, pubPass, random)
             num == IF file.ExternalChildNum = 0 THEN 1 ELSE file.ExternalChildNum
             s == random + 1
             am == openAddrManager(b, pubPass)
  <2>1. IsNewBucket(b, a, pubPass, s, num, file.Remarks)
    BY <1>3, AllocIs
  <2>2. num \in Nat /\ num >= file.ExternalChildNum
    BY DEF FileOf
  <2>3. s \in Nat
    OBVIOUS
  <2> HIDE DEF b, num, s
  <2>4. BucketOf(b, a, pubPass, s) /\ b["exChildNum"] = num /\ fetchRemark(b) = file.Remarks
    BY <2>1 DEF IsNewBucket
  <2>5. fetchChildNum(b)[2] >= file.ExternalChildNum
    BY <2>2, <2>4 DEF fetchChildNum
  <2>6. IsManagerOf(am, a)
    BY <2>3, <2>4, FreshManager
  <2>7. Caches(am, b, pubPass)
    BY <2>3, <2>4, FreshHolds DEF Holds
  <2> HIDE DEF am
  <2>8. mnemonicOf(am, b, p) = e
    BY <1>3, <2>3, <2>4, <2>7, MnemonicOpens DEF e
  <2> QED BY <1>1, <1>3, <2>4, <2>5, <2>6, <2>8 DEF Restores, entropy, b, am, e
<1> QED BY <1>2, <1>3

(* ExportRestores: a keystore file gives its account back under the        *)
(* private passphrase it was exported with, and nothing under another.     *)
THEOREM ExportAlwaysRestores == EnvSpec => []ExportRestores
<1>1. EnvInv => ExportRestores
  <2> SUFFICES ASSUME EnvInv, NEW f \in files, NEW p \in Passphrase PROVE Restores(f[1], f[2], p)
    BY DEF ExportRestores, Restores
  <2>1. IsAccount(f[1]) /\ random \in Nat
    BY DEF EnvInv, FilesInv, BoxesInv
  <2>2. PICK k \in Nat : FileOf(f[2], f[1], k)
    BY DEF EnvInv, FilesInv
  <2> QED BY <2>1, <2>2, FileRestores
<1> QED BY <1>1, EnvelopeInvariant, PTL
=============================================================================
