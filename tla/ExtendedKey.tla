---------------------------- MODULE ExtendedKey ----------------------------
(***************************************************************************)
(* hdkeychain/extendedkey.go and hd.go: the key tree below a seed.         *)
(*                                                                         *)
(* External: the curve, of which only the group counts (a point is its     *)
(* discrete logarithm modulo N, so adding points adds numbers), the hash   *)
(* and base58.  A private key is the byte string the code keeps: 32 bytes  *)
(* as read from a hash or a string, and possibly fewer after Child.        *)
(***************************************************************************)
EXTENDS BigInt

CONSTANTS
    KeySize,                \* 32
    CurveN,                 \* btcec.S256().N
    ChainCode,              \* chain codes
    Hmac512(_, _),          \* chain code, data -> <<left half, right half>>
    HardenedKeyStart,       \* 2^31
    Purpose, Coin, Account  \* 44, 1 or 297, WalletUsage

ASSUME CurveAssumption ==
    /\ KeySize \in Nat \ {0}
    /\ CurveN \in 2..Power(Base, KeySize)
    /\ HardenedKeyStart \in Nat /\ HardenedKeyStart > 1
    /\ {Purpose, Coin, Account} \subseteq Nat

InvalidKey == [isPrivate |-> FALSE, key |-> <<>>]

(* NewExtendedKey *)
PrivateKey(key, chainCode) == [isPrivate |-> TRUE, key |-> key, chainCode |-> chainCode]
PublicKey(point, chainCode) == [isPrivate |-> FALSE, key |-> <<point>>, chainCode |-> chainCode]

pubKeyBytes(k) == IF k.isPrivate THEN <<SetBytes(k.key) % CurveN>> ELSE k.key

Usable(n) == n \in 1..(CurveN - 1)

NewMaster(secretKey, chainCode) ==
    IF Usable(SetBytes(secretKey)) THEN PrivateKey(secretKey, chainCode) ELSE InvalidKey

Neuter(k) == IF k.isPrivate THEN PublicKey(pubKeyBytes(k)[1], k.chainCode) ELSE k

(* copy(data[1:], k.key): a short key is followed, not preceded, by zeros. *)
HardenedData(k) == <<0>> \o k.key \o [i \in 1..(KeySize - Len(k.key)) |-> 0]

Child(k, i) ==
    LET data == Append(IF i >= HardenedKeyStart THEN HardenedData(k) ELSE pubKeyBytes(k), i)
        I == Hmac512(k.chainCode, data)
    IN  IF \/ k = InvalidKey
           \/ ~k.isPrivate /\ i >= HardenedKeyStart
           \/ ~Usable(I[1])
        THEN InvalidKey
        ELSE IF k.isPrivate
             THEN PrivateKey(Bytes((I[1] + SetBytes(k.key)) % CurveN), I[2])
             ELSE PublicKey((I[1] + k.key[1]) % CurveN, I[2])

(* Mutant form: the key is written as it is. *)
AppendUnpadded(key) == key

paddedAppend(key) == padByteSlice(key, KeySize)

(* String and NewKeyFromString: what a key is after it was stored.  A key  *)
(* is read as the KeySize bytes after the other fields.                    *)
Stored(k) ==
    IF k = InvalidKey \/ k.key = <<>> THEN InvalidKey
    ELSE IF k.isPrivate
         THEN LET read == SubSeq(paddedAppend(k.key) \o [i \in 1..KeySize |-> Base - 1], 1, KeySize)
              IN  IF Usable(SetBytes(read)) THEN PrivateKey(read, k.chainCode) ELSE InvalidKey
         ELSE k

deriveCoinTypeKey(root) ==
    Child(Child(root, Purpose + HardenedKeyStart), Coin + HardenedKeyStart)
deriveAccountKey(root) == Child(deriveCoinTypeKey(root), Account + HardenedKeyStart)

(* createManagerKeyScope: the address, before the account key is stored. *)
ImportedKey(acct, branch, i) == Child(Neuter(Child(acct, branch)), i)
(* nextAddresses: the address, from the stored public account key. *)
AddressKey(acct, branch, i) == Child(Child(Stored(Neuter(acct)), branch), i)
(* getPrivKeyBtcec: the key that signs for it, from the stored private one. *)
SigningKey(acct, branch, i) == Child(Child(Stored(acct), branch), i)

Roots == {r \in {NewMaster(s, c) : s \in [1..KeySize -> 0..(Base - 1)], c \in ChainCode} :
              r # InvalidKey}
Accounts == {a \in {deriveAccountKey(r) : r \in Roots} : a # InvalidKey /\ SetBytes(a.key) # 0}

SignsFor(a, branch, i) ==
    LET signing == SigningKey(a, branch, i)
    IN  /\ AddressKey(a, branch, i) = ImportedKey(a, branch, i)
        /\ AddressKey(a, branch, i) =
             IF signing = InvalidKey THEN InvalidKey ELSE Neuter(signing)

(* The addresses that fail, as a set that TLC computes once. *)
Unspendable == {a \in Accounts : \E branch \in {0, 1}, i \in 0..(HardenedKeyStart - 1) :
                                 ~SignsFor(a, branch, i)}
=============================================================================
