----------------------------- MODULE Mnemonic -----------------------------
(***************************************************************************)
(* keystore/mnemonic.go: the words a wallet is backed up with.             *)
(*                                                                         *)
(* The code works on 128 to 256 bits of entropy, 32 bits to three words of *)
(* 11 bits, one bit of each three words a checksum.  Word and byte sizes   *)
(* are parameters here; what the code divides by stays: four bytes and one *)
(* checksum bit to three words.  Go's nil is the empty sequence.           *)
(***************************************************************************)
EXTENDS BigInt, FiniteSetsExt

CONSTANTS
    WordBits,           \* 11
    ByteBits,           \* 8
    Units,              \* sizes: bitSize / 32, that is 4..8
    wordList,           \* 2^WordBits words, wordlists.English
    Entropy,            \* entropies to try
    Sha256(_)           \* external: the first byte of the hash of the data

ASSUME MnemonicAssumption ==
    /\ WordBits \in Nat /\ ByteBits \in Nat
    /\ Base = Power(2, ByteBits)
    /\ 4 * ByteBits + 1 = 3 * WordBits
    /\ \A u \in Units : u \in 1..ByteBits
    /\ Entropy \subseteq UNION {[1..(4 * u) -> 0..(Base - 1)] : u \in Units}
    /\ \A e \in Entropy : Sha256(e) \in 0..(Base - 1)
    /\ DOMAIN wordList = 1..Power(2, WordBits)
    /\ \A i, j \in DOMAIN wordList : wordList[i] = wordList[j] => i = j

SetWordList == [v \in Range(wordList) |-> Max({i \in DOMAIN wordList : wordList[i] = v}) - 1]

(* The words as one number; every word must be in the list. *)
WordsValue(words) ==
    FromDigits([i \in 1..Len(words) |-> SetWordList[words[i]]], Power(2, WordBits))

splitMnemonicWords(words) == Len(words) % 3 = 0 /\ Len(words) \div 3 \in Units

IsMnemonicValid(words) == splitMnemonicWords(words) /\ Range(words) \subseteq Range(wordList)

validateEntropyBitSize(entropy) == Len(entropy) % 4 = 0 /\ Len(entropy) \div 4 \in Units

addChecksum(data) ==
    LET bits == Len(data) \div 4
    IN  Bytes(SetBytes(data) * Power(2, bits) + Sha256(data) \div Power(2, ByteBits - bits))

NewMnemonic(entropy) ==
    LET sentenceLength == 3 * (Len(entropy) \div 4)
        words == Digits(SetBytes(addChecksum(entropy)), Power(2, WordBits), sentenceLength)
    IN  IF validateEntropyBitSize(entropy)
        THEN [i \in 1..sentenceLength |-> wordList[words[i] + 1]]
        ELSE <<>>

(* Mutant form: the entropy keeps the length the number happens to have. *)
ShortEntropy(value, units) == Bytes(value \div Power(2, units))

EntropyBytes(value, units) == padByteSlice(Bytes(value \div Power(2, units)), units * 4)

EntropyFromMnemonic(words) ==
    LET units == Len(words) \div 3
        value == WordsValue(words)
        entropy == EntropyBytes(value, units)
    IN  IF /\ IsMnemonicValid(words)
           /\ value % Power(2, units) = Sha256(entropy) \div Power(2, ByteBits - units)
        THEN entropy ELSE <<>>

MnemonicToByteArray(words) ==
    LET entropyBitSize == Len(words) * WordBits
        checksumBitSize == entropyBitSize % (4 * ByteBits)
        fullByteSize == (entropyBitSize - checksumBitSize) \div ByteBits + 1
        checksumByteSize == fullByteSize - (fullByteSize % 4)
        value == WordsValue(words)
        raw == padByteSlice(Bytes(value \div Power(2, checksumBitSize)), checksumByteSize)
        checksummed == padByteSlice(Bytes(value), fullByteSize)
    IN  IF IsMnemonicValid(words) /\ checksummed = padByteSlice(addChecksum(raw), fullByteSize)
        THEN checksummed ELSE <<>>

Restored(e) ==
    LET words == NewMnemonic(e)
    IN  EntropyFromMnemonic(words) = e /\ MnemonicToByteArray(words) # <<>>

(* The backups that fail, as a set that TLC computes once. *)
LostBackups == {e \in Entropy : ~Restored(e)}
=============================================================================
