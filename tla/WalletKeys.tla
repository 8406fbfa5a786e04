---------------------------- MODULE WalletKeys ----------------------------
(***************************************************************************)
(* The keystores with the words that back them up and the keys below their *)
(* seeds: what a stored wallet and an unlocked one rely on.                *)
(***************************************************************************)
EXTENDS Keystore, Mnemonic, ExtendedKey

(* A backup restores its wallet: once a wallet is stored, its words give   *)
(* the entropy back.  For every entropy that NewEntropy can return,        *)
(* EntropyFromMnemonic inverts NewMnemonic, leading zero bytes included,   *)
(* and the second decoder that ImportKeystoreWithMnemonic asks             *)
(* (NewSeedWithErrorChecking) accepts the words too.                       *)
MnemonicRestores == DOMAIN db.stored # {} => LostBackups = {}

(* The wallet can spend what it receives: for every seed, the key that     *)
(* getPrivKeyBtcec derives from the stored private account key, once the   *)
(* keystore is unlocked, belongs to the address that nextAddresses and     *)
(* createManagerKeyScope derived from public keys, also when a private key *)
(* on the way starts with zero bytes.                                      *)
SigningKeyOfAddress == (\E w \in DOMAIN cache : cache[w].unlocked) => Unspendable = {}
=============================================================================
