------------------------------- MODULE Crypto -------------------------------
(***************************************************************************)
(* The cryptography of api/src/crypto, taken as ideal: a ciphertext is the *)
(* pair of the key that made it and the plaintext it hides, it opens under *)
(* that key alone, and key derivation is injective.  Nonces, lengths and   *)
(* encodings are abstracted.                                               *)
(***************************************************************************)

\* encryption::encrypt
Encrypt(key, plain) == [key |-> key, plain |-> plain]

\* encryption::decrypt answers Ok(data.plain) when this holds, Err otherwise:
\* the GCM tag authenticates the ciphertext under its key.
Decrypts(key, data) == data.key = key

\* key_management::derive_master_key (Argon2id of a password and a salt)
DeriveMasterKey(pw, salt) == [pw |-> pw, salt |-> salt]

=============================================================================
