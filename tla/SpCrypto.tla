----------------------------- MODULE SpCrypto -----------------------------
(***************************************************************************)
(* Symbolic model of the derivations of the unwrap path.  A hash, a KDF or *)
(* a cipher is a constructor: two results are equal exactly when their    *)
(* inputs are, which is all the unwrap path relies on ("one wrong byte     *)
(* gives an unusable key").  PersonalizedHash*, scrypt and the FBE         *)
(* credential hash live outside src/ (HashPassword.h, crypto_scrypt.h) and *)
(* are modelled from the specification.                                    *)
(***************************************************************************)

\* Personalize(label, data) = SHA-512(pad_128(label) || data).
Personalize(label, data) == <<"sha512", label, data>>

\* NIST SP 800-108 counter-mode KDF with HMAC-SHA-256 (spblob version 3).
PersonalizeSP800(label, context, data) == <<"sp800", label, context, data>>

\* crypto_scrypt(password, salt, N, r, p) truncated to 32 bytes.
Scrypt(password, salt) == <<"scrypt", password, salt>>

(***************************************************************************)
(* The default password token: the 16 bytes of "default-password" copied  *)
(* into a 32-byte buffer whose last 16 bytes hold `pad` (zero when the     *)
(* token is padded the way LockSettingsService pads it).                   *)
(***************************************************************************)
DefaultToken(pad) == <<"default-password", pad>>

\* The 96-byte application id: password token || 64-byte second half.
AppId(token, second) == <<token, second>>

\* The AES-256 key: the first 32 bytes of Personalize("application-id", id).
AesKey(appId) == <<"first32", Personalize("application-id", appId)>>

\* An AES-256-GCM ciphertext of `pt` under `key`.
Seal(key, pt) == [key |-> key, pt |-> pt]

(***************************************************************************)
(* AES-GCM decryption whose tag check is ignored: the right key gives the *)
(* plaintext back, any other key gives a keystream-dependent garbage.      *)
(***************************************************************************)
OpenIgnoringTag(key, ct) ==
  IF key = ct.key THEN ct.pt ELSE <<"garbage", key, ct>>

\* HashPassword(): the pre-synthetic-password FBE credential hash.
HashPassword(password) == Personalize("Android FBE credential hash", password)
=============================================================================
