----------------------------- MODULE MCDecrypt -----------------------------
(***************************************************************************)
(* Model-checking instance of Decrypt: users, a right and a wrong          *)
(* credential, and the layouts a device leaves.                            *)
(***************************************************************************)
EXTENDS Decrypt

CONSTANTS c1, c2

MCUsers == {0}
MCCreds == {c1, c2}

\* Users with credential c1 on weaver and secdis devices, spblob v2 and v3,
\* files under the handle's exact name.
MCLayoutsCred ==
  {SynthLayout(c1, w, "", 7, v) : w \in BOOLEAN, v \in {2, 3}}

\* One user on each path Decrypt_User can take, including files whose
\* headers send it down an error path.
MCGoodSecdis == SynthLayout(c1, FALSE, "", 7, 2)
MCLayoutsPaths ==
  { SynthLayout(c1, TRUE, "", 7, 3), MCGoodSecdis,
    SynthLayout(Default, TRUE, "", 7, 2), SynthLayout(Default, FALSE, "", 7, 3),
    LegacyLayout(c1, "password.key"), LegacyLayout(c1, "pattern.key"),
    LegacyLayout(Default, "none"),
    SynthLayout(c1, TRUE, "0", 7, 2),              \* weaver files under 0<handle>
    [MCGoodSecdis EXCEPT !.files = @ \ {".spblob"}], \* no .spblob
    [MCGoodSecdis EXCEPT !.scryptN = 0],           \* N = 1 rejected by scrypt
    [MCGoodSecdis EXCEPT !.scryptN = 43],          \* shift count past 31
    [MCGoodSecdis EXCEPT !.version = 1],           \* spblob v1
    [MCGoodSecdis EXCEPT !.version = 4],           \* unknown spblob version
    [MCGoodSecdis EXCEPT !.spType = 1],            \* not password based
    [MCGoodSecdis EXCEPT !.handleLen = 0],         \* no password handle
    [MCGoodSecdis EXCEPT !.pwdType = 0],           \* unknown password type
    [MCGoodSecdis EXCEPT !.pwdLen = 20],           \* .pwd cut inside the salt
    [MCGoodSecdis EXCEPT !.pwdLen = 40],           \* .pwd cut inside the handle
    [SynthLayout(c1, TRUE, "", 7, 3) EXCEPT !.pwdLen = 29] }  \* cut in handle_len

\* Users 0 and 10 with credential c1 on any scheme, and an id Decrypt_User
\* refuses.
MCUsersMulti == {0, 10, 10000}
MCLayoutsMulti == MCLayoutsCred \cup {LegacyLayout(c1, "password.key")}

\* A weaver user whose files LockSettingsService stored as 00<handle>.
MCLayoutsPadded == {SynthLayout(c1, TRUE, "00", 7, 2)}
\* Users without a credential, on weaver and on secdis.
MCLayoutsDefault == {SynthLayout(Default, w, "", 7, 2) : w \in BOOLEAN}
\* A secdis user with a credential (auth-bound keystore key).
MCLayoutsSecdis == {MCGoodSecdis}
\* A weaver user in slot 263 (0x107).
MCLayoutsSlot == {SynthLayout(c1, TRUE, "", 263, 2)}

MCPadBytes  == {0, 1}   \* zero, or whatever the stack held
MCTailBytes == {0}      \* libc++ zero-initialises a short string's buffer
MCGkKinds   == {"aidl", "hidl"}
MCGkHidl    == {"hidl"}
MCGkAidl    == {"aidl"}
MCGkKindsAll == {"aidl", "hidl", "none"}
=============================================================================
