------------------------------ MODULE Decrypt ------------------------------
(***************************************************************************)
(* Decrypt_User and the synthetic-password unwrap of src/Decrypt.cpp,      *)
(* against the services it calls: gatekeeper (AIDL or HIDL HAL), weaver,   *)
(* keystore2 with its authorization service, and fscrypt.                  *)
(*                                                                         *)
(* One Decrypt_User call runs at a time (the caller serialises); its       *)
(* steps are cut at the RPCs, because what the services hold between two  *)
(* RPCs (auth tokens, keystore2's readiness) is what other calls and time  *)
(* change.  State kept by the services across calls: the auth tokens of   *)
(* the authorization service, the CE keys installed by fscrypt.            *)
(***************************************************************************)
EXTENDS Integers, FiniteSets, SpblobFiles, SpCrypto

CONSTANTS
  Users,      \* user ids; 0 is one of them (Decrypt_User looks at user 0's spblob dir)
  Creds,      \* credentials other than Default a caller may type (model values)
  Layouts,    \* the states a user's files can be in (records, see SpblobFiles)
  GkKinds,    \* gatekeeper HALs a device may expose: subset of {"aidl", "hidl", "none"}
  PadBytes,   \* what bytes 16..31 of the default password token can hold (0: zeros)
  TailBytes,  \* what the two bytes past the NUL of the .weaver string can hold
  MaxCalls,   \* bound on the number of Decrypt_User calls
  None        \* no value

ASSUME 0 \in Users /\ Users \subseteq Nat
ASSUME Default \notin Creds
ASSUME MaxCalls \in Nat \ {0}

AllCreds == Creds \cup {Default}

VARIABLES
  disk,        \* [Users -> Layouts]: read by the engine, never written
  gkKind,      \* the gatekeeper HAL of this device
  ksUp,        \* keystore2 (and the authorization service) registered
  gkUp,        \* the gatekeeper HAL of gkKind has registered with its service manager
  authTokens,  \* auth tokens held by the authorization service
  ce,          \* [Users -> {"locked", "unlocked"}]: fscrypt's CE keys
  prepared,    \* [Users -> BOOLEAN]: fscrypt_prepare_user_storage(CE) succeeded
  sqliteCopied,\* copySqliteDb has run
  pc,          \* where the current Decrypt_User call is
  req,         \* [user, cred] of the current call
  tok,         \* password_token
  pwdRead,     \* what Decrypt_User_Synth_Pass's Get_Password_Data read (see PwdReads)
  appId,       \* application_id
  gkResp,      \* the auth token gatekeeper handed back
  secret,      \* the disk decryption secret handed to fscrypt
  result,      \* what the last call returned (FALSE if it crashed)
  calls,       \* number of calls made
  fault,       \* a service faulted during the current call (history)
  gkRejected,  \* gatekeeper answered error or retry in the current call (history)
  began        \* a keystore operation was begun in the current call (history)

envVars  == <<disk, gkKind, ksUp, gkUp, authTokens>>
fsVars   == <<ce, prepared, sqliteCopied>>
dataVars == <<tok, pwdRead, appId, gkResp, secret>>
histVars == <<fault, gkRejected, began>>
vars == <<envVars, fsVars, pc, req, dataVars, result, calls, histVars>>

(***************************************************************************)
(* What LockSettingsService stored for each user: the secrets the engine  *)
(* must reconstruct.                                                       *)
(***************************************************************************)
Salt(u)        == <<"salt", u>>
GarbageSalt    == <<"salt", None>>   \* bytes read from past the .pwd buffer
SyntheticPw(u) == <<"sp", u>>
WeaverPayload(u) == <<"weaver-payload", u>>
SecdisData(u)  == <<"secdis", u>>

PasswordTokenOf(c, u, pad) ==
  IF c = Default THEN DefaultToken(pad) ELSE Scrypt(c, Salt(u))
TrueToken(u) == PasswordTokenOf(disk[u].lskf, u, 0)

WeaverSecret(payload) == Personalize("weaver-pwd", payload)
SecdisHash(data)      == Personalize("secdiscardable-transform", data)

TrueAppId(u) ==
  AppId(TrueToken(u),
        IF ".weaver" \in disk[u].files THEN WeaverSecret(WeaverPayload(u))
                                       ELSE SecdisHash(SecdisData(u)))

\* The keystore's plaintext: the inner AES-GCM blob of the synthetic password.
Envelope(u) == Seal(AesKey(TrueAppId(u)), SyntheticPw(u))

\* unwrapSyntheticPasswordBlob's last step, by spblob version.
FbeSecret(sp, version) ==
  IF version = 3 THEN PersonalizeSP800("fbe-key", "fbe-key-context", sp)
                 ELSE Personalize("fbe-key", sp)

\* The literal secret "!" Decrypt_User hands fscrypt for the default password.
DefaultSecret == <<"literal", Default>>

\* The secret fscrypt_unlock_ce_storage accepts for u.
CeSecret(u) ==
  IF disk[u].spdir THEN FbeSecret(SyntheticPw(u), disk[u].version)
  ELSE IF disk[u].lskf = Default THEN DefaultSecret
  ELSE HashPassword(disk[u].lskf)

\* The keystore key of a secdis user with a credential is bound to its SID.
AuthBound(u) == ".secdis" \in disk[u].files /\ disk[u].lskf # Default

\* An auth token for the SID of `user`; `genuine` when gatekeeper signed it.
Token(u, genuine) == [user |-> u, genuine |-> genuine]
BogusToken == Token(0, FALSE)   \* a default-constructed HardwareAuthToken

Idle == {"Idle", "Crashed"}

(***************************************************************************)
(* Helpers for the steps of a call.                                        *)
(***************************************************************************)
Return(r) == pc' = "Idle" /\ result' = r
Goto(l)   == pc' = l /\ UNCHANGED result

\* Decrypt_CE_storage: fscrypt_unlock_ce_storage, then
\* fscrypt_prepare_user_storage(CE), which may fail (prepOk = FALSE).
CeOpens(u, s) == s = CeSecret(u)
PrepOutcomes(u, s) == IF CeOpens(u, s) THEN BOOLEAN ELSE {TRUE}
\* The variant prepares CE storage even when the unlock failed.
DecryptCeStoragePrepAnyway(u, s, prepOk) ==
  /\ ce' = IF CeOpens(u, s) THEN [ce EXCEPT ![u] = "unlocked"] ELSE ce
  /\ prepared' = IF prepOk THEN [prepared EXCEPT ![u] = TRUE] ELSE prepared
  /\ fault' = (fault \/ ~prepOk)
DecryptCeStorage(u, s, prepOk) ==
  /\ ce' = IF CeOpens(u, s) THEN [ce EXCEPT ![u] = "unlocked"] ELSE ce
  /\ prepared' = IF CeOpens(u, s) /\ prepOk THEN [prepared EXCEPT ![u] = TRUE]
                                            ELSE prepared
  /\ fault' = (fault \/ ~prepOk)
CeResult(u, s, prepOk) == CeOpens(u, s) /\ prepOk

(***************************************************************************)
(* Decrypt_User(u, c): the checks before any RPC, and the choice of path.  *)
(***************************************************************************)
Call(u, c) ==
  /\ pc = "Idle"
  /\ calls < MaxCalls
  /\ calls' = calls + 1
  /\ req' = [user |-> u, cred |-> c]
  /\ fault' = FALSE /\ gkRejected' = FALSE /\ began' = FALSE
  /\ \/ u > 9999 /\ Return(FALSE)
     \/ /\ u <= 9999
        /\ \E rd \in PwdReads(disk[u]) :
           LET pt == GetPasswordType(disk[u], rd) IN
           \/ rd = "crash" /\ pc' = "Crashed" /\ result' = FALSE
           \/ rd # "crash" /\ pt.type = 0 /\ c # Default /\ Return(FALSE)
           \/ rd # "crash" /\ c = Default /\ Goto("DefaultCe")
           \/ /\ rd # "crash" /\ pt.type # 0 /\ c # Default
              /\ \/ disk[0].spdir /\ Goto("SynthPass")
                 \/ ~disk[0].spdir /\ pt.file = "" /\ Return(FALSE)   \* stat(filename) fails
                 \/ ~disk[0].spdir /\ pt.file # "" /\ Goto("LegacyGk")
  /\ UNCHANGED <<envVars, fsVars, dataVars>>

\* Default password: try CE with "!" and fall back to the synthetic password.
DefaultCe ==
  LET u == req.user IN
  /\ pc = "DefaultCe"
  /\ \E prepOk \in PrepOutcomes(u, DefaultSecret) :
       /\ DecryptCeStorage(u, DefaultSecret, prepOk)
       /\ IF CeResult(u, DefaultSecret, prepOk) THEN Return(TRUE) ELSE Goto("SynthPass")
  /\ UNCHANGED <<envVars, sqliteCopied, req, dataVars, calls, gkRejected, began>>

(***************************************************************************)
(* Decrypt_User_Synth_Pass up to the path choice: the password token, by   *)
(* scrypt of the credential with the .pwd parameters, or the default       *)
(* token after copySqliteDb.  Its last 16 bytes are never written.  A     *)
(* .pwd shorter than its fields gives a garbage salt or handle, a failed   *)
(* malloc or a crash (PwdReads), independently of Get_Password_Type's read.*)
(***************************************************************************)
SynthPass ==
  LET u == req.user  c == req.cred  l == disk[u]
      next == IF IsWeaver(l) THEN "Weaver" ELSE "Secdis"
  IN
  /\ pc = "SynthPass"
  /\ \/ /\ c # Default /\ ~GetPasswordData(l) /\ Return(FALSE)
        /\ UNCHANGED <<tok, pwdRead, sqliteCopied>>
     \/ /\ c # Default /\ GetPasswordData(l)
        /\ \E rd \in PwdReads(l) :
           \/ rd = "crash" /\ pc' = "Crashed" /\ result' = FALSE
              /\ UNCHANGED <<tok, pwdRead>>
           \/ rd = "fails" /\ Return(FALSE) /\ UNCHANGED <<tok, pwdRead>>
           \/ /\ rd \in {"intact", "garbage"} /\ FALSE \in ScryptAccepts(l)
              /\ Return(FALSE) /\ pwdRead' = rd /\ UNCHANGED tok
           \/ /\ rd \in {"intact", "garbage"} /\ TRUE \in ScryptAccepts(l)
              /\ pwdRead' = rd
              /\ tok' = Scrypt(c, IF rd = "garbage" /\ ~SaltInFile(l) THEN GarbageSalt
                                                                       ELSE Salt(u))
              /\ Goto(next)
        /\ UNCHANGED sqliteCopied
     \/ /\ c = Default
        /\ sqliteCopied' = TRUE
        /\ \E pad \in PadBytes : tok' = DefaultToken(pad)
        /\ Goto(next) /\ UNCHANGED pwdRead
  /\ UNCHANGED <<envVars, ce, prepared, req, appId, gkResp, secret, calls, histVars>>

(***************************************************************************)
(* Weaver path: Get_Weaver_Data (Is_Weaver has seen <handle>.weaver, so  *)
(* only a read error makes it fail), the weaver key, the weaver service    *)
(* and its key size, WeaverVerify(slot, key).  The service answers "ok"   *)
(* with the payload for the right (slot, key), "incorrect" otherwise, or   *)
(* fails                                                                   *)
(* (no service, GetKeySize failure, throttling).                           *)
(***************************************************************************)
Weaver ==
  LET u == req.user  l == disk[u]
      key == Personalize("weaver-key", tok)
  IN
  /\ pc = "Weaver"
  /\ \/ Return(FALSE) /\ fault' = TRUE /\ UNCHANGED appId   \* the read of the file fails
     \/ /\ GetWeaverData(l)
        /\ \E t1, t2 \in TailBytes :
           LET verified == /\ ReadSlot(l, <<t1, t2>>) = l.slot
                           /\ key = Personalize("weaver-key", TrueToken(u))
           IN \E ans \in IF verified THEN {"ok", "fail"} ELSE {"incorrect", "fail"} :
                \/ ans = "ok" /\ appId' = AppId(tok, WeaverSecret(WeaverPayload(u)))
                   /\ Goto("Unwrap") /\ UNCHANGED fault
                \/ ans = "incorrect" /\ Return(FALSE) /\ UNCHANGED <<appId, fault>>
                \/ ans = "fail" /\ Return(FALSE) /\ fault' = TRUE /\ UNCHANGED appId
  /\ UNCHANGED <<envVars, fsVars, req, tok, pwdRead, gkResp, secret, calls, gkRejected, began>>

\* Secdis path: Get_Secdis and the application id; gatekeeper unless "!".
Secdis ==
  LET u == req.user  l == disk[u] IN
  /\ pc = "Secdis"
  /\ \/ ~GetSpblobData(l, ".secdis") /\ Return(FALSE) /\ UNCHANGED appId
     \/ /\ GetSpblobData(l, ".secdis")
        /\ appId' = AppId(tok, SecdisHash(SecdisData(u)))
        /\ Goto(IF req.cred = Default THEN "Unwrap" ELSE "Gatekeeper")
  /\ UNCHANGED <<envVars, fsVars, req, tok, pwdRead, gkResp, secret, calls, histVars>>

(***************************************************************************)
(* Gatekeeper verify of Personalize("user-gk-authentication", token)      *)
(* against the .pwd password handle.  The AIDL HAL's reply is read without *)
(* checking the binder status: after a transport failure the default       *)
(* response (statusCode 0 = STATUS_OK, zero auth token) is taken as OK.    *)
(* The HIDL callback's error and retry replies do not return: the call     *)
(* goes on to the keystore without an auth token.                          *)
(***************************************************************************)
(***************************************************************************)
(* Getting the gatekeeper: when the AIDL HAL is declared,                  *)
(* AServiceManager_waitForService blocks until it has registered; else    *)
(* the HIDL IGatekeeper::getService, which for a HAL in the manifest also *)
(* waits for its registration, and returns NULL at once for none.  The     *)
(* step can be taken only once the lookup has returned.  The variant       *)
(* calls waitForService without asking isDeclared first.                   *)
(***************************************************************************)
GkServiceReadyUndeclared == gkKind = "aidl" /\ gkUp
GkServiceReady == gkKind = "none" \/ gkUp

\* Decrypt_User's legacy path only asks for the HIDL gatekeeper.
HidlGkReady == gkKind # "hidl" \/ gkUp

GkAnswers(verified) ==
  IF verified THEN {"ok", "retry", "transport"} ELSE {"error", "retry", "transport"}

(***************************************************************************)
(* After the HAL has answered: an OK response carries an auth token that  *)
(* goes to the authorization service; the call then goes on to unwrap.     *)
(* The variant skips the response-code check and forwards any response.   *)
(***************************************************************************)
AfterGkResponseUnchecked(resp) == Goto("AddAuthToken")
AfterGkResponse(resp) == Goto(IF resp # None THEN "AddAuthToken" ELSE "Unwrap")

Gatekeeper ==
  LET u == req.user  l == disk[u]
      verified == /\ Personalize("user-gk-authentication", tok)
                        = Personalize("user-gk-authentication", TrueToken(u))
                  /\ pwdRead # "garbage"    \* the handle is the one enrolled
  IN
  /\ pc = "Gatekeeper" /\ GkServiceReady
  /\ \/ gkKind = "none" /\ Return(FALSE) /\ fault' = TRUE
        /\ UNCHANGED <<gkResp, gkRejected>>
     \/ gkKind # "none" /\ l.handleLen <= 0 /\ Return(FALSE)
        /\ UNCHANGED <<gkResp, fault, gkRejected>>
     \/ /\ gkKind = "aidl" /\ l.handleLen > 0
        /\ \E ans \in GkAnswers(verified) :
             \/ /\ ans \in {"ok", "transport"}
                /\ gkResp' = IF ans = "ok" THEN Token(u, TRUE) ELSE BogusToken
                /\ AfterGkResponse(gkResp')
                /\ fault' = (fault \/ ans = "transport") /\ UNCHANGED gkRejected
             \/ ans \in {"retry", "error"} /\ Return(FALSE) /\ gkResp' = None
                /\ fault' = (fault \/ ans = "retry") /\ gkRejected' = TRUE
     \/ /\ gkKind = "hidl" /\ l.handleLen > 0
        /\ \E ans \in GkAnswers(verified) :
             \/ ans = "transport" /\ Return(FALSE) /\ fault' = TRUE
                /\ UNCHANGED <<gkResp, gkRejected>>
             \/ /\ ans # "transport"
                /\ gkResp' = IF ans = "ok" THEN Token(u, TRUE) ELSE None
                /\ AfterGkResponse(gkResp')
                /\ fault' = (fault \/ ans = "retry") /\ gkRejected' = (ans # "ok")
  /\ UNCHANGED <<envVars, fsVars, req, tok, pwdRead, appId, secret, calls, began>>

(***************************************************************************)
(* addAuthToken: the authorization service is looked up and, when it is   *)
(* not there, the NULL result is logged and dereferenced.  The variant    *)
(* loses the token (the call is never made).                               *)
(***************************************************************************)
AddAuthTokenLost ==
  /\ pc = "AddAuthToken"
  /\ \/ ~ksUp /\ pc' = "Crashed" /\ result' = FALSE
     \/ ksUp /\ Goto("Unwrap")
  /\ UNCHANGED <<envVars, fsVars, req, dataVars, calls, histVars>>

AddAuthToken ==
  /\ pc = "AddAuthToken"
  /\ \/ ~ksUp /\ pc' = "Crashed" /\ result' = FALSE /\ UNCHANGED authTokens
     \/ ksUp /\ authTokens' = authTokens \cup {gkResp} /\ Goto("Unwrap")
  /\ UNCHANGED <<disk, gkKind, ksUp, gkUp, fsVars, req, dataVars, calls, histVars>>

(***************************************************************************)
(* unwrapSyntheticPasswordBlob: .spblob header checks; keystore2 looked up *)
(* with checkService (NULL when not yet registered, then dereferenced);   *)
(* getKeyEntry, createOperation (refused for an auth-bound key without a  *)
(* valid token of the user), finish; then the inner AES-GCM decrypt with  *)
(* the personalized application id, whose tag is never checked, and the   *)
(* FBE secret of the spblob's version.                                     *)
(***************************************************************************)
Unwrap ==
  LET u == req.user  l == disk[u]
      authorized == ~AuthBound(u) \/ Token(u, TRUE) \in authTokens
  IN
  /\ pc = "Unwrap"
  /\ \/ ~GetSpblobData(l, ".spblob") /\ Return(FALSE) /\ UNCHANGED <<secret, fault, began>>
     \/ /\ GetSpblobData(l, ".spblob")
        /\ \/ l.version \notin {1, 2, 3}
           \/ l.version \in {1, 2, 3} /\ l.spType # 0
           \/ l.version = 1 /\ l.spType = 0
        /\ Return(FALSE) /\ UNCHANGED <<secret, fault, began>>
     \/ /\ GetSpblobData(l, ".spblob") /\ l.version \in {2, 3} /\ l.spType = 0
        /\ \/ ~ksUp /\ pc' = "Crashed" /\ result' = FALSE
              /\ UNCHANGED <<secret, fault, began>>
           \/ ksUp /\ Return(FALSE) /\ fault' = TRUE    \* getKeyEntry fails
              /\ UNCHANGED <<secret, began>>
           \/ ksUp /\ ~authorized /\ Return(FALSE) /\ UNCHANGED <<secret, fault, began>>
           \/ ksUp /\ authorized /\ began' = TRUE
              /\ Return(FALSE) /\ fault' = TRUE /\ UNCHANGED secret   \* finish fails
           \/ /\ ksUp /\ authorized /\ began' = TRUE
              /\ secret' = FbeSecret(OpenIgnoringTag(AesKey(appId), Envelope(u)), l.version)
              /\ Goto("SynthCe") /\ UNCHANGED fault
  /\ UNCHANGED <<envVars, fsVars, req, tok, pwdRead, appId, gkResp, calls, gkRejected>>

\* Decrypt_CE_storage with the unwrapped secret, whose result is returned.
SynthCe ==
  LET u == req.user IN
  /\ pc = "SynthCe"
  /\ \E prepOk \in PrepOutcomes(u, secret) :
       DecryptCeStorage(u, secret, prepOk) /\ Return(CeResult(u, secret, prepOk))
  /\ UNCHANGED <<envVars, sqliteCopied, req, dataVars, calls, gkRejected, began>>

(***************************************************************************)
(* Decrypt_User's pre-synthetic-password path: HIDL gatekeeper verify of  *)
(* the raw credential against the legacy key file, whose verdict is never *)
(* looked at; then CE with HashPassword(credential).  After an error or a *)
(* retry reply, auth_token and auth_token_len are uninitialized and the   *)
(* hex dump of them may crash.                                             *)
(***************************************************************************)
LegacyGk ==
  LET u == req.user  c == req.cred IN
  /\ pc = "LegacyGk" /\ HidlGkReady
  /\ \/ gkKind # "hidl" /\ Return(FALSE) /\ fault' = TRUE
        /\ UNCHANGED <<ce, prepared, secret>>
     \/ /\ gkKind = "hidl"
        /\ \E ans \in GkAnswers(c = disk[u].lskf) :
             \/ ans = "transport" /\ Return(FALSE) /\ fault' = TRUE
                /\ UNCHANGED <<ce, prepared, secret>>
             \/ ans \in {"error", "retry"} /\ pc' = "Crashed" /\ result' = FALSE
                /\ UNCHANGED <<ce, prepared, secret, fault>>
             \/ /\ ans # "transport"
                /\ secret' = HashPassword(c)
                /\ \E prepOk \in PrepOutcomes(u, HashPassword(c)) :
                     /\ DecryptCeStorage(u, HashPassword(c), prepOk)
                     /\ Return(CeResult(u, HashPassword(c), prepOk))
  /\ UNCHANGED <<envVars, sqliteCopied, req, tok, pwdRead, appId, gkResp, calls, gkRejected, began>>

(***************************************************************************)
(* The environment: keystore2 registers some time after boot; an auth     *)
(* token stops authorizing once its validity period has passed.            *)
(***************************************************************************)
KeystoreStarts ==
  /\ ~ksUp /\ ksUp' = TRUE
  /\ UNCHANGED <<disk, gkKind, gkUp, authTokens, fsVars, pc, req, dataVars, result, calls, histVars>>

\* The device's gatekeeper HAL registers some time after boot, or never.
GatekeeperRegisters ==
  /\ gkKind # "none" /\ ~gkUp /\ gkUp' = TRUE
  /\ UNCHANGED <<disk, gkKind, ksUp, authTokens, fsVars, pc, req, dataVars, result, calls, histVars>>

TokenExpires(t) ==
  /\ t \in authTokens
  /\ authTokens' = authTokens \ {t}
  /\ fault' = (fault \/ pc \notin Idle)
  /\ UNCHANGED <<disk, gkKind, ksUp, gkUp, fsVars, pc, req, dataVars, result, calls, gkRejected, began>>

Init ==
  /\ disk \in [Users -> Layouts]
  /\ gkKind \in GkKinds
  /\ ksUp \in BOOLEAN
  /\ gkUp \in IF gkKind = "none" THEN {FALSE} ELSE BOOLEAN
  /\ authTokens = {}
  /\ ce = [u \in Users |-> "locked"]
  /\ prepared = [u \in Users |-> FALSE]
  /\ sqliteCopied = FALSE
  /\ pc = "Idle"
  /\ req = None
  /\ tok = None /\ pwdRead = None /\ appId = None /\ gkResp = None /\ secret = None
  /\ result = FALSE
  /\ calls = 0
  /\ fault = FALSE /\ gkRejected = FALSE /\ began = FALSE

Engine ==
  DefaultCe \/ SynthPass \/ Weaver \/ Secdis \/ Gatekeeper \/ AddAuthToken
    \/ Unwrap \/ SynthCe \/ LegacyGk

Next ==
  \/ \E u \in Users, c \in AllCreds : Call(u, c)
  \/ Engine
  \/ KeystoreStarts
  \/ GatekeeperRegisters
  \/ \E t \in authTokens : TokenExpires(t)

Spec == Init /\ [][Next]_vars

(***************************************************************************)
(* Decrypt_User runs on the caller's thread from start to return: a step  *)
(* of the call that can be taken is taken.  Nothing is assumed of the     *)
(* environment (keystore2 and the gatekeeper HAL may never register) or   *)
(* of the caller (who may stop calling).                                   *)
(***************************************************************************)
FairSpec == Spec /\ WF_vars(Engine)

(***************************************************************************)
(* Properties.                                                             *)
(***************************************************************************)
TypeOK ==
  /\ disk \in [Users -> Layouts]
  /\ gkKind \in GkKinds /\ ksUp \in BOOLEAN /\ gkUp \in BOOLEAN
  /\ authTokens \subseteq {Token(u, TRUE) : u \in Users} \cup {BogusToken}
  /\ ce \in [Users -> {"locked", "unlocked"}]
  /\ prepared \in [Users -> BOOLEAN]
  /\ sqliteCopied \in BOOLEAN
  /\ pc \in Idle \cup {"DefaultCe", "SynthPass", "Weaver", "Secdis", "Gatekeeper",
                       "AddAuthToken", "Unwrap", "SynthCe", "LegacyGk"}
  /\ req \in {None} \cup [user : Users, cred : AllCreds]
  /\ pwdRead \in {None, "intact", "garbage"}
  /\ result \in BOOLEAN
  /\ calls \in 0..MaxCalls
  /\ fault \in BOOLEAN /\ gkRejected \in BOOLEAN /\ began \in BOOLEAN

(***************************************************************************)
(* The unwrap round trip (spec section 8): Decrypt_User given a user's    *)
(* real credential, for an id it accepts (at most 9999), on files         *)
(* LockSettingsService wrote, returns true                                 *)
(* unless a service faulted on the way.  Whichever path the files select  *)
(* (weaver or secdis, AIDL or HIDL gatekeeper, spblob v2 or v3), no early *)
(* return for a missing blob, a wrong slot, a refused keystore operation  *)
(* or a secret fscrypt rejects may fire.  Users are taken to be all on    *)
(* synthetic passwords or all on legacy files, as Decrypt_User decides    *)
(* the path by user 0's spblob directory, and the device to have the      *)
(* gatekeeper HAL LockSettingsService enrolled the credential with.        *)
(***************************************************************************)
CorrectCredentialUnlocks ==
  LET u == req.user IN
  (/\ pc = "Idle" /\ calls > 0 /\ u <= 9999
   /\ req.cred = disk[u].lskf
   /\ WellFormed(disk[u]) /\ disk[u].spdir = disk[0].spdir
   /\ gkKind # "none" /\ ~fault)
  => result = TRUE

(***************************************************************************)
(* Spec section 8, scenarios 3 and 4: once gatekeeper has rejected the     *)
(* credential or asked to retry, the call begins no keystore operation.    *)
(***************************************************************************)
NoBeginAfterGatekeeperRejects == gkRejected => ~began

(***************************************************************************)
(* Every Decrypt_User call returns (true, false, or by a crash), provided *)
(* the device's gatekeeper HAL registers at some point: no step of the     *)
(* call waits for anything else, on any path, in any state of the files or *)
(* of keystore2.  It is about the blocking service lookups of the secdis  *)
(* and legacy gatekeeper paths.                                            *)
(***************************************************************************)
CallReturns ==
  (gkKind # "none" => <>gkUp) => ((pc \notin Idle) ~> (pc \in Idle))

(***************************************************************************)
(* Refinement: Decrypt_User implements UnlockAbstract.  A user's CE       *)
(* storage is opened only during a call that carries the user's real      *)
(* credential, even when the authorization service still holds an auth    *)
(* token from an earlier call, and a call returns true only with CE open   *)
(* and prepared.                                                           *)
(***************************************************************************)
Abs == INSTANCE UnlockAbstract WITH
         Creds <- AllCreds,
         lskf <- [u \in Users |-> disk[u].lskf],
         call <- IF pc \in Idle THEN None ELSE req,
         result <- result

AbsSpec == Abs!Spec
=============================================================================
