---------------------------- MODULE SpblobFiles ----------------------------
(***************************************************************************)
(* The on-disk artifacts Decrypt.cpp reads for one user, and the readers   *)
(* that interpret them: Get_Spblob_Data's name resolution, Is_Weaver,      *)
(* Get_Weaver_Data's slot decoding, Get_Password_Data and                  *)
(* Get_Password_Type.                                                      *)
(*                                                                         *)
(* A user's layout is a record:                                            *)
(*   spdir     /data/system_de/<u>/spblob/ exists                          *)
(*   prefix    "" , "0" or "00": the name every <handle><suffix> file of   *)
(*             the user is stored under, relative to KeystoreInfo's handle *)
(*   files     the suffixes present: ".pwd" ".spblob" ".weaver" ".secdis"  *)
(*   pwdType, saltLen, scryptN, handleLen   fields of the .pwd file        *)
(*   pwdLen    the size of the .pwd file in bytes                          *)
(*   slot      the weaver slot LockSettingsService wrote to .weaver        *)
(*   version, spType   the first two bytes of .spblob                      *)
(*   legacy    "password.key", "pattern.key" or "none": the pre-SP files   *)
(*   lskf      the user's real credential, or Default when there is none   *)
(***************************************************************************)
EXTENDS Integers, FiniteSets

\* Decrypt_User's sentinel credential for "the default password".
Default == "!"


\* Whether the file <prefix><handle><sfx> exists.
Stored(l, p, sfx) == sfx \in l.files /\ l.prefix = p

(***************************************************************************)
(* Get_Spblob_Data: if <handle><sfx> exists it is the only candidate;      *)
(* otherwise 0<handle><sfx> and then 00<handle><sfx> are tried.            *)
(***************************************************************************)
GetSpblobData(l, sfx) ==
  IF Stored(l, "", sfx) THEN TRUE
  ELSE \E p \in {"0", "00"} : Stored(l, p, sfx)

\* Is_Weaver: stat() of <handle>.weaver, without the zero-padded variants.
IsWeaver(l) == Stored(l, "", ".weaver")

\* Get_Weaver_Data reads <handle>.weaver, again without the padded variants.
GetWeaverData(l) == Stored(l, "", ".weaver")

(***************************************************************************)
(* The .weaver file as LockSettingsService writes it (a version byte, then *)
(* the slot as a big-endian 32-bit int), followed by the NUL std::string   *)
(* keeps after its data and by the two bytes `tail` that lie past it.      *)
(***************************************************************************)
WeaverVersion == 1
WeaverBytes(l, tail) ==
  <<WeaverVersion,
    (l.slot \div 16777216) % 256, (l.slot \div 65536) % 256,
    (l.slot \div 256) % 256, l.slot % 256,
    0, tail[1], tail[2]>>

(***************************************************************************)
(* Get_Weaver_Data: adding sizeof(unsigned char) to a const int pointer   *)
(* advances it one int, so the slot is the little-endian int at bytes 4..7 *)
(***************************************************************************)
ReadSlot(l, tail) ==
  LET b == WeaverBytes(l, tail)
  IN  b[5] + 256 * b[6] + 65536 * b[7] + 16777216 * b[8]

(***************************************************************************)
(* Get_Password_Data: the .pwd file is found, and a zero salt_len is an    *)
(* error (a zero handle_len is not: weaver users have none).              *)
(***************************************************************************)
GetPasswordData(l) == GetSpblobData(l, ".pwd") /\ l.saltLen # 0

(***************************************************************************)
(* The .pwd file as LockSettingsService writes it: password_type (4 bytes),*)
(* scryptN, R, P (1 each), salt_len (4), the salt, handle_len (4), the     *)
(* handle.  Get_Password_Data reads each field at that offset and never    *)
(* compares salt_len or handle_len with the size of the string it read.    *)
(***************************************************************************)
PwdBytes(l) == 15 + l.saltLen + l.handleLen
SaltInFile(l) == 11 + l.saltLen <= l.pwdLen
HandleLenInFile(l) == 15 + l.saltLen <= l.pwdLen

(***************************************************************************)
(* What one Get_Password_Data call makes of a .pwd file shorter than its   *)
(* fields.  Reading past the heap buffer is undefined: the build returns   *)
(* whatever follows it ("garbage": the salt, when the file ends inside it, *)
(* and the handle are not the ones written) or faults ("crash").  A        *)
(* handle_len read from past the end may make malloc fail ("fails").       *)
(***************************************************************************)
PwdReads(l) ==
  IF ~GetPasswordData(l) \/ PwdBytes(l) <= l.pwdLen THEN {"intact"}
  ELSE {"garbage", "crash"} \cup (IF HandleLenInFile(l) THEN {} ELSE {"fails"})

(***************************************************************************)
(* Whether crypto_scrypt accepts N = 1 << scryptN: it fails with EINVAL    *)
(* unless N is a power of two greater than one.  A shift by 32 or more is  *)
(* undefined in C.  The build either shifts by scryptN mod 32 (the AArch64 *)
(* instruction, and Java's shift in LockSettingsService) or yields a value *)
(* scrypt rejects.  TRUE means the N LockSettingsService used.             *)
(***************************************************************************)
ScryptAccepts(l) ==
  IF l.scryptN < 32 THEN {l.scryptN # 0} ELSE {FALSE, l.scryptN % 32 # 0}

\* Get_Password_Type's mapping of the .pwd password_type to TWRP's codes.
PasswordTypeCode(t) ==
  CASE t = 2 -> 1     \* password or PIN (Android < 11)
    [] t = 4 -> 1     \* password
    [] t = 1 -> 2     \* pattern
    [] t = 3 -> 3     \* PIN
    [] OTHER -> 0     \* try the default password

(***************************************************************************)
(* Get_Password_Type: the code and the legacy key file name it leaves in   *)
(* `filename` ("" when the spblob directory exists or nothing is found),  *)
(* for the outcome rd of its Get_Password_Data call.                       *)
(***************************************************************************)
GetPasswordType(l, rd) ==
  IF l.spdir
  THEN [type |-> IF GetPasswordData(l) /\ rd # "fails"
                 THEN PasswordTypeCode(l.pwdType) ELSE 0,
        file |-> ""]
  ELSE CASE l.legacy = "password.key" -> [type |-> 1, file |-> "password.key"]
         [] l.legacy = "pattern.key"  -> [type |-> 2, file |-> "pattern.key"]
         [] OTHER                     -> [type |-> 0, file |-> ""]

(***************************************************************************)
(* A layout LockSettingsService can leave behind: the artifacts the        *)
(* credential kind needs, all under one name, with valid headers.          *)
(***************************************************************************)
WellFormed(l) ==
  IF l.spdir
  THEN /\ ".spblob" \in l.files
       /\ l.lskf # Default => ".pwd" \in l.files
       /\ Cardinality(l.files \cap {".weaver", ".secdis"}) = 1
       /\ l.version \in {2, 3} /\ l.spType = 0
       /\ l.saltLen > 0 /\ l.scryptN \in 1..31 /\ l.pwdLen = PwdBytes(l)
       /\ (l.lskf # Default) = (PasswordTypeCode(l.pwdType) # 0)
       /\ (".secdis" \in l.files /\ l.lskf # Default) => l.handleLen > 0
  ELSE (l.legacy # "none") = (l.lskf # Default)

\* The layout of a synthetic-password user as Android writes it.
SynthLayout(lskf, weaver, prefix, slot, version) ==
  [spdir |-> TRUE, prefix |-> prefix,
   files |-> {".pwd", ".spblob"} \cup (IF weaver THEN {".weaver"} ELSE {".secdis"}),
   pwdType |-> IF lskf = Default THEN -1 ELSE 3,
   saltLen |-> 16, scryptN |-> 11,
   handleLen |-> IF weaver \/ lskf = Default THEN 0 ELSE 58,
   pwdLen |-> 31 + (IF weaver \/ lskf = Default THEN 0 ELSE 58),
   slot |-> slot, version |-> version, spType |-> 0,
   legacy |-> "none", lskf |-> lskf]

\* The layout of a user whose credential predates synthetic passwords.
LegacyLayout(lskf, file) ==
  [spdir |-> FALSE, prefix |-> "", files |-> {},
   pwdType |-> 0, saltLen |-> 0, scryptN |-> 0, handleLen |-> 0, pwdLen |-> 0,
   slot |-> 0, version |-> 0, spType |-> 0,
   legacy |-> file, lskf |-> lskf]
=============================================================================
