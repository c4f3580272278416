---------------------------- MODULE PolicyLookup ----------------------------
(***************************************************************************)
(* lookup_ref_key and lookup_ref_tar of src/Decrypt.cpp: the two halves   *)
(* of the translation TWRP's tar uses to back up a directory's fscrypt    *)
(* policy as a short type string ("<version><kind><user id>") and to turn *)
(* the string back into a key identifier on restore.                      *)
(*                                                                         *)
(* The identifiers of the device's keys (the system DE key and each       *)
(* user's DE and CE keys) are chosen in Init.  The maps the lookups read   *)
(* are filled as recovery loads the keys: Decrypt_DE sets de_key_raw_ref  *)
(* and, through fscrypt_init_user0, every user's DE policy; a successful  *)
(* Decrypt_User adds the user's CE policy.  Backup runs lookup_ref_key on *)
(* the identifier of one directory and stores the string; Restore runs    *)
(* lookup_ref_tar on the stored string.  Identifiers *)
(* are byte sequences; policy type strings are character sequences,      *)
(* because both lookups are about how those are compared and parsed.      *)
(***************************************************************************)
EXTENDS Integers, Sequences, FiniteSets, TLC

CONSTANTS
  Users,           \* user ids with fscrypt policies
  Bytes,           \* the byte values identifiers are drawn from
  IdLen,           \* FSCRYPT_KEY_IDENTIFIER_SIZE, scaled down
  VersionTag,      \* FSCRYPT_V2, a one-character sequence
  SystemDeKey,     \* SYSTEM_DE_KEY, two characters
  UserDeKey,       \* USER_DE_KEY, one character
  UserCeKey,       \* USER_CE_KEY, one character
  SystemDePolicy,  \* SYSTEM_DE_FSCRYPT_POLICY
  UserDePolicy,    \* USER_DE_FSCRYPT_POLICY (the user id is appended)
  UserCePolicy,    \* USER_CE_FSCRYPT_POLICY (the user id is appended)
  None

ASSUME Users \subseteq Nat /\ IdLen \in Nat \ {0}

Ids == [1..IdLen -> Bytes]

VARIABLES
  sysKey,       \* the identifier of the system DE key
  deKeys,       \* [Users -> Ids]: the identifiers of the users' DE keys
  ceKeys,       \* [Users -> Ids]: the identifiers of the users' CE keys
  deKeyRef,     \* de_key_raw_ref: the system DE key's identifier, <<>> until loaded
  dePolicies,   \* s_de_policies: user -> DE key identifier, for the loaded users
  cePolicies,   \* s_ce_policies: user -> CE key identifier, for the unlocked users
  backedUp,     \* [ref, type] of the directory last backed up, or None
  restored      \* what lookup_ref_tar gave for it: {} (failure) or {ref}; None before

deviceVars == <<sysKey, deKeys, ceKeys>>
vars == <<deviceVars, deKeyRef, dePolicies, cePolicies, backedUp, restored>>

(***************************************************************************)
(* std::strncmp(a, b, n) = 0 on byte arrays: equal up to n bytes or up to  *)
(* a zero byte both share.                                                 *)
(***************************************************************************)
RECURSIVE StrncmpEq(_, _, _)
StrncmpEq(a, b, n) ==
  n = 0 \/ (Head(a) = Head(b) /\ (Head(a) = 0 \/ StrncmpEq(Tail(a), Tail(b), n - 1)))

\* std::to_string and std::stoi on user ids, over the characters "0".."9".
DigitChars == <<"0", "1", "2", "3", "4", "5", "6", "7", "8", "9">>
IsDigit(ch) == \E d \in 0..9 : DigitChars[d + 1] = ch
DigitValue(ch) == CHOOSE d \in 0..9 : DigitChars[d + 1] = ch

RECURSIVE ToDecimal(_)
ToDecimal(n) ==
  IF n < 10 THEN <<DigitChars[n + 1]>>
  ELSE ToDecimal(n \div 10) \o <<DigitChars[(n % 10) + 1]>>

\* std::stoi: the value of the leading digits (a string without one throws).
RECURSIVE LeadingValue(_, _)
LeadingValue(s, acc) ==
  IF s = <<>> \/ ~IsDigit(Head(s)) THEN acc
  ELSE LeadingValue(Tail(s), 10 * acc + DigitValue(Head(s)))
Stoi(s) == LeadingValue(s, 0)

\* std::string::substr(pos, len), with 0-based pos.
Substr(s, pos, len) ==
  IF pos >= Len(s) THEN <<>> ELSE SubSeq(s, pos + 1, IF pos + len < Len(s) THEN pos + len ELSE Len(s))

(***************************************************************************)
(* lookup_ref_key_internal: the first user, in std::map order, whose key   *)
(* identifier has the same hex form as `ref`.                              *)
(***************************************************************************)
LookupRefKeyInternal(map, ref) ==
  LET hits == {u \in DOMAIN map : map[u] = ref}
  IN  IF hits = {} THEN None ELSE CHOOSE u \in hits : \A v \in hits : u <= v

(***************************************************************************)
(* lookup_ref_key: the system DE key is recognised with strncmp against   *)
(* de_key_raw_ref.c_str(), whose bytes end in a NUL (all of it when the    *)
(* key is not loaded), then the DE and the CE maps are searched; None when *)
(* the identifier is unknown.                                              *)
(***************************************************************************)
CStr(s) == s \o [i \in 1..IdLen |-> 0]
LookupRefKey(ref) ==
  LET de == LookupRefKeyInternal(dePolicies, ref)
      ce == LookupRefKeyInternal(cePolicies, ref)
  IN  IF StrncmpEq(ref, CStr(deKeyRef), IdLen) THEN SystemDePolicy
      ELSE IF de # None THEN UserDePolicy \o ToDecimal(de)
      ELSE IF ce # None THEN UserCePolicy \o ToDecimal(ce)
      ELSE None

\* lookup_key_ref (fscrypt, outside src/): the identifier of user u's key.
LookupKeyRef(map, u) == IF u \in DOMAIN map THEN {map[u]} ELSE {}

(***************************************************************************)
(* lookup_ref_tar: the version character, then "DK" for the system DE key, *)
(* else the kind character and the user id parsed from the 4 characters    *)
(* at offset 3.                                                            *)
(***************************************************************************)
UserIdOfShort(type) == Stoi(Substr(type, 3, 3))   \* variant: a 3-character field
UserIdOf(type) == Stoi(Substr(type, 3, 4))
LookupRefTar(type) ==
  CASE Substr(type, 0, 1) # VersionTag  -> {}
    [] Substr(type, 1, 2) = SystemDeKey -> {deKeyRef}
    [] Substr(type, 1, 1) = UserDeKey   -> LookupKeyRef(dePolicies, UserIdOf(type))
    [] Substr(type, 1, 1) = UserCeKey   -> LookupKeyRef(cePolicies, UserIdOf(type))
    [] OTHER                            -> {}

(***************************************************************************)
(* fscrypt's key identifiers are hashes of distinct keys: all distinct.    *)
(* Recovery starts with no key loaded.                                     *)
(***************************************************************************)
NoPolicies == [u \in {} |-> <<>>]
Init ==
  /\ sysKey \in Ids
  /\ deKeys \in [Users -> Ids]
  /\ ceKeys \in [Users -> Ids]
  /\ Cardinality({sysKey} \cup {deKeys[u] : u \in Users}
                   \cup {ceKeys[u] : u \in Users}) = 1 + 2 * Cardinality(Users)
  /\ deKeyRef = <<>> /\ dePolicies = NoPolicies /\ cePolicies = NoPolicies
  /\ backedUp = None
  /\ restored = None

(***************************************************************************)
(* Decrypt_DE: fscrypt_initialize_systemwide_keys sets de_key_raw_ref,     *)
(* then fscrypt_init_user0 loads every user's DE policy; either may fail, *)
(* and a failure of the first changes nothing.  It is called until the DE *)
(* policies are loaded.                                                    *)
(***************************************************************************)
DecryptDE ==
  /\ dePolicies = NoPolicies
  /\ deKeyRef' = sysKey
  /\ dePolicies' \in {NoPolicies, deKeys}        \* fscrypt_init_user0 fails or succeeds
  /\ UNCHANGED <<deviceVars, cePolicies, backedUp, restored>>

\* Decrypt_User unlocks u's CE storage: fscrypt adds u's CE policy.
UnlockCe(u) ==
  /\ u \notin DOMAIN cePolicies
  /\ cePolicies' = (u :> ceKeys[u]) @@ cePolicies
  /\ UNCHANGED <<deviceVars, deKeyRef, dePolicies, backedUp, restored>>

\* tar reads a directory's policy and stores lookup_ref_key's string.
Backup(ref) ==
  /\ backedUp' = [ref |-> ref, type |-> LookupRefKey(ref)]
  /\ restored' = None
  /\ UNCHANGED <<deviceVars, deKeyRef, dePolicies, cePolicies>>

\* tar restores the directory: lookup_ref_tar on the stored string.
Restore ==
  /\ backedUp # None /\ backedUp.type # None /\ restored = None
  /\ restored' = LookupRefTar(backedUp.type)
  /\ UNCHANGED <<deviceVars, deKeyRef, dePolicies, cePolicies, backedUp>>

\* Directories carry the identifier of one of the device's keys.
DeviceRefs == {sysKey} \cup {deKeys[u] : u \in Users} \cup {ceKeys[u] : u \in Users}

Next ==
  \/ DecryptDE
  \/ \E u \in Users : UnlockCe(u)
  \/ \E ref \in DeviceRefs : Backup(ref)
  \/ Restore

Spec == Init /\ [][Next]_vars

(***************************************************************************)
(* Backup and restore round trip: a directory restored from the type      *)
(* string lookup_ref_key stored gets back exactly the key identifier it   *)
(* was backed up with (lookup_ref_tar neither fails nor names another     *)
(* key).  It is about the strncmp of the system DE check and the fixed-   *)
(* width parse of the user id.                                             *)
(***************************************************************************)
RestoreRoundTrip == restored # None => restored = {backedUp.ref}
=============================================================================
