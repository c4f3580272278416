--------------------------- MODULE MCPolicyLookup ---------------------------
(***************************************************************************)
(* Model-checking instance of PolicyLookup.  The policy strings are the   *)
(* values of TWRP's fscrypt_policy.h for policy v2 builds: "2DK" for the   *)
(* system DE key, "2DE"/"2CE" followed by the user id for user keys.       *)
(***************************************************************************)
EXTENDS PolicyLookup

MCVersionTag     == <<"2">>
MCSystemDeKey    == <<"D", "K">>
MCUserDeKey      == <<"D">>
MCUserCeKey      == <<"C">>
MCSystemDePolicy == <<"2", "D", "K">>
MCUserDePolicy   == <<"2", "D", "E">>
MCUserCePolicy   == <<"2", "C", "E">>

\* The owner and a user whose id has four digits.
MCUsersRoundTrip == {0, 1000}
\* The owner alone.
MCUsersOwner == {0}
\* Two users whose ids agree in their first four digits.
MCUsersLong == {1234, 12345}
\* Identifier bytes without and with the zero byte.
MCBytesNonZero == {1, 2, 3}
MCBytesSmall   == {1, 2}
MCBytesZero    == {0, 1}
\* Identifiers that contain a zero byte but do not begin with one: strncmp
\* against an unloaded de_key_raw_ref (all NUL) then never matches, and only
\* a shared prefix up to a zero byte can.
MCIdsInnerZero == {id \in [1..IdLen -> MCBytesZero] : id[1] # 0}
=============================================================================
