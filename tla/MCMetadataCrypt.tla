-------------------------- MODULE MCMetadataCrypt --------------------------
(***************************************************************************)
(* Instances of MetadataCrypt for TLC: device configurations, the          *)
(* persistent states a boot starts from, and the sizes of the block        *)
(* devices (not multiples of 8 sectors, so the rounding matters).          *)
(***************************************************************************)
EXTENDS MetadataCrypt

CONSTANTS vk

\* A device with fstab options v2 and the default cipher, not zoned.
BaseConf ==
  [state |-> "", version |-> 2, metaOpts |-> <<"">>, setDun |-> TRUE,
   checkpointBlk |-> FALSE, wrappedSupported |-> FALSE, hasDataRec |-> TRUE,
   inDsu |-> FALSE, deleteAll |-> TRUE, zoned |-> FALSE, volOpts |-> <<"adiantum">>]

\* Configurations under which a mount can succeed.
MCGoodConfs ==
  { BaseConf,
    [BaseConf EXCEPT !.state = "encrypted", !.metaOpts = <<"aes-256-xts", "wrappedkey_v0">>,
                     !.zoned = TRUE],
    [BaseConf EXCEPT !.version = 1, !.checkpointBlk = TRUE, !.wrappedSupported = TRUE,
                     !.inDsu = TRUE, !.volOpts = <<"aes-256-xts", "bogus">>] }

\* Configurations every mount rejects before read_key.
MCBadConfs ==
  { [BaseConf EXCEPT !.state = "unencrypted"],
    [BaseConf EXCEPT !.version = 0],
    [BaseConf EXCEPT !.version = 1, !.metaOpts = <<"adiantum">>],
    [BaseConf EXCEPT !.version = 1, !.setDun = FALSE, !.checkpointBlk = TRUE],
    [BaseConf EXCEPT !.metaOpts = <<"aes-256-xts", "wrappedkey_v1">>],
    [BaseConf EXCEPT !.hasDataRec = FALSE] }

MCConfs == MCGoodConfs \cup MCBadConfs
MCConfsBase == {BaseConf}
MCStarts == {"fresh", "provisioned"}
MCStartsLost == {"metadata_lost"}
MCFsTypes == {"ext4", "f2fs", "vfat"}
MCLabels == {"vol1"}
=============================================================================
