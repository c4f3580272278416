--------------------------- MODULE MetadataCrypt ---------------------------
(***************************************************************************)
(* Metadata encryption of /data (MetadataCrypt.cpp, kept in               *)
(* src/KeyStorage.h 80-538): fscrypt_mount_metadata_encrypted reads or     *)
(* generates the metadata key, sets up the dm-default-key device           *)
(* "userdata" (and "userdata_zoned"), formats or encrypts in place, and   *)
(* mounts; defaultkey_precreate_dm_device, defaultkey_setup_ext_volume and *)
(* destroy_dsu_metadata_key are the other operations.                     *)
(*                                                                         *)
(* Persistent state: the metadata key directories, keystore's wrapping     *)
(* keys, the contents of the userdata partition, the DSU key directory.   *)
(* Volatile state, lost by Reboot: device-mapper devices, the mount, the   *)
(* ro.crypto properties, the loaded fstab, the call in progress.  A call  *)
(* is cut into steps at the helper calls, so a reboot can fall between     *)
(* any two of them.  Keys are numbers; a device's table is its key and    *)
(* its length in sectors.                                                  *)
(***************************************************************************)
EXTENDS Integers, Sequences, FiniteSets

CONSTANTS
  Confs,          \* the device configurations: ro.crypto.* properties and the fstab entry
  StartStates,    \* the persistent states a boot may find: "fresh", "provisioned", "metadata_lost"
  FsTypes,        \* fs_type arguments
  ExtLabels,      \* labels of adoptable volumes
  VolumeKey,      \* the key a caller passes to defaultkey_setup_ext_volume
  MainSectors,    \* 512-byte sectors of the userdata block device
  ZonedSectors,   \* 512-byte sectors of the zoned block device
  MaxKeys,        \* bound: metadata keys generated in a behaviour
  MaxCalls,       \* bound: calls of fscrypt_mount_metadata_encrypted
  None

KeyDirs == {"default", "zoned"}      \* <metadata_key_dir>[/default] and <metadata_key_dir>/zoned
DsuFiles == {"key", "tmp"}
DmNames == {"userdata", "userdata_zoned"} \cup ExtLabels
KeyIds == 1..MaxKeys
NoKey == [key |-> None, wrapped |-> FALSE]
Garbled == 0     \* the "key" of a filesystem encrypted twice: no key reads it

VARIABLES
  conf,           \* the configuration of this device (never changes)
  keyDir,         \* [KeyDirs -> [key, wrapped]]: the stored key; wrapped = its keystore key exists
  nextKey,        \* keys generated so far
  fbeAlive,       \* keystore still holds the keys wrapping /data's own FBE keys
  data,           \* [key, zkey, files]: the keys the filesystem is under; user files present
  dsu,            \* [exists, files]: the DSU metadata_key_dir and the key dirs left in it
  dm,             \* [DmNames -> "INVALID" | "SUSPENDED" | "ACTIVE"]
  dmTable,        \* [DmNames -> [key, sectors] or None]: the loaded default-key table
  fstabLoaded,    \* fstab_default is non-empty
  mounted,        \* /data is mounted
  propsSet,       \* ro.crypto.fs_crypto_blkdev and ro.crypto.metadata.enabled are set
  pc,             \* the step of the call in progress, "Idle" between calls
  args,           \* [ne, sf, fs]: needs_encrypt, should_format, fs_type of the call
  opts,           \* the CryptoOptions of the call
  key,            \* the KeyBuffer of the call
  nrSec,          \* the nr_sec of the call
  inplaceSectors, \* the nr_sec encrypt_inplace was last given, or None
  result,         \* what the last call returned
  calls           \* calls made

persistent == <<conf, keyDir, nextKey, fbeAlive, data, dsu>>
volatile == <<dm, dmTable, fstabLoaded, mounted, propsSet>>
locals == <<pc, args, opts, key, nrSec, inplaceSectors, result, calls>>
vars == <<persistent, volatile, locals>>

(***************************************************************************)
(* The options of the fstab entry.  lookup_cipher: "" is the first         *)
(* supported type; parse_options: one or two ':'-separated parts, the      *)
(* second only "wrappedkey_v0".  A part list stands for the split string.  *)
(***************************************************************************)
LookupCipher(name) ==
  IF name = "" THEN "aes-256-xts"
  ELSE IF name \in {"aes-256-xts", "adiantum"} THEN name ELSE None

ParseOptions(parts) ==
  IF Len(parts) < 1 \/ Len(parts) > 2 \/ LookupCipher(parts[1]) = None
     \/ (Len(parts) = 2 /\ parts[2] # "wrappedkey_v0")
  THEN None
  ELSE [cipher |-> LookupCipher(parts[1]), legacy |-> FALSE, setDun |-> TRUE,
        wrapped |-> Len(parts) = 2]

(***************************************************************************)
(* The CryptoOptions of fscrypt_mount_metadata_encrypted, by the options   *)
(* format version ParseOptions left (0 when it failed early).              *)
(***************************************************************************)
MountOptions(c) ==
  CASE c.version = 1 ->
         IF c.metaOpts # <<"">> \/ (~c.setDun /\ c.checkpointBlk) THEN None
         ELSE [cipher |-> "aes-256-xts", legacy |-> TRUE, setDun |-> c.setDun,
               wrapped |-> c.wrappedSupported]
    [] c.version = 2 -> ParseOptions(c.metaOpts)
    [] OTHER -> None

\* *nr_sec &= ~7: whole 4096-byte pages.
RoundToPage(n) == n - (n % 8)

\* The key directory read_key is given for each step (393-396, 415).
DirOfDefault(step) == "default"
DirOf(step) == IF step = "ReadDefaultKey" THEN "default" ELSE "zoned"

(***************************************************************************)
(* The persistent state a boot finds.  "metadata_lost": /data holds files  *)
(* but /metadata has no key directory (wiped, or not mounted).            *)
(***************************************************************************)
Storage(s, z) ==
  LET keys == [d \in KeyDirs |-> IF d = "default" THEN [key |-> 1, wrapped |-> TRUE]
                                 ELSE IF z THEN [key |-> 2, wrapped |-> TRUE] ELSE NoKey]
      used == [key |-> 1, zkey |-> IF z THEN 2 ELSE None, files |-> TRUE]
  IN CASE s = "fresh" ->
            [keyDir |-> [d \in KeyDirs |-> NoKey], nextKey |-> 0,
             data |-> [key |-> None, zkey |-> None, files |-> FALSE]]
       [] s = "provisioned" ->
            [keyDir |-> keys, nextKey |-> IF z THEN 2 ELSE 1, data |-> used]
       [] s = "metadata_lost" ->
            [keyDir |-> [d \in KeyDirs |-> NoKey], nextKey |-> IF z THEN 2 ELSE 1, data |-> used]

Init ==
  /\ conf \in Confs
  /\ \E s \in StartStates :
       /\ keyDir = Storage(s, conf.zoned).keyDir
       /\ nextKey = Storage(s, conf.zoned).nextKey
       /\ data = Storage(s, conf.zoned).data
  /\ fbeAlive = TRUE
  /\ dsu \in {[exists |-> e, files |-> f] : e \in BOOLEAN, f \in SUBSET DsuFiles} \
             {[exists |-> FALSE, files |-> f] : f \in SUBSET DsuFiles \ {{}}}
  /\ dm = [n \in DmNames |-> "INVALID"]
  /\ dmTable = [n \in DmNames |-> None]
  /\ fstabLoaded = FALSE /\ mounted = FALSE /\ propsSet = FALSE
  /\ pc = "Idle" /\ args = None /\ opts = None /\ key = None /\ nrSec = 0
  /\ inplaceSectors = None /\ result = FALSE /\ calls = 0

Goto(p) == pc' = p /\ UNCHANGED result
Return(b) == pc' = "Idle" /\ result' = b

(***************************************************************************)
(* fscrypt_mount_metadata_encrypted up to read_key (333-397): the          *)
(* ro.crypto.state check, the fstab (the additional one when fstab_path is *)
(* given, else the default one unless already loaded), the data_rec and   *)
(* the options.  A failed ParseOptions is only logged: `conf.version` is   *)
(* the version it left.  needs_encrypt is asked (by init's encryptFstab)  *)
(* only for a filesystem not yet under a metadata key; recovery and        *)
(* mountFstab pass false.                                                  *)
(***************************************************************************)
MountStart(ne, sf, fs, extraFstab) ==
  /\ pc = "Idle" /\ calls < MaxCalls
  /\ ne => data.key = None
  /\ calls' = calls + 1
  /\ args' = [ne |-> ne, sf |-> sf, fs |-> fs]
  /\ \/ /\ conf.state \notin {"", "encrypted"}
        /\ Return(FALSE) /\ UNCHANGED <<fstabLoaded, opts>>
     \/ /\ conf.state \in {"", "encrypted"} /\ (extraFstab \/ ~fstabLoaded)
        /\ Return(FALSE) /\ UNCHANGED <<fstabLoaded, opts>>         \* the fstab read fails
     \/ /\ conf.state \in {"", "encrypted"}
        /\ fstabLoaded' = TRUE
        /\ \/ /\ (~conf.hasDataRec \/ MountOptions(conf) = None)
              /\ Return(FALSE) /\ UNCHANGED opts
           \/ /\ conf.hasDataRec /\ MountOptions(conf) # None
              /\ opts' = MountOptions(conf) /\ Goto("ReadDefaultKey")
  /\ UNCHANGED <<persistent, dm, dmTable, mounted, propsSet, key, nrSec, inplaceSectors>>

(***************************************************************************)
(* read_key(dir, gen, first_key) and retrieveOrGenerateKey: MkdirsSync     *)
(* creates the parents of <dir>/key; a missing <dir>/key on the first key  *)
(* of a non-DSU boot calls Keystore::deleteAllKeys when                    *)
(* ro.crypto.metadata_init_delete_all_keys.enabled, which removes every    *)
(* keystore key, the ones wrapping stored keys and /data's FBE keys       *)
(* included.  An existing key is retrieved (it fails if its keystore key   *)
(* is gone); a missing one is generated and stored when needs_encrypt.     *)
(***************************************************************************)
DeletesAllKeysUnchecked(d, first) == ~conf.inDsu /\ first /\ conf.deleteAll
DeletesAllKeys(d, first) == keyDir[d].key = None /\ ~conf.inDsu /\ first /\ conf.deleteAll
ReadKey(step, first, next) ==
  /\ pc = step
  /\ LET d    == DirOf(step)
         wipe == DeletesAllKeys(d, first)
         kd   == IF wipe THEN [e \in KeyDirs |-> [keyDir[e] EXCEPT !.wrapped = FALSE]]
                 ELSE keyDir
     IN \/ Return(FALSE) /\ UNCHANGED <<keyDir, fbeAlive, nextKey, key>>   \* MkdirsSync fails
        \/ /\ fbeAlive' = (fbeAlive /\ ~wipe)
           /\ \/ /\ kd[d].key # None /\ kd[d].wrapped
                 /\ key' = kd[d].key /\ keyDir' = kd /\ UNCHANGED nextKey /\ Goto(next)
              \/ /\ kd[d].key # None                          \* retrieveKey fails
                 /\ keyDir' = kd /\ UNCHANGED <<nextKey, key>> /\ Return(FALSE)
              \/ /\ kd[d].key = None /\ args.ne /\ nextKey < MaxKeys
                 /\ nextKey' = nextKey + 1 /\ key' = nextKey + 1
                 /\ keyDir' = [kd EXCEPT ![d] = [key |-> nextKey + 1, wrapped |-> TRUE]]
                 /\ Goto(next)
              \/ /\ kd[d].key = None                          \* neverGen, or generation fails
                 /\ keyDir' = kd /\ UNCHANGED <<nextKey, key>> /\ Return(FALSE)
  /\ UNCHANGED <<conf, data, dsu, volatile, args, opts, nrSec, inplaceSectors, calls>>

(***************************************************************************)
(* The device-mapper part of create_crypto_blk_dev: a pre-created          *)
(* (SUSPENDED) "userdata" gets LoadTableAndActivate and WaitForDevice,     *)
(* anything else CreateDevice, which fails when the name exists.           *)
(* `outcome` is "ok", "failed" (a failed get_number_of_sectors,            *)
(* exportWrappedStorageKey, StrToHex, load or create: nothing changed) or  *)
(* "timeout": the table is active but WaitForDevice, or CreateDevice's own *)
(* wait for the device node, ran out, and the result is false.             *)
(***************************************************************************)
DmOutcomes == {"ok", "failed", "timeout"}
DmSetup(name, k, sectors, outcome) ==
  LET activate == /\ dm' = [dm EXCEPT ![name] = "ACTIVE"]
                  /\ dmTable' = [dmTable EXCEPT ![name] = [key |-> k, sectors |-> sectors]]
  IN \/ outcome = "failed" /\ UNCHANGED <<dm, dmTable>>
     \/ /\ outcome # "failed"
        /\ \/ name = "userdata" /\ dm[name] = "SUSPENDED" /\ activate
           \/ ~(name = "userdata" /\ dm[name] = "SUSPENDED") /\ dm[name] = "INVALID" /\ activate

\* create_crypto_blk_dev (233-290) as a step of the mount.
CreateCryptoBlkDev(step, name, sectors, next) ==
  /\ pc = step
  /\ nrSec' = RoundToPage(sectors)
  /\ \E outcome \in DmOutcomes :
       /\ DmSetup(name, key, RoundToPage(sectors), outcome)
       /\ IF outcome = "ok" THEN Goto(next) ELSE Return(FALSE)
  /\ UNCHANGED <<persistent, fstabLoaded, mounted, propsSet, args, opts, key,
                 inplaceSectors, calls>>

(***************************************************************************)
(* needs_encrypt (429-457): format the new device with ext4 or f2fs (an    *)
(* f2fs format spans the zoned device too), or encrypt in place with the   *)
(* call's nr_sec, which a zoned device refuses.  A filesystem that was     *)
(* already under a key is unreadable after an in-place encryption.         *)
(***************************************************************************)
Formatted(fs) == [key |-> dmTable["userdata"].key, files |-> FALSE,
                  zkey |-> IF conf.zoned /\ fs = "f2fs" THEN dmTable["userdata_zoned"].key
                           ELSE data.zkey]
EncryptedInplace == [data EXCEPT !.key = IF data.key = None THEN dmTable["userdata"].key
                                         ELSE Garbled]
InplaceAllowedAlways == TRUE
InplaceAllowed == ~conf.zoned     \* encrypt_inplace cannot support zoned device
EncryptStep ==
  /\ pc = "Encrypt"
  /\ \/ ~args.ne /\ Goto("Mount") /\ UNCHANGED <<data, inplaceSectors>>
     \/ /\ args.ne /\ args.sf
        /\ \/ args.fs \notin {"ext4", "f2fs"} /\ Return(FALSE) /\ UNCHANGED data
           \/ args.fs \in {"ext4", "f2fs"} /\ Return(FALSE) /\ UNCHANGED data  \* Format fails
           \/ args.fs \in {"ext4", "f2fs"} /\ data' = Formatted(args.fs) /\ Goto("Mount")
        /\ UNCHANGED inplaceSectors
     \/ args.ne /\ ~args.sf /\ ~InplaceAllowed /\ Return(FALSE) /\ UNCHANGED <<data, inplaceSectors>>
     \/ /\ args.ne /\ ~args.sf /\ InplaceAllowed
        /\ inplaceSectors' = nrSec
        /\ \/ Return(FALSE) /\ UNCHANGED data                      \* encrypt_inplace fails
           \/ data' = EncryptedInplace /\ Goto("Mount")
  /\ UNCHANGED <<conf, keyDir, nextKey, fbeAlive, dsu, volatile, args, opts, key,
                 nrSec, calls>>

(***************************************************************************)
(* mount_via_fs_mgr, whose result is ignored (460), then the two ro.crypto *)
(* properties (read-only properties keep their first value) and true.      *)
(* fs_mgr_do_mount can only succeed on a filesystem the devices' keys       *)
(* decrypt; setexeccon or fsck may fail it anyway.                         *)
(***************************************************************************)
Readable ==
  /\ dmTable["userdata"] # None /\ data.key = dmTable["userdata"].key
  /\ conf.zoned => dmTable["userdata_zoned"] # None /\ data.zkey = dmTable["userdata_zoned"].key
MountViaFsMgr ==
  /\ pc = "Mount"
  /\ mounted' \in IF Readable THEN BOOLEAN ELSE {FALSE}
  /\ propsSet' = TRUE
  /\ Return(TRUE)
  /\ UNCHANGED <<persistent, dm, dmTable, fstabLoaded, args, opts, key, nrSec, inplaceSectors, calls>>

(***************************************************************************)
(* defaultkey_precreate_dm_device (165-175): a placeholder "userdata"      *)
(* unless the name exists; CreatePlaceholderDevice may fail.               *)
(***************************************************************************)
DefaultkeyPrecreateDmDeviceActive ==
  /\ pc = "Idle" /\ dm["userdata"] = "INVALID"
  /\ dm' \in {dm, [dm EXCEPT !["userdata"] = "ACTIVE"]}
  /\ UNCHANGED <<persistent, dmTable, fstabLoaded, mounted, propsSet, locals>>
DefaultkeyPrecreateDmDevice ==
  /\ pc = "Idle" /\ dm["userdata"] = "INVALID"
  /\ dm' \in {dm, [dm EXCEPT !["userdata"] = "SUSPENDED"]}
  /\ UNCHANGED <<persistent, dmTable, fstabLoaded, mounted, propsSet, locals>>

(***************************************************************************)
(* defaultkey_setup_ext_volume (470-490): the options of                   *)
(* ro.crypto.volume.metadata.encryption, then create_crypto_blk_dev for    *)
(* the volume's label with the caller's key.                               *)
(***************************************************************************)
DefaultkeySetupExtVolume(label) ==
  /\ pc = "Idle"
  /\ \/ ParseOptions(conf.volOpts) = None /\ UNCHANGED <<dm, dmTable>>
     \/ ParseOptions(conf.volOpts) # None /\ \E outcome \in DmOutcomes :
          DmSetup(label, VolumeKey, RoundToPage(MainSectors), outcome)
  /\ UNCHANGED <<persistent, fstabLoaded, mounted, propsSet, locals>>

(***************************************************************************)
(* destroy_dsu_metadata_key (492-535): nothing to do without the           *)
(* directory; otherwise the fstab is read (its failure returns before any  *)
(* change), destroyKey runs on each of /key and /tmp present (`done` are   *)
(* the ones it destroyed), and only if all succeeded is the directory      *)
(* deleted, which may fail too.  The DSU directory is never the host's    *)
(* metadata_key_dir in the configurations modelled, so 510-515 pass.      *)
(***************************************************************************)
DsuAllDestroyed(left) == left = {}     \* if (!ok) return false
DsuRemove(left, removed) ==
  dsu' = [exists |-> ~removed, files |-> IF removed THEN {} ELSE left]
DestroyDsuMetadataKey ==
  /\ pc = "Idle" /\ dsu.exists
  /\ fstabLoaded' = TRUE
  /\ \E done \in SUBSET dsu.files :
       LET left == dsu.files \ done
       IN \/ ~DsuAllDestroyed(left) /\ DsuRemove(left, FALSE)
          \/ DsuAllDestroyed(left) /\ \E removed \in BOOLEAN : DsuRemove(left, removed)
  /\ UNCHANGED <<conf, keyDir, nextKey, fbeAlive, data, dm, dmTable, mounted, propsSet, locals>>

(***************************************************************************)
(* The device restarts, possibly in the middle of a call: device-mapper    *)
(* devices, the mount, properties and fstab_default are gone.              *)
(***************************************************************************)
Reboot ==
  /\ dm' = [n \in DmNames |-> "INVALID"] /\ dmTable' = [n \in DmNames |-> None]
  /\ fstabLoaded' = FALSE /\ mounted' = FALSE /\ propsSet' = FALSE
  /\ pc' = "Idle" /\ result' = FALSE
  /\ UNCHANGED <<persistent, args, opts, key, nrSec, inplaceSectors, calls>>

\* The user stores files on the mounted /data.
UserWrites ==
  /\ mounted /\ ~data.files
  /\ data' = [data EXCEPT !.files = TRUE]
  /\ fbeAlive' = TRUE          \* the new files' FBE keys are new keystore keys
  /\ UNCHANGED <<conf, keyDir, nextKey, dsu, volatile, locals>>

Next ==
  \/ \E ne, sf \in BOOLEAN, fs \in FsTypes, extra \in BOOLEAN : MountStart(ne, sf, fs, extra)
  \/ ReadKey("ReadDefaultKey", TRUE, "CreateDefault")
  \/ CreateCryptoBlkDev("CreateDefault", "userdata", MainSectors,
                        IF conf.zoned THEN "ReadZonedKey" ELSE "Encrypt")
  \/ ReadKey("ReadZonedKey", FALSE, "CreateZoned")
  \/ CreateCryptoBlkDev("CreateZoned", "userdata_zoned", ZonedSectors, "Encrypt")
  \/ EncryptStep
  \/ MountViaFsMgr
  \/ DefaultkeyPrecreateDmDevice
  \/ \E l \in ExtLabels : DefaultkeySetupExtVolume(l)
  \/ DestroyDsuMetadataKey
  \/ Reboot
  \/ UserWrites

Spec == Init /\ [][Next]_vars

-----------------------------------------------------------------------------
Steps == {"Idle", "ReadDefaultKey", "CreateDefault", "ReadZonedKey", "CreateZoned",
          "Encrypt", "Mount"}

TypeOK ==
  /\ keyDir \in [KeyDirs -> [key : KeyIds \cup {None}, wrapped : BOOLEAN]]
  /\ nextKey \in 0..MaxKeys /\ fbeAlive \in BOOLEAN
  /\ data \in [key : KeyIds \cup {None, Garbled}, zkey : KeyIds \cup {None}, files : BOOLEAN]
  /\ dsu \in [exists : BOOLEAN, files : SUBSET DsuFiles]
  /\ dm \in [DmNames -> {"INVALID", "SUSPENDED", "ACTIVE"}]
  /\ dmTable \in [DmNames -> [key : KeyIds \cup {VolumeKey}, sectors : Nat] \cup {None}]
  /\ \A n \in DmNames : (dmTable[n] # None) = (dm[n] = "ACTIVE")
  /\ pc \in Steps /\ result \in BOOLEAN /\ calls \in 0..MaxCalls
  /\ inplaceSectors \in Nat \cup {None}

(***************************************************************************)
(* The files on /data stay readable: while /data holds user files, the    *)
(* metadata keys they are under are still stored in their directories and *)
(* still wrapped by a live keystore key, and keystore still holds the      *)
(* keys of their FBE keys.  It is about read_key's deleteAllKeys, the key  *)
(* generation, and reboots between the steps of a mount.                   *)
(***************************************************************************)
UserDataRecoverable ==
  data.files =>
    /\ fbeAlive
    /\ keyDir["default"] = [key |-> data.key, wrapped |-> TRUE]
    /\ conf.zoned => keyDir["zoned"] = [key |-> data.zkey, wrapped |-> TRUE]

(***************************************************************************)
(* Each userdata device is keyed with the key stored in its own directory: *)
(* "userdata" with <metadata_key_dir>[/default]'s, "userdata_zoned" with   *)
(* <metadata_key_dir>/zoned's, although both read_key calls write the same *)
(* `key` buffer.                                                           *)
(***************************************************************************)
DmDir(n) == IF n = "userdata" THEN "default" ELSE "zoned"
DeviceKeyIsStored ==
  \A n \in {"userdata", "userdata_zoned"} :
    dm[n] = "ACTIVE" => dmTable[n].key = keyDir[DmDir(n)].key

(***************************************************************************)
(* encrypt_inplace covers the userdata device exactly, in whole pages: it  *)
(* is never given the zoned device's size, which create_crypto_blk_dev     *)
(* writes into the same nr_sec (422).                                      *)
(***************************************************************************)
InplaceCoversDevice == inplaceSectors \in {None, RoundToPage(MainSectors)}

(***************************************************************************)
(* fscrypt_mount_metadata_encrypted returns true only with /data mounted.  *)
(***************************************************************************)
MountResultMeansMounted == result => mounted

(***************************************************************************)
(* read_key's deleteAllKeys, which the comment at 209 ties to a factory    *)
(* reset, never destroys the keystore keys of files /data still holds.     *)
(***************************************************************************)
WipeOnlyWithoutUserFiles == [][fbeAlive /\ ~fbeAlive' => ~data.files]_vars

(***************************************************************************)
(* Refinement: the steps of MetadataCrypt implement MetadataKeysAbstract.  *)
(* A device counts once it is active, with the key of its table; keys and  *)
(* their wrapping are the key directories'.  It is about every step and   *)
(* reboot together: no key is replaced, no wipe while files exist, no      *)
(* device re-keyed, /data re-keyed only by a format or a first encryption.*)
(***************************************************************************)
AbsKeys == INSTANCE MetadataKeysAbstract WITH
             keys <- [d \in KeyDirs |-> keyDir[d].key],
             wrapped <- [d \in KeyDirs |-> keyDir[d].wrapped],
             fbe <- fbeAlive,
             dev <- [n \in {"userdata", "userdata_zoned"} |->
                       IF dm[n] = "ACTIVE" THEN dmTable[n].key ELSE None],
             data <- data,
             mounted <- mounted
KeysAbsSpec == AbsKeys!Spec
=============================================================================
