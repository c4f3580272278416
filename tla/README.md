# TLA+ models of TWRP's vold decryption (`src/Decrypt.cpp`, `src/KeyStorage.h`)

This directory holds TLA+ models of the code that recovery uses to unlock
file-based-encrypted user storage. It also has the TLC configurations that
check them. Every definition is translated from the source. PROJECT.json
maps each definition to the lines it models, lists the runs, the mutants,
the findings and the hazards.

## The system

`src/Decrypt.cpp` unlocks one user's credential-encrypted (CE) storage
from a credential typed into the recovery UI. It involves these parts:

| part | code | state it touches |
|---|---|---|
| Decrypt_User dispatch | `Decrypt_User` 989-1078 | none: it chooses a path |
| spblob file readers | `Get_Spblob_Data`, `Get_Password_Data`, `Get_Password_Type`, `Is_Weaver`, `Get_Weaver_Data`, `Get_Secdis` | files under `/data/system_de/<u>/spblob/` and the legacy `gatekeeper.*.key` files (read only) |
| password token | `Get_Password_Token`, the default token 712-727 | none |
| weaver client | 729-781 | the weaver HAL's slots (remote) |
| gatekeeper client | 796-913 | the gatekeeper HAL (AIDL or HIDL), and keystore2's **auth token table** through `addAuthToken` |
| keystore2 unwrap | `unwrapSyntheticPasswordBlob` 487-633 | keystore2's registration, its auth tokens |
| CE storage unlock | `Decrypt_CE_storage` 669-683 | fscrypt's installed CE keys, the prepared user directories |
| legacy path | 1018-1077 | the gatekeeper HAL, fscrypt |
| copySqliteDb | 472-482 | keystore's database copy in /tmp |
| key policy lookup | `lookup_ref_key`, `lookup_ref_tar`, `Decrypt_DE` 110-241 | none: pure lookups |
| metadata encryption | `src/KeyStorage.h` 80-538 (MetadataCrypt.cpp) | dm-default-key devices, metadata keys, mounts |

### How the parts interact

`Decrypt_User(u, c)` first rejects `u > 9999`. It then asks
`Get_Password_Type` for the credential kind. With `c = "!"` (the default
password) it tries `Decrypt_CE_storage(u, "!")` and falls back to the
synthetic password. With a credential, it takes the synthetic-password
path when **user 0's** spblob directory exists, and the legacy path
otherwise.

The synthetic-password path runs these steps:

1. It derives a password token, either by scrypt or as "default-password".
2. It takes one of two branches:
   - on a weaver device, it asks weaver for the slot's payload;
   - otherwise, it hashes the `.secdis` file and, for a real credential, asks gatekeeper to verify. The auth token gatekeeper returns goes to keystore2's authorization service.
3. It asks keystore2 to decrypt the `.spblob` with the key `createOperation` opens. For a secdis user with a credential, that key is auth-bound: the open needs an auth token.
4. It decrypts the inner AES-GCM envelope with the personalized application id.
5. It derives the FBE secret and hands it to fscrypt.

Two pieces of state outlive a call, and they are what makes the calls
interact:

- the auth tokens held by keystore2;
- the CE keys installed in fscrypt.

Keystore2 itself starts some time after recovery does.

## Modules

| module | models | how |
|---|---|---|
| `SpblobFiles` | the spblob file readers, `Get_Password_Type`, `Get_Password_Token`'s failure cases | a user's files are a layout record (spdir, name prefix, suffixes present, .pwd fields and size, slot, spblob header, legacy file, real credential). Each reader is an operator over it. `WeaverBytes`/`ReadSlot` model the .weaver bytes and the code's pointer arithmetic. `PwdReads` gives the outcomes of `Get_Password_Data` on a .pwd shorter than its length fields say: garbage, a failed malloc, or a crash. `ScryptAccepts` gives the outcomes of the undefined shift `1 << scryptN`. |
| `SpCrypto` | PersonalizedHash, SP800 KDF, scrypt, AES-GCM, HashPassword | symbolic: every derivation is an injective tuple. `OpenIgnoringTag` returns the plaintext for the right key and a key-dependent garbage otherwise, because the code never checks the tag. These primitives live outside `src/` and are marked spec-modelled. |
| `Decrypt` | Decrypt_User, the synthetic-password path, the legacy path, the services | one process. A call is cut into steps at the RPCs: `Call`, `DefaultCe`, `SynthPass`, `Weaver`, `Secdis`, `Gatekeeper`, `AddAuthToken`, `Unwrap`, `SynthCe`, `LegacyGk`. The environment has its own actions: `KeystoreStarts`, `GatekeeperRegisters` and `TokenExpires`. `Gatekeeper` and `LegacyGk` can only be taken once the service lookup has returned (`GkServiceReady`, `HidlGkReady`). |
| `UnlockAbstract` | what Decrypt_User promises | a pending call may open the caller's CE storage only if its credential is right. It may prepare storage only once it is open, and it returns true only when storage is open and prepared. |
| `MCDecrypt` | TLC instance | users, credentials (model values), the layouts of each run |
| `PolicyLookup` | `lookup_ref_key`, `lookup_ref_tar`, `Decrypt_DE` | the key identifiers of the device (system DE key, each user's DE and CE keys) are fixed in Init, all distinct. `de_key_raw_ref`, `s_de_policies` and `s_ce_policies` start empty. `DecryptDE` loads the system DE key, and then user 0's DE policies, whose init may fail. `UnlockCe(u)` adds a user's CE policy. `Backup(ref)` stores `lookup_ref_key`'s type string, comparing against `de_key_raw_ref.c_str()` (`CStr`); `Restore` runs `lookup_ref_tar` on it. Backups and restores may come before, between or after the loads. Identifiers are byte sequences, type strings character sequences; `strncmp`, `std::to_string` and `std::stoi` are RECURSIVE operators. |
| `MCPolicyLookup` | TLC instance | the policy strings of TWRP's `fscrypt_policy.h` (outside this repository): "2DK", "2DE<id>", "2CE<id>" |
| `MetadataCrypt` | MetadataCrypt.cpp (the second half of `src/KeyStorage.h`, 80-538) | `fscrypt_mount_metadata_encrypted` is cut into steps at its helper calls: `MountStart`, `ReadKey` (default and zoned directory), `CreateCryptoBlkDev` (userdata and userdata_zoned), `EncryptStep`, `MountViaFsMgr`. The other operations are one action each: `DefaultkeyPrecreateDmDevice`, `DefaultkeySetupExtVolume`, `DestroyDsuMetadataKey`. The environment has `Reboot` and `UserWrites`. |
| `MetadataKeysAbstract` | what metadata encryption promises | no steps: a key is created only where none is stored, keystore is wiped only while `/data` is empty, a device carries its own directory's key, `/data` is put under a key only by formatting or by encrypting an unencrypted filesystem, and it mounts only through a device with its key. `MetadataCrypt` maps onto it through `AbsKeys` (`INSTANCE ... WITH`). |
| `MCMetadataCrypt` | TLC instance | nine device configurations, the boot states, device sizes of 21 and 35 sectors |

### State of `Decrypt` and the code it stands for

- `disk`: the files each user has, read only.
- `gkKind`: which gatekeeper HAL is present: `isDeclared` and `getService` in 800-811.
- `ksUp`: whether keystore2 has registered. `checkService` (551) returns NULL before that, and the code dereferences it.
- `gkUp`: whether the device's gatekeeper HAL has registered. `AServiceManager_waitForService` (804) and the HIDL `getService` (808, 1030) block until it has.
- `authTokens`: the authorization service's token table.
- `ce` and `prepared`: fscrypt.
- `sqliteCopied`: `copySqliteDb` ran.
- `pc`, `req`, `tok`, `appId`, `gkResp` and `secret`: the locals of the current call. `pwdRead` records whether the call's `Get_Password_Data` read the salt and handle that were written, or garbage from past the buffer. A garbage handle makes gatekeeper refuse the verify.
- `fault`, `gkRejected` and `began`: history flags for the properties. They record that a service faulted, that gatekeeper rejected, and that a keystore operation was begun.

A crash is the `pc = "Crashed"` state: a NULL dereference of the keystore2
or authorization binder, or the uninitialized hex dump of the legacy path.

### State of `MetadataCrypt` and the code it stands for

Persistent state, which survives `Reboot`:

- `conf`: the device's configuration, chosen in Init. It holds `ro.crypto.state`, the fstab entry (options version, metadata options, `checkpoint_blk`, whether a data_rec exists), `ro.crypto.set_dun`, wrapped-key support, `ro.gsid.image_running`, `ro.crypto.metadata_init_delete_all_keys.enabled`, whether a zoned device exists, and `ro.crypto.volume.metadata.encryption`.
- `keyDir`: the key stored in `<metadata_key_dir>[/default]/key` and `<metadata_key_dir>/zoned/key`, and whether its keystore wrapping key still exists.
- `fbeAlive`: whether keystore still holds the keys that wrap `/data`'s own FBE keys.
- `data`: the keys the userdata filesystem is under, and whether it holds user files.
- `dsu`: the DSU key directory and the key directories left in it.

Volatile state, which `Reboot` clears:

- `dm` and `dmTable`: device-mapper devices and their default-key tables (key and length).
- `fstabLoaded`: `fstab_default`.
- `mounted` and `propsSet`.
- the call's locals `pc`, `args`, `opts`, `key` and `nrSec`.

`inplaceSectors` records the size `encrypt_inplace` was given. Code outside
`src/` is modelled by its effect:

- `retrieveOrGenerateKey`: retrieve an existing key, or generate and store one when generation is allowed;
- `Keystore::deleteAllKeys`: every keystore key is gone;
- libdm's `CreateDevice`: it fails when the name exists. Like `WaitForDevice`, it can also activate the table and then time out waiting for the device node. That is the `"timeout"` outcome of `DmSetup`: the call returns false and leaves the device active until a reboot;
- `fs_mgr_do_mount`: it succeeds only on a filesystem the devices' keys read.

Each action models a whole step of the code, including its error returns:

- every `Free_Return(false, …)` is a `Return(FALSE)` disjunct;
- a failure the code cannot tell apart from another is a nondeterministic service answer: a weaver throttling reply, a getKeyEntry error, or a prepare failure.

## Runs

The Decrypt runs use `MCDecrypt` with `MaxCalls = 3`. `CHECK_DEADLOCK FALSE` is
used because the recovery UI stops calling; a crashed or exhausted state
has no successor. The PolicyLookup runs check deadlock: a backup is always
possible. The MetadataCrypt runs check deadlock too: a reboot is always possible.

| run | expect | checks | shows |
|---|---|---|---|
| roundtrip | pass | TypeOK, CorrectCredentialUnlocks, AbsSpec | users 0 and 10 with a credential, on weaver or secdis (spblob v2/v3) or legacy files, plus the refused id 10000, under both HALs, with keystore2 starting late and tokens expiring: the right credential unlocks, and no call opens another user's storage |
| paths | pass | AbsSpec, CallReturns | every path for one user (default, legacy password/pattern, corrupt headers, missing files, padded names, .pwd files cut inside the salt, the handle and handle_len, a scrypt shift count past 31, no gatekeeper; 40k states) is safe, and every call returns once the gatekeeper HAL has registered |
| padded_weaver | violation | CorrectCredentialUnlocks | `Is_Weaver` ignores `00<handle>.weaver` |
| default_pad | violation | CorrectCredentialUnlocks | the default token's last 16 bytes are uninitialized |
| hidl_reject | violation | NoBeginAfterGatekeeperRejects | a HIDL rejection does not stop the call |
| weaver_slot | violation | CorrectCredentialUnlocks | the slot is read at byte offset 4, little-endian |
| policy_roundtrip | pass | RestoreRoundTrip | user ids 0 and 1000, identifiers over bytes 1..3, backups before and after each key load (1.9M states, about a minute): every directory is restored with its own identifier |
| policy_nul_ref | violation | RestoreRoundTrip | identifiers with a zero byte after the first (`Ids <- MCIdsInnerZero`): after `Decrypt_DE`, user 0's DE identifier agrees with the system DE key up to a zero byte, so it is stored as "2DK" and restored with the system DE key |
| policy_long_uid | violation | RestoreRoundTrip | users 1234 and 12345: 12345's directory is restored with 1234's key |
| metadata_mount | pass | TypeOK, UserDataRecoverable, DeviceKeyIsStored, InplaceCoversDevice, KeysAbsSpec | three calls with any arguments and reboots between any two steps, on fresh and provisioned devices under nine configurations |
| metadata_mount_ignored | violation | MountResultMeansMounted | the call returns true although `mount_via_fs_mgr` failed |
| metadata_lost_wipe | violation | WipeOnlyWithoutUserFiles | `/data` holds files and `/metadata` has no key directory: a mount with `needs_encrypt` false calls `deleteAllKeys`, then fails |

### Properties

- **CorrectCredentialUnlocks** (spec §8 round trip): a finished call with the user's real credential returns true unless a service faulted. It is required for an id Decrypt_User accepts, on files LockSettingsService wrote, on a device with a gatekeeper HAL.
- **AbsSpec**: Decrypt refines UnlockAbstract. It holds even though a stale auth token from an earlier correct call lets keystore2 decrypt for a later wrong or default call. The symbolic envelope then yields garbage, which fscrypt rejects.
- **CallReturns** (liveness, under `FairSpec`): if the gatekeeper HAL registers at some point, every call returns, on every path and whatever keystore2 does. Only the two blocking service lookups make a call wait.
- **NoBeginAfterGatekeeperRejects** (spec §8 scenarios 3-4): no keystore operation is begun after a gatekeeper rejection.
- **RestoreRoundTrip**: a directory restored from the type string `lookup_ref_key` stored gets back exactly the identifier it was backed up with.
- **UserDataRecoverable**: while `/data` holds user files, the metadata keys they are under are stored and wrapped by a live keystore key, and their FBE keys' keystore keys exist. A reboot may fall between `deleteAllKeys` and the key's storage; the property still holds.
- **DeviceKeyIsStored**: `userdata` carries the default directory's key and `userdata_zoned` the zoned directory's, although both `read_key` calls fill the same buffer.
- **InplaceCoversDevice**: `encrypt_inplace` gets the userdata device's page-rounded size, never the zoned device's, which overwrote the same `nr_sec`.
- **KeysAbsSpec**: MetadataCrypt refines MetadataKeysAbstract. Each step of the mount, including a wipe folded into key generation and a reboot mid-call, is one abstract step or a stutter.
- **MountResultMeansMounted** (violated): the mount call returns true only with `/data` mounted.
- **WipeOnlyWithoutUserFiles** (violated): `deleteAllKeys` never runs while `/data` holds files.

### Bounds

- One user suffices for the path questions; two users plus a refused id for isolation.
- Three calls let a correct call leave a token that a second and third call reuse, which is the shortest stale-token scenario.
- `PadBytes = {0, 1}`: zero or non-zero stack.
- Truncated .pwd files: one cut in each region whose loss changes what the code does: the salt, the handle, and the handle_len field of a weaver user, who has no handle.
- `TailBytes = {0}`: the string buffer past the NUL is zero with libc++. The slot bug shows even so.
- PolicyLookup: identifiers of 2 or 3 bytes over 2 or 3 values, so distinct keys and a shared prefix up to a zero byte both occur. The pass run excludes the zero byte and five-digit ids, which the two violation runs cover. The nul_ref run excludes a leading zero byte, so that its trace is the shared prefix and not the unloaded `de_key_raw_ref`.
- MetadataCrypt: `MaxCalls = 3` lets a call fail half-way, the device reboot, and a retry succeed. `MaxKeys = 2` is the default and the zoned key; keys are only generated when missing, so the bound never blocks. 21 and 35 sectors are not multiples of 8, and they round to different sizes (16 and 32). One external volume label suffices: each label is independent.
- Every run ends within a minute.

### Fairness

`FairSpec` of `Decrypt` adds `WF_vars(Engine)`: Decrypt_User runs on the
caller's thread from its start to its return, so a step of the call that
can be taken is taken. Nothing is assumed of the environment. keystore2
and the gatekeeper HAL may never register, and the caller may stop
calling. `CallReturns` therefore asks that every call returns only in the
behaviours where the gatekeeper HAL registers at some point. Where it never
registers, the call waits in `waitForService` or `getService` for ever.
That is the code's design, not a divergence from the specification, which
says the engine has no timeouts of its own. The other runs use `Spec` and
check only safety.

## Findings

See `findings` in PROJECT.json. In short, the code diverges from the
specification in four places:

- padded weaver names;
- the uninitialized default token;
- the HIDL fall-through;
- the weaver slot offset.

The policy lookup has two bugs of its own: the `strncmp` on binary identifiers, and the four-digit user-id parse.

A third case of the `strncmp` is listed as a hazard without a run (`Decrypt.cpp:205`). Before `Decrypt_DE`, `de_key_raw_ref` is empty. An identifier beginning with a zero byte then matches it, and the directory is restored with zero bytes.

Metadata encryption has two:

- the ignored mount result;
- a `deleteAllKeys` in a call that cannot create the key, contrary to the factory-reset assumption of the comment at `KeyStorage.h:209`.

The inner AES-GCM tag is never verified (`Decrypt.cpp:612`). No run checks
this: AbsSpec shows that the resulting garbage never opens storage, since
fscrypt rejects it.

## Not modelled yet, and the plan

- **Byte-level contents:** keystore results shorter than 12 bytes. They are abstracted to the fields the code branches on. Reading past the .pwd buffer is modelled only by its outcomes: garbage, a failed malloc, or a crash. No byte values are modelled.
- **Weaver key size:** `GetKeySize` is called but its result is never compared with the 64-byte weaver key, although the specification requires the check. What a HAL with another key size receives depends on `Weaver1`, which is outside `src/`. It is listed as a hazard.
- **Policy lookup:**
  - The fscrypt initialisers that `Decrypt_DE` and the CE unlock call are outside `src/`. They are modelled by their effect on the three maps.
  - The model has one recovery session. Restoring an archive from another session, in which the keys were loaded differently, is listed as a hazard (`Decrypt.cpp:205`).
  - The type string is copied without its NUL (`Decrypt.cpp:181`). The model assumes that tar's buffer is zeroed.
  - The policy v1 build (`USE_FSCRYPT_POLICY_V1`) has the same structure as the v2 build that is modelled.
- **MetadataCrypt:**
  - `MkdirsSync` is taken to create only the parents of `<dir>/key`, as it must for `retrieveOrGenerateKey` to store a new key there. It lives outside `src/`.
  - `destroy_dsu_metadata_key`'s host-directory check (510-515) never fires: the DSU directory is never the host's in the configurations.
  - `destroy_dsu_metadata_key`'s loop and its partial failures are modelled, but no property is stated about them. That the directory goes only after its keys is the guard at 528 itself. The call's result is not recorded.
- **Not modelled at all:**
  - `getKeystoreBinder` and `getKeystoreBinderRetry`, which have no caller;
  - logging;
  - the header declarations.
