------------------------- MODULE MetadataKeysAbstract -------------------------
(***************************************************************************)
(* What metadata encryption promises about /data, without the steps: a     *)
(* metadata key is created only where none is stored and never replaced;   *)
(* keystore's keys are wiped only while /data holds no user files; a       *)
(* userdata device, once set up, carries the key of its own directory      *)
(* until the device restarts; the filesystem is put under a device's key   *)
(* only by formatting it or by encrypting a not yet encrypted one; files   *)
(* are written only to a mounted /data, which mounts only through a device *)
(* with the key it is under.                                               *)
(***************************************************************************)
CONSTANTS KeyIds, None

KeyDirs == {"default", "zoned"}
Devices == {"userdata", "userdata_zoned"}
DirOfDevice(n) == IF n = "userdata" THEN "default" ELSE "zoned"

VARIABLES
  keys,      \* [KeyDirs -> KeyIds \cup {None}]: the stored metadata keys
  wrapped,   \* [KeyDirs -> BOOLEAN]: their keystore wrapping key exists
  fbe,       \* keystore holds the keys of /data's FBE keys
  dev,       \* [Devices -> KeyIds \cup {None}]: the key of each set-up device
  data,      \* [key, zkey, files]: the keys /data is under, and its files
  mounted

vars == <<keys, wrapped, fbe, dev, data, mounted>>

Used == {keys[d] : d \in KeyDirs} \cup {data.key, data.zkey}

\* A key is created where none is stored; keystore may have been wiped
\* just before, which only an empty /data allows.
NewKey(d) ==
  /\ keys[d] = None
  /\ \E k \in KeyIds \ Used : keys' = [keys EXCEPT ![d] = k]
  /\ \/ wrapped' = [wrapped EXCEPT ![d] = TRUE] /\ UNCHANGED fbe
     \/ ~data.files /\ wrapped' = [e \in KeyDirs |-> e = d] /\ fbe' = FALSE
  /\ UNCHANGED <<dev, data, mounted>>

\* keystore's keys are all deleted, which only an empty /data allows.
Wipe ==
  /\ ~data.files
  /\ wrapped' = [d \in KeyDirs |-> FALSE] /\ fbe' = FALSE
  /\ UNCHANGED <<keys, dev, data, mounted>>

SetUp(n) ==
  /\ dev[n] = None /\ keys[DirOfDevice(n)] # None
  /\ dev' = [dev EXCEPT ![n] = keys[DirOfDevice(n)]]
  /\ UNCHANGED <<keys, wrapped, fbe, data, mounted>>

Format ==
  /\ dev["userdata"] # None
  /\ \E z \in {data.zkey, dev["userdata_zoned"]} :
       data' = [key |-> dev["userdata"], zkey |-> z, files |-> FALSE]
  /\ UNCHANGED <<keys, wrapped, fbe, dev, mounted>>

EncryptInPlace ==
  /\ dev["userdata"] # None /\ data.key = None
  /\ data' = [data EXCEPT !.key = dev["userdata"]]
  /\ UNCHANGED <<keys, wrapped, fbe, dev, mounted>>

\* /data mounts only through a device whose key it is under.
Mount ==
  /\ ~mounted /\ dev["userdata"] # None /\ data.key = dev["userdata"]
  /\ mounted' = TRUE
  /\ UNCHANGED <<keys, wrapped, fbe, dev, data>>

Write ==
  /\ mounted /\ ~data.files
  /\ data' = [data EXCEPT !.files = TRUE] /\ fbe' = TRUE
  /\ UNCHANGED <<keys, wrapped, dev, mounted>>

Restart ==
  /\ dev' = [n \in Devices |-> None] /\ mounted' = FALSE
  /\ UNCHANGED <<keys, wrapped, fbe, data>>

Next ==
  \/ \E d \in KeyDirs : NewKey(d)
  \/ Wipe
  \/ \E n \in Devices : SetUp(n)
  \/ Format \/ EncryptInPlace \/ Mount \/ Write \/ Restart

Spec == [][Next]_vars
=============================================================================
