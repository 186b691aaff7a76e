--------------------------- MODULE DeviceRecords ---------------------------
(* The OMEMO devices of one account or buddy as the database keeps them      *)
(* (OMEMODevice.m), and how a device list changes them.  A device that has   *)
(* no record has the level "none".                                           *)
Level == {"none", "tofu", "user", "untrusted", "new", "removed"}

Recorded(level) == {d \in DOMAIN level : level[d] # "none"}

\* The levels a key is encrypted for, as far as time is left out.
TrustedLevel == {"tofu", "user"}

\* Faulty: a device that is back is trusted as if it were the first.
StoreDevicesAfresh(level, list) ==
    [d \in DOMAIN level |->
        IF d \notin list THEN IF level[d] = "none" THEN "none" ELSE "removed"
        ELSE IF level[d] = "removed" THEN "tofu"
        ELSE IF level[d] = "none" THEN "new" ELSE level[d]]

\* Faulty: a device that the list lacks stays as it is.
StoreDevicesKept(level, list) ==
    LET known == Recorded(level) IN
    [d \in DOMAIN level |->
        IF list = {} THEN "none"
        ELSE IF d \in list \ known THEN IF known = {} THEN "tofu" ELSE "new"
        ELSE level[d]]

\* storeDevices: an empty list deletes every record.  Otherwise a device that
\* the list lacks is kept as removed, and a new one is trusted on first use
\* only if nothing was recorded before; a device that is back keeps its level.
StoreDevices(level, list) ==
    LET known == Recorded(level) IN
    [d \in DOMAIN level |->
        IF list = {} THEN "none"
        ELSE IF d \in known \ list THEN "removed"
        ELSE IF d \in list \ known THEN IF known = {} THEN "tofu" ELSE "new"
        ELSE level[d]]

\* Faulty: the key of a device without a record is not kept.
SaveIdentityOfKnown(level, d) == level

\* saveIdentity: libsignal hands over the identity key of a device, which gets
\* a record of its own if no list has named it yet.
SaveIdentity(level, d) ==
    IF level[d] # "none" THEN level
    ELSE [level EXCEPT ![d] = IF Recorded(level) = {} THEN "tofu" ELSE "new"]
=============================================================================
