SPECIFICATION LiveSpec
CONSTANTS
    phone = phone  laptop = laptop  None = None
    Device = {phone, laptop}
    Mine = phone
    MaxEvents = 2
INVARIANTS TypeOK OffListComesBack BehindCatchesUp DistrustKept OffListUntrusted
PROPERTIES AllListed ListFollowed
CHECK_DEADLOCK FALSE
