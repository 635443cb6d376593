SPECIFICATION FairSpec
CONSTANTS
    None = None
    Clients = {c1, c2}
    Askers = {c1}
    Devices = {d1, d2}
    MAX_GATT_CLIENT = 4
    MAX_BLE_SERCHED_DEV = 2
    MaxBegins = 2
    MaxReports = 3
    Faults = {"connect"}
    OtherUser = FALSE
INVARIANTS RegisteredFound ConnectTells ListedOnce
PROPERTIES CallsReturn
CHECK_DEADLOCK FALSE
