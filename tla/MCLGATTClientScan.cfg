SPECIFICATION Spec
CONSTANTS
    None = None
    Clients = {c1}
    Askers = {c1}
    Devices = {d1, d2}
    MAX_GATT_CLIENT = 2
    MAX_BLE_SERCHED_DEV = 1
    MaxBegins = 1
    MaxReports = 2
    Faults = {}
    OtherUser = FALSE
INVARIANT ScanCounts
CHECK_DEADLOCK FALSE
