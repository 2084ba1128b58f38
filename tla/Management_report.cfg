SPECIFICATION ManagementSpec
CONSTANTS
    b1 = b1
    e1 = e1
    d1 = d1
    Brokers = {b1}
    EnqWorkers = {e1}
    DeqWorkers = {d1}
    Slots <- WorkerFirst
    Msgs = {m1}
    Width = 3
    MaxReports = 2
    Flags = {"compact", "smart_async"}
INVARIANTS TypeOK CountersAgree NoMissedChange TimesCounted PropertiesReported
CHECK_DEADLOCK FALSE
