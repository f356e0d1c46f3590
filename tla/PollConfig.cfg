SPECIFICATION Spec
CONSTANTS
    d1 = d1
    d2 = d2
    t1 = t1
    t2 = t2
    Devices = {d1, d2}
    Tags = {t1, t2}
    DeviceOf <- MCDeviceOf
    Dialects <- MCDialects
    Buffer = 1
    MaxEdits = 3
    MaxRestarts = 1
    NoEntity = NoEntity
    NoWorker = NoWorker
CHECK_DEADLOCK FALSE
INVARIANTS
    DivergenceAnnounced
    WorkersCurrent
