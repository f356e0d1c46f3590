SPECIFICATION Spec
CONSTANTS
    o1 = o1  d1 = d1  d2 = d2  t1 = t1  g1 = g1  f1 = f1  f2 = f2
    Objects = {o1}
    Devices = {d1, d2}
    Tags = {t1}
    Diagrams = {g1}
    Figures = {f1, f2}
    HomeOf <- MCHomeOf
    Initial <- MCInitial
    Types = {"modbus_tcp", "snmp_v2c"}
    Requests = {r1, r2}
    MaxRequests = 3
    FigureParamsDeletedAt = TRUE
    StatementsFail = TRUE
    None = None
INVARIANTS CascadeComplete ConfigFitsType AnnouncedWhenQuiet
PROPERTIES DeletedFrozen BulkReplaces
CONSTRAINT OneSide
SYMMETRY MCSymmetry
