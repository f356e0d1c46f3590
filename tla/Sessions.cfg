SPECIFICATION Spec
CONSTANTS
    ada = ada  bob = bob  s1 = s1  s2 = s2  None = None
    Users <- MCUsers
    Slots <- MCSlots
    Workloads <- MCWorkloads
    MaxStrikes = 1
    MaxRequests = 3
    MaxTokens = 4
    MaxAccounts = 2
    MaxFaults = 1
    MaxWindows = 1
SYMMETRY Symmetry
INVARIANTS
    OneHead
    RevocationHolds
    SignedOut
    AdminRemains
    AttemptsLimited
 
CHECK_DEADLOCK FALSE
