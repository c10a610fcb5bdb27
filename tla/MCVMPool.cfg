CONSTANTS
    NumVMs = 2
    Hosts <- MCHosts
    MaxSize = 1
    Users = {u1, u2}
    None = None
    Pool = Pool
    MaxFaults = 1
SPECIFICATION Spec
INVARIANTS TypeOK SlotsConserved  SocketIsOwn HandedOutOnce PoolWithinMax
 
CHECK_DEADLOCK FALSE
