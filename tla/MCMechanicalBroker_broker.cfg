SPECIFICATION FairSpec
CONSTANTS
    r1 = r1
    r2 = r2
    Requests <- MCRequests
    Packet <- SamePacket
    Capacity = 1
    MaxQueue = 1
    TransientRetries = 1
    ProtocolRetries = 0
    Budget = 4
    Outcomes = {"timeout", "unavailable"}
    MaxStarts = 2
 
 
PROPERTY ResponseKept
 
