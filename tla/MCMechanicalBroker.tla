---- MODULE MCMechanicalBroker ----
EXTENDS MechanicalBroker
CONSTANTS r1, r2
MCRequests == {r1, r2}
SamePacket == [r \in MCRequests |-> "p"]
====
