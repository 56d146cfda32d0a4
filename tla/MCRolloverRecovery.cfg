SPECIFICATION RecoverySpec
CONSTANTS
    z1 = z1
    z2 = z2
    k1 = k1
    k2 = k2
    k3 = k3
    k4 = k4
    k5 = k5
    Zones = {z1, z2}
    Keys = {k1, k2, k3, k4, k5}
    Holds = {1}
    MinTtl = 1
    MaxTime = 1
    MaxBaseTtl <- MCMaxBaseTtl
    NoKey = NoKey
    NoHold = NoHold
PROPERTIES
    OutgoingKeyOutlivesHold
    MaintenanceRecovers
CHECK_DEADLOCK FALSE
