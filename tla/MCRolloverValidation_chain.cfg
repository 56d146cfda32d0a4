SPECIFICATION ValidationSpec
CONSTANTS
    z1 = z1
    k1 = k1
    k2 = k2
    k3 = k3
    Zones = {z1}
    Keys = {k1, k2, k3}
    Holds = {2, 3}
    MinTtl = 1
    MaxTime = 9
    MaxBaseTtl <- MCMaxBaseTtl
    DnskeyTtl <- MCDnskeyTtl
    DsTtl = 2
    NoKey = NoKey
    NoHold = NoHold
SYMMETRY KeySymmetry
INVARIANTS
    ChainOfTrust
    NeverRefused
