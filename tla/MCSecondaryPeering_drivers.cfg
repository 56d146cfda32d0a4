SPECIFICATION Spec
CONSTANTS
    ka = ka
    kb = kb
    za = za
    e1 = e1
    e2 = e2
    d1 = d1
    d2 = d2
    Rank <- MCRank
    KeyNames = {ka}
    Zones = {za}
    Endpoints = {e1}
    Drivers = {d1, d2}
    EndpointOf <- OwnEndpoint
    Scopes = {{za}}
    Served = {za}
    Freshness = 1
    DiscardAfter = 1
    BatchLimit = 2
    Outstanding = 1
    Workers = 1
    MaxSerial = 2
SYMMETRY DriverSymmetry
INVARIANTS
    RowsSound
    StatusTrue
PROPERTIES
    OnlyGovernedPeersReport
