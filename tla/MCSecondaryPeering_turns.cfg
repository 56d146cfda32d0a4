SPECIFICATION DeliverySpec
CONSTANTS
    ka = ka
    kb = kb
    za = za
    e1 = e1
    e2 = e2
    d1 = d1
    d2 = d2
    Rank <- MCRank
    KeyNames = {ka, kb}
    Zones = {za}
    Endpoints = {e1, e2}
    Drivers = {d1}
    EndpointOf <- OwnEndpoint
    Scopes = {{za}}
    Served = {za}
    Freshness = 1
    DiscardAfter = 1
    BatchLimit = 1
    Outstanding = 1
    Workers = 1
    MaxSerial = 1
PROPERTIES
    PeersServed
