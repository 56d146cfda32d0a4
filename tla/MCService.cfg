SPECIFICATION ServiceSpec
CONSTANTS
    a1 = a1
    a2 = a2
    a3 = a3
    h = h
    Members = {a1, a2, a3, h}
    Reviewers = {a1}
    Ids = {1, 2}
    Contents <- Decisions
    NoteOf <- OwnWording
    InitGovernors <- MixedGovernors
    ReputationMax = 4
    Dids = {d1, d2}
    Releases = {r1, r2}
    PolicyIds = {p1, p2}
    Bodies = {b1, b2}
    MaxSvn = 4
    NoDid = NoDid
    NoBody = NoBody
    \* Deployment
    Generations = {c1, c2}
    Archives = {i1, i2}
    Absent = absent
    \* DevServer
    Posts = {q1, q2}
    Timer = timer
    LastSerial = 3
SYMMETRY PostSymmetry
INVARIANTS
    TrapdoorDecisive
    
    FloorHolds
    DeploymentSound
    DevServerSound

    
