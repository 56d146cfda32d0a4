SPECIFICATION ToolsSpec
CONSTANTS
    \* HostDriver
    t1 = t1
    t2 = t2
    u1 = u1
    w1 = w1
    Tcp = {t1, t2}
    Udp = {u1}
    Work = {w1}
    Kind <- SoaOnly
    MaxPermits <- OnePermit
    MaxRequests = 2
    ConnSeconds = 2
    ReadSeconds = 2
    PostSeconds = 1
    MaxSerial = 2
    CacheMax = 2
    \* CaptureSigner
    RequestIds = {q1, q2}
    FixedId = q0
    Window = 2
    Retention = 4
    Lifetime = 1
    MaxActions = 2
    \* CaptureServer
    h1 = h1
    h2 = h2
    h3 = h3
    m1 = m1
    Connections = {h1, h2, h3, m1}
    ServerOf <- Listeners
    MaxSlots = 2
    HttpSeconds = 2
    CcfSeconds = 2
    MailSeconds = 3
    OpSeconds = 2
    MaxCommands = 2
    \* NativeEvidence, EvidenceCheck and CaptureFlow
    Keys = {g1, g2}
    Images = {good, bad}
    Policies = {good, bad}
    Spki = g1
    ApprovedImage = good
    ApprovedPolicy = good
    Guests = {g1, g2}
    Approved = {g1}
    Good = good
    Bad = bad
    NoGuest = none
    \* ControlFlow
    MaxTail = 3
    \* Receipts
    Services = {s0, s1, s2}
    Trusted = s1
    Previous = s0
    Zones = {z1}
    Values = {v1, v2}
    MaxLedger = 3
    \* SecondaryHost
    Provisioners = {p1, p2}
    Primaries = {a1, a2}
    Secrets = {k1, k2}
    Unset = unset
    Torn = torn
    \* BackendHost
    Installers = {n1, n2}
    Credentials = {x1, x2}
    \* TraceExport
    MaxAttributes = 1
    \* ReleaseTool
    KeyPairs = {d1, d2}
    NoKey = nokey
    Payloads = {y1, y2, y3}
    NonAscii = {y3}
    TopSvn = 2
    \* Anchors
    Registered = {o1}
    Subjects = {j1, j2}
    Digests = {f1, f2}
    LastSequence = 3
    LastMoment = 1
    MaxAnchors = 2
    NoDigest = nodigest
INVARIANTS
    HostDriverSound
    WorkerSound
    
    
    ReceiptSound
    HostsWhole
    
    ReleaseSigned
    AnchorsSound
CHECK_DEADLOCK FALSE
