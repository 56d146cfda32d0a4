SPECIFICATION Spec
CONSTANTS
    q1 = q1  q2 = q2  g1 = g1  g2 = g2  i1 = i1  i2 = i2  n1 = n1  n2 = n2  n3 = n3
    None = None
    Requests = {q1}
    Grants = {g1}
    GrantOf <- OneGrant
    Intents = {i1, i2}
    NonceIds = {n1, n2}
    NONCE_TTL_SECONDS = 1
    MAX_OUTSTANDING_NONCES = 2
    MAX_GRANT_NONCES = 1
    MaxTime = 1
    MaxSeqno = 4
    MaxView = 2
    MaxEpoch = 2
    MaxInflight = 2
SYMMETRY IdSymmetry
INVARIANTS
    AtMostOnce
    ToldSound
    NoncesSound
PROPERTIES
    WatermarkMonotone
    ImplementsOutcome
