SPECIFICATION Spec
CONSTANTS
    g1 = g1  g2 = g2  k1 = k1  k2 = k2  h1 = h1  r1 = r1  r2 = r2  c1 = c1  c2 = c2
    z1 = z1  aci = aci  cvm = cvm  P1 = P1  P2 = P2  d1 = d1  d2 = d2
    NoRow = NoRow
    Zones = {z1}
    Grants = {g1}
    Keys = {k1, k2}
    Hosts = {h1}
    Ports = {"25", "465"}
    Profiles = {aci, cvm}
    PolicyIds = {P1, P2}
    RegistrationIds = {r1, r2}
    ChallengeIds = {}
    OwnerGrants <- LeasesGrants
    AppraisalPolicies <- LeasesPolicies
    RegisterParameters <- LeasesParameters
    BaseRecords = {}
    OperatorRequests = {}
    OperatorData = {}
    LeaseSeconds = {1, 2}
    CertificateExpirations = {3}
    RecordTtl = 1
    MAX_ACTIVE_REGISTRATIONS = 2
    MAX_ACME_CHALLENGES = 0
    MAX_ZONE_CONTRIBUTIONS = 6
    MAX_ZONE_RRSETS = 4
    MAX_RRSET_CONTRIBUTIONS = 2
    SignatureValidity = 2
    RefreshBefore = 1
    SerialModulus = 1
    MaxTime = 3
SYMMETRY RegistrationSymmetry
INVARIANTS
    LeaseBounded
    ActiveServed
PROPERTIES
    NoResurrection
    ReadMatchesMaintenance
