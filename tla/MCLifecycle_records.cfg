SPECIFICATION Spec
CONSTANTS
    g1 = g1  g2 = g2  k1 = k1  k2 = k2  h1 = h1  r1 = r1  r2 = r2  c1 = c1  c2 = c2
    z1 = z1  aci = aci  cvm = cvm  P1 = P1  P2 = P2  d1 = d1  d2 = d2
    NoRow = NoRow
    Zones = {z1}
    Grants = {g1}
    Keys = {k1}
    Hosts = {h1}
    Ports = {"25"}
    Profiles = {aci}
    PolicyIds = {P1, P2}
    RegistrationIds = {r1, r2}
    ChallengeIds = {c1}
    OwnerGrants <- RecordsGrants
    AppraisalPolicies <- RecordsPolicies
    RegisterParameters <- RecordsParameters
    BaseRecords <- RecordsBase
    OperatorRequests <- RecordsRequests
    OperatorData = {d1, d2}
    LeaseSeconds = {2}
    CertificateExpirations = {3}
    RecordTtl = 2
    MAX_ACTIVE_REGISTRATIONS = 2
    MAX_ACME_CHALLENGES = 1
    MAX_ZONE_CONTRIBUTIONS = 5
    MAX_ZONE_RRSETS = 4
    MAX_RRSET_CONTRIBUTIONS = 2
    SignatureValidity = 2
    RefreshBefore = 1
    SerialModulus = 3
    MaxTime = 2
SYMMETRY IdSymmetry
INVARIANTS
    TablesExact
    ContributionsExact
PROPERTIES
    MaintenanceSettles
