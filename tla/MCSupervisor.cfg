SPECIFICATION Spec
CONSTANTS
    s1 = s1
    s2 = s2
    None = None
    Supervisors = {s1, s2}
    MaxIdentity = 2
INVARIANTS
    
    DriverSound
    ExitReapsAll
PROPERTIES
    DriverFollowsIdentity
CHECK_DEADLOCK FALSE
