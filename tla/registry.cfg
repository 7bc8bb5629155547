SPECIFICATION Spec
CONSTANTS
    Requests = {r1, r2}
    Names = {hostA}
    HostIds = {h1, h2}
    ConfigIds = {k1, k2}
    GroupIds = {g1}
    DynamicGroupIds = {d1}
    Null = Null
    Zero = Zero
    Asked = Asked
    Free = Free
    Gone = Gone
    Idle = Idle
SYMMETRY Symmetric
INVARIANTS TypeOK NoForwardReference
PROPERTIES SoundOnFirstConnection AssignmentChangesForAReason HostsAreADirectory
CHECK_DEADLOCK FALSE
