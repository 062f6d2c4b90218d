SPECIFICATION Spec
CHECK_DEADLOCK FALSE
SYMMETRY MCSymmetry
CONSTANTS
    Orgs = {o}
    Users = {u1, u2}
    Provisioned = {u2}
    GivenRoles = {"owner", "admin"}
    Procs = {p}
    Requests = {r1, r2}
    MaxInvites = 1
    None = None
INVARIANTS LastOwnerKept OwnersComeFromOwners InviteWorksOnce 
