SPECIFICATION FairSpec
CHECK_DEADLOCK FALSE
CONSTANTS
    Users = {u1, u2}
    ScimUsers = {u1}
    Names = {"staff"}
    Mounts = {"global", "org"}
    Lists = {{}, {u1}}
    Requests = {r1}
    GroupBaseDN = TRUE
    DeprovisionMissing = TRUE
    MaxGroups = 1
    MaxFails = 1
    None = None
  
PROPERTIES ReplacesMembers MissingIsDisabled
