SPECIFICATION FairSpec
CONSTANTS
    i1 = i1
    i2 = i2
    p1 = p1
    p2 = p2
    admin = admin
    admin2 = admin2
    editor = editor
    w1 = w1
    w2 = w2
    Nobody = Nobody
    NoPod = NoPod
    RoleOf <- TokenRoles
    Incidents = {i1}
    Users = {admin}
    Pods = {p1}
    Workers = {w1, w2}
    ApplyMode = "apply"
    Kinds = {"status", "approve", "reject", "followup"}
    Faults = {}
    NewStatuses = {"ack"}
    Severities = {2, 3}
    AlertArrays <- NamedAlerts
    ListLimit = 9
    MaxAlerts = 3
    MaxRequests = 3
INVARIANTS
    ChangesAreAudited
PROPERTIES
    HighSeverityGetsAction
    ApprovalResolves
CHECK_DEADLOCK FALSE
