SPECIFICATION Spec
CONSTANTS
    i1 = i1
    i2 = i2
    p1 = p1
    p2 = p2
    admin = admin
    admin2 = admin2
    editor = editor
    w1 = w1
    w2 = w2
    Nobody = Nobody
    NoPod = NoPod
    RoleOf <- TokenRoles
    Incidents = {i1, i2}
    Users = {admin, editor}
    Pods = {p1}
    Workers = {w1, w2}
    ApplyMode = "dryrun"
    Kinds = {"approve", "reject"}
    Faults = {"crash", "disconnect", "smtp", "nats"}
    NewStatuses = {"new", "ack", "resolved", "suppressed"}
    Severities = {2, 3}
    AlertArrays <- UnnamedAlerts
    ListLimit = 2
    MaxAlerts = 3
    MaxRequests = 2
SYMMETRY WorkerSymmetry
INVARIANTS
    OnePendingDraft
PROPERTIES
    SeverityNeverDrops
CHECK_DEADLOCK FALSE
