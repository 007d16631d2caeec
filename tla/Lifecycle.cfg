CONSTANTS
    c1 = c1  c2 = c2  k1 = k1  k2 = k2  r1 = r1  r2 = r2  p1 = p1  p2 = p2
    d1 = d1  d2 = d2  t1 = t1  t2 = t2
    None = None
    CR = {c1}
    Cluster = {k1}
    RoleKey = {r1, r2}
    PolicyKey = {p1, p2}
    RoleName = {r1, r2}
    PolicyName = {p1, p2}
    Doc = {d1, d2}
    Template = {t1, t2}
    ARN = {a1}
    Malformed = {}
    SpecsOf <- Lifecycle
    FeedLimit = 2
    MaxEdits = 4
    MaxFaults = 0
    MaxCrashes = 0
    MaxDrift = 0
    MaxForeign = 0
SPECIFICATION Spec
INVARIANTS TypeOK FinalizerGuard NeverForgotten SyncedAtEnd
PROPERTIES FinalizerReleased Idempotent KeepsWanted
CHECK_DEADLOCK FALSE
