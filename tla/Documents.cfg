\* Two documents, two workers, one worker lost.
CONSTANTS
    a1 = a1  a2 = a2  o1 = o1  o2 = o2  u1 = u1  u2 = u2
    NoRow = NoRow
    Orgs = {o1, o2}
    Users = {u1, u2}
    GlobalRoles <- MCGlobalRoles
    OrgRoles <- MCOrgRoles
    Docs = {d1, d2}
    Assessments = {a1, a2}
    OrgOf <- MCOrgOf
    Workers = {w1, w2}
    MaxBytes = 1
    MaxCrashes = 1
SPECIFICATION FairSpec
INVARIANTS TypeOK ServedAreVetted RowsNameObjects TasksFindTheirRow
PROPERTIES ImplementsScanGate CrashesLoseNoScan
\* Every document may be uploaded, and nobody has to download one.
CHECK_DEADLOCK FALSE
