\* Whether a queued report gets published.
CONSTANTS
    a1 = a1  o1 = o1  u1 = u1
    NoOne = NoOne
    NoReport = NoReport
    NoPdf = NoPdf
    Generated = generated
    Orgs = {o1}
    Users = {u1}
    GlobalRoles <- MCGlobalRoles
    OrgRoles <- MCOrgRoles
    Assessments = {a1}
    OrgOf <- MCOrgOf
    Rules = {r1}
    Texts = {generated, rewritten}
    Requests = {q1, q2}
    Workers = {w1, w2}
    MaxRequests = 2
    MaxCrashes = 1
SPECIFICATION FairSpec
PROPERTY QueuedIsPublished
CHECK_DEADLOCK FALSE
