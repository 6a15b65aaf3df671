\* Two requests; completions and saves of one assessment do not overlap, reviews do.
CONSTANTS
    a1 = a1  o1 = o1  o2 = o2  u1 = u1  u2 = u2
    answered = answered  unanswered = unanswered
    NoOne = NoOne
    Keep = Keep
    Generated = generated
    Orgs = {o1, o2}
    Users = {u1, u2}
    GlobalRoles <- MCGlobalRoles
    OrgRoles <- MCOrgRoles
    Templates = {tp}
    Assessments = {a1}
    OrgOf <- MCOrgOf
    Keys = {k1}
    Values = {v1}
    Rules = {answered, unanswered}
    Evaluate <- MCEvaluate
    FindingRank <- MCFindingRank
    Texts = {generated, rewritten}
    Reqs = {t1, t2}
    InFlight <- PatchTwice
    MaxPasses = 2
SPECIFICATION Spec
SYMMETRY Requests
INVARIANT ReviewsAreAttributed
PROPERTIES ReviewsAreKept ImplementsWorkspace RecsAreTheFindings AnswersAreOnePayload TenantIsolation
