\* Two completions of one assessment may overlap.
CONSTANTS
    a1 = a1  o1 = o1  o2 = o2  u1 = u1  u2 = u2
    answered = answered  unanswered = unanswered
    NoOne = NoOne
    Keep = Keep
    Generated = generated
    Orgs = {o1, o2}
    Users = {u1}
    GlobalRoles <- MCGlobalRoles
    OrgRoles <- MCOrgRoles
    Templates = {tp}
    Assessments = {a1}
    OrgOf <- MCOrgOf
    Keys = {k1}
    Values = {v1}
    Rules = {answered, unanswered}
    Evaluate <- MCEvaluate
    FindingRank <- MCFindingRank
    Texts = {generated}
    Reqs = {t1, t2}
    InFlight <- WritersTwice
    MaxPasses = 2
SPECIFICATION Spec
INVARIANT CompletedOnce
