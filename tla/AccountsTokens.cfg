\* Does a reset token work once, when two resets overlap?
CONSTANTS
    o1 = o1  o2 = o2  o3 = o3  o4 = o4  u1 = u1  u2 = u2
    NoToken = NoToken
    NoSession = NoSession
    Orgs = {o1, o2, o3, o4}
    Users = {u1, u2}
    GlobalRoles <- MCGlobalRoles
    OrgRoles <- MCOrgRoles
    Home <- MCHome
    Seeded <- MCSeeded
    Browsers = {b1}
    Reqs = {r1, r2}
    Tokens = {k1, k2}
    MaxResets = 2
    Excluded <- Anything
SPECIFICATION Spec
INVARIANT ResetTokensAreSingleUse
