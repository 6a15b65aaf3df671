------------------------------- MODULE Access -------------------------------
(***************************************************************************)
(* The authorization kernel (app/domain/access.py): default-deny RBAC      *)
(* composed with tenant scope.  Permissions are computed per organization  *)
(* from the roles a user holds everywhere and the roles held in that       *)
(* organization.  The role tables are constants: the services read them    *)
(* once per request, when the caller is authenticated.                     *)
(***************************************************************************)
CONSTANTS
    Orgs,         \* the tenants
    Users,        \* the authenticated callers
    GlobalRoles,  \* GlobalRoles[u]: the roles of u that are bound to no organization
    OrgRoles      \* OrgRoles[u][o]: the roles u holds in o

Role == {"admin", "consultant", "org_user"}

Permission == {"assessment:read", "assessment:complete", "recommendation:edit",
               "recommendation:approve", "report:publish", "rule:read",
               "rule:edit", "admin:metrics", "organization:create",
               "member:manage", "template:manage"}

Policy == [admin      |-> Permission,
           consultant |-> Permission \ {"rule:edit", "admin:metrics"},
           org_user   |-> {"assessment:read", "assessment:complete"}]

ASSUME RolesAssumption ==
    /\ GlobalRoles \in [Users -> SUBSET Role]
    /\ OrgRoles \in [Users -> [Orgs -> SUBSET Role]]

EffectiveRoles(u, o) == GlobalRoles[u] \cup OrgRoles[u][o]

PermissionsIn(u, o) == UNION {Policy[r] : r \in EffectiveRoles(u, o)}

HasPermission(u, p, o) == p \in PermissionsIn(u, o)
=============================================================================
