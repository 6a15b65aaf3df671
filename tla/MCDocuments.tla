---------------------------- MODULE MCDocuments -----------------------------
(* Instances of Documents for TLC: two organizations with a user each, who is *)
(* a member of the other one too with no role there.                          *)
EXTENDS Documents, TLC

CONSTANTS a1, a2, o1, o2, u1, u2

MCOrgOf == a1 :> o1 @@ a2 :> o2

MCGlobalRoles == [u \in Users |-> {}]

MCOrgRoles == u1 :> (o1 :> {"org_user"} @@ o2 :> {}) @@ u2 :> (o1 :> {} @@ o2 :> {"org_user"})
=============================================================================
