----------------------------- MODULE MCReports ------------------------------
(* Instances of Reports for TLC: one assessment, one consultant. *)
EXTENDS Reports, TLC

CONSTANTS a1, o1, u1

MCOrgOf == a1 :> o1

MCGlobalRoles == [u \in Users |-> {}]

MCOrgRoles == [u \in Users |-> [o \in Orgs |-> {"consultant"}]]
=============================================================================
