----------------------------- MODULE MCAccounts -----------------------------
(* Instances of Accounts for TLC: u1 is seeded as the administrator of o1 and *)
(* a member of o2, u2 may sign up and bring o3; o4 is an id not yet used.     *)
EXTENDS Accounts, TLC

CONSTANTS o1, o2, o3, o4, u1, u2

\* Request slots and reset tokens are interchangeable; no liveness is checked.
SlotsAndTokens == Permutations(Reqs) \cup Permutations(Tokens)

MCGlobalRoles == [u \in Users |-> {}]

MCOrgRoles ==
    u1 :> (o1 :> {"admin"} @@ o2 :> {"org_user"} @@ o3 :> {"org_user"} @@ o4 :> {"consultant"})
    @@ u2 :> (o1 :> {"org_user"} @@ o2 :> {"org_user"} @@ o3 :> {"consultant"} @@ o4 :> {"consultant"})

MCHome == u1 :> o1 @@ u2 :> o3

MCSeeded == u1 :> {o1, o2} @@ u2 :> {}

Handlers == {"caller"} \cup DOMAIN TenantPermission

\* A user resets once at a time, asks for no link and does not switch meanwhile,
\* and is in one handler at a time, beside no other request but a sign-up.
OneByOne == {{"reset"}, {"reset", "forgot"}, {"reset", "switch"}}
            \cup {{op, h} : op \in {"signin", "switch", "forgot", "reset"} \cup Handlers,
                            h \in Handlers}

\* The same, without the switch.
SwitchOverlaps == OneByOne \ {{"reset", "switch"}}

\* Nothing is excluded.
Anything == {}
=============================================================================
