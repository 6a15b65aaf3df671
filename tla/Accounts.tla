------------------------------ MODULE Accounts ------------------------------
(***************************************************************************)
(* Accounts, sessions and memberships (app/services/auth_service.py,       *)
(* app/services/organization_service.py, app/api/deps.py, the Auth.js side *)
(* in frontend/lib): requests are transactions that read unlocked rows,    *)
(* and a session is a cookie that names a version of the users row.        *)
(*                                                                         *)
(* A request is refused, killed or fails by Abort: nothing of it stays,    *)
(* except the mail it has already sent.  PostgreSQL runs it at READ        *)
(* COMMITTED, under the row-level security of migration 0009.              *)
(***************************************************************************)
EXTENDS Access, Naturals, FiniteSets

CONSTANTS
    Home,       \* Home[u]: the organization that the sign-up of u creates
    Seeded,     \* Seeded[u]: the organizations of u when the system starts
    Browsers,   \* browsers, each with one session cookie
    Reqs,       \* slots of API requests in flight
    Tokens,     \* the password reset tokens that may be minted
    MaxResets,  \* bound on the password resets of a user
    Excluded,   \* the sets of operations that a user never has in flight together
    NoToken,    \* there is no row for a token
    NoSession   \* a browser that is signed out

VARIABLES
    orgs,       \* the organizations that exist
    member,     \* member[o][u]: the membership row of the address of u in o
    account,    \* account[u]: the users row, by its email_verified_at
    version,    \* version[u]: its session_version
    link,       \* link[u]: the row of the verification token
    token,      \* token[k]: the row of a reset token
    inbox,      \* what was delivered: verification links (by user), reset tokens
    session,    \* session[b]: the cookie of a browser
    req,        \* req[r]: the request in a slot
    resets,     \* resets[u]: history, the resets committed
    uses        \* uses[k]: history, the resets committed with k

users == <<orgs, member, account, version>>
mails == <<link, token, inbox>>
history == <<resets, uses>>
vars == <<users, mails, session, req, history>>

\* global_roles=(): no role is held outside an organization.
ASSUME AccountsAssumption ==
    /\ Home \in [Users -> Orgs]
    /\ Seeded \in [Users -> SUBSET Orgs]
    /\ MaxResets \in Nat
    /\ GlobalRoles = [u \in Users |-> {}]
    /\ NoSession \notin [user : Users, org : Orgs, sv : Nat, gen : Nat]
    /\ NoToken \notin [user : Users, state : {"live", "dead"}, gen : Nat]

\* A sign-up brings a new organization; an address is not a token.
ASSUME IdsAssumption ==
    /\ \A u, v \in Users : u # v => Home[u] # Home[v] /\ Home[u] \notin Seeded[v]
    /\ Users \cap Tokens = {}

Generation == 0 .. MaxResets

\* gen is history: the resets of the user when the password was checked.
Session == [user : Users, org : Orgs, sv : Generation, gen : Generation]

\* A token is dead when it is used or expired.
ResetToken == [user : Users, state : {"live", "dead"}, gen : Generation]

\* The routes behind require().
TenantPermission ==
    [invite |-> "member:manage", remove |-> "member:manage",
     create |-> "organization:create", metrics |-> "admin:metrics"]

Free == [op |-> "none"]

\* scope and bypass are the transaction variables app.current_org, app.bypass_rls;
\* get_caller runs without a scope, and seen are the memberships that it has read.
Request ==
    [op : {"signup"}, user : Users, flushed : BOOLEAN]
    \cup [op : {"signin"}, user : Users, browser : Browsers, sv : Generation, gen : Generation]
    \cup [op : {"switch"}, user : Users, browser : Browsers, org : Orgs]
    \cup [op : {"forgot"}, user : Users, token : Tokens]
    \cup [op : {"reset"}, user : Users, token : Tokens, sv : Generation, others : SUBSET Tokens]
    \cup [op : {"caller"}, user : Users, org : Orgs, seen : SUBSET Orgs,
          pc : {"bypassing", "read", "resolved"}, bypass : BOOLEAN]
    \cup [op : DOMAIN TenantPermission, user : Users, org : Orgs, scope : Orgs, bypass : BOOLEAN]

TypeOK ==
    /\ orgs \in SUBSET Orgs
    /\ member \in [Orgs -> [Users -> {"none", "invited", "active", "removed"}]]
    /\ account \in [Users -> {"none", "unverified", "verified"}]
    /\ version \in [Users -> Generation]
    /\ link \in [Users -> {"none", "live", "dead"}]
    /\ token \in [Tokens -> ResetToken \cup {NoToken}]
    /\ inbox \in SUBSET (Users \cup Tokens)
    /\ session \in [Browsers -> Session \cup {NoSession}]
    /\ req \in [Reqs -> Request \cup {Free}]
    /\ resets \in [Users -> Generation]
    /\ uses \in [Tokens -> Nat]

\* The seed inserts verified users with active memberships.
Init ==
    /\ orgs = UNION {Seeded[u] : u \in Users}
    /\ member = [o \in Orgs |-> [u \in Users |-> IF o \in Seeded[u] THEN "active" ELSE "none"]]
    /\ account = [u \in Users |-> IF Seeded[u] # {} THEN "verified" ELSE "none"]
    /\ version = [u \in Users |-> 0]
    /\ link = [u \in Users |-> "none"]
    /\ token = [k \in Tokens |-> NoToken]
    /\ inbox = {}
    /\ session = [b \in Browsers |-> NoSession]
    /\ req = [r \in Reqs |-> Free]
    /\ resets = [u \in Users |-> 0]
    /\ uses = [k \in Tokens |-> 0]

-----------------------------------------------------------------------------
MayStart(r, op, u) ==
    /\ req[r] = Free
    /\ \A s \in Reqs : req[s] # Free /\ req[s].user = u => {op, req[s].op} \notin Excluded

\* A browser waits for the answer to a sign-in or a switch.
Waits(b) == \E r \in Reqs : req[r].op \in {"signin", "switch"} /\ req[r].browser = b

Live(u) == {k \in Tokens : token[k] # NoToken /\ token[k].user = u /\ token[k].state = "live"}

\* The policy tenant_isolation, for reading and for writing a row of o.
Admits(t, o) == t.scope = o \/ t.bypass

Memberships(u) == {o \in Orgs : member[o][u] = "active"}

\* SqlMemberRepository: an address has one row in an organization.
Listed(o, u) == member[o][u] # "none"

Put(o, u, status) == [member EXCEPT ![o][u] = status]

End(r) == req' = [req EXCEPT ![r] = Free]

\* The mail is handed to the provider, or EmailDeliveryError is logged.
Send(m) == inbox' = inbox \cup {m} \/ inbox' = inbox \ {m}

-----------------------------------------------------------------------------
(* Sign-up and e-mail verification *)

SignupCheck(r, u) ==
    /\ MayStart(r, "signup", u) /\ account[u] = "none"
    /\ req' = [req EXCEPT ![r] = [op |-> "signup", user |-> u, flushed |-> FALSE]]
    /\ UNCHANGED <<users, mails, session, history>>

\* The unique index on the address makes the second of two sign-ups wait.  The
\* mail goes out before the commit.
SignupFlush(r) ==
    LET u == req[r].user IN
    /\ req[r].op = "signup" /\ ~req[r].flushed
    /\ account[u] = "none"
    /\ \A s \in Reqs : req[s].op = "signup" /\ req[s].user = u => ~req[s].flushed
    /\ req' = [req EXCEPT ![r].flushed = TRUE]
    /\ Send(u)
    /\ UNCHANGED <<users, link, token, session, history>>

SignupClash(r) ==
    /\ req[r].op = "signup" /\ ~req[r].flushed /\ account[req[r].user] # "none"
    /\ End(r)
    /\ UNCHANGED <<users, mails, session, history>>

\* Mutant of SignupCommit: local_email_verification_tokens skips the token.
SignupCommitVerified(r) ==
    LET u == req[r].user IN
    /\ req[r].op = "signup" /\ req[r].flushed
    /\ orgs' = orgs \cup {Home[u]}
    /\ member' = Put(Home[u], u, "active")
    /\ account' = [account EXCEPT ![u] = "verified"]
    /\ link' = [link EXCEPT ![u] = "live"]
    /\ End(r)
    /\ UNCHANGED <<version, token, inbox, session, history>>

\* The transaction is scoped to the new organization before its first member
\* is inserted.
SignupCommit(r) ==
    LET u == req[r].user IN
    /\ req[r].op = "signup" /\ req[r].flushed
    /\ orgs' = orgs \cup {Home[u]}
    /\ member' = Put(Home[u], u, "active")
    /\ account' = [account EXCEPT ![u] = "unverified"]
    /\ link' = [link EXCEPT ![u] = "live"]
    /\ End(r)
    /\ UNCHANGED <<version, token, inbox, session, history>>

\* The reply carries a profile: an account without memberships is refused and
\* stays unverified, its token unused.
Verify(u) ==
    /\ link[u] = "live" /\ u \in inbox /\ Memberships(u) # {}
    /\ account' = [account EXCEPT ![u] = "verified"]
    /\ link' = [link EXCEPT ![u] = "dead"]
    /\ UNCHANGED <<orgs, member, version, token, inbox, session, req, history>>

LinkExpires(u) ==
    /\ link[u] = "live"
    /\ link' = [link EXCEPT ![u] = "dead"]
    /\ UNCHANGED <<users, token, inbox, session, req, history>>

-----------------------------------------------------------------------------
(* Sign-in, sign-out and the active organization *)

\* The users row, and the password that it holds.
SigninRead(r, b, u) ==
    /\ MayStart(r, "signin", u) /\ session[b] = NoSession /\ ~Waits(b)
    /\ account[u] = "verified"
    /\ req' = [req EXCEPT ![r] =
          [op |-> "signin", user |-> u, browser |-> b, sv |-> version[u], gen |-> resets[u]]]
    /\ UNCHANGED <<users, mails, session, history>>

\* Mutant of SigninMint: the profile is read from the users row as it is now.
SigninMintRereads(r) ==
    LET q == req[r] IN
    /\ q.op = "signin"
    /\ \E o \in Memberships(q.user) : session' = [session EXCEPT ![q.browser] =
          [user |-> q.user, org |-> o, sv |-> version[q.user], gen |-> q.gen]]
    /\ End(r)
    /\ UNCHANGED <<users, mails, history>>

\* The profile still comes from the row of SigninRead, which authenticate()
\* holds; the organization is the first of the memberships.
SigninMint(r) ==
    LET q == req[r] IN
    /\ q.op = "signin"
    /\ \E o \in Memberships(q.user) : session' = [session EXCEPT ![q.browser] =
          [user |-> q.user, org |-> o, sv |-> q.sv, gen |-> q.gen]]
    /\ End(r)
    /\ UNCHANGED <<users, mails, history>>

Signout(b) ==
    /\ session[b] # NoSession /\ ~Waits(b)
    /\ session' = [session EXCEPT ![b] = NoSession]
    /\ UNCHANGED <<users, mails, req, history>>

\* The jwt callback passes no sessionVersion, so that the token is minted with
\* sv 0: once the password was reset, get_caller refuses every switch.
SwitchCheck(r, b, o) ==
    LET s == session[b] IN
    /\ s # NoSession /\ ~Waits(b) /\ MayStart(r, "switch", s.user)
    /\ version[s.user] = 0 /\ s.org \in Memberships(s.user)
    /\ req' = [req EXCEPT ![r] = [op |-> "switch", user |-> s.user, browser |-> b, org |-> o]]
    /\ UNCHANGED <<users, mails, session, history>>

\* profile_for_user selects the users row anew, for get_caller's is garbage; the
\* cookie takes over what the reply says.
SwitchReply(r) ==
    LET q == req[r] IN
    /\ q.op = "switch" /\ q.org \in Memberships(q.user)
    /\ session' = [session EXCEPT ![q.browser].org = q.org, ![q.browser].sv = version[q.user]]
    /\ End(r)
    /\ UNCHANGED <<users, mails, history>>

-----------------------------------------------------------------------------
(* Password reset *)

ForgotFlush(r, u, k) ==
    /\ MayStart(r, "forgot", u) /\ account[u] # "none"
    /\ token[k] = NoToken /\ k \notin inbox
    /\ \A s \in Reqs : req[s].op = "forgot" => req[s].token # k
    /\ req' = [req EXCEPT ![r] = [op |-> "forgot", user |-> u, token |-> k]]
    /\ Send(k)
    /\ UNCHANGED <<users, link, token, session, history>>

ForgotCommit(r) ==
    LET q == req[r] IN
    /\ q.op = "forgot"
    /\ token' = [token EXCEPT ![q.token] =
          [user |-> q.user, state |-> "live", gen |-> resets[q.user]]]
    /\ End(r)
    /\ UNCHANGED <<users, link, inbox, session, history>>

TokenExpires(k) ==
    /\ token[k] # NoToken /\ token[k].state = "live"
    /\ token' = [token EXCEPT ![k].state = "dead"]
    /\ UNCHANGED <<users, link, inbox, session, req, history>>

\* The token, the users row and the other tokens, none of them locked.
ResetRead(r, k) ==
    LET u == token[k].user IN
    /\ token[k] # NoToken /\ k \in inbox /\ token[k].state = "live"
    /\ MayStart(r, "reset", u) /\ resets[u] < MaxResets
    /\ req' = [req EXCEPT ![r] = [op |-> "reset", user |-> u, token |-> k,
          sv |-> version[u], others |-> Live(u)]]
    /\ UNCHANGED <<users, mails, session, history>>

\* Mutant of Used: only the token itself is marked.
UsedAlone(q) == {q.token}

\* Mutant of Used: only the other tokens are marked.
UsedOthers(q) == q.others \ {q.token}

\* The tokens that a reset marks as used.
Used(q) == q.others \cup {q.token}

ResetCommit(r) ==
    LET q == req[r] IN
    /\ q.op = "reset"
    /\ version' = [version EXCEPT ![q.user] = q.sv + 1]
    /\ token' = [k \in Tokens |-> IF k \in Used(q) THEN [token[k] EXCEPT !.state = "dead"]
                                  ELSE token[k]]
    /\ resets' = [resets EXCEPT ![q.user] = @ + 1]
    /\ uses' = [uses EXCEPT ![q.token] = @ + 1]
    /\ End(r)
    /\ UNCHANGED <<orgs, member, account, link, inbox, session>>

-----------------------------------------------------------------------------
(* Organizations and members, behind get_caller and require *)

\* get_caller, before any permission is asked for: the users row, and the bypass
\* that lets _memberships read across organizations.
GetCaller(r, b) ==
    LET s == session[b] IN
    /\ s # NoSession /\ MayStart(r, "caller", s.user)
    /\ s.sv = version[s.user]
    /\ req' = [req EXCEPT ![r] = [op |-> "caller", user |-> s.user, org |-> s.org,
          seen |-> {}, pc |-> "bypassing", bypass |-> TRUE]]
    /\ UNCHANGED <<users, mails, session, history>>

Calling(r, pc) == req[r].op = "caller" /\ req[r].pc = pc

\* Without a scope the policy shows rows to the bypass only.
ReadMemberships(r) ==
    /\ Calling(r, "bypassing")
    /\ req' = [req EXCEPT ![r].pc = "read",
                          ![r].seen = {o \in Memberships(req[r].user) : req[r].bypass}]
    /\ UNCHANGED <<users, mails, session, history>>

\* Mutant of RestoreRls: the bypass stays on.
RestoreRlsNot(r) ==
    /\ Calling(r, "read")
    /\ req' = [req EXCEPT ![r].pc = "resolved"]
    /\ UNCHANGED <<users, mails, session, history>>

\* The finally of _memberships.
RestoreRls(r) ==
    /\ Calling(r, "read")
    /\ req' = [req EXCEPT ![r].pc = "resolved", ![r].bypass = FALSE]
    /\ UNCHANGED <<users, mails, session, history>>

\* Mutant of Entitled: the roles of all organizations count in the active one.
EntitledAnywhere(q, p) == \E o \in q.seen : HasPermission(q.user, p, o)

\* The roles are those of the membership rows that were read, not of the token.
Entitled(q, p) == q.org \in q.seen /\ HasPermission(q.user, p, q.org)

\* The guard of require(): authorize, then the scope; the bypass is what
\* get_caller has left.
Guard(r, op) ==
    LET q == req[r] IN
    /\ Calling(r, "resolved")
    /\ Entitled(q, TenantPermission[op])
    /\ req' = [req EXCEPT ![r] = [op |-> op, user |-> q.user, org |-> q.org,
          scope |-> q.org, bypass |-> q.bypass]]
    /\ UNCHANGED <<users, mails, session, history>>

\* Mutant of Invite: a status that nothing else knows.
InvitePending(r, u) ==
    /\ req[r].op = "invite" /\ Admits(req[r], req[r].org)
    /\ ~Listed(req[r].org, u)
    /\ member' = Put(req[r].org, u, "pending")
    /\ End(r)
    /\ UNCHANGED <<orgs, account, version, mails, session, history>>

\* An address has one row per organization, whatever its status: email_exists
\* refuses the second, or the unique constraint does.
Invite(r, u) ==
    /\ req[r].op = "invite" /\ Admits(req[r], req[r].org)
    /\ ~Listed(req[r].org, u)
    /\ member' = Put(req[r].org, u, "invited")
    /\ End(r)
    /\ UNCHANGED <<orgs, account, version, mails, session, history>>

\* Any row, also the caller's own and the last one.
Remove(r, u) ==
    /\ req[r].op = "remove" /\ Admits(req[r], req[r].org)
    /\ Listed(req[r].org, u)
    /\ member' = Put(req[r].org, u, "removed")
    /\ End(r)
    /\ UNCHANGED <<orgs, account, version, mails, session, history>>

\* Mutant of CreateOrganization: the organization is committed by itself.
CreateOrganizationFirst(r, o) ==
    /\ req[r].op = "create" /\ o \notin orgs /\ \A u \in Users : o # Home[u]
    /\ orgs' = orgs \cup {o}
    /\ member' = IF Admits(req[r], o) THEN Put(o, req[r].user, "active") ELSE member
    /\ End(r)
    /\ UNCHANGED <<account, version, mails, session, history>>

\* The membership of the creator is a row of the new organization, and the
\* transaction is still scoped to the active one.
CreateOrganization(r, o) ==
    /\ req[r].op = "create" /\ o \notin orgs /\ \A u \in Users : o # Home[u]
    /\ IF Admits(req[r], o)
       THEN /\ orgs' = orgs \cup {o}
            /\ member' = Put(o, req[r].user, "active")
       ELSE UNCHANGED <<orgs, member>>
    /\ End(r)
    /\ UNCHANGED <<account, version, mails, session, history>>

\* collect() reads all organizations, to the end of its transaction.
Collect(r) ==
    /\ req[r].op = "metrics" /\ ~req[r].bypass
    /\ req' = [req EXCEPT ![r].bypass = TRUE]
    /\ UNCHANGED <<users, mails, session, history>>

Abort(r) ==
    /\ req[r] # Free
    /\ End(r)
    /\ UNCHANGED <<users, mails, session, history>>

-----------------------------------------------------------------------------
Next ==
    \/ \E u \in Users : Verify(u) \/ LinkExpires(u)
    \/ \E k \in Tokens : TokenExpires(k)
    \/ \E b \in Browsers : Signout(b)
    \/ \E r \in Reqs :
          \/ \E u \in Users : SignupCheck(r, u) \/ Invite(r, u) \/ Remove(r, u)
          \/ \E u \in Users, k \in Tokens : ForgotFlush(r, u, k)
          \/ \E b \in Browsers, u \in Users : SigninRead(r, b, u)
          \/ \E b \in Browsers, o \in Orgs : SwitchCheck(r, b, o)
          \/ \E b \in Browsers : GetCaller(r, b)
          \/ \E op \in DOMAIN TenantPermission : Guard(r, op)
          \/ \E k \in Tokens : ResetRead(r, k)
          \/ \E o \in Orgs : CreateOrganization(r, o)
          \/ SignupFlush(r) \/ SignupClash(r) \/ SignupCommit(r)
          \/ SigninMint(r) \/ SwitchReply(r) \/ ForgotCommit(r) \/ ResetCommit(r)
          \/ ReadMemberships(r) \/ RestoreRls(r) \/ Collect(r) \/ Abort(r)

Spec == Init /\ [][Next]_vars

-----------------------------------------------------------------------------
(* Properties *)

\* "invalidate every existing session" (reset_password): a session that
\* get_caller still accepts was opened with the password that the user has now,
\* whichever sign-ins, switches and resets overlapped.
SessionsEndAtReset ==
    \A b \in Browsers : LET s == session[b] IN
        s # NoSession /\ s.sv = version[s.user] => s.gen = resets[s.user]

\* A token that has set a password was delivered to the mailbox of its user and
\* never works again, not even for a reset that overlaps: only the resets that
\* had read it before may still use it (see ResetTokensAreSingleUse).
UsedTokensAreDead ==
    \A k \in Tokens : uses[k] > 0 =>
        k \in inbox /\ token[k] # NoToken /\ token[k].state = "dead"

\* "any other outstanding reset tokens for the user are marked used": a token
\* that still works was asked for after the last reset.
LiveTokensAreCurrent ==
    \A u \in Users : \A k \in Live(u) : token[k].gen = resets[u]

\* Whoever has a session once had access to the mailbox of the account, or was
\* seeded: signup, failed commits and expired links give no other way in.
SessionsAreVerified ==
    \A b \in Browsers : LET s == session[b] IN
        s # NoSession => /\ account[s.user] = "verified"
                         /\ Seeded[s.user] # {} \/ s.user \in inbox

\* "Enforcement is restored immediately so the rest of the request transaction
\* remains org-scoped" (_memberships), although the read before it spans all
\* organizations: the rows that PostgreSQL lets a handler reach are those of the
\* one organization in which its caller was authorized, and only the metrics of
\* an administrator reach others.
RlsCoversHandlers ==
    \A r \in Reqs : LET q == req[r] IN q.op \in DOMAIN TenantPermission =>
        /\ HasPermission(q.user, TenantPermission[q.op], q.org)
        /\ Admits(q, q.org)
        /\ \A o \in Orgs : Admits(q, o) => o = q.org \/ q.op = "metrics"

\* An organization has a member from its first committed row: the two inserts
\* of create_organization and of signup stay together.
NoOrphanOrganization == \A o \in orgs : \E u \in Users : Listed(o, u)

\* A membership row changes only by the sign-up that brings the organization,
\* or by the request of somebody who manages members there; a removed address
\* stays removed.
MembersChangeByManagers ==
    [][\A o \in Orgs, u \in Users : member'[o][u] # member[o][u] =>
         /\ member[o][u] # "removed"
         /\ \E r \in Reqs :
              /\ req[r] # Free /\ req'[r] = Free
              /\ \/ req[r].op = "signup" /\ req[r].user = u /\ o = Home[u]
                 \/ /\ req[r].op \in DOMAIN TenantPermission /\ req[r].org = o
                    /\ HasPermission(req[r].user, "member:manage", o)]_vars

-----------------------------------------------------------------------------
(* A statement of the source that the code does not satisfy.               *)

\* "Single-use: the token and any other outstanding reset tokens for the user
\* are marked used" (reset_password): no token sets a password twice.
ResetTokensAreSingleUse == \A k \in Tokens : uses[k] <= 1
=============================================================================
