-------------------------- MODULE MembershipProofs --------------------------
(***************************************************************************)
(* Theorems about the organizations, memberships, tenant scopes and reset  *)
(* tokens of Accounts, however requests overlap: nothing here rests on     *)
(* resets being done one at a time.                                        *)
(***************************************************************************)
EXTENDS Accounts, TLAPS

-----------------------------------------------------------------------------
(* The inductive invariant *)

Status == {"none", "invited", "active", "removed"}

\* Without the bounds of TypeOK: overlapping resets may pass MaxResets.
AnySession == [user : Users, org : Orgs, sv : Nat, gen : Nat]

AnyToken == [user : Users, state : {"live", "dead"}, gen : Nat]

Caller == [op : {"caller"}, user : Users, org : Orgs, seen : SUBSET Orgs,
           pc : {"bypassing", "read", "resolved"}, bypass : BOOLEAN]

TenantRequest == [op : DOMAIN TenantPermission, user : Users, org : Orgs, scope : Orgs, bypass : BOOLEAN]

AnyRequest ==
    [op : {"signup"}, user : Users, flushed : BOOLEAN]
    \cup [op : {"signin"}, user : Users, browser : Browsers, sv : Nat, gen : Nat]
    \cup [op : {"switch"}, user : Users, browser : Browsers, org : Orgs]
    \cup [op : {"forgot"}, user : Users, token : Tokens]
    \cup [op : {"reset"}, user : Users, token : Tokens, sv : Nat, others : SUBSET Tokens]
    \cup Caller
    \cup TenantRequest

\* What a reset will mark are rows of the table.
ResetsKnowTokens ==
    \A r \in Reqs : req[r].op = "reset" => \A k \in Used(req[r]) : token[k] # NoToken

Shapes ==
    /\ orgs \in SUBSET Orgs
    /\ member \in [Orgs -> [Users -> Status]]
    /\ account \in [Users -> {"none", "unverified", "verified"}]
    /\ version \in [Users -> Nat]
    /\ resets \in [Users -> Nat]
    /\ session \in [Browsers -> AnySession \cup {NoSession}]
    /\ req \in [Reqs -> AnyRequest \cup {Free}]
    /\ token \in [Tokens -> AnyToken \cup {NoToken}]
    /\ link \in [Users -> {"none", "live", "dead"}]
    /\ ResetsKnowTokens

\* get_caller has seen organizations that exist, and leaves without the bypass;
\* behind the guard, the scope of the active organization and a right there.
TenantsAreGuarded ==
    /\ \A r \in Reqs : req[r].op = "caller" =>
        req[r].seen \subseteq orgs /\ (req[r].pc = "resolved" => ~req[r].bypass)
    /\ \A r \in Reqs : req[r].op \in DOMAIN TenantPermission =>
        /\ req[r].scope = req[r].org
        /\ req[r].bypass => req[r].op = "metrics"
        /\ req[r].org \in orgs
        /\ HasPermission(req[r].user, TenantPermission[req[r].op], req[r].org)

MembersAreSomewhere == \A o \in Orgs, u \in Users : Listed(o, u) => o \in orgs

\* A sign-up in flight is of somebody without account, who has no organization.
NewcomersAreNew ==
    /\ \A u \in Users : account[u] = "none" => Home[u] \notin orgs /\ link[u] = "none"
    /\ \A r \in Reqs : req[r].op = "signup" /\ req[r].flushed => account[req[r].user] = "none"
    /\ \A r, s \in Reqs :
          /\ req[r].op = "signup" /\ req[s].op = "signup" /\ req[r].flushed /\ req[s].flushed
          /\ req[r].user = req[s].user
          => r = s

UsersAreVerified ==
    /\ \A u \in Users : account[u] = "verified" => Seeded[u] # {} \/ u \in inbox
    /\ \A b \in Browsers : session[b] # NoSession => account[session[b].user] = "verified"
    /\ \A r \in Reqs : req[r].op = "signin" => account[req[r].user] = "verified"
    /\ \A r \in Reqs : req[r].op = "switch" => session[req[r].browser] # NoSession

IInv ==
    /\ Shapes
    /\ TenantsAreGuarded
    /\ NoOrphanOrganization
    /\ MembersAreSomewhere
    /\ NewcomersAreNew
    /\ UsersAreVerified

-----------------------------------------------------------------------------
(* Lemmas about requests *)

\* What a request of each operation is.
LEMMA RequestKinds ==
    ASSUME Shapes, NEW r \in Reqs
    PROVE  /\ req[r].op = "signup" => req[r] \in [op : {"signup"}, user : Users, flushed : BOOLEAN]
           /\ req[r].op = "signin" => req[r] \in [op : {"signin"}, user : Users, browser : Browsers,
                                                  sv : Nat, gen : Nat]
           /\ req[r].op = "switch" => req[r] \in [op : {"switch"}, user : Users, browser : Browsers,
                                                  org : Orgs]
           /\ req[r].op = "forgot" => req[r] \in [op : {"forgot"}, user : Users, token : Tokens]
           /\ req[r].op = "reset" => req[r] \in [op : {"reset"}, user : Users, token : Tokens,
                                                 sv : Nat, others : SUBSET Tokens]
           /\ req[r].op = "caller" => req[r] \in Caller
           /\ req[r].op \in DOMAIN TenantPermission => req[r] \in TenantRequest
<1>1. req[r] \in AnyRequest \cup {Free}
  BY DEF Shapes
<1>2. DOMAIN TenantPermission = {"invite", "remove", "create", "metrics"}
  BY DEF TenantPermission
<1>3. QED
  BY <1>1, <1>2 DEF AnyRequest, Caller, TenantRequest, Free

\* A request that ends leaves the table in shape, and the other requests alone.
LEMMA EndEffect ==
    ASSUME Shapes, NEW r \in Reqs, End(r)
    PROVE  /\ req' \in [Reqs -> AnyRequest \cup {Free}]
           /\ req'[r] = Free /\ Free.op = "none"
           /\ \A s \in Reqs : s # r => req'[s] = req[s]
BY DEF Shapes, End, Free

\* So does one that starts or goes on.
LEMMA PutEffect ==
    ASSUME Shapes, NEW r \in Reqs, NEW q \in AnyRequest, req' = [req EXCEPT ![r] = q]
    PROVE  /\ req' \in [Reqs -> AnyRequest \cup {Free}]
           /\ req'[r] = q
           /\ \A s \in Reqs : s # r => req'[s] = req[s]
BY DEF Shapes

\* A step that touches no account, link, member or session, and starts nothing
\* that the invariant speaks of.
LEMMA QuietKeeps ==
    ASSUME IInv, Shapes', UNCHANGED <<orgs, member, account, link, session>>,
           inbox \cap Users \subseteq inbox',
           \A r \in Reqs : req'[r].op \in {"signup", "signin", "switch", "caller"} \cup DOMAIN TenantPermission
                              => req'[r] = req[r]
    PROVE  IInv'
<1>1. TenantsAreGuarded'
  BY DEF IInv, TenantsAreGuarded
<1>2. NoOrphanOrganization' /\ MembersAreSomewhere'
  BY DEF IInv, NoOrphanOrganization, MembersAreSomewhere, Listed
<1>3. NewcomersAreNew'
  BY DEF IInv, NewcomersAreNew
<1>4. UsersAreVerified'
  BY DEF IInv, UsersAreVerified
<1>5. QED
  BY <1>1, <1>2, <1>3, <1>4 DEF IInv

\* A request other than a sign-up starts, goes on, or ends without effect, as
\* the invariant has it.
LEMMA RequestKeeps ==
    ASSUME IInv, NEW r \in Reqs, NEW q \in AnyRequest \cup {Free},
           req' = [req EXCEPT ![r] = q], q.op # "signup",
           UNCHANGED <<users, link, token, session, history>>,
           inbox \cap Users \subseteq inbox',
           q.op = "signin" => account[q.user] = "verified",
           q.op = "switch" => session[q.browser] # NoSession,
           q.op = "reset" => \A k \in Used(q) : token[k] # NoToken,
           q.op = "caller" => q.seen \subseteq orgs /\ (q.pc = "resolved" => ~q.bypass),
           q.op \in DOMAIN TenantPermission =>
              /\ q.scope = q.org /\ (q.bypass => q.op = "metrics") /\ q.org \in orgs
              /\ HasPermission(q.user, TenantPermission[q.op], q.org)
    PROVE  IInv'
<1>1. /\ req' \in [Reqs -> AnyRequest \cup {Free}]
      /\ req'[r] = q /\ \A s \in Reqs : s # r => req'[s] = req[s]
  BY DEF IInv, Shapes
<1>2. ResetsKnowTokens'
  BY <1>1 DEF IInv, Shapes, ResetsKnowTokens, Used
<1>3. Shapes'
  BY <1>1, <1>2 DEF IInv, Shapes, users, history
<1>4. TenantsAreGuarded'
  BY <1>1 DEF IInv, TenantsAreGuarded, users
<1>5. NoOrphanOrganization' /\ MembersAreSomewhere'
  BY DEF IInv, NoOrphanOrganization, MembersAreSomewhere, Listed, users
<1>6. NewcomersAreNew'
  BY <1>1 DEF IInv, NewcomersAreNew, users
<1>7. UsersAreVerified'
  BY <1>1 DEF IInv, UsersAreVerified, users
<1>8. QED
  BY <1>3, <1>4, <1>5, <1>6, <1>7 DEF IInv

\* Nothing stays of a request that is refused or aborted.
LEMMA AbortKeeps ==
    ASSUME IInv, NEW r \in Reqs, SignupClash(r) \/ Abort(r)
    PROVE  IInv'
<1>1. req' = [req EXCEPT ![r] = Free] /\ UNCHANGED <<users, mails, session, history>>
  BY DEF SignupClash, Abort, End
<1>2. Free.op = "none" /\ "none" \notin DOMAIN TenantPermission
  BY DEF Free, TenantPermission
<1>3. QED
  BY <1>1, <1>2, RequestKeeps DEF mails

-----------------------------------------------------------------------------
(* Sign-up and verification *)

\* A sign-up before its commit; only its own mail may be lost.
LEMMA SignupStarts ==
    ASSUME IInv, NEW r \in Reqs, NEW q \in [op : {"signup"}, user : Users, flushed : BOOLEAN],
           req' = [req EXCEPT ![r] = q],
           q.flushed => /\ account[q.user] = "none"
                        /\ \A s \in Reqs : req[s].op = "signup" /\ req[s].user = q.user => ~req[s].flushed,
           UNCHANGED <<users, link, session, token, history>>,
           inbox' = inbox \/ account[q.user] = "none",
           \A u \in Users : u # q.user /\ u \in inbox => u \in inbox'
    PROVE  IInv'
<1>1. q \in AnyRequest /\ q.op = "signup" /\ q.user \in Users
  BY DEF AnyRequest
<1>2. /\ req' \in [Reqs -> AnyRequest \cup {Free}]
      /\ req'[r] = q /\ \A s \in Reqs : s # r => req'[s] = req[s]
  BY <1>1, PutEffect DEF IInv
<1>3. Shapes'
  <2>1. ResetsKnowTokens'
    BY <1>1, <1>2 DEF IInv, Shapes, ResetsKnowTokens, Used
  <2>2. QED
    BY <1>2, <2>1 DEF IInv, Shapes, users, history
<1>4. TenantsAreGuarded'
  BY <1>1, <1>2 DEF IInv, TenantsAreGuarded, TenantPermission, users
<1>5. NoOrphanOrganization' /\ MembersAreSomewhere'
  BY DEF IInv, NoOrphanOrganization, MembersAreSomewhere, Listed, users
<1>6. NewcomersAreNew'
  <2>1. UNCHANGED <<account, orgs>>
    BY DEF users
  <2>2. \A s \in Reqs : req'[s].op = "signup" /\ req'[s].flushed => account[req'[s].user] = "none"
    BY <1>2 DEF IInv, NewcomersAreNew
  <2>3. ASSUME NEW s \in Reqs, NEW t \in Reqs, req'[s].op = "signup", req'[t].op = "signup",
               req'[s].flushed, req'[t].flushed, req'[s].user = req'[t].user
        PROVE  s = t
    BY <1>2, <2>3 DEF IInv, NewcomersAreNew
  <2>4. QED
    BY <2>1, <2>2, <2>3 DEF IInv, NewcomersAreNew
<1>7. UsersAreVerified'
  BY <1>1, <1>2 DEF IInv, UsersAreVerified, users
<1>8. QED
  BY <1>3, <1>4, <1>5, <1>6, <1>7 DEF IInv

\* The first two steps of a sign-up.
LEMMA SignupStartKeeps ==
    ASSUME IInv, NEW r \in Reqs, (\E u \in Users : SignupCheck(r, u)) \/ SignupFlush(r)
    PROVE  IInv'
<1>1. ASSUME NEW u \in Users, SignupCheck(r, u)
      PROVE  IInv'
  <2> DEFINE q == [op |-> "signup", user |-> u, flushed |-> FALSE]
  <2>1. q \in [op : {"signup"}, user : Users, flushed : BOOLEAN] /\ q.flushed = FALSE
    OBVIOUS
  <2>2. /\ req' = [req EXCEPT ![r] = q] /\ UNCHANGED <<users, link, session, token, history>>
        /\ inbox' = inbox
    BY <1>1 DEF SignupCheck, mails
  <2> HIDE DEF q
  <2>3. QED
    BY <2>1, <2>2, SignupStarts
<1>2. CASE SignupFlush(r)
  <2>1. req[r] \in [op : {"signup"}, user : Users, flushed : BOOLEAN]
    BY <1>2, RequestKinds DEF SignupFlush, IInv
  <2>2. PICK u \in Users : u = req[r].user
    BY <2>1
  <2>3. /\ account[u] = "none" /\ Send(u)
        /\ \A s \in Reqs : req[s].op = "signup" /\ req[s].user = u => ~req[s].flushed
        /\ req' = [req EXCEPT ![r].flushed = TRUE]
        /\ UNCHANGED <<users, link, token, session, history>>
    BY <1>2, <2>2 DEF SignupFlush
  <2>4. PICK q : q = [req[r] EXCEPT !.flushed = TRUE]
    OBVIOUS
  <2>5. q \in [op : {"signup"}, user : Users, flushed : BOOLEAN] /\ q.user = u
    BY <2>1, <2>2, <2>4
  <2>6. req' = [req EXCEPT ![r] = q]
    BY <2>3, <2>4 DEF IInv, Shapes
  <2>7. \A v \in Users : v # u /\ v \in inbox => v \in inbox'
    BY <2>3 DEF Send
  <2>8. QED
    BY <2>3, <2>5, <2>6, <2>7, SignupStarts
<1>3. QED
  BY <1>1, <1>2

\* The commit of a sign-up brings an organization that nobody had, with its
\* first member.
LEMMA SignupCommitKeeps ==
    ASSUME IInv, NEW r \in Reqs, SignupCommit(r)
    PROVE  IInv'
<1>1. /\ Shapes /\ req[r].op = "signup" /\ req[r].flushed /\ req[r].user \in Users
  BY RequestKinds DEF IInv, SignupCommit
<1>2. PICK u \in Users, h \in Orgs : u = req[r].user /\ h = Home[u]
  BY <1>1, AccountsAssumption
<1>3. /\ orgs' = orgs \cup {h} /\ member' = [member EXCEPT ![h][u] = "active"]
      /\ account' = [account EXCEPT ![u] = "unverified"] /\ End(r)
      /\ link' = [link EXCEPT ![u] = "live"]
      /\ UNCHANGED <<version, token, inbox, session, history>>
  BY <1>2 DEF SignupCommit, Put
<1>4. account[u] = "none" /\ h \notin orgs
  BY <1>1, <1>2 DEF IInv, NewcomersAreNew
<1>5. /\ req' \in [Reqs -> AnyRequest \cup {Free}]
      /\ req'[r].op = "none" /\ \A s \in Reqs : s # r => req'[s] = req[s]
  BY <1>1, <1>3, EndEffect
<1>6. account'[u] = "unverified" /\ \A v \in Users : v # u => account'[v] = account[v]
  BY <1>1, <1>3 DEF Shapes
<1>7. /\ member'[h][u] = "active"
      /\ \A o \in Orgs, v \in Users : o # h \/ v # u => member'[o][v] = member[o][v]
      /\ member' \in [Orgs -> [Users -> Status]]
  BY <1>1, <1>3 DEF Shapes, Status
<1>8. Shapes'
  <2>1. ResetsKnowTokens'
    BY <1>1, <1>3, <1>5 DEF Shapes, ResetsKnowTokens, Used
  <2>2. QED
    BY <1>1, <1>3, <1>5, <1>7, <2>1 DEF Shapes, history
<1>9. TenantsAreGuarded'
  <2>1. \A s \in Reqs : req'[s].op \in {"caller"} \cup DOMAIN TenantPermission => req'[s] = req[s]
    BY <1>5 DEF TenantPermission
  <2>2. QED
    BY <1>3, <2>1 DEF IInv, TenantsAreGuarded
<1>10. NoOrphanOrganization' /\ MembersAreSomewhere'
  <2>1. ASSUME NEW o \in orgs'
        PROVE  \E v \in Users : member'[o][v] # "none"
    <3>1. CASE o = h
      BY <1>7, <3>1
    <3>2. CASE o # h
      BY <1>1, <1>3, <1>7, <2>1, <3>2 DEF IInv, NoOrphanOrganization, Listed, Shapes
    <3>3. QED
      BY <3>1, <3>2
  <2>2. ASSUME NEW o \in Orgs, NEW v \in Users, member'[o][v] # "none"
        PROVE  o \in orgs'
    BY <1>3, <1>7, <2>2 DEF IInv, MembersAreSomewhere, Listed
  <2>3. QED
    BY <2>1, <2>2 DEF NoOrphanOrganization, MembersAreSomewhere, Listed
<1>11. NewcomersAreNew'
  <2>1. ASSUME NEW v \in Users, account'[v] = "none"
        PROVE  Home[v] \notin orgs' /\ link'[v] = "none"
    <3>1. v # u /\ account[v] = "none"
      BY <1>6, <2>1
    <3>2. Home[v] # h
      BY <1>2, <3>1, IdsAssumption
    <3>3. QED
      BY <1>1, <1>3, <3>1, <3>2 DEF IInv, NewcomersAreNew, Shapes
  <2>2. ASSUME NEW s \in Reqs, req'[s].op = "signup", req'[s].flushed
        PROVE  req'[s] = req[s] /\ account'[req'[s].user] = "none"
    <3>1. s # r /\ req'[s] = req[s]
      BY <1>5, <2>2
    <3>2. req[s].user # u /\ req[s].user \in Users
      BY <1>1, <1>2, <2>2, <3>1, RequestKinds DEF IInv, NewcomersAreNew
    <3>3. QED
      BY <1>6, <2>2, <3>1, <3>2 DEF IInv, NewcomersAreNew
  <2>3. QED
    BY <2>1, <2>2 DEF IInv, NewcomersAreNew
<1>12. UsersAreVerified'
  <2>1. \A b \in Browsers : session[b] # NoSession => session[b].user \in Users
    BY <1>1 DEF Shapes, AnySession
  <2>2. \A s \in Reqs : req[s].op = "signin" => req[s].user \in Users
    BY <1>1, RequestKinds
  <2>3. QED
    BY <1>3, <1>4, <1>5, <1>6, <2>1, <2>2 DEF IInv, UsersAreVerified
<1>13. QED
  BY <1>8, <1>9, <1>10, <1>11, <1>12 DEF IInv

\* A verification needs the mail, and an account whose sign-up was committed.
LEMMA VerifyKeeps ==
    ASSUME IInv, NEW u \in Users, Verify(u)
    PROVE  IInv'
<1>1. /\ u \in inbox /\ link[u] = "live" /\ account' = [account EXCEPT ![u] = "verified"]
      /\ link' = [link EXCEPT ![u] = "dead"]
      /\ UNCHANGED <<orgs, member, version, token, inbox, session, req, history>>
  BY DEF Verify
<1>2. account[u] # "none"
  BY <1>1 DEF IInv, NewcomersAreNew
<1>3. /\ account'[u] = "verified" /\ link'[u] = "dead"
      /\ \A v \in Users : v # u => account'[v] = account[v] /\ link'[v] = link[v]
  BY <1>1 DEF IInv, Shapes
<1>4. Shapes'
  <2>1. ResetsKnowTokens'
    BY <1>1 DEF IInv, Shapes, ResetsKnowTokens, Used
  <2>2. QED
    BY <1>1, <2>1 DEF IInv, Shapes, history
<1>5. TenantsAreGuarded' /\ NoOrphanOrganization' /\ MembersAreSomewhere'
  BY <1>1 DEF IInv, TenantsAreGuarded, NoOrphanOrganization, MembersAreSomewhere, Listed
<1>6. UsersAreVerified'
  <2>1. \A b \in Browsers : session[b] # NoSession => session[b].user \in Users
    BY DEF IInv, Shapes, AnySession
  <2>2. \A s \in Reqs : req[s].op = "signin" => req[s].user \in Users
    BY RequestKinds DEF IInv
  <2>3. QED
    BY <1>1, <1>3, <2>1, <2>2 DEF IInv, UsersAreVerified
<1>7. NewcomersAreNew'
  <2>1. \A s \in Reqs : req[s].op = "signup" => req[s].user \in Users
    BY RequestKinds DEF IInv
  <2>2. QED
    BY <1>1, <1>2, <1>3, <2>1 DEF IInv, NewcomersAreNew
<1>8. QED
  BY <1>4, <1>5, <1>6, <1>7 DEF IInv

LEMMA LinkExpiresKeeps ==
    ASSUME IInv, NEW u \in Users, LinkExpires(u)
    PROVE  IInv'
<1>1. /\ link[u] = "live" /\ link' = [link EXCEPT ![u] = "dead"]
      /\ UNCHANGED <<users, token, inbox, session, req, history>>
  BY DEF LinkExpires
<1>2. Shapes'
  <2>1. ResetsKnowTokens'
    BY <1>1 DEF IInv, Shapes, ResetsKnowTokens, Used
  <2>2. QED
    BY <1>1, <2>1 DEF IInv, Shapes, users, history
<1>3. TenantsAreGuarded' /\ NoOrphanOrganization' /\ MembersAreSomewhere' /\ UsersAreVerified'
  BY <1>1 DEF IInv, TenantsAreGuarded, NoOrphanOrganization, MembersAreSomewhere, Listed,
              UsersAreVerified, users
<1>4. NewcomersAreNew'
  <2>1. \A v \in Users : account'[v] = "none" => Home[v] \notin orgs' /\ link'[v] = "none"
    BY <1>1 DEF IInv, NewcomersAreNew, users, Shapes
  <2>2. QED
    BY <1>1, <2>1 DEF IInv, NewcomersAreNew, users
<1>5. QED
  BY <1>2, <1>3, <1>4 DEF IInv

-----------------------------------------------------------------------------
(* Sessions *)

\* The cookie of one browser changes; only a browser that waits for no switch
\* may be signed out.
LEMMA CookieKeeps ==
    ASSUME IInv, NEW b \in Browsers, NEW x \in AnySession \cup {NoSession},
           session' = [session EXCEPT ![b] = x],
           x # NoSession => account[x.user] = "verified",
           x = NoSession => \A r \in Reqs : req[r].op = "switch" => req[r].browser # b,
           req' = req \/ \E r \in Reqs : End(r),
           UNCHANGED <<users, mails, history>>
    PROVE  IInv'
<1>1. /\ session' \in [Browsers -> AnySession \cup {NoSession}]
      /\ session'[b] = x /\ \A c \in Browsers : c # b => session'[c] = session[c]
  BY DEF IInv, Shapes
<1>2. /\ req' \in [Reqs -> AnyRequest \cup {Free}]
      /\ \A r \in Reqs : req'[r] = req[r] \/ req'[r] = Free
  BY EndEffect DEF IInv, Shapes
<1>3. Free.op = "none" /\ "none" \notin DOMAIN TenantPermission
  BY DEF Free, TenantPermission
<1>4. Shapes'
  <2>1. ResetsKnowTokens'
    BY <1>2, <1>3 DEF IInv, Shapes, ResetsKnowTokens, Used, mails
  <2>2. QED
    BY <1>1, <1>2, <2>1 DEF IInv, Shapes, users, mails, history
<1>5. TenantsAreGuarded'
  BY <1>2, <1>3 DEF IInv, TenantsAreGuarded, users
<1>6. NoOrphanOrganization' /\ MembersAreSomewhere'
  BY DEF IInv, NoOrphanOrganization, MembersAreSomewhere, Listed, users
<1>7. NewcomersAreNew'
  BY <1>2, <1>3 DEF IInv, NewcomersAreNew, users, mails
<1>8. UsersAreVerified'
  <2>1. \A r \in Reqs : req[r].op = "switch" => req[r].browser \in Browsers
    BY RequestKinds DEF IInv
  <2>2. QED
    BY <1>1, <1>2, <1>3, <2>1 DEF IInv, UsersAreVerified, users, mails
<1>9. QED
  BY <1>4, <1>5, <1>6, <1>7, <1>8 DEF IInv

LEMMA SignoutKeeps ==
    ASSUME IInv, NEW b \in Browsers, Signout(b)
    PROVE  IInv'
BY CookieKeeps DEF Signout, Waits

LEMMA SigninKeeps ==
    ASSUME IInv, NEW r \in Reqs,
           (\E b \in Browsers, u \in Users : SigninRead(r, b, u)) \/ SigninMint(r)
    PROVE  IInv'
<1>1. ASSUME NEW b \in Browsers, NEW u \in Users, SigninRead(r, b, u)
      PROVE  IInv'
  <2> DEFINE q == [op |-> "signin", user |-> u, browser |-> b, sv |-> version[u], gen |-> resets[u]]
  <2>1. q \in AnyRequest /\ q.op = "signin" /\ q.user = u
    BY DEF AnyRequest, IInv, Shapes
  <2>2. /\ req' = [req EXCEPT ![r] = q] /\ account[u] = "verified"
        /\ UNCHANGED <<users, mails, session, history>>
    BY <1>1 DEF SigninRead
  <2>3. "signin" \notin DOMAIN TenantPermission
    BY DEF TenantPermission
  <2> HIDE DEF q
  <2>4. QED
    BY <2>1, <2>2, <2>3, RequestKeeps DEF mails
<1>2. CASE SigninMint(r)
  <2>1. req[r] \in [op : {"signin"}, user : Users, browser : Browsers, sv : Nat, gen : Nat]
    BY <1>2, RequestKinds DEF SigninMint, IInv
  <2>2. PICK o \in Memberships(req[r].user) : session' = [session EXCEPT ![req[r].browser] =
           [user |-> req[r].user, org |-> o, sv |-> req[r].sv, gen |-> req[r].gen]]
    BY <1>2 DEF SigninMint
  <2>3. PICK x : x = [user |-> req[r].user, org |-> o, sv |-> req[r].sv, gen |-> req[r].gen]
    OBVIOUS
  <2>4. x \in AnySession /\ x.user = req[r].user
    BY <2>1, <2>2, <2>3 DEF AnySession, Memberships
  <2>5. x # NoSession /\ account[x.user] = "verified"
    <3>1. account[x.user] = "verified"
      BY <1>2, <2>4 DEF SigninMint, IInv, UsersAreVerified
    <3>2. QED
      BY <2>4, <3>1, AccountsAssumption DEF AnySession
  <2>6. session' = [session EXCEPT ![req[r].browser] = x] /\ req[r].browser \in Browsers
    BY <2>1, <2>2, <2>3
  <2>7. End(r) /\ UNCHANGED <<users, mails, history>>
    BY <1>2 DEF SigninMint
  <2>8. QED
    BY <2>4, <2>5, <2>6, <2>7, CookieKeeps
<1>3. QED
  BY <1>1, <1>2

LEMMA SwitchKeeps ==
    ASSUME IInv, NEW r \in Reqs,
           (\E b \in Browsers, o \in Orgs : SwitchCheck(r, b, o)) \/ SwitchReply(r)
    PROVE  IInv'
<1>1. ASSUME NEW b \in Browsers, NEW o \in Orgs, SwitchCheck(r, b, o)
      PROVE  IInv'
  <2> DEFINE q == [op |-> "switch", user |-> session[b].user, browser |-> b, org |-> o]
  <2>1. /\ session[b] # NoSession /\ req' = [req EXCEPT ![r] = q]
        /\ UNCHANGED <<users, mails, session, history>>
    BY <1>1 DEF SwitchCheck
  <2>2. q \in AnyRequest /\ q.op = "switch" /\ q.browser = b
    BY <2>1 DEF AnyRequest, AnySession, IInv, Shapes
  <2>3. "switch" \notin DOMAIN TenantPermission
    BY DEF TenantPermission
  <2> HIDE DEF q
  <2>4. QED
    BY <2>1, <2>2, <2>3, RequestKeeps DEF mails
<1>2. CASE SwitchReply(r)
  <2>1. req[r] \in [op : {"switch"}, user : Users, browser : Browsers, org : Orgs]
    BY <1>2, RequestKinds DEF SwitchReply, IInv
  <2>2. PICK b \in Browsers : b = req[r].browser
    BY <2>1
  <2>3. session[b] \in AnySession /\ account[session[b].user] = "verified"
    BY <1>2, <2>2 DEF SwitchReply, IInv, UsersAreVerified, Shapes
  <2>4. PICK x : x = [session[b] EXCEPT !.org = req[r].org, !.sv = version[req[r].user]]
    OBVIOUS
  <2>5. version[req[r].user] \in Nat
    BY <2>1 DEF IInv, Shapes
  <2>6. x \in AnySession /\ x.user = session[b].user
    BY <2>1, <2>3, <2>4, <2>5 DEF AnySession
  <2>7. session' = [session EXCEPT ![b] = x]
    BY <1>2, <2>2, <2>4 DEF SwitchReply, IInv, Shapes
  <2>8. x # NoSession
    BY <2>6, AccountsAssumption DEF AnySession
  <2>9. End(r) /\ UNCHANGED <<users, mails, history>>
    BY <1>2 DEF SwitchReply
  <2>10. QED
    BY <2>3, <2>6, <2>7, <2>8, <2>9, CookieKeeps
<1>3. QED
  BY <1>1, <1>2

-----------------------------------------------------------------------------
(* Reset tokens: nothing of them reaches a membership *)

LEMMA ForgotKeeps ==
    ASSUME IInv, NEW r \in Reqs,
           (\E u \in Users, k \in Tokens : ForgotFlush(r, u, k)) \/ ForgotCommit(r)
    PROVE  IInv'
<1>1. ASSUME NEW u \in Users, NEW k \in Tokens, ForgotFlush(r, u, k)
      PROVE  IInv'
  <2> DEFINE q == [op |-> "forgot", user |-> u, token |-> k]
  <2>1. /\ req' = [req EXCEPT ![r] = q] /\ Send(k)
        /\ UNCHANGED <<users, link, token, session, history>>
    BY <1>1 DEF ForgotFlush
  <2>2. q \in AnyRequest /\ q.op = "forgot"
    BY DEF AnyRequest
  <2>3. inbox \cap Users \subseteq inbox'
    BY <2>1, IdsAssumption DEF Send
  <2>4. "forgot" \notin DOMAIN TenantPermission
    BY DEF TenantPermission
  <2> HIDE DEF q
  <2>5. QED
    BY <2>1, <2>2, <2>3, <2>4, RequestKeeps
<1>2. CASE ForgotCommit(r)
  <2>1. req[r] \in [op : {"forgot"}, user : Users, token : Tokens]
    BY <1>2, RequestKinds DEF ForgotCommit, IInv
  <2>2. PICK k \in Tokens : k = req[r].token
    BY <2>1
  <2> DEFINE x == [user |-> req[r].user, state |-> "live", gen |-> resets[req[r].user]]
  <2>3. x \in AnyToken
    BY <2>1, <2>2 DEF AnyToken, IInv, Shapes
  <2>4. x # NoToken
    BY <2>3, AccountsAssumption DEF AnyToken
  <2>5. /\ token' = [token EXCEPT ![k] = x] /\ End(r)
        /\ UNCHANGED <<users, link, inbox, session, history>>
    BY <1>2, <2>2 DEF ForgotCommit
  <2> HIDE DEF x
  <2>6. /\ req' \in [Reqs -> AnyRequest \cup {Free}]
        /\ req'[r].op = "none" /\ \A s \in Reqs : s # r => req'[s] = req[s]
    BY <2>5, EndEffect DEF IInv
  <2>7. Shapes'
    <3>1. ResetsKnowTokens'
      BY <2>2, <2>4, <2>5, <2>6 DEF IInv, Shapes, ResetsKnowTokens, Used
    <3>2. QED
      BY <2>2, <2>3, <2>5, <2>6, <3>1 DEF IInv, Shapes, users, history
  <2>8. "none" \notin DOMAIN TenantPermission
    BY DEF TenantPermission
  <2>9. QED
    BY <2>5, <2>6, <2>7, <2>8, QuietKeeps DEF users
<1>3. QED
  BY <1>1, <1>2

LEMMA TokenExpiresKeeps ==
    ASSUME IInv, NEW k \in Tokens, TokenExpires(k)
    PROVE  IInv'
<1>1. /\ token[k] # NoToken /\ token' = [token EXCEPT ![k].state = "dead"]
      /\ UNCHANGED <<users, link, inbox, session, req, history>>
  BY DEF TokenExpires
<1>2. PICK x : x = [token[k] EXCEPT !.state = "dead"]
  OBVIOUS
<1>3. x \in AnyToken /\ token' = [token EXCEPT ![k] = x]
  BY <1>1, <1>2 DEF AnyToken, IInv, Shapes
<1>4. x # NoToken
  BY <1>3, AccountsAssumption DEF AnyToken
<1>5. Shapes'
  <2>1. ResetsKnowTokens'
    <3>1. \A r \in Reqs : req[r].op = "reset" => Used(req[r]) \subseteq Tokens
      BY RequestKinds DEF IInv, Used
    <3>2. \A j \in Tokens : token[j] # NoToken => token'[j] # NoToken
      BY <1>3, <1>4 DEF IInv, Shapes
    <3>3. QED
      BY <1>1, <3>1, <3>2 DEF IInv, Shapes, ResetsKnowTokens, Used
  <2>2. QED
    BY <1>1, <1>3, <2>1 DEF IInv, Shapes, users, history
<1>6. QED
  BY <1>1, <1>5, QuietKeeps DEF users

LEMMA ResetKeeps ==
    ASSUME IInv, NEW r \in Reqs, (\E k \in Tokens : ResetRead(r, k)) \/ ResetCommit(r)
    PROVE  IInv'
<1>1. ASSUME NEW k \in Tokens, ResetRead(r, k)
      PROVE  IInv'
  <2> DEFINE u == token[k].user
             q == [op |-> "reset", user |-> u, token |-> k, sv |-> version[u], others |-> Live(u)]
  <2>1. /\ token[k] # NoToken /\ req' = [req EXCEPT ![r] = q]
        /\ UNCHANGED <<users, mails, session, history>>
    BY <1>1 DEF ResetRead
  <2>2. u \in Users /\ Live(u) \subseteq Tokens /\ version[u] \in Nat
    BY <2>1 DEF AnyToken, Live, IInv, Shapes
  <2>3. q \in AnyRequest /\ q.op = "reset"
    BY <2>2 DEF AnyRequest
  <2>4. \A j \in Used(q) : token[j] # NoToken
    BY <2>1 DEF Used, Live
  <2>5. "reset" \notin DOMAIN TenantPermission
    BY DEF TenantPermission
  <2> HIDE DEF q, u
  <2>6. QED
    BY <2>1, <2>3, <2>4, <2>5, RequestKeeps DEF mails
<1>2. CASE ResetCommit(r)
  <2>1. req[r] \in [op : {"reset"}, user : Users, token : Tokens, sv : Nat, others : SUBSET Tokens]
    BY <1>2, RequestKinds DEF ResetCommit, IInv
  <2>2. PICK u \in Users, n \in Nat : u = req[r].user /\ n = req[r].sv + 1
    BY <2>1
  <2>3. /\ version' = [version EXCEPT ![u] = n] /\ resets' = [resets EXCEPT ![u] = @ + 1]
        /\ token' = [k \in Tokens |-> IF k \in Used(req[r]) THEN [token[k] EXCEPT !.state = "dead"]
                                      ELSE token[k]]
        /\ End(r) /\ UNCHANGED <<orgs, member, account, link, inbox, session>>
    BY <1>2, <2>2 DEF ResetCommit
  <2>4. \A k \in Used(req[r]) \cap Tokens : token[k] \in AnyToken /\ token[k] # NoToken
    BY <1>2 DEF ResetCommit, IInv, Shapes, ResetsKnowTokens
  <2>5. token' \in [Tokens -> AnyToken \cup {NoToken}]
    BY <2>3, <2>4 DEF AnyToken, IInv, Shapes
  <2>6. \A k \in Tokens : token[k] # NoToken => token'[k] # NoToken
    <3>1. \A k \in Used(req[r]) \cap Tokens : token'[k] \in AnyToken
      BY <2>3, <2>4 DEF AnyToken
    <3>2. QED
      BY <2>3, <3>1, AccountsAssumption DEF AnyToken
  <2>7. /\ req' \in [Reqs -> AnyRequest \cup {Free}]
        /\ req'[r].op = "none" /\ \A s \in Reqs : s # r => req'[s] = req[s]
    BY <2>3, EndEffect DEF IInv
  <2>8. ResetsKnowTokens'
    <3>1. SUFFICES ASSUME NEW s \in Reqs, req'[s].op = "reset", NEW k \in Used(req'[s])
                   PROVE  token'[k] # NoToken
      BY DEF ResetsKnowTokens
    <3>2. req'[s] = req[s] /\ req[s].op = "reset"
      BY <2>7, <3>1
    <3>3. k \in Tokens
      BY <3>1, <3>2, RequestKinds DEF IInv, Used
    <3>4. token[k] # NoToken
      BY <3>1, <3>2 DEF IInv, Shapes, ResetsKnowTokens
    <3>5. QED
      BY <2>6, <3>3, <3>4
  <2>9. version' \in [Users -> Nat] /\ resets' \in [Users -> Nat]
    BY <2>3 DEF IInv, Shapes
  <2>10. Shapes'
    BY <2>3, <2>5, <2>7, <2>8, <2>9 DEF IInv, Shapes
  <2>11. "none" \notin DOMAIN TenantPermission
    BY DEF TenantPermission
  <2>12. QED
    BY <2>3, <2>7, <2>10, <2>11, QuietKeeps
<1>3. QED
  BY <1>1, <1>2

-----------------------------------------------------------------------------
(* Organizations and members *)

\* get_caller: what it sees are organizations that exist, and its last step
\* takes the bypass back.
LEMMA CallerKeeps ==
    ASSUME IInv, NEW r \in Reqs,
           (\E b \in Browsers : GetCaller(r, b)) \/ ReadMemberships(r) \/ RestoreRls(r)
    PROVE  IInv'
<1>1. "caller" \notin DOMAIN TenantPermission
  BY DEF TenantPermission
<1>2. ASSUME NEW b \in Browsers, GetCaller(r, b)
      PROVE  IInv'
  <2> DEFINE q == [op |-> "caller", user |-> session[b].user, org |-> session[b].org,
                   seen |-> {}, pc |-> "bypassing", bypass |-> TRUE]
  <2>1. session[b] \in AnySession /\ UNCHANGED <<users, mails, session, history>>
    BY <1>2 DEF GetCaller, IInv, Shapes
  <2>2. q \in AnyRequest
    BY <2>1 DEF AnyRequest, AnySession, Caller
  <2>3. q.op = "caller" /\ q.seen \subseteq orgs /\ q.pc # "resolved"
    OBVIOUS
  <2>4. req' = [req EXCEPT ![r] = q]
    BY <1>2 DEF GetCaller
  <2> HIDE DEF q
  <2>5. QED
    BY <1>1, <2>1, <2>2, <2>3, <2>4, RequestKeeps DEF mails
<1>3. CASE ReadMemberships(r)
  <2>1. req[r] \in Caller /\ UNCHANGED <<users, mails, session, history>>
    BY <1>3, RequestKinds DEF ReadMemberships, Calling, IInv
  <2>2. PICK seen \in SUBSET orgs :
           req' = [req EXCEPT ![r].pc = "read", ![r].seen = seen]
    <3>1. {o \in Memberships(req[r].user) : req[r].bypass} \subseteq orgs
      BY <2>1 DEF Memberships, Caller, IInv, MembersAreSomewhere, Listed
    <3>2. QED
      BY <1>3, <3>1 DEF ReadMemberships
  <2>3. PICK q : q = [req[r] EXCEPT !.pc = "read", !.seen = seen]
    OBVIOUS
  <2>4. req' = [req EXCEPT ![r] = q]
    BY <2>1, <2>2, <2>3 DEF IInv, Shapes
  <2>5. q \in AnyRequest /\ q.op = "caller" /\ q.seen = seen /\ q.pc # "resolved"
    BY <2>1, <2>2, <2>3 DEF Caller, AnyRequest, IInv, Shapes
  <2>6. QED
    BY <1>1, <2>1, <2>2, <2>4, <2>5, RequestKeeps DEF mails
<1>4. CASE RestoreRls(r)
  <2>1. /\ req[r] \in Caller /\ req[r].seen \subseteq orgs
        /\ UNCHANGED <<users, mails, session, history>>
    BY <1>4, RequestKinds DEF RestoreRls, Calling, IInv, TenantsAreGuarded
  <2>2. PICK q : q = [req[r] EXCEPT !.pc = "resolved", !.bypass = FALSE]
    OBVIOUS
  <2>3. req' = [req EXCEPT ![r] = q]
    BY <1>4, <2>1, <2>2 DEF RestoreRls, IInv, Shapes
  <2>4. q \in AnyRequest /\ q.op = "caller" /\ q.seen = req[r].seen /\ ~q.bypass
    BY <2>1, <2>2 DEF Caller, AnyRequest
  <2>5. QED
    BY <1>1, <2>1, <2>3, <2>4, RequestKeeps DEF mails
<1>5. QED
  BY <1>2, <1>3, <1>4

\* The guard: the active organization exists, for its caller is a member.
LEMMA GuardKeeps ==
    ASSUME IInv, NEW r \in Reqs, NEW op \in DOMAIN TenantPermission, Guard(r, op)
    PROVE  IInv'
<1>1. PICK c \in Caller : c = req[r]
  BY RequestKinds DEF Guard, Calling, IInv
<1> DEFINE q == [op |-> op, user |-> c.user, org |-> c.org, scope |-> c.org, bypass |-> c.bypass]
<1>2. /\ Entitled(c, TenantPermission[op]) /\ req' = [req EXCEPT ![r] = q]
      /\ UNCHANGED <<users, mails, session, history>>
  BY <1>1 DEF Guard
<1>3. q \in AnyRequest
  BY DEF AnyRequest, Caller, TenantRequest
<1>4. q.op \notin {"signup", "signin", "switch", "reset", "caller"}
  BY DEF TenantPermission
<1>5. c.org \in orgs /\ c.bypass = FALSE
  BY <1>1, <1>2 DEF Guard, Calling, Caller, Entitled, IInv, TenantsAreGuarded
<1>6. q.scope = q.org /\ ~q.bypass /\ q.org \in orgs /\ HasPermission(q.user, TenantPermission[q.op], q.org)
  BY <1>2, <1>5 DEF Entitled
<1> HIDE DEF q
<1>7. QED
  BY <1>2, <1>3, <1>4, <1>6, RequestKeeps DEF mails

LEMMA CollectKeeps ==
    ASSUME IInv, NEW r \in Reqs, Collect(r)
    PROVE  IInv'
<1>1. "metrics" \in DOMAIN TenantPermission
  BY DEF TenantPermission
<1>2. req[r] \in TenantRequest /\ req[r].op = "metrics"
  BY <1>1, RequestKinds DEF Collect, IInv
<1>3. PICK q : q = [req[r] EXCEPT !.bypass = TRUE]
  OBVIOUS
<1>4. q \in TenantRequest /\ q.op = "metrics" /\ q.user = req[r].user /\ q.org = req[r].org
      /\ q.scope = req[r].scope
  BY <1>2, <1>3 DEF TenantRequest
<1>5. req' = [req EXCEPT ![r] = q] /\ UNCHANGED <<users, mails, session, history>>
  BY <1>3 DEF Collect, IInv, Shapes
<1>6. /\ q.scope = q.org /\ q.org \in orgs
      /\ HasPermission(q.user, TenantPermission[q.op], q.org)
  BY <1>1, <1>2, <1>4 DEF IInv, TenantsAreGuarded
<1>7. q \in AnyRequest
  BY <1>4 DEF AnyRequest
<1>8. QED
  BY <1>4, <1>5, <1>6, <1>7, RequestKeeps DEF mails

\* A row of an organization that exists gets another status, and the request ends.
LEMMA RowKeeps ==
    ASSUME IInv, NEW r \in Reqs, NEW o \in orgs, NEW u \in Users, NEW status \in Status \ {"none"},
           member' = Put(o, u, status), End(r),
           UNCHANGED <<orgs, account, version, mails, session, history>>
    PROVE  IInv'
<1>1. o \in Orgs /\ orgs \subseteq Orgs
  BY DEF IInv, Shapes
<1>2. /\ member' \in [Orgs -> [Users -> Status]] /\ member'[o][u] = status
      /\ \A p \in Orgs, v \in Users : p # o \/ v # u => member'[p][v] = member[p][v]
  BY <1>1 DEF Put, IInv, Shapes
<1>3. /\ req' \in [Reqs -> AnyRequest \cup {Free}]
      /\ req'[r].op = "none" /\ \A s \in Reqs : s # r => req'[s] = req[s]
  BY EndEffect DEF IInv
<1>4. "none" \notin DOMAIN TenantPermission
  BY DEF TenantPermission
<1>5. Shapes'
  <2>1. ResetsKnowTokens'
    BY <1>3 DEF IInv, Shapes, ResetsKnowTokens, Used, mails
  <2>2. QED
    BY <1>2, <1>3, <2>1 DEF IInv, Shapes, mails, history
<1>6. TenantsAreGuarded'
  BY <1>3, <1>4 DEF IInv, TenantsAreGuarded
<1>7. NoOrphanOrganization'
  <2>1. ASSUME NEW p \in orgs, NEW v \in Users, Listed(p, v)
        PROVE  \E w \in Users : member'[p][w] # "none"
    BY <1>1, <1>2, <2>1 DEF Listed
  <2>2. QED
    BY <2>1 DEF IInv, NoOrphanOrganization, Listed
<1>8. MembersAreSomewhere'
  BY <1>2 DEF IInv, MembersAreSomewhere, Listed
<1>9. NewcomersAreNew'
  BY <1>3 DEF IInv, NewcomersAreNew, mails
<1>10. UsersAreVerified'
  BY <1>3 DEF IInv, UsersAreVerified, mails
<1>11. QED
  BY <1>5, <1>6, <1>7, <1>8, <1>9, <1>10 DEF IInv

LEMMA MembersKeep ==
    ASSUME IInv, NEW r \in Reqs, NEW u \in Users, Invite(r, u) \/ Remove(r, u)
    PROVE  IInv'
<1>1. req[r].op \in DOMAIN TenantPermission /\ req[r].org \in orgs
  BY DEF Invite, Remove, TenantPermission, IInv, TenantsAreGuarded
<1>2. PICK status \in {"invited", "removed"} : member' = Put(req[r].org, u, status)
  BY DEF Invite, Remove
<1>3. status \in Status \ {"none"}
  BY <1>2 DEF Status
<1>4. End(r) /\ UNCHANGED <<orgs, account, version, mails, session, history>>
  BY DEF Invite, Remove
<1>5. QED
  BY <1>1, <1>2, <1>3, <1>4, RowKeeps

\* The new organization is outside of the scope: nothing is inserted.
LEMMA CreateIsRefused ==
    ASSUME IInv, NEW r \in Reqs, NEW o \in Orgs, CreateOrganization(r, o)
    PROVE  UNCHANGED <<orgs, member>>
<1>1. "create" \in DOMAIN TenantPermission /\ req[r].op = "create" /\ o \notin orgs
  BY DEF CreateOrganization, TenantPermission
<1>2. req[r].scope \in orgs /\ ~req[r].bypass
  BY <1>1, RequestKinds DEF IInv, TenantsAreGuarded, TenantRequest
<1>3. ~Admits(req[r], o)
  BY <1>1, <1>2 DEF Admits
<1>4. QED
  BY <1>3 DEF CreateOrganization

LEMMA CreateKeeps ==
    ASSUME IInv, NEW r \in Reqs, NEW o \in Orgs, CreateOrganization(r, o)
    PROVE  IInv'
<1>1. /\ UNCHANGED <<users, mails, session, history>>
      /\ req' = [req EXCEPT ![r] = Free]
  BY CreateIsRefused DEF CreateOrganization, End, users
<1>2. Free.op = "none" /\ "none" \notin DOMAIN TenantPermission
  BY DEF Free, TenantPermission
<1>3. QED
  BY <1>1, <1>2, RequestKeeps DEF mails

-----------------------------------------------------------------------------
(* The invariant holds *)

LEMMA InitGood == ASSUME Init PROVE IInv
<1>1. Shapes
  <2>1. ResetsKnowTokens
    BY DEF Init, ResetsKnowTokens, Free
  <2>2. orgs \in SUBSET Orgs
    BY AccountsAssumption DEF Init
  <2>3. QED
    BY <2>1, <2>2 DEF Init, Shapes, Status
<1>2. TenantsAreGuarded
  BY DEF Init, TenantsAreGuarded, TenantPermission, Free
<1>3. NoOrphanOrganization /\ MembersAreSomewhere
  BY AccountsAssumption DEF Init, NoOrphanOrganization, MembersAreSomewhere, Listed
<1>4. NewcomersAreNew
  <2>1. ASSUME NEW u \in Users, account[u] = "none"
        PROVE  Home[u] \notin orgs /\ link[u] = "none"
    <3>1. Seeded[u] = {}
      BY <2>1 DEF Init
    <3>2. \A v \in Users : Home[u] \notin Seeded[v]
      BY <3>1, IdsAssumption
    <3>3. QED
      BY <3>2 DEF Init
  <2>2. QED
    BY <2>1 DEF Init, NewcomersAreNew, Free
<1>5. UsersAreVerified
  BY DEF Init, UsersAreVerified, Free
<1>6. QED
  BY <1>1, <1>2, <1>3, <1>4, <1>5 DEF IInv

LEMMA NextKeeps == ASSUME IInv, [Next]_vars PROVE IInv'
<1>1. CASE \E r \in Reqs : Abort(r) \/ SignupClash(r)
  BY <1>1, AbortKeeps
<1>2. CASE \E r \in Reqs : (\E u \in Users : SignupCheck(r, u)) \/ SignupFlush(r) \/ SignupCommit(r)
  BY <1>2, SignupStartKeeps, SignupCommitKeeps
<1>3. CASE \E u \in Users : Verify(u) \/ LinkExpires(u)
  BY <1>3, VerifyKeeps, LinkExpiresKeeps
<1>4. CASE \E b \in Browsers : Signout(b)
  BY <1>4, SignoutKeeps
<1>5. CASE \E r \in Reqs : (\E b \in Browsers, u \in Users : SigninRead(r, b, u)) \/ SigninMint(r)
  BY <1>5, SigninKeeps
<1>6. CASE \E r \in Reqs : (\E b \in Browsers, o \in Orgs : SwitchCheck(r, b, o)) \/ SwitchReply(r)
  BY <1>6, SwitchKeeps
<1>7. CASE \E r \in Reqs : (\E u \in Users, k \in Tokens : ForgotFlush(r, u, k)) \/ ForgotCommit(r)
  BY <1>7, ForgotKeeps
<1>8. CASE \E k \in Tokens : TokenExpires(k)
  BY <1>8, TokenExpiresKeeps
<1>9. CASE \E r \in Reqs : (\E k \in Tokens : ResetRead(r, k)) \/ ResetCommit(r)
  BY <1>9, ResetKeeps
<1>10. CASE \E r \in Reqs : \/ \E b \in Browsers : GetCaller(r, b)
                            \/ \E op \in DOMAIN TenantPermission : Guard(r, op)
                            \/ ReadMemberships(r) \/ RestoreRls(r) \/ Collect(r)
  BY <1>10, CallerKeeps, GuardKeeps, CollectKeeps
<1>11. CASE \E r \in Reqs, u \in Users : Invite(r, u) \/ Remove(r, u)
  BY <1>11, MembersKeep
<1>12. CASE \E r \in Reqs, o \in Orgs : CreateOrganization(r, o)
  BY <1>12, CreateKeeps
<1>13. CASE UNCHANGED vars
  <2>1. UNCHANGED <<orgs, member, account, version, link, token, inbox, session, req, resets, uses>>
    BY <1>13 DEF vars, users, mails, history
  <2>2. Shapes'
    BY <2>1 DEF IInv, Shapes, ResetsKnowTokens, Used
  <2>3. QED
    BY <2>1, <2>2, QuietKeeps
<1>14. QED
  BY <1>1, <1>2, <1>3, <1>4, <1>5, <1>6, <1>7, <1>8, <1>9, <1>10, <1>11, <1>12, <1>13 DEF Next

LEMMA MembershipsAreGood == Spec => []IInv
<1>1. Init => IInv
  BY InitGood
<1>2. IInv /\ [Next]_vars => IInv'
  BY NextKeeps
<1>3. QED
  BY <1>1, <1>2, PTL DEF Spec

-----------------------------------------------------------------------------
(* Theorems *)

\* Whatever get_caller read past the scope, a handler reaches the rows of the
\* organization it was authorized in, and only the metrics those of others.
THEOREM RlsCovers == Spec => []RlsCoversHandlers
<1>1. IInv => RlsCoversHandlers
  BY DEF IInv, TenantsAreGuarded, RlsCoversHandlers, Admits
<1>2. QED
  BY <1>1, MembershipsAreGood, PTL

\* No organization is ever without a membership row.
THEOREM NoOrphan == Spec => []NoOrphanOrganization
<1>1. IInv => NoOrphanOrganization
  BY DEF IInv
<1>2. QED
  BY <1>1, MembershipsAreGood, PTL

\* Whoever has a session was seeded or had the mail of the account.
THEOREM SessionsVerified == Spec => []SessionsAreVerified
<1>1. IInv => SessionsAreVerified
  <2>1. SUFFICES ASSUME IInv, NEW b \in Browsers, session[b] # NoSession
                 PROVE  /\ account[session[b].user] = "verified"
                        /\ Seeded[session[b].user] # {} \/ session[b].user \in inbox
    BY DEF SessionsAreVerified
  <2>2. session[b].user \in Users
    BY <2>1 DEF IInv, Shapes, AnySession
  <2>3. QED
    BY <2>1, <2>2 DEF IInv, UsersAreVerified
<1>2. QED
  BY <1>1, MembershipsAreGood, PTL

\* What MembersChangeByManagers asks of a row.
ChangedByManager(o, u) ==
    /\ member[o][u] # "removed"
    /\ \E r \in Reqs :
          /\ req[r] # Free /\ req'[r] = Free
          /\ \/ req[r].op = "signup" /\ req[r].user = u /\ o = Home[u]
             \/ /\ req[r].op \in DOMAIN TenantPermission /\ req[r].org = o
                /\ HasPermission(req[r].user, "member:manage", o)

\* The sign-up of u changes the row of u in Home[u], which did not exist.
LEMMA SignupChanges ==
    ASSUME IInv, NEW r \in Reqs, SignupCommit(r), NEW o \in Orgs, NEW u \in Users,
           member'[o][u] # member[o][u]
    PROVE  ChangedByManager(o, u)
<1>1. /\ req[r].op = "signup" /\ req[r].flushed /\ member' = Put(Home[req[r].user], req[r].user, "active")
      /\ End(r)
  BY DEF SignupCommit
<1>2. o = Home[u] /\ u = req[r].user
  BY <1>1 DEF Put, IInv, Shapes
<1>3. member[o][u] = "none"
  <2>1. account[u] = "none"
    BY <1>1, <1>2 DEF IInv, NewcomersAreNew
  <2>2. QED
    BY <1>2, <2>1 DEF IInv, NewcomersAreNew, MembersAreSomewhere, Listed
<1>4. req[r] # Free /\ req'[r] = Free
  BY <1>1, EndEffect DEF IInv, Free
<1>5. QED
  BY <1>1, <1>2, <1>3, <1>4 DEF ChangedByManager

LEMMA ManagerChanges ==
    ASSUME IInv, NEW r \in Reqs, NEW v \in Users, Invite(r, v) \/ Remove(r, v),
           NEW o \in Orgs, NEW u \in Users, member'[o][u] # member[o][u]
    PROVE  ChangedByManager(o, u)
<1>1. /\ req[r].op \in DOMAIN TenantPermission /\ TenantPermission[req[r].op] = "member:manage"
      /\ End(r)
  BY DEF Invite, Remove, TenantPermission
<1>2. o = req[r].org /\ u = v
  BY DEF Invite, Remove, Put, IInv, Shapes
<1>3. member[o][u] # "removed"
  BY <1>2 DEF Invite, Remove, Listed, Put, IInv, Shapes
<1>4. HasPermission(req[r].user, "member:manage", o)
  BY <1>1, <1>2 DEF IInv, TenantsAreGuarded
<1>5. req[r] # Free /\ req'[r] = Free
  BY <1>1, EndEffect DEF IInv, Free, TenantPermission
<1>6. QED
  BY <1>1, <1>2, <1>3, <1>4, <1>5 DEF ChangedByManager

\* No other step touches a membership row.
LEMMA MembersStep ==
    ASSUME IInv, [Next]_vars, NEW o \in Orgs, NEW u \in Users, member'[o][u] # member[o][u]
    PROVE  ChangedByManager(o, u)
<1>1. CASE \E r \in Reqs : SignupCommit(r)
  BY <1>1, SignupChanges
<1>2. CASE \E r \in Reqs, v \in Users : Invite(r, v) \/ Remove(r, v)
  BY <1>2, ManagerChanges
<1>3. CASE \E r \in Reqs, p \in Orgs : CreateOrganization(r, p)
  BY <1>3, CreateIsRefused
<1>4. CASE \/ \E r \in Reqs : \/ Abort(r) \/ SignupClash(r) \/ SignupFlush(r) \/ SigninMint(r)
                              \/ SwitchReply(r) \/ ForgotCommit(r) \/ ResetCommit(r) \/ Collect(r)
                              \/ \E v \in Users : SignupCheck(r, v)
                              \/ \E v \in Users, k \in Tokens : ForgotFlush(r, v, k)
                              \/ \E b \in Browsers, v \in Users : SigninRead(r, b, v)
                              \/ \E b \in Browsers, p \in Orgs : SwitchCheck(r, b, p)
                              \/ \E b \in Browsers : GetCaller(r, b)
                              \/ \E op \in DOMAIN TenantPermission : Guard(r, op)
                              \/ ReadMemberships(r) \/ RestoreRls(r)
                              \/ \E k \in Tokens : ResetRead(r, k)
           \/ \E v \in Users : Verify(v) \/ LinkExpires(v)
           \/ \E k \in Tokens : TokenExpires(k)
           \/ \E b \in Browsers : Signout(b)
           \/ UNCHANGED vars
  <2>1. UNCHANGED member
    BY <1>4 DEF Abort, SignupClash, SignupFlush, SigninMint, SwitchReply, ForgotCommit, ResetCommit,
       Collect, SignupCheck, ForgotFlush, SigninRead, SwitchCheck, GetCaller, ReadMemberships, RestoreRls,
       Guard, ResetRead, Verify, LinkExpires, TokenExpires, Signout, vars, users
  <2>2. QED
    BY <2>1
<1>5. QED
  BY <1>1, <1>2, <1>3, <1>4 DEF Next

\* A membership row changes only by the sign-up that brings its organization or
\* by somebody who manages members there, and a removed one never.
THEOREM MembersManaged == Spec => MembersChangeByManagers
<1>1. IInv /\ [Next]_vars =>
         (\A o \in Orgs, u \in Users : member'[o][u] # member[o][u] => ChangedByManager(o, u))
  BY MembersStep
<1>2. IInv /\ [Next]_vars => [\A o \in Orgs, u \in Users : member'[o][u] # member[o][u] =>
         /\ member[o][u] # "removed"
         /\ \E r \in Reqs :
              /\ req[r] # Free /\ req'[r] = Free
              /\ \/ req[r].op = "signup" /\ req[r].user = u /\ o = Home[u]
                 \/ /\ req[r].op \in DOMAIN TenantPermission /\ req[r].org = o
                    /\ HasPermission(req[r].user, "member:manage", o)]_vars
  BY <1>1 DEF ChangedByManager
<1>3. QED
  BY <1>2, MembershipsAreGood, PTL DEF Spec, MembersChangeByManagers

-----------------------------------------------------------------------------
(* Reset tokens that were used *)

\* A token to be has no row yet; a reset in flight holds one that was delivered.
TokensInFlight ==
    /\ uses \in [Tokens -> Nat]
    /\ \A r \in Reqs : req[r].op = "forgot" => token[req[r].token] = NoToken
    /\ \A r, s \in Reqs :
          req[r].op = "forgot" /\ req[s].op = "forgot" /\ req[r].token = req[s].token => r = s
    /\ \A r \in Reqs : req[r].op = "reset" => req[r].token \in inbox

\* A step that touches no token, and no request about one.
LEMMA TokensRest ==
    ASSUME TokensInFlight, UsedTokensAreDead, UNCHANGED <<token, uses>>, inbox \cap Tokens \subseteq inbox',
           \A r \in Reqs : req'[r].op \in {"forgot", "reset"} =>
               req'[r] = req[r] /\ req[r].token \in Tokens
    PROVE  TokensInFlight' /\ UsedTokensAreDead'
BY DEF TokensInFlight, UsedTokensAreDead

\* Requests that end, or stay as they are.
LEMMA OthersRest ==
    ASSUME IInv, TokensInFlight, UsedTokensAreDead, UNCHANGED <<token, inbox, uses>>,
           UNCHANGED req \/ \E r \in Reqs : End(r)
    PROVE  TokensInFlight' /\ UsedTokensAreDead'
<1>1. \A r \in Reqs : req[r].op \in {"forgot", "reset"} => req[r].token \in Tokens
  BY RequestKinds DEF IInv
<1>2. \A r \in Reqs : req'[r].op \in {"forgot", "reset"} => req'[r] = req[r]
  BY EndEffect DEF IInv
<1>3. QED
  BY <1>1, <1>2, TokensRest

\* A token is asked for: only its own mail is at stake.
LEMMA ForgotRests ==
    ASSUME IInv, TokensInFlight, UsedTokensAreDead,
           NEW r \in Reqs, NEW u \in Users, NEW k \in Tokens, ForgotFlush(r, u, k)
    PROVE  TokensInFlight' /\ UsedTokensAreDead'
<1>1. PICK q : q = [op |-> "forgot", user |-> u, token |-> k]
  OBVIOUS
<1>2. q \in AnyRequest /\ q.op = "forgot" /\ q.token = k
  BY <1>1 DEF AnyRequest
<1>3. /\ token[k] = NoToken /\ k \notin inbox /\ req' = [req EXCEPT ![r] = q] /\ Send(k)
      /\ \A s \in Reqs : req[s].op = "forgot" => req[s].token # k
      /\ UNCHANGED <<token, uses>>
  BY <1>1 DEF ForgotFlush, history
<1>4. req'[r] = q /\ \A s \in Reqs : s # r => req'[s] = req[s]
  BY <1>2, <1>3, PutEffect DEF IInv
<1>5. \A j \in Tokens : j \in inbox => j \in inbox'
  BY <1>3 DEF Send
<1>6. \A s \in Reqs : req[s].op = "reset" => req[s].token \in Tokens
  BY RequestKinds DEF IInv
<1>7. TokensInFlight'
  BY <1>2, <1>3, <1>4, <1>5, <1>6 DEF TokensInFlight
<1>8. UsedTokensAreDead'
  BY <1>3, <1>5 DEF UsedTokensAreDead
<1>9. QED
  BY <1>7, <1>8

\* A token gets its row, which nobody can have used.
LEMMA ForgotCommitRests ==
    ASSUME IInv, TokensInFlight, UsedTokensAreDead, NEW r \in Reqs, ForgotCommit(r)
    PROVE  TokensInFlight' /\ UsedTokensAreDead'
<1>1. PICK k \in Tokens : k = req[r].token
  BY RequestKinds DEF ForgotCommit, IInv
<1>2. PICK x : token' = [token EXCEPT ![k] = x]
  BY <1>1 DEF ForgotCommit
<1>3. End(r) /\ UNCHANGED <<inbox, uses>> /\ req[r].op = "forgot" /\ token[k] = NoToken
  BY <1>1 DEF ForgotCommit, history, TokensInFlight
<1>4. /\ req'[r].op = "none" /\ \A s \in Reqs : s # r => req'[s] = req[s]
  BY <1>3, EndEffect DEF IInv
<1>5. \A s \in Reqs : req'[s].op = "forgot" => req[s].op = "forgot" /\ req[s].token \in Tokens /\ req[s].token # k
  BY <1>1, <1>3, <1>4, RequestKinds DEF IInv, TokensInFlight
<1>6. \A j \in Tokens : j # k => token'[j] = token[j]
  BY <1>2 DEF IInv, Shapes
<1>7. TokensInFlight'
  BY <1>3, <1>4, <1>5, <1>6 DEF TokensInFlight
<1>8. UsedTokensAreDead'
  BY <1>3, <1>6 DEF UsedTokensAreDead
<1>9. QED
  BY <1>7, <1>8

\* A token expires.
LEMMA ExpiryRests ==
    ASSUME IInv, TokensInFlight, UsedTokensAreDead, NEW k \in Tokens, TokenExpires(k)
    PROVE  TokensInFlight' /\ UsedTokensAreDead'
<1>1. /\ token[k] # NoToken /\ token' = [token EXCEPT ![k].state = "dead"]
      /\ UNCHANGED <<inbox, req, uses>>
  BY DEF TokenExpires, history
<1>2. token[k] \in AnyToken
  BY <1>1 DEF IInv, Shapes
<1>3. /\ token'[k] = [token[k] EXCEPT !.state = "dead"]
      /\ \A j \in Tokens : j # k => token'[j] = token[j]
  BY <1>1 DEF IInv, Shapes
<1>4. token'[k] \in AnyToken /\ token'[k].state = "dead"
  BY <1>2, <1>3 DEF AnyToken
<1>5. token'[k] # NoToken
  BY <1>4, AccountsAssumption DEF AnyToken
<1>6. \A r \in Reqs : req[r].op = "forgot" => req[r].token \in Tokens /\ req[r].token # k
  BY <1>1, RequestKinds DEF IInv, TokensInFlight
<1>7. TokensInFlight'
  BY <1>1, <1>3, <1>6 DEF TokensInFlight
<1>8. UsedTokensAreDead'
  BY <1>1, <1>3, <1>4, <1>5 DEF UsedTokensAreDead
<1>9. QED
  BY <1>7, <1>8

\* A reset reads its token, which was delivered, and its commit marks it, even
\* if another reset used it in between.
LEMMA ResetRests ==
    ASSUME IInv, TokensInFlight, UsedTokensAreDead, NEW r \in Reqs,
           (\E k \in Tokens : ResetRead(r, k)) \/ ResetCommit(r)
    PROVE  TokensInFlight' /\ UsedTokensAreDead'
<1>1. ASSUME NEW k \in Tokens, ResetRead(r, k)
      PROVE  TokensInFlight' /\ UsedTokensAreDead'
  <2>1. PICK q : q = [op |-> "reset", user |-> token[k].user, token |-> k,
                      sv |-> version[token[k].user], others |-> Live(token[k].user)]
    OBVIOUS
  <2>2. req' = [req EXCEPT ![r] = q] /\ k \in inbox /\ UNCHANGED <<inbox, token, uses>>
    BY <1>1, <2>1 DEF ResetRead, mails, history
  <2>3. q.op = "reset" /\ q.token = k
    BY <2>1
  <2>4. req'[r] = q /\ \A s \in Reqs : s # r => req'[s] = req[s]
    BY <2>2 DEF IInv, Shapes
  <2>5. TokensInFlight'
    BY <2>2, <2>3, <2>4 DEF TokensInFlight
  <2>6. UsedTokensAreDead'
    BY <2>2 DEF UsedTokensAreDead
  <2>7. QED
    BY <2>5, <2>6
<1>2. CASE ResetCommit(r)
  <2>1. PICK q : q = req[r]
    OBVIOUS
  <2>2. /\ q \in [op : {"reset"}, user : Users, token : Tokens, sv : Nat, others : SUBSET Tokens]
        /\ q.token \in inbox
    BY <1>2, <2>1, RequestKinds DEF ResetCommit, IInv, TokensInFlight
  <2>3. PICK k \in Tokens : k = q.token
    BY <2>2
  <2>4. /\ uses' = [uses EXCEPT ![k] = @ + 1] /\ End(r) /\ UNCHANGED inbox
        /\ token' = [j \in Tokens |-> IF j \in Used(q) THEN [token[j] EXCEPT !.state = "dead"]
                                      ELSE token[j]]
    BY <1>2, <2>1, <2>3 DEF ResetCommit
  <2>5. k \in Used(q) /\ Used(q) \subseteq Tokens
    BY <2>2, <2>3 DEF Used
  <2>6. ASSUME NEW j \in Used(q)
        PROVE  token[j] # NoToken /\ token'[j] # NoToken /\ token'[j].state = "dead"
    <3>1. token[j] \in AnyToken /\ token[j] # NoToken
      BY <1>2, <2>1, <2>5 DEF ResetCommit, IInv, Shapes, ResetsKnowTokens
    <3>2. token'[j] \in AnyToken /\ token'[j].state = "dead"
      BY <2>4, <2>5, <3>1 DEF AnyToken
    <3>3. QED
      BY <3>1, <3>2, AccountsAssumption DEF AnyToken
  <2>7. req'[r].op = "none" /\ \A s \in Reqs : s # r => req'[s] = req[s]
    BY <2>4, EndEffect DEF IInv
  <2>8. \A j \in Tokens : j \notin Used(q) => token'[j] = token[j]
    BY <2>4
  <2>9. TokensInFlight'
    <3>1. uses' \in [Tokens -> Nat]
      BY <2>4 DEF TokensInFlight
    <3>2. \A s \in Reqs : req'[s].op = "forgot" =>
              req'[s] = req[s] /\ req[s].token \in Tokens /\ req[s].token \notin Used(q)
      BY <2>6, <2>7, RequestKinds DEF IInv, TokensInFlight
    <3>3. QED
      BY <2>4, <2>7, <2>8, <3>1, <3>2 DEF TokensInFlight
  <2>10. UsedTokensAreDead'
    <3>1. \A j \in Tokens : j # k => uses'[j] = uses[j]
      BY <2>4 DEF TokensInFlight
    <3>2. k \in inbox'
      BY <2>2, <2>3, <2>4
    <3>3. QED
      BY <2>4, <2>5, <2>6, <2>8, <3>1, <3>2 DEF UsedTokensAreDead
  <2>11. QED
    BY <2>9, <2>10
<1>3. QED
  BY <1>1, <1>2

\* Sign-up, sign-in and switch put a request on, or end one.
LEMMA SessionStepsRest ==
    ASSUME IInv, TokensInFlight, UsedTokensAreDead, NEW r \in Reqs,
           \/ \E u \in Users : SignupCheck(r, u)
           \/ SignupFlush(r)
           \/ \E b \in Browsers, u \in Users : SigninRead(r, b, u)
           \/ \E b \in Browsers, o \in Orgs : SwitchCheck(r, b, o)
    PROVE  TokensInFlight' /\ UsedTokensAreDead'
<1>1. UNCHANGED <<token, uses>>
  BY DEF SignupCheck, SignupFlush, SigninRead, SwitchCheck, mails, history
<1>2. inbox \cap Tokens \subseteq inbox'
  <2>1. CASE SignupFlush(r)
    <3>1. req[r].user \in Users
      BY <2>1, RequestKinds DEF SignupFlush, IInv
    <3>2. QED
      BY <2>1, <3>1, IdsAssumption DEF SignupFlush, Send
  <2>2. CASE ~SignupFlush(r)
    BY <2>2 DEF SignupCheck, SigninRead, SwitchCheck, mails
  <2>3. QED
    BY <2>1, <2>2
<1>3. /\ req'[r].op \in {"signup", "signin", "switch"}
      /\ \A s \in Reqs : s # r => req'[s] = req[s]
  <2>1. CASE SignupFlush(r)
    <3>1. req[r] \in [op : {"signup"}, user : Users, flushed : BOOLEAN]
      BY <2>1, RequestKinds DEF SignupFlush, IInv
    <3>2. PICK q : q = [req[r] EXCEPT !.flushed = TRUE]
      OBVIOUS
    <3>3. req' = [req EXCEPT ![r] = q] /\ q.op = "signup"
      BY <2>1, <3>1, <3>2 DEF SignupFlush, IInv, Shapes
    <3>4. QED
      BY <3>3 DEF IInv, Shapes
  <2>2. CASE ~SignupFlush(r)
    BY <2>2 DEF SignupCheck, SigninRead, SwitchCheck, IInv, Shapes
  <2>3. QED
    BY <2>1, <2>2
<1>4. \A s \in Reqs : req[s].op \in {"forgot", "reset"} => req[s].token \in Tokens
  BY RequestKinds DEF IInv
<1>5. \A s \in Reqs : req'[s].op \in {"forgot", "reset"} => req'[s] = req[s]
  BY <1>3
<1>6. QED
  BY <1>1, <1>2, <1>4, <1>5, TokensRest

\* So do the steps from the session to the handler.
LEMMA HandlerStepsRest ==
    ASSUME IInv, TokensInFlight, UsedTokensAreDead, NEW r \in Reqs,
           \/ \E b \in Browsers : GetCaller(r, b)
           \/ \E op \in DOMAIN TenantPermission : Guard(r, op)
           \/ ReadMemberships(r) \/ RestoreRls(r) \/ Collect(r)
    PROVE  TokensInFlight' /\ UsedTokensAreDead'
<1>1. UNCHANGED <<token, inbox, uses>>
  BY DEF GetCaller, Guard, ReadMemberships, RestoreRls, Collect, mails, history
<1>2. DOMAIN TenantPermission = {"invite", "remove", "create", "metrics"}
  BY DEF TenantPermission
<1>3. PICK op \in {"caller"} \cup DOMAIN TenantPermission :
         req'[r].op = op /\ \A s \in Reqs : s # r => req'[s] = req[s]
  <2>1. ASSUME NEW b \in Browsers, GetCaller(r, b)
        PROVE  req'[r].op = "caller" /\ \A s \in Reqs : s # r => req'[s] = req[s]
    BY <2>1 DEF GetCaller, IInv, Shapes
  <2>2. ASSUME NEW op \in DOMAIN TenantPermission, Guard(r, op)
        PROVE  req'[r].op = op /\ \A s \in Reqs : s # r => req'[s] = req[s]
    BY <2>2 DEF Guard, IInv, Shapes
  <2>3. CASE ReadMemberships(r) \/ RestoreRls(r)
    <3>1. req[r] \in Caller
      BY <2>3, RequestKinds DEF ReadMemberships, RestoreRls, Calling, IInv
    <3>2. req'[r].op = "caller" /\ \A s \in Reqs : s # r => req'[s] = req[s]
      BY <2>3, <3>1 DEF ReadMemberships, RestoreRls, Caller, IInv, Shapes
    <3>3. QED
      BY <3>2
  <2>4. CASE Collect(r)
    <3>1. req[r] \in TenantRequest /\ req[r].op = "metrics"
      BY <1>2, <2>4, RequestKinds DEF Collect, IInv
    <3>2. req'[r].op = "metrics" /\ \A s \in Reqs : s # r => req'[s] = req[s]
      BY <2>4, <3>1 DEF Collect, TenantRequest, IInv, Shapes
    <3>3. QED
      BY <1>2, <3>2
  <2>5. QED
    BY <2>1, <2>2, <2>3, <2>4
<1>4. \A s \in Reqs : req[s].op \in {"forgot", "reset"} => req[s].token \in Tokens
  BY RequestKinds DEF IInv
<1>5. \A s \in Reqs : req'[s].op \in {"forgot", "reset"} => req'[s] = req[s]
  BY <1>2, <1>3
<1>6. QED
  BY <1>1, <1>4, <1>5, TokensRest

\* Every step keeps what is claimed of used tokens.
LEMMA TokensKeep ==
    ASSUME IInv, TokensInFlight, UsedTokensAreDead, [Next]_vars
    PROVE  TokensInFlight' /\ UsedTokensAreDead'
<1>1. CASE \/ \E u \in Users : Verify(u) \/ LinkExpires(u)
           \/ \E b \in Browsers : Signout(b)
           \/ UNCHANGED vars
  <2>1. UNCHANGED <<token, uses, inbox, req>>
    BY <1>1 DEF Verify, LinkExpires, Signout, vars, mails, history
  <2>2. QED
    BY <2>1, OthersRest
<1>2. CASE \E r \in Reqs : \/ \E u \in Users : Invite(r, u) \/ Remove(r, u)
                           \/ \E o \in Orgs : CreateOrganization(r, o)
                           \/ SignupClash(r) \/ SignupCommit(r) \/ SigninMint(r) \/ SwitchReply(r) \/ Abort(r)
  <2>1. UNCHANGED <<token, uses, inbox>> /\ \E r \in Reqs : End(r)
    BY <1>2 DEF Invite, Remove, CreateOrganization, SignupClash, SignupCommit, SigninMint, SwitchReply,
       Abort, mails, history
  <2>2. QED
    BY <2>1, OthersRest
<1>3. CASE \E r \in Reqs : \/ \E u \in Users : SignupCheck(r, u)
                           \/ SignupFlush(r)
                           \/ \E b \in Browsers, u \in Users : SigninRead(r, b, u)
                           \/ \E b \in Browsers, o \in Orgs : SwitchCheck(r, b, o)
  BY <1>3, SessionStepsRest
<1>4. CASE \E r \in Reqs : \/ \E b \in Browsers : GetCaller(r, b)
                           \/ \E op \in DOMAIN TenantPermission : Guard(r, op)
                           \/ ReadMemberships(r) \/ RestoreRls(r) \/ Collect(r)
  BY <1>4, HandlerStepsRest
<1>5. CASE \E r \in Reqs : (\E u \in Users, k \in Tokens : ForgotFlush(r, u, k)) \/ ForgotCommit(r)
  BY <1>5, ForgotRests, ForgotCommitRests
<1>6. CASE \E k \in Tokens : TokenExpires(k)
  BY <1>6, ExpiryRests
<1>7. CASE \E r \in Reqs : (\E k \in Tokens : ResetRead(r, k)) \/ ResetCommit(r)
  BY <1>7, ResetRests
<1>8. QED
  BY <1>1, <1>2, <1>3, <1>4, <1>5, <1>6, <1>7 DEF Next

\* Also when resets with the same token overlap, it was delivered, and is dead
\* from the first of their commits on.
THEOREM UsedTokens == Spec => []UsedTokensAreDead
<1>1. Init => TokensInFlight /\ UsedTokensAreDead
  BY DEF Init, TokensInFlight, UsedTokensAreDead, Free
<1>2. IInv /\ TokensInFlight /\ UsedTokensAreDead /\ [Next]_vars => TokensInFlight' /\ UsedTokensAreDead'
  BY TokensKeep
<1>3. QED
  BY <1>1, <1>2, MembershipsAreGood, PTL DEF Spec
=============================================================================
