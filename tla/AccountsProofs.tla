--------------------------- MODULE AccountsProofs ---------------------------
(***************************************************************************)
(* Theorems about Accounts, for any users, organizations, roles, browsers, *)
(* tokens and requests, if no user has a reset in flight beside another    *)
(* one or a switch of organization.  Both conditions are needed:           *)
(* AccountsSwitch.cfg breaks SessionsEndAtReset without the second.        *)
(***************************************************************************)
EXTENDS Accounts, TLAPS

OneResetAtATime == {{"reset"}, {"reset", "switch"}} \subseteq Excluded

-----------------------------------------------------------------------------
(* The inductive invariant *)

\* Every increment counted: no reset was computed from a stale version.
VersionsCountResets == \A u \in Users : version[u] = resets[u]

\* The version of a session, or of a sign-in, is the generation of its password.
SessionsAreHonest ==
    \A b \in Browsers : session[b] # NoSession =>
        session[b].sv = session[b].gen /\ session[b].gen <= resets[session[b].user]

SigninsAreHonest ==
    \A r \in Reqs : req[r].op = "signin" =>
        req[r].sv = req[r].gen /\ req[r].gen <= resets[req[r].user]

\* A browser waits for one answer at a time.
OneAnswerAwaited ==
    \A r, s \in Reqs :
        /\ req[r].op \in {"signin", "switch"} /\ req[s].op \in {"signin", "switch"}
        /\ req[r].browser = req[s].browser
        => r = s

\* A switch goes on for the session it was asked by, of a user who never reset.
SwitchesAreCurrent ==
    \A r \in Reqs : req[r].op = "switch" =>
        /\ session[req[r].browser] # NoSession
        /\ session[req[r].browser].user = req[r].user
        /\ version[req[r].user] = 0

\* What OneResetAtATime gives.
ResetsAreAlone ==
    \A r, s \in Reqs :
        /\ req[r].op = "reset" /\ req[s].op \in {"reset", "switch"}
        /\ req[r].user = req[s].user
        => r = s

\* A reset in flight still knows the version, and its tokens have rows.
ResetsAreCurrent ==
    \A r \in Reqs : req[r].op = "reset" =>
        /\ req[r].sv = version[req[r].user] /\ resets[req[r].user] < MaxResets
        /\ \A k \in Used(req[r]) : token[k] # NoToken

IInv ==
    /\ TypeOK
    /\ VersionsCountResets
    /\ SessionsAreHonest
    /\ SigninsAreHonest
    /\ OneAnswerAwaited
    /\ SwitchesAreCurrent
    /\ ResetsAreAlone
    /\ ResetsAreCurrent

-----------------------------------------------------------------------------
(* Lemmas about requests *)

Core == {"signin", "switch", "reset"}

\* What a request of each operation is.
LEMMA RequestKinds ==
    ASSUME TypeOK, NEW r \in Reqs
    PROVE  /\ req[r].op = "signup" => req[r] \in [op : {"signup"}, user : Users, flushed : BOOLEAN]
           /\ req[r].op = "signin" => req[r] \in [op : {"signin"}, user : Users, browser : Browsers,
                                                  sv : Generation, gen : Generation]
           /\ req[r].op = "switch" => req[r] \in [op : {"switch"}, user : Users, browser : Browsers,
                                                  org : Orgs]
           /\ req[r].op = "forgot" => req[r] \in [op : {"forgot"}, user : Users, token : Tokens]
           /\ req[r].op = "reset" => req[r] \in [op : {"reset"}, user : Users, token : Tokens,
                                                 sv : Generation, others : SUBSET Tokens]
           /\ req[r].op = "caller" => req[r] \in [op : {"caller"}, user : Users, org : Orgs,
                                                  seen : SUBSET Orgs,
                                                  pc : {"bypassing", "read", "resolved"},
                                                  bypass : BOOLEAN]
           /\ req[r].op \in DOMAIN TenantPermission =>
                 req[r] \in [op : DOMAIN TenantPermission, user : Users, org : Orgs, scope : Orgs,
                             bypass : BOOLEAN]
           /\ req[r] # Free => req[r] \in Request
<1>1. req[r] \in Request \cup {Free}
  BY DEF TypeOK
<1>2. DOMAIN TenantPermission = {"invite", "remove", "create", "metrics"}
  BY DEF TenantPermission
<1>3. QED
  BY <1>1, <1>2 DEF Request, Free

\* A request that ends leaves the table typed, and the other requests alone.
LEMMA EndEffect ==
    ASSUME TypeOK, NEW r \in Reqs, End(r)
    PROVE  /\ req' \in [Reqs -> Request \cup {Free}]
           /\ req'[r] = Free /\ Free.op = "none"
           /\ \A s \in Reqs : s # r => req'[s] = req[s]
BY DEF TypeOK, End, Free

\* So does one that starts or goes on.
LEMMA PutEffect ==
    ASSUME TypeOK, NEW r \in Reqs, NEW q \in Request, req' = [req EXCEPT ![r] = q]
    PROVE  /\ req' \in [Reqs -> Request \cup {Free}]
           /\ req'[r] = q
           /\ \A s \in Reqs : s # r => req'[s] = req[s]
BY DEF TypeOK

\* A step that touches no session, token, version or request about them.
LEMMA QuietKeeps ==
    ASSUME IInv, TypeOK', UNCHANGED <<version, session, token, resets, uses>>,
           \A r \in Reqs : req'[r].op \in Core => req'[r] = req[r]
    PROVE  IInv'
<1>1. VersionsCountResets' /\ SessionsAreHonest'
  BY DEF IInv, VersionsCountResets, SessionsAreHonest
<1>2. SigninsAreHonest' /\ OneAnswerAwaited' /\ SwitchesAreCurrent' /\ ResetsAreAlone'
  BY DEF IInv, SigninsAreHonest, OneAnswerAwaited, SwitchesAreCurrent, ResetsAreAlone, Core
<1>3. ResetsAreCurrent'
  BY DEF IInv, ResetsAreCurrent, Core, Used
<1>4. QED
  BY <1>1, <1>2, <1>3 DEF IInv

-----------------------------------------------------------------------------
(* Sign-up, verification, members: one lemma for what they leave typed *)

\* Sign-up in its four steps.
LEMMA SignupKeeps ==
    ASSUME IInv, NEW r \in Reqs,
           (\E u \in Users : SignupCheck(r, u)) \/ SignupFlush(r) \/ SignupClash(r) \/ SignupCommit(r)
    PROVE  IInv'
<1>1. TypeOK
  BY DEF IInv
<1>2. ASSUME NEW u \in Users, SignupCheck(r, u)
      PROVE  IInv'
  <2>1. [op |-> "signup", user |-> u, flushed |-> FALSE] \in Request
    BY DEF Request
  <2>2. /\ req' \in [Reqs -> Request \cup {Free}]
        /\ req'[r] = [op |-> "signup", user |-> u, flushed |-> FALSE]
        /\ \A s \in Reqs : s # r => req'[s] = req[s]
    BY <1>1, <1>2, <2>1, PutEffect DEF SignupCheck
  <2>3. TypeOK'
    BY <1>1, <1>2, <2>2 DEF SignupCheck, TypeOK, users, mails, history
  <2>4. QED
    BY <1>2, <2>2, <2>3, QuietKeeps DEF SignupCheck, users, mails, history, Core
<1>3. CASE SignupFlush(r)
  <2>1. req[r] \in [op : {"signup"}, user : Users, flushed : BOOLEAN]
    BY <1>1, <1>3, RequestKinds DEF SignupFlush
  <2>2. [req[r] EXCEPT !.flushed = TRUE] \in Request /\ [req[r] EXCEPT !.flushed = TRUE].op = "signup"
    BY <2>1 DEF Request
  <2>3. req' = [req EXCEPT ![r] = [req[r] EXCEPT !.flushed = TRUE]]
    BY <1>1, <1>3 DEF SignupFlush, TypeOK
  <2>4. /\ req' \in [Reqs -> Request \cup {Free}]
        /\ req'[r].op = "signup"
        /\ \A s \in Reqs : s # r => req'[s] = req[s]
    BY <1>1, <2>2, <2>3, PutEffect
  <2>5. TypeOK'
    BY <1>1, <1>3, <2>1, <2>4 DEF SignupFlush, Send, TypeOK, users, history
  <2>6. QED
    BY <1>3, <2>4, <2>5, QuietKeeps DEF SignupFlush, users, history, Core
<1>4. CASE SignupClash(r)
  <2>1. /\ req' \in [Reqs -> Request \cup {Free}]
        /\ req'[r].op = "none" /\ \A s \in Reqs : s # r => req'[s] = req[s]
    BY <1>1, <1>4, EndEffect DEF SignupClash
  <2>2. TypeOK'
    BY <1>1, <1>4, <2>1 DEF SignupClash, TypeOK, users, mails, history
  <2>3. QED
    BY <1>4, <2>1, <2>2, QuietKeeps DEF SignupClash, users, mails, history, Core
<1>5. CASE SignupCommit(r)
  <2>1. /\ req' \in [Reqs -> Request \cup {Free}]
        /\ req'[r].op = "none" /\ \A s \in Reqs : s # r => req'[s] = req[s]
    BY <1>1, <1>5, EndEffect DEF SignupCommit
  <2>2. req[r].user \in Users
    BY <1>1, <1>5, RequestKinds DEF SignupCommit
  <2>3. Home[req[r].user] \in Orgs
    BY <2>2, AccountsAssumption
  <2>4. TypeOK'
    BY <1>1, <1>5, <2>1, <2>2, <2>3 DEF SignupCommit, Put, TypeOK, history
  <2>5. QED
    BY <1>5, <2>1, <2>4, QuietKeeps DEF SignupCommit, history, Core
<1>6. QED
  BY <1>2, <1>3, <1>4, <1>5

\* The verification link.
LEMMA VerifyKeeps ==
    ASSUME IInv, NEW u \in Users, Verify(u) \/ LinkExpires(u)
    PROVE  IInv'
<1>1. TypeOK' /\ UNCHANGED <<version, session, token, resets, uses, req>>
  BY DEF IInv, TypeOK, Verify, LinkExpires, users, history
<1>2. QED
  BY <1>1, QuietKeeps

\* The tenant routes, and any request that is given up.
LEMMA TenantKeeps ==
    ASSUME IInv, NEW r \in Reqs,
           \/ \E u \in Users : Invite(r, u) \/ Remove(r, u)
           \/ \E o \in Orgs : CreateOrganization(r, o)
           \/ Abort(r)
    PROVE  IInv'
<1>1. TypeOK
  BY DEF IInv
<1>2. End(r)
  BY DEF Invite, Remove, CreateOrganization, Abort
<1>3. /\ req' \in [Reqs -> Request \cup {Free}]
      /\ req'[r].op = "none" /\ \A s \in Reqs : s # r => req'[s] = req[s]
  BY <1>1, <1>2, EndEffect
<1>4. UNCHANGED <<account, version, mails, session, history>>
  BY DEF Invite, Remove, CreateOrganization, Abort, users
<1>5. orgs' \in SUBSET Orgs /\ member' \in [Orgs -> [Users -> {"none", "invited", "active", "removed"}]]
  <2>1. ASSUME NEW u \in Users, Invite(r, u) \/ Remove(r, u)
        PROVE  orgs' \in SUBSET Orgs /\ member' \in [Orgs -> [Users -> {"none", "invited", "active", "removed"}]]
    <3>1. req[r].org \in Orgs
      BY <1>1, <2>1, RequestKinds DEF Invite, Remove, TenantPermission
    <3>2. PICK status \in {"invited", "removed"} : member' = Put(req[r].org, u, status)
      BY <2>1 DEF Invite, Remove
    <3>3. UNCHANGED orgs
      BY <2>1 DEF Invite, Remove
    <3>4. QED
      BY <1>1, <3>1, <3>2, <3>3 DEF Put, TypeOK
  <2>2. ASSUME NEW o \in Orgs, CreateOrganization(r, o)
        PROVE  orgs' \in SUBSET Orgs /\ member' \in [Orgs -> [Users -> {"none", "invited", "active", "removed"}]]
    <3>1. req[r].user \in Users
      BY <1>1, <2>2, RequestKinds DEF CreateOrganization, TenantPermission
    <3>2. \/ UNCHANGED <<orgs, member>>
          \/ orgs' = orgs \cup {o} /\ member' = Put(o, req[r].user, "active")
      BY <2>2 DEF CreateOrganization
    <3>3. ASSUME NEW u \in Users
          PROVE  Put(o, u, "active") \in [Orgs -> [Users -> {"none", "invited", "active", "removed"}]]
      BY <1>1 DEF Put, TypeOK
    <3>4. orgs \cup {o} \in SUBSET Orgs
      BY <1>1 DEF TypeOK
    <3>5. QED
      BY <1>1, <3>1, <3>2, <3>3, <3>4 DEF TypeOK
  <2>3. CASE Abort(r)
    BY <1>1, <2>3 DEF Abort, users, TypeOK
  <2>4. QED
    BY <2>1, <2>2, <2>3
<1>6. TypeOK'
  BY <1>1, <1>3, <1>4, <1>5 DEF TypeOK, mails, history
<1>7. QED
  BY <1>3, <1>4, <1>6, QuietKeeps DEF mails, history, Core

\* From the session to the handler: get_caller, the guard of a tenant route, and
\* the read of the metrics.
LEMMA GuardKeeps ==
    ASSUME IInv, NEW r \in Reqs,
           \/ \E b \in Browsers : GetCaller(r, b)
           \/ ReadMemberships(r) \/ RestoreRls(r) \/ Collect(r)
           \/ \E op \in DOMAIN TenantPermission : Guard(r, op)
    PROVE  IInv'
<1>1. TypeOK
  BY DEF IInv
<1>2. PICK q \in Request : q.op \notin Core /\ req' = [req EXCEPT ![r] = q]
  <2>1. ASSUME NEW b \in Browsers, GetCaller(r, b)
        PROVE  \E q \in Request : q.op \notin Core /\ req' = [req EXCEPT ![r] = q]
    <3>1. session[b] \in Session
      BY <1>1, <2>1 DEF GetCaller, TypeOK
    <3> DEFINE q == [op |-> "caller", user |-> session[b].user, org |-> session[b].org,
                     seen |-> {}, pc |-> "bypassing", bypass |-> TRUE]
    <3>2. q \in Request
      BY <3>1 DEF Session, Request
    <3>3. q.op \notin Core
      BY DEF Core
    <3>4. req' = [req EXCEPT ![r] = q]
      BY <2>1 DEF GetCaller
    <3>5. QED
      BY <3>2, <3>3, <3>4
  <2>2. CASE ReadMemberships(r) \/ RestoreRls(r)
    <3>1. req[r] \in [op : {"caller"}, user : Users, org : Orgs, seen : SUBSET Orgs,
                      pc : {"bypassing", "read", "resolved"}, bypass : BOOLEAN]
      BY <1>1, <2>2, RequestKinds DEF ReadMemberships, RestoreRls, Calling
    <3>2. PICK seen \in SUBSET Orgs, pc \in {"read", "resolved"}, bypass \in BOOLEAN :
             req' = [req EXCEPT ![r] = [req[r] EXCEPT !.seen = seen, !.pc = pc, !.bypass = bypass]]
      <4>1. CASE ReadMemberships(r)
        <5>1. {o \in Memberships(req[r].user) : req[r].bypass} \in SUBSET Orgs
          BY DEF Memberships
        <5>2. req' = [req EXCEPT ![r] = [req[r] EXCEPT
                 !.seen = {o \in Memberships(req[r].user) : req[r].bypass},
                 !.pc = "read", !.bypass = req[r].bypass]]
          BY <1>1, <3>1, <4>1 DEF ReadMemberships, TypeOK
        <5>3. QED
          BY <3>1, <5>1, <5>2
      <4>2. CASE RestoreRls(r)
        <5>1. req' = [req EXCEPT ![r] = [req[r] EXCEPT
                 !.seen = req[r].seen, !.pc = "resolved", !.bypass = FALSE]]
          BY <1>1, <3>1, <4>2 DEF RestoreRls, TypeOK
        <5>2. req[r].seen \in SUBSET Orgs
          BY <3>1
        <5>3. QED
          BY <5>1, <5>2
      <4>3. QED
        BY <2>2, <4>1, <4>2
    <3> DEFINE q == [req[r] EXCEPT !.seen = seen, !.pc = pc, !.bypass = bypass]
    <3>3. q \in Request /\ q.op = "caller"
      BY <3>1, <3>2 DEF Request
    <3>4. QED
      BY <3>2, <3>3 DEF Core
  <2>3. CASE Collect(r)
    <3>1. req[r] \in [op : DOMAIN TenantPermission, user : Users, org : Orgs, scope : Orgs,
                      bypass : BOOLEAN]
      BY <1>1, <2>3, RequestKinds DEF Collect, TenantPermission
    <3>2. /\ [req[r] EXCEPT !.bypass = TRUE] \in Request
          /\ [req[r] EXCEPT !.bypass = TRUE].op \in DOMAIN TenantPermission
      BY <3>1 DEF Request
    <3>3. req' = [req EXCEPT ![r] = [req[r] EXCEPT !.bypass = TRUE]]
      BY <1>1, <2>3 DEF Collect, TypeOK
    <3>4. \A op \in DOMAIN TenantPermission : op \notin Core
      BY DEF Core, TenantPermission
    <3>5. QED
      BY <3>2, <3>3, <3>4
  <2>4. ASSUME NEW op \in DOMAIN TenantPermission, Guard(r, op)
        PROVE  \E q \in Request : q.op \notin Core /\ req' = [req EXCEPT ![r] = q]
    <3>1. req[r] \in [op : {"caller"}, user : Users, org : Orgs, seen : SUBSET Orgs,
                      pc : {"bypassing", "read", "resolved"}, bypass : BOOLEAN]
      BY <1>1, <2>4, RequestKinds DEF Guard, Calling
    <3> DEFINE q == [op |-> op, user |-> req[r].user, org |-> req[r].org,
                     scope |-> req[r].org, bypass |-> req[r].bypass]
    <3>2. q \in Request
      BY <3>1 DEF Request
    <3>3. q.op \notin Core
      BY DEF Core, TenantPermission
    <3>4. req' = [req EXCEPT ![r] = q]
      BY <2>4 DEF Guard
    <3>5. QED
      BY <3>2, <3>3, <3>4
  <2>5. QED
    BY <2>1, <2>2, <2>3, <2>4
<1>3. /\ req' \in [Reqs -> Request \cup {Free}]
      /\ req'[r] = q /\ \A s \in Reqs : s # r => req'[s] = req[s]
  BY <1>1, <1>2, PutEffect
<1>4. UNCHANGED <<users, mails, session, history>>
  BY DEF GetCaller, ReadMemberships, RestoreRls, Guard, Collect
<1>5. TypeOK'
  BY <1>1, <1>3, <1>4 DEF TypeOK, users, mails, history
<1>6. QED
  BY <1>2, <1>3, <1>4, <1>5, QuietKeeps DEF users, mails, history

-----------------------------------------------------------------------------
(* Sessions *)

\* A session that is signed out, before its browser awaits anything.
LEMMA SignoutKeeps ==
    ASSUME IInv, NEW b \in Browsers, Signout(b)
    PROVE  IInv'
<1>1. /\ session' = [session EXCEPT ![b] = NoSession] /\ ~Waits(b)
      /\ UNCHANGED <<users, mails, req, history>>
  BY DEF Signout
<1>2. session'[b] = NoSession /\ \A c \in Browsers : c # b => session'[c] = session[c]
  BY <1>1 DEF IInv, TypeOK
<1>3. TypeOK'
  BY <1>1 DEF IInv, TypeOK, users, mails, history
<1>4. SessionsAreHonest'
  BY <1>1, <1>2 DEF IInv, SessionsAreHonest, history
<1>5. SwitchesAreCurrent'
  <2>1. \A r \in Reqs : req[r].op = "switch" => req[r].browser # b /\ req[r].browser \in Browsers
    BY <1>1, RequestKinds DEF IInv, Waits
  <2>2. QED
    BY <1>1, <1>2, <2>1 DEF IInv, SwitchesAreCurrent, users
<1>6. /\ VersionsCountResets' /\ SigninsAreHonest' /\ OneAnswerAwaited' /\ ResetsAreAlone'
      /\ ResetsAreCurrent'
  BY <1>1 DEF IInv, VersionsCountResets, SigninsAreHonest, OneAnswerAwaited, ResetsAreAlone, ResetsAreCurrent, Used,
     users, mails, history
<1>7. QED
  BY <1>3, <1>4, <1>5, <1>6 DEF IInv

\* A sign-in reads version and password of one row.
LEMMA SigninReadKeeps ==
    ASSUME IInv, NEW r \in Reqs, NEW b \in Browsers, NEW u \in Users, SigninRead(r, b, u)
    PROVE  IInv'
<1> DEFINE q == [op |-> "signin", user |-> u, browser |-> b, sv |-> version[u], gen |-> resets[u]]
<1>1. TypeOK /\ ~Waits(b) /\ req' = [req EXCEPT ![r] = q] /\ UNCHANGED <<users, mails, session, history>>
  BY DEF IInv, SigninRead
<1>2. q \in Request
  BY <1>1 DEF TypeOK, Request
<1>3. q.op = "signin" /\ q.user = u /\ q.browser = b /\ q.sv = version[u] /\ q.gen = resets[u]
  OBVIOUS
<1> HIDE DEF q
<1>4. /\ req' \in [Reqs -> Request \cup {Free}]
      /\ req'[r] = q /\ \A s \in Reqs : s # r => req'[s] = req[s]
  BY <1>1, <1>2, PutEffect
<1>5. TypeOK'
  BY <1>1, <1>4 DEF TypeOK, users, mails, history
<1>6. SigninsAreHonest'
  <2>1. q.sv = q.gen /\ q.gen <= resets[u]
    BY <1>1, <1>3 DEF IInv, VersionsCountResets, TypeOK, Generation
  <2>2. QED
    BY <1>1, <1>3, <1>4, <2>1 DEF IInv, SigninsAreHonest, history
<1>7. OneAnswerAwaited'
  BY <1>1, <1>3, <1>4 DEF IInv, OneAnswerAwaited, Waits
<1>8. SwitchesAreCurrent' /\ ResetsAreAlone' /\ ResetsAreCurrent'
  BY <1>1, <1>3, <1>4 DEF IInv, SwitchesAreCurrent, ResetsAreAlone, ResetsAreCurrent,
     Used, users, mails, history
<1>9. VersionsCountResets' /\ SessionsAreHonest'
  BY <1>1 DEF IInv, VersionsCountResets, SessionsAreHonest,
     users, mails, history
<1>10. QED
  BY <1>5, <1>6, <1>7, <1>8, <1>9 DEF IInv

\* The answer of a sign-in or a switch: a session that is honest, in a browser
\* that awaits nothing else.
LEMMA AnswerKeeps ==
    ASSUME IInv, NEW r \in Reqs, req[r].op \in {"signin", "switch"}, End(r),
           NEW s \in Session, session' = [session EXCEPT ![req[r].browser] = s],
           s.sv = s.gen, s.gen <= resets[s.user],
           UNCHANGED <<users, mails, history>>
    PROVE  IInv'
<1>1. TypeOK
  BY DEF IInv
<1>2. /\ req' \in [Reqs -> Request \cup {Free}]
      /\ req'[r].op = "none" /\ \A t \in Reqs : t # r => req'[t] = req[t]
  BY <1>1, EndEffect
<1>3. req[r].browser \in Browsers
  BY <1>1, RequestKinds
<1>4. /\ session'[req[r].browser] = s
      /\ \A c \in Browsers : c # req[r].browser => session'[c] = session[c]
  BY <1>1, <1>3 DEF TypeOK
<1>5. TypeOK'
  BY <1>1, <1>2, <1>3 DEF TypeOK, users, mails, history
<1>6. SessionsAreHonest'
  BY <1>4 DEF IInv, SessionsAreHonest, history
<1>7. SwitchesAreCurrent'
  <2>1. ASSUME NEW t \in Reqs, req'[t].op = "switch"
        PROVE  /\ req'[t] = req[t] /\ req[t].op = "switch" /\ req[t].browser \in Browsers
               /\ req[t].browser # req[r].browser
    BY <1>1, <1>2, <2>1, RequestKinds DEF IInv, OneAnswerAwaited
  <2>2. QED
    BY <1>4, <2>1 DEF IInv, SwitchesAreCurrent, users
<1>8. SigninsAreHonest' /\ OneAnswerAwaited' /\ ResetsAreAlone' /\ ResetsAreCurrent'
  BY <1>2 DEF IInv, SigninsAreHonest, OneAnswerAwaited, ResetsAreAlone,
     ResetsAreCurrent, Used, users, mails, history
<1>9. VersionsCountResets'
  BY DEF IInv, VersionsCountResets,
     users, mails, history
<1>10. QED
  BY <1>5, <1>6, <1>7, <1>8, <1>9 DEF IInv

\* The answer of a sign-in.
LEMMA SigninMintKeeps ==
    ASSUME IInv, NEW r \in Reqs, SigninMint(r)
    PROVE  IInv'
<1>1. TypeOK /\ req[r].op = "signin" /\ End(r) /\ UNCHANGED <<users, mails, history>>
  BY DEF IInv, SigninMint
<1>2. PICK o \in Memberships(req[r].user) : session' = [session EXCEPT ![req[r].browser] =
          [user |-> req[r].user, org |-> o, sv |-> req[r].sv, gen |-> req[r].gen]]
  BY DEF SigninMint
<1> DEFINE s == [user |-> req[r].user, org |-> o, sv |-> req[r].sv, gen |-> req[r].gen]
<1>3. s \in Session
  BY <1>1, RequestKinds DEF Session, Memberships
<1>4. s.user = req[r].user /\ s.sv = req[r].sv /\ s.gen = req[r].gen
  OBVIOUS
<1>5. session' = [session EXCEPT ![req[r].browser] = s]
  BY <1>2
<1> HIDE DEF s
<1>6. s.sv = s.gen /\ s.gen <= resets[s.user]
  BY <1>1, <1>4 DEF IInv, SigninsAreHonest
<1>7. QED
  BY <1>1, <1>3, <1>5, <1>6, AnswerKeeps

\* A switch starts without a reset in flight.
LEMMA SwitchCheckKeeps ==
    ASSUME OneResetAtATime, IInv, NEW r \in Reqs, NEW b \in Browsers, NEW o \in Orgs, SwitchCheck(r, b, o)
    PROVE  IInv'
<1> DEFINE u == session[b].user
           q == [op |-> "switch", user |-> u, browser |-> b, org |-> o]
<1>1. /\ TypeOK /\ session[b] # NoSession /\ ~Waits(b) /\ MayStart(r, "switch", u) /\ version[u] = 0
      /\ req' = [req EXCEPT ![r] = q] /\ UNCHANGED <<users, mails, session, history>>
  BY DEF IInv, SwitchCheck
<1>2. session[b] \in Session /\ u \in Users
  BY <1>1 DEF TypeOK, Session
<1>3. q \in Request
  BY <1>2 DEF Request
<1>4. q.op = "switch" /\ q.user = u /\ q.browser = b
  OBVIOUS
<1> HIDE DEF q
<1>5. /\ req' \in [Reqs -> Request \cup {Free}]
      /\ req'[r] = q /\ \A s \in Reqs : s # r => req'[s] = req[s]
  BY <1>1, <1>3, PutEffect
<1>6. TypeOK'
  BY <1>1, <1>5 DEF TypeOK, users, mails, history
<1>7. OneAnswerAwaited'
  BY <1>1, <1>4, <1>5 DEF IInv, OneAnswerAwaited, Waits
<1>8. SwitchesAreCurrent'
  BY <1>1, <1>4, <1>5 DEF IInv, SwitchesAreCurrent, users
<1>9. ResetsAreAlone'
  <2>1. \A s \in Reqs : req[s].op = "reset" => req[s].user # u
    <3>1. {"reset", "switch"} \in Excluded
      BY DEF OneResetAtATime
    <3>2. \A s \in Reqs : req[s].op = "reset" => req[s] # Free
      BY DEF Free
    <3>3. {"switch", "reset"} = {"reset", "switch"}
      OBVIOUS
    <3>4. QED
      BY <1>1, <3>1, <3>2, <3>3 DEF MayStart
  <2>2. QED
    BY <1>4, <1>5, <2>1 DEF IInv, ResetsAreAlone
<1>10. SigninsAreHonest' /\ ResetsAreCurrent'
  BY <1>1, <1>4, <1>5 DEF IInv, SigninsAreHonest, ResetsAreCurrent,
     Used, users, mails, history
<1>11. VersionsCountResets' /\ SessionsAreHonest'
  BY <1>1 DEF IInv, VersionsCountResets, SessionsAreHonest,
     users, mails, history
<1>12. QED
  BY <1>6, <1>7, <1>8, <1>9, <1>10, <1>11 DEF IInv

\* The answer of a switch: nobody reset since it was asked, so the version that
\* it brings is the one of the password.
LEMMA SwitchReplyKeeps ==
    ASSUME IInv, NEW r \in Reqs, SwitchReply(r)
    PROVE  IInv'
<1> DEFINE b == req[r].browser
           s == [session[b] EXCEPT !.org = req[r].org, !.sv = version[req[r].user]]
<1>1. /\ TypeOK /\ req[r].op = "switch" /\ End(r) /\ UNCHANGED <<users, mails, history>>
      /\ session' = [session EXCEPT ![b].org = req[r].org, ![b].sv = version[req[r].user]]
  BY DEF IInv, SwitchReply
<1>2. b \in Browsers /\ req[r].user \in Users /\ req[r].org \in Orgs
  BY <1>1, RequestKinds
<1>3. session[b] \in Session /\ session[b].user = req[r].user /\ version[req[r].user] = 0
  BY <1>1, <1>2 DEF IInv, SwitchesAreCurrent, TypeOK
<1>4. session' = [session EXCEPT ![b] = s]
  BY <1>1, <1>2 DEF TypeOK
<1>5. s \in Session /\ s.user = session[b].user /\ s.sv = 0 /\ s.gen = session[b].gen
  BY <1>1, <1>2, <1>3 DEF Session, TypeOK
<1>6. session[b].gen <= resets[session[b].user] /\ session[b].gen \in Nat
  <2>1. session[b] # NoSession
    BY <1>3, AccountsAssumption DEF Session, IInv, SwitchesAreCurrent, Generation
  <2>2. QED
    BY <1>2, <1>3, <2>1, AccountsAssumption DEF IInv, SessionsAreHonest, Session, Generation
<1>7. resets[session[b].user] = 0
  BY <1>2, <1>3 DEF IInv, VersionsCountResets
<1> HIDE DEF s
<1>8. s.sv = s.gen /\ s.gen <= resets[s.user]
  BY <1>5, <1>6, <1>7
<1>9. QED
  BY <1>1, <1>4, <1>5, <1>8, AnswerKeeps

-----------------------------------------------------------------------------
(* Reset tokens *)

\* An expired token is dead, and live tokens are fewer.
LEMMA TokenExpiresKeeps ==
    ASSUME IInv, NEW k \in Tokens, TokenExpires(k)
    PROVE  IInv'
<1>1. /\ TypeOK /\ token[k] # NoToken /\ token' = [token EXCEPT ![k].state = "dead"]
      /\ UNCHANGED <<users, link, inbox, session, req, history>>
  BY DEF IInv, TokenExpires
<1>2. token[k] \in ResetToken
  BY <1>1 DEF TypeOK
<1>3. /\ token'[k] = [token[k] EXCEPT !.state = "dead"]
      /\ \A j \in Tokens : j # k => token'[j] = token[j]
  BY <1>1 DEF TypeOK
<1>4. /\ token'[k] \in ResetToken /\ token'[k].state = "dead" /\ token'[k].user = token[k].user
      /\ token'[k] # NoToken
  <2>1. token'[k] \in ResetToken /\ token'[k].state = "dead" /\ token'[k].user = token[k].user
    BY <1>2, <1>3 DEF ResetToken
  <2>2. NoToken \notin ResetToken
    BY AccountsAssumption DEF ResetToken, Generation
  <2>3. QED
    BY <2>1, <2>2
<1>5. TypeOK'
  BY <1>1, <1>3, <1>4 DEF TypeOK, users, history
<1>6. ResetsAreCurrent'
  <2>1. ASSUME NEW r \in Reqs, req[r].op = "reset"
        PROVE  Used(req[r]) \subseteq Tokens
    BY <1>1, <2>1, RequestKinds DEF Used
  <2>2. QED
    BY <1>1, <1>3, <1>4, <2>1 DEF IInv, ResetsAreCurrent, users, history, Used
<1>7. /\ VersionsCountResets' /\ SessionsAreHonest' /\ SigninsAreHonest' /\ OneAnswerAwaited'
      /\ SwitchesAreCurrent' /\ ResetsAreAlone'
  BY <1>1 DEF IInv, VersionsCountResets, SessionsAreHonest, SigninsAreHonest, OneAnswerAwaited,
     SwitchesAreCurrent, ResetsAreAlone, users, history
<1>8. QED
  BY <1>5, <1>6, <1>7 DEF IInv

\* What MayStart says of the requests there are.
LEMMA NothingExcluded ==
    ASSUME IInv, NEW r \in Reqs, NEW op, NEW u, MayStart(r, op, u),
           NEW other, other # "none", {op, other} \in Excluded
    PROVE  \A s \in Reqs : req[s].op = other => req[s].user # u
BY DEF MayStart, Free

\* A request for a token, and its mail.
LEMMA ForgotFlushKeeps ==
    ASSUME IInv, NEW r \in Reqs, NEW u \in Users, NEW k \in Tokens, ForgotFlush(r, u, k)
    PROVE  IInv'
<1> DEFINE q == [op |-> "forgot", user |-> u, token |-> k]
<1>1. /\ TypeOK /\ req' = [req EXCEPT ![r] = q] /\ Send(k)
      /\ UNCHANGED <<users, link, token, session, history>>
  BY DEF IInv, ForgotFlush
<1>2. q \in Request /\ q.op = "forgot"
  BY DEF Request
<1> HIDE DEF q
<1>3. /\ req' \in [Reqs -> Request \cup {Free}]
      /\ req'[r] = q /\ \A s \in Reqs : s # r => req'[s] = req[s]
  BY <1>1, <1>2, PutEffect
<1>4. inbox' \in SUBSET (Users \cup Tokens)
  BY <1>1 DEF Send, TypeOK
<1>5. TypeOK'
  BY <1>1, <1>3, <1>4 DEF TypeOK, users, history
<1>6. QED
  BY <1>1, <1>2, <1>3, <1>5, QuietKeeps DEF users, history, Core

\* The row of a token, which no version and no session depends on.
LEMMA ForgotCommitKeeps ==
    ASSUME IInv, NEW r \in Reqs, ForgotCommit(r)
    PROVE  IInv'
<1>1. PICK k \in Tokens, u \in Users : k = req[r].token /\ u = req[r].user
  BY RequestKinds DEF ForgotCommit, IInv
<1> DEFINE new == [user |-> u, state |-> "live", gen |-> resets[u]]
<1>2. /\ TypeOK /\ token' = [token EXCEPT ![k] = new] /\ End(r)
      /\ UNCHANGED <<users, link, inbox, session, history>>
  BY <1>1 DEF IInv, ForgotCommit
<1>3. new \in ResetToken /\ new # NoToken
  <2>1. new \in ResetToken
    BY <1>2 DEF ResetToken, TypeOK
  <2>2. NoToken \notin ResetToken
    BY AccountsAssumption DEF ResetToken, Generation
  <2>3. QED
    BY <2>1, <2>2
<1> HIDE DEF new
<1>4. token'[k] = new /\ \A j \in Tokens : j # k => token'[j] = token[j]
  BY <1>2 DEF TypeOK
<1>5. /\ req' \in [Reqs -> Request \cup {Free}]
      /\ req'[r].op = "none" /\ \A t \in Reqs : t # r => req'[t] = req[t]
  BY <1>2, EndEffect
<1>6. TypeOK'
  BY <1>2, <1>3, <1>4, <1>5 DEF TypeOK, users, history
<1>7. ResetsAreCurrent'
  <2>1. ASSUME NEW t \in Reqs, req'[t].op = "reset"
        PROVE  req'[t] = req[t] /\ req[t].op = "reset" /\ Used(req[t]) \subseteq Tokens
    BY <1>2, <1>5, <2>1, RequestKinds DEF Used
  <2>2. QED
    BY <1>2, <1>3, <1>4, <2>1 DEF IInv, ResetsAreCurrent, users, history
<1>8. /\ VersionsCountResets' /\ SessionsAreHonest' /\ SigninsAreHonest' /\ OneAnswerAwaited'
      /\ SwitchesAreCurrent' /\ ResetsAreAlone'
  BY <1>2, <1>5 DEF IInv, VersionsCountResets, SessionsAreHonest, SigninsAreHonest, OneAnswerAwaited,
     SwitchesAreCurrent, ResetsAreAlone, users, history
<1>9. QED
  BY <1>6, <1>7, <1>8 DEF IInv

\* A reset starts alone, with the rows of its tokens.
LEMMA ResetReadKeeps ==
    ASSUME OneResetAtATime, IInv, NEW r \in Reqs, NEW k \in Tokens, ResetRead(r, k)
    PROVE  IInv'
<1>1. PICK u \in Users : u = token[k].user
  BY DEF ResetRead, IInv, TypeOK, ResetToken
<1> DEFINE q == [op |-> "reset", user |-> u, token |-> k, sv |-> version[u], others |-> Live(u)]
<1>2. /\ TypeOK /\ token[k] # NoToken /\ token[k].state = "live"
      /\ MayStart(r, "reset", u) /\ resets[u] < MaxResets
      /\ req' = [req EXCEPT ![r] = q] /\ UNCHANGED <<users, mails, session, history>>
  BY <1>1 DEF IInv, ResetRead
<1>3. q \in Request
  BY <1>2 DEF Request, TypeOK, Live
<1>4. /\ q.op = "reset" /\ q.user = u /\ q.token = k /\ q.sv = version[u]
      /\ Used(q) = Live(u) \cup {k}
  BY DEF Used
<1> HIDE DEF q
<1>5. /\ req' \in [Reqs -> Request \cup {Free}]
      /\ req'[r] = q /\ \A s \in Reqs : s # r => req'[s] = req[s]
  BY <1>2, <1>3, PutEffect
<1>6. TypeOK'
  BY <1>2, <1>5 DEF TypeOK, users, mails, history
<1>7. ResetsAreAlone'
  <2>1. {"reset", "reset"} = {"reset"}
    OBVIOUS
  <2>2. {"reset", "reset"} \in Excluded /\ {"reset", "switch"} \in Excluded
    BY <2>1 DEF OneResetAtATime
  <2>3. ASSUME NEW other \in {"reset", "switch"}
        PROVE  \A s \in Reqs : req[s].op = other => req[s].user # u
    <3>1. other # "none" /\ {"reset", other} \in Excluded
      BY <2>2
    <3>2. QED
      BY <1>2, <3>1, NothingExcluded
  <2>4. QED
    BY <1>4, <1>5, <2>3 DEF IInv, ResetsAreAlone
<1>8. ResetsAreCurrent'
  <2>1. \A j \in Used(q) : token[j] # NoToken
    BY <1>2, <1>4 DEF Live
  <2>2. ASSUME NEW s \in Reqs, req'[s].op = "reset"
        PROVE  /\ req'[s].sv = version[req'[s].user] /\ resets[req'[s].user] < MaxResets
               /\ \A j \in Used(req'[s]) : token[j] # NoToken
    <3>1. CASE s = r
      BY <1>1, <1>2, <1>4, <1>5, <2>1, <3>1
    <3>2. CASE s # r
      BY <1>5, <2>2, <3>2 DEF IInv, ResetsAreCurrent
    <3>3. QED
      BY <3>1, <3>2
  <2>3. UNCHANGED <<version, resets, token>>
    BY <1>2 DEF users, mails, history
  <2>4. QED
    BY <2>2, <2>3 DEF ResetsAreCurrent, Used
<1>9. SigninsAreHonest' /\ OneAnswerAwaited' /\ SwitchesAreCurrent'
  BY <1>2, <1>4, <1>5 DEF IInv, SigninsAreHonest, OneAnswerAwaited, SwitchesAreCurrent,
     users, mails, history
<1>10. VersionsCountResets' /\ SessionsAreHonest'
  BY <1>2 DEF IInv, VersionsCountResets, SessionsAreHonest,
     users, mails, history
<1>11. QED
  BY <1>6, <1>7, <1>8, <1>9, <1>10 DEF IInv

\* The commit of a reset: the version follows the resets.
LEMMA ResetCommitKeeps ==
    ASSUME IInv, NEW r \in Reqs, ResetCommit(r)
    PROVE  IInv'
<1>1. PICK q : q = req[r]
  OBVIOUS
<1>2. PICK u \in Users, k \in Tokens : u = q.user /\ k = q.token
  BY <1>1, RequestKinds DEF ResetCommit, IInv
<1>3. /\ TypeOK /\ q.op = "reset" /\ q = req[r] /\ Used(q) \subseteq Tokens /\ k \in Used(q)
      /\ q.sv = version[u] /\ resets[u] < MaxResets
      /\ \A j \in Used(q) : token[j] # NoToken
  BY <1>1, <1>2, RequestKinds DEF IInv, ResetCommit, ResetsAreCurrent, Used
<1>4. /\ version' = [version EXCEPT ![u] = version[u] + 1]
      /\ token' = [j \in Tokens |-> IF j \in Used(q) THEN [token[j] EXCEPT !.state = "dead"] ELSE token[j]]
      /\ resets' = [resets EXCEPT ![u] = resets[u] + 1]
      /\ uses' = [uses EXCEPT ![k] = uses[k] + 1]
      /\ End(r)
      /\ UNCHANGED <<orgs, member, account, link, inbox, session>>
  BY <1>1, <1>2, <1>3 DEF ResetCommit
<1>5. /\ req' \in [Reqs -> Request \cup {Free}]
      /\ req'[r].op = "none" /\ \A t \in Reqs : t # r => req'[t] = req[t]
  BY <1>3, <1>4, EndEffect
<1>6. /\ version[u] = resets[u] /\ resets[u] \in Nat
      /\ version'[u] = version[u] + 1 /\ resets'[u] = resets[u] + 1
      /\ \A v \in Users : v # u => version'[v] = version[v] /\ resets'[v] = resets[v]
  BY <1>3, <1>4, AccountsAssumption DEF IInv, VersionsCountResets, TypeOK, Generation
<1>7. ASSUME NEW j \in Tokens
      PROVE  /\ j \in Used(q) => token'[j] \in ResetToken /\ token'[j] # NoToken
             /\ j \notin Used(q) => token'[j] = token[j]
  <2>1. token[j] \in ResetToken \cup {NoToken}
    BY <1>3 DEF TypeOK
  <2>2. j \in Used(q) => token[j] \in ResetToken /\ token'[j] = [token[j] EXCEPT !.state = "dead"]
    BY <1>3, <1>4, <2>1
  <2>3. NoToken \notin ResetToken
    BY AccountsAssumption DEF ResetToken, Generation
  <2>4. j \in Used(q) => token'[j] \in ResetToken
    BY <2>2 DEF ResetToken
  <2>5. QED
    BY <1>4, <2>3, <2>4
<1>8. TypeOK'
  <2>1. token' \in [Tokens -> ResetToken \cup {NoToken}]
    BY <1>3, <1>4, <1>7 DEF TypeOK
  <2>2. version' \in [Users -> Generation] /\ resets' \in [Users -> Generation]
    BY <1>3, <1>4, <1>6, AccountsAssumption DEF TypeOK, Generation
  <2>3. uses' \in [Tokens -> Nat]
    BY <1>3, <1>4 DEF TypeOK
  <2>4. QED
    BY <1>3, <1>4, <1>5, <2>1, <2>2, <2>3 DEF TypeOK
<1>9. VersionsCountResets'
  BY <1>6 DEF IInv, VersionsCountResets
<1>10. ASSUME NEW v \in Users
       PROVE  resets[v] \in Nat /\ resets'[v] >= resets[v]
  <2>1. resets[v] \in Nat
    BY <1>3, AccountsAssumption DEF TypeOK, Generation
  <2>2. resets'[v] = resets[v] \/ resets'[v] = resets[v] + 1
    BY <1>6
  <2>3. QED
    BY <2>1, <2>2
<1>11. SessionsAreHonest'
  <2>1. ASSUME NEW b \in Browsers, session[b] # NoSession
        PROVE  session[b].user \in Users /\ session[b].gen \in Nat
    BY <1>3, <2>1, AccountsAssumption DEF TypeOK, Session, Generation
  <2>2. QED
    BY <1>4, <1>8, <1>10, <2>1, AccountsAssumption DEF IInv, SessionsAreHonest, TypeOK, Generation
<1>12. SigninsAreHonest'
  <2>1. ASSUME NEW t \in Reqs, req'[t].op = "signin"
        PROVE  /\ req'[t] = req[t] /\ req[t].op = "signin" /\ req[t].user \in Users /\ req[t].gen \in Nat
    BY <1>3, <1>5, <2>1, RequestKinds, AccountsAssumption DEF Generation
  <2>2. QED
    BY <1>8, <1>10, <2>1, AccountsAssumption DEF IInv, SigninsAreHonest, TypeOK, Generation
<1>13. OneAnswerAwaited' /\ ResetsAreAlone'
  BY <1>5 DEF IInv, OneAnswerAwaited, ResetsAreAlone
<1>14. ASSUME NEW t \in Reqs, req'[t].op \in {"reset", "switch"}
       PROVE  req'[t] = req[t] /\ req[t].user \in Users /\ req[t].user # u
  <2>1. t # r /\ req'[t] = req[t]
    BY <1>5, <1>14
  <2>2. req[t].user # u
    BY <1>2, <1>3, <1>14, <2>1 DEF IInv, ResetsAreAlone
  <2>3. QED
    BY <1>3, <1>14, <2>1, <2>2, RequestKinds
<1>15. SwitchesAreCurrent'
  BY <1>4, <1>6, <1>14 DEF IInv, SwitchesAreCurrent
<1>16. ResetsAreCurrent'
  <2>1. ASSUME NEW t \in Reqs, req'[t].op = "reset"
        PROVE  /\ req'[t] = req[t] /\ req[t].op = "reset" /\ req[t].user \in Users /\ req[t].user # u
               /\ Used(req[t]) \subseteq Tokens
    BY <1>3, <1>14, <2>1, RequestKinds DEF Used
  <2>2. QED
    BY <1>6, <1>7, <2>1 DEF IInv, ResetsAreCurrent
<1>17. QED
  BY <1>8, <1>9, <1>11, <1>12, <1>13, <1>15, <1>16 DEF IInv

-----------------------------------------------------------------------------
(* The invariant *)

\* The invariant holds at the start.
LEMMA InitGood == ASSUME Init PROVE IInv
<1>1. TypeOK
  BY AccountsAssumption DEF Init, TypeOK, Generation
<1>2. /\ VersionsCountResets /\ SessionsAreHonest /\ SigninsAreHonest /\ OneAnswerAwaited
      /\ SwitchesAreCurrent /\ ResetsAreAlone /\ ResetsAreCurrent
     
  BY DEF Init, Free, VersionsCountResets, SessionsAreHonest, SigninsAreHonest, OneAnswerAwaited,
     SwitchesAreCurrent, ResetsAreAlone, ResetsAreCurrent
<1>3. QED
  BY <1>1, <1>2 DEF IInv

\* Every step keeps the invariant.
LEMMA NextKeeps == ASSUME OneResetAtATime, IInv, [Next]_vars PROVE IInv'
<1>1. CASE UNCHANGED vars
  <2>1. TypeOK' /\ UNCHANGED <<version, session, token, resets, uses, req>>
    BY <1>1 DEF vars, users, mails, history, IInv, TypeOK
  <2>2. QED
    BY <2>1, QuietKeeps
<1>2. CASE Next
  BY <1>2, SignupKeeps, VerifyKeeps, TenantKeeps, GuardKeeps, SignoutKeeps, SigninReadKeeps, SigninMintKeeps,
     SwitchCheckKeeps, SwitchReplyKeeps, TokenExpiresKeeps, ForgotFlushKeeps, ForgotCommitKeeps,
     ResetReadKeeps, ResetCommitKeeps DEF Next
<1>3. QED
  BY <1>1, <1>2

\* The invariant holds throughout.
LEMMA AccountsAreGood == ASSUME OneResetAtATime PROVE Spec => []IInv
<1>1. Init => IInv
  BY InitGood
<1>2. IInv /\ [Next]_vars => IInv'
  BY NextKeeps
<1>3. QED
  BY <1>1, <1>2, PTL DEF Spec

-----------------------------------------------------------------------------
(* Theorems *)

\* Type correctness, which needs the counts of resets to stay in step.
THEOREM Types == ASSUME OneResetAtATime PROVE Spec => []TypeOK
<1>1. IInv => TypeOK
  BY DEF IInv
<1>2. QED
  BY <1>1, AccountsAreGood, PTL

\* A session that is still accepted was opened with the password there is now.
THEOREM SessionsEnd == ASSUME OneResetAtATime PROVE Spec => []SessionsEndAtReset
<1>1. IInv => SessionsEndAtReset
  <2>1. SUFFICES ASSUME IInv, NEW b \in Browsers, session[b] # NoSession,
                        session[b].sv = version[session[b].user]
                 PROVE  session[b].gen = resets[session[b].user]
    BY DEF SessionsEndAtReset
  <2>2. session[b].user \in Users
    BY <2>1 DEF IInv, TypeOK, Session
  <2>3. QED
    BY <2>1, <2>2 DEF IInv, SessionsAreHonest, VersionsCountResets
<1>2. QED
  BY <1>1, AccountsAreGood, PTL
=============================================================================
