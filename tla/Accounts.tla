----------------------------- MODULE Accounts -----------------------------
(***************************************************************************)
(* Accounts, their login methods, their sessions and the repository grants *)
(* they hold at Git providers (src/backend/src/access and                  *)
(* src/backend/src/external_repositories).                                 *)
(*                                                                         *)
(* A request is a handler at one of its awaits: a read, a transaction or a *)
(* call of a provider is a step.  The rows of one request's transaction    *)
(* are locked in the order of its statements and written at its commit.  A *)
(* request that answers, fails or rolls back is idle again.                *)
(*                                                                         *)
(* An account is named by its email, which is unique and never updated.  A *)
(* secret is an access token and a refresh token, numbered in the order    *)
(* the providers issued them; 0 is no refresh token.                       *)
(***************************************************************************)
EXTENDS Integers, Sequences, FiniteSets

CONSTANTS
    Users,             \* accounts, by email
    Established,       \* the account that exists in the beginning
    Bootstrap,         \* the email of the bootstrap administrator
    Oidc, Providers,   \* login authorities: the OIDC issuer, the Git providers
    Externals,         \* accounts at the authorities
    AuthorityOf,       \* the authority each of them is at
    Requests,          \* handlers that run at the same time
    None,
    MaxRequests,       \* requests, expiries and revocations that ever happen
    MaxTokens          \* tokens that are ever issued

ASSUME ExternalsAssumption == AuthorityOf \in [Externals -> Providers \cup {Oidc}]
ASSUME UsersAssumption == Established \in Users /\ None \notin Users
ASSUME ProvidersAssumption ==
    /\ Oidc \notin Providers /\ IsFiniteSet(Providers) /\ Providers # {}
    /\ \A p \in Providers : \E x \in Externals : AuthorityOf[x] = p

VARIABLES
    users,          \* users
    locals,         \* local_accounts
    identity,       \* user_login_identities: the user an external account signs in
    grant,          \* external_git_oauth_grants, by user and provider
    admins,         \* members of the site administrators
    sessions,       \* users with a session that has not expired
    attempts,       \* oidc_states and external_git_oauth_attempts
    issued,         \* the external account of each token a provider issued
    refreshable,    \* the refresh tokens the providers accept
    refused,        \* history: the secrets whose refresh a provider refused
    logins,         \* the accounts that OIDC logins ended in
    req, started    \* the running requests, and how many there were

database == <<users, locals, identity, grant, admins, sessions, attempts>>
provider == <<issued, refreshable, refused>>
vars == <<database, provider, logins, req, started>>

Idle == [at |-> "idle"]

-----------------------------------------------------------------------------
(* Row locks.  A key lock is the one a foreign key takes.                  *)

UserLock(u) == {[on |-> u, mode |-> "update"]}
KeyLock(u) == {[on |-> u, mode |-> "key"]}
GrantLock(u, p) == {[on |-> <<u, p>>, mode |-> "update"]}
AccountLock(x) == {[on |-> x, mode |-> "update"]}

Held(r) == IF req[r].at \in {"bind", "remove", "delete"} THEN req[r].held ELSE {}

Available(r, locks) ==
    \A s \in Requests \ {r} : \A held \in Held(s), lock \in locks :
        held.on = lock.on => held.mode = "key" /\ lock.mode = "key"

-----------------------------------------------------------------------------
(* Requests.                                                               *)

Begin == started < MaxRequests /\ started' = started + 1
Goto(r, state) == req' = [req EXCEPT ![r] = state]
At(r, step) == req[r].at = step
Step(r, step) == Goto(r, [req[r] EXCEPT !.at = step])
Finish(r) == Goto(r, Idle)

(* create_oidc_state, create_oauth_attempt *)
NewAttempt(purpose, authority, u) ==
    /\ Begin
    /\ attempts' = attempts \cup
         {[id |-> started, purpose |-> purpose, authority |-> authority, user |-> u]}
    /\ UNCHANGED <<users, locals, identity, grant, admins, sessions, provider, logins, req>>

OidcLogin == NewAttempt("oidc", Oidc, None)
ExternalGitLogin(p) == NewAttempt("sign_in", p, None)

(* required_request_user_id *)
SignedIn(u) == u \in sessions

AuthorizeExternalGit(u, p) == SignedIn(u) /\ NewAttempt("connect", p, u)

(* consume_oauth_attempt, consume_state: only one callback gets the        *)
(* attempt.                                                                *)
Consume(attempt) ==
    /\ attempts' = attempts \ {attempt}
    /\ UNCHANGED <<users, locals, identity, grant, admins, sessions, provider, logins, started>>

OidcCallback(r, attempt) ==
    /\ At(r, "idle") /\ attempt.purpose = "oidc"
    /\ Consume(attempt)
    /\ Goto(r, [at |-> "exchange", purpose |-> "oidc", authority |-> Oidc, who |-> None])

(* A connection goes on only in a session of the user it was begun by. *)
ExternalGitOauthCallback(r, attempt) ==
    /\ At(r, "idle") /\ attempt.purpose \in {"sign_in", "connect"}
    /\ Consume(attempt)
    /\ \/ /\ attempt.purpose = "connect" => SignedIn(attempt.user)
          /\ Goto(r, [at |-> "exchange", purpose |-> attempt.purpose,
                      authority |-> attempt.authority, who |-> attempt.user])
       \/ Finish(r)

-----------------------------------------------------------------------------
(* The provider's answers.                                                 *)

Next1 == Len(issued) + 1

(* exchange_authorization_code issues a secret, with or without a refresh  *)
(* token; the profile names the account and, for a login, an email.        *)
IssueTo(x, refresh) ==
    /\ Len(issued) < MaxTokens
    /\ issued' = Append(issued, x)
    /\ refreshable' = IF refresh = 0 THEN refreshable ELSE refreshable \cup {refresh}
    /\ UNCHANGED refused

AfterExchange(purpose) ==
    CASE purpose = "oidc" -> "provision"
      [] purpose = "sign_in" -> "lookup"
      [] purpose = "connect" -> "upsert"

(* authenticate_callback *)
AuthenticateCallback(r, x, email) ==
    /\ At(r, "exchange") /\ req[r].purpose = "oidc" /\ AuthorityOf[x] = Oidc
    /\ Goto(r, [at |-> "provision", purpose |-> "oidc", who |-> None, ext |-> x,
                email |-> email, secret |-> None])
    /\ UNCHANGED provider

ExchangeAuthorizationCode(r, x, email, refresh) ==
    /\ At(r, "exchange") /\ req[r].purpose /= "oidc" /\ AuthorityOf[x] = req[r].authority
    /\ email = None <=> req[r].purpose = "connect"
    /\ IssueTo(x, refresh)
    /\ Goto(r, [at |-> AfterExchange(req[r].purpose), purpose |-> req[r].purpose,
                who |-> req[r].who, ext |-> x, email |-> email,
                secret |-> [access |-> Next1, refresh |-> refresh]])

ExchangeFails(r) == At(r, "exchange") /\ Finish(r) /\ UNCHANGED provider

Exchange(r) ==
    /\ \/ \E x \in Externals, email \in Users : AuthenticateCallback(r, x, email)
       \/ \E x \in Externals, email \in Users \cup {None}, refresh \in {0, Next1} :
              ExchangeAuthorizationCode(r, x, email, refresh)
       \/ ExchangeFails(r)
    /\ UNCHANGED <<database, logins, started>>

(* The owner of the account revokes what was granted to the platform. *)
RevokeAtProvider(token) ==
    /\ Begin
    /\ refreshable' = refreshable \ {token}
    /\ UNCHANGED <<database, issued, refused, logins, req>>

-----------------------------------------------------------------------------
(* complete_external_git_login, up to the account.                         *)

LookupIdentity(r) ==
    /\ At(r, "lookup")
    /\ Goto(r, [req[r] EXCEPT !.at = "binding", !.who = identity[req[r].ext]])
    /\ UNCHANGED <<database, provider, logins, started>>

BindingUsers(x) ==
    {u \in Users : \E p \in Providers : grant[u][p] /= None /\ grant[u][p].account = x}

(* external_git_user_id_for_provider_account *)
CheckBinding(r) ==
    /\ At(r, "binding")
    /\ IF BindingUsers(req[r].ext) \subseteq {req[r].who} THEN Step(r, "provision")
                                                          ELSE Finish(r)
    /\ UNCHANGED <<database, provider, logins, started>>

-----------------------------------------------------------------------------
(* provision_federated_account.                                            *)

(* A login of the bootstrap administrator's email makes its account one. *)
Provisioned(r, u) ==
    Goto(r, [req[r] EXCEPT !.who = u, !.at = IF req[r].email = Bootstrap THEN "admin"
                                     ELSE IF req[r].purpose = "oidc" THEN "session"
                                     ELSE "upsert"])

ProvisionLookup(r) ==
    /\ At(r, "provision")
    /\ IF identity[req[r].ext] /= None THEN Provisioned(r, identity[req[r].ext])
                                       ELSE Step(r, "insert")
    /\ UNCHANGED <<database, provider, logins, started>>

(* Fault: an identity that is taken moves to the new account. *)
InsertUserAnyIdentity(r) ==
    LET email == req[r].email IN
    /\ At(r, "insert")
    /\ IF email \in users
         THEN Finish(r) /\ UNCHANGED <<users, identity>>
         ELSE /\ users' = users \cup {email}
              /\ identity' = [identity EXCEPT ![req[r].ext] = email]
              /\ Provisioned(r, email)
    /\ UNCHANGED <<locals, grant, admins, sessions, attempts, provider, logins, started>>

(* insert_user_with_identity: an email that is taken ends the login, an    *)
(* identity that is taken meanwhile is looked up again.                    *)
InsertUser(r) ==
    LET email == req[r].email IN
    /\ At(r, "insert")
    /\ IF email \in users
         THEN Finish(r) /\ UNCHANGED <<users, identity>>
         ELSE IF identity[req[r].ext] /= None
           THEN Step(r, "provision") /\ UNCHANGED <<users, identity>>
           ELSE /\ users' = users \cup {email}
                /\ identity' = [identity EXCEPT ![req[r].ext] = email]
                /\ Provisioned(r, email)
    /\ UNCHANGED <<locals, grant, admins, sessions, attempts, provider, logins, started>>

(* Every candidate for the username is taken. *)
UsernameExhausted(r) ==
    At(r, "insert") /\ Finish(r) /\ UNCHANGED <<database, provider, logins, started>>

GrantSiteAdmin(r) ==
    /\ At(r, "admin")
    /\ admins' = admins \cup {req[r].who}
    /\ Step(r, IF req[r].purpose = "oidc" THEN "session" ELSE "upsert")
    /\ UNCHANGED <<users, locals, identity, grant, sessions, attempts, provider, logins, started>>

-----------------------------------------------------------------------------
(* Local accounts and sessions.                                            *)

LocalRegister(r, u) ==
    /\ At(r, "idle") /\ Begin
    /\ u \notin users
    /\ users' = users \cup {u}
    /\ locals' = locals \cup {u}
    /\ admins' = IF u = Bootstrap THEN admins \cup {u} ELSE admins
    /\ Goto(r, [at |-> "session", purpose |-> "local", who |-> u])
    /\ UNCHANGED <<identity, grant, sessions, attempts, provider, logins>>

LocalLogin(r, u) ==
    /\ At(r, "idle") /\ Begin
    /\ u \in locals
    /\ Goto(r, [at |-> "session", purpose |-> "local", who |-> u])
    /\ UNCHANGED <<database, provider, logins>>

IssueSession(r) ==
    /\ At(r, "session")
    /\ sessions' = sessions \cup {req[r].who}
    /\ logins' = IF req[r].purpose = "oidc" THEN logins \cup {<<req[r].ext, req[r].who>>}
                                            ELSE logins
    /\ Finish(r)
    /\ UNCHANGED <<users, locals, identity, grant, admins, attempts, provider, started>>

(* auth_logout, or the twelve hours are over. *)
RevokeSession(u) ==
    /\ Begin
    /\ u \in sessions
    /\ sessions' = sessions \ {u}
    /\ UNCHANGED <<users, locals, identity, grant, admins, attempts, provider, logins, req>>

-----------------------------------------------------------------------------
(* persist_external_git_grant.                                             *)

At1(r) == AuthorityOf[req[r].ext]
Granted(r) == [account |-> req[r].ext, secret |-> req[r].secret, status |-> "active"]

(* The row of the user and provider is for another account, or the account *)
(* is granted to another user.                                             *)
AccountMismatch(r) ==
    LET old == grant[req[r].who][At1(r)] IN
    \/ old /= None /\ old.account /= req[r].ext
    \/ BindingUsers(req[r].ext) \ {req[r].who} /= {}

UpsertLocks(r) ==
    GrantLock(req[r].who, At1(r)) \cup AccountLock(req[r].ext)
      \cup (IF grant[req[r].who][At1(r)] = None THEN KeyLock(req[r].who) ELSE {})

UpsertGrant(r) ==
    /\ At(r, "upsert")
    /\ Available(r, UpsertLocks(r))
    /\ IF AccountMismatch(r) THEN Finish(r) /\ UNCHANGED grant
       ELSE IF req[r].purpose = "sign_in"
         THEN grant' = [grant EXCEPT ![req[r].who][At1(r)] = Granted(r)] /\ Step(r, "session")
         ELSE UNCHANGED grant /\ Goto(r, [at |-> "bind", who |-> req[r].who, ext |-> req[r].ext,
                                          secret |-> req[r].secret, held |-> UpsertLocks(r)])
    /\ UNCHANGED <<users, locals, identity, admins, sessions, attempts, provider, logins, started>>

(* bind_identity: the identity is another user's, or the user has another  *)
(* one at the authority.                                                   *)
IdentityConflict(u, x) ==
    \/ identity[x] \notin {None, u}
    \/ \E y \in Externals \ {x} : AuthorityOf[y] = AuthorityOf[x] /\ identity[y] = u

BindIdentity(r) ==
    LET u == req[r].who IN
    /\ At(r, "bind")
    /\ Available(r, UserLock(u))
    /\ IF IdentityConflict(u, req[r].ext) THEN UNCHANGED <<identity, grant>>
         ELSE /\ identity' = [identity EXCEPT ![req[r].ext] = u]
              /\ grant' = [grant EXCEPT ![u][At1(r)] = Granted(r)]
    /\ Finish(r)
    /\ UNCHANGED <<users, locals, admins, sessions, attempts, provider, logins, started>>

(* Two connections of a user that hold the key lock wait for each other;   *)
(* the database aborts one.                                                *)
DeadlockAbort(r) ==
    /\ At(r, "bind") /\ ~Available(r, UserLock(req[r].who))
    /\ \E s \in Requests \ {r} : At(s, "bind") /\ ~Available(s, UserLock(req[s].who))
    /\ Finish(r)
    /\ UNCHANGED <<database, provider, logins, started>>

-----------------------------------------------------------------------------
(* disconnect_external_git_account.                                        *)

DisconnectExternalGit(r, u, p) ==
    /\ At(r, "idle") /\ Begin
    /\ SignedIn(u)
    /\ grant[u][p] /= None
    /\ Available(r, GrantLock(u, p))
    /\ Goto(r, [at |-> "remove", who |-> u, prov |-> p, ext |-> grant[u][p].account,
                held |-> GrantLock(u, p)])
    /\ UNCHANGED <<database, provider, logins>>

(* Linked projects need the connection. *)
LinkedProjects(r) == At(r, "remove") /\ Finish(r) /\ UNCHANGED <<database, provider, logins, started>>

OtherLoginMethods(u, x) == {y \in Externals \ {x} : identity[y] = u} \cup (locals \cap {u})

(* Fault: the login methods are counted without a lock. *)
RemovalUnlocked(u) == {}

(* The login methods are counted under the lock of the user. *)
RemovalLock(u) == UserLock(u)

RemoveIdentity(r) ==
    LET u == req[r].who IN
    /\ At(r, "remove")
    /\ Available(r, RemovalLock(u))
    /\ IF identity[req[r].ext] = u /\ OtherLoginMethods(u, req[r].ext) = {}
         THEN Finish(r)
         ELSE Goto(r, [req[r] EXCEPT !.at = "delete", !.held = @ \cup RemovalLock(u)])
    /\ UNCHANGED <<database, provider, logins, started>>

DeleteGrant(r) ==
    LET u == req[r].who IN
    /\ At(r, "delete")
    /\ identity' = [x \in Externals |-> IF x = req[r].ext /\ identity[x] = u THEN None
                                                                            ELSE identity[x]]
    /\ grant' = [grant EXCEPT ![u][req[r].prov] = None]
    /\ Finish(r)
    /\ UNCHANGED <<users, locals, admins, sessions, attempts, provider, logins, started>>

-----------------------------------------------------------------------------
(* A call of the provider's API with the user's grant, and the refresh of  *)
(* its secret.  req.turn is "first", or "forced" after the provider        *)
(* refused the access token.                                               *)

Usable(u, p) == grant[u][p] /= None /\ grant[u][p].status = "active"

RefreshOf(r, u, p, turn) ==
    Goto(r, [at |-> "refresh", who |-> u, prov |-> p, turn |-> turn,
             secret |-> grant[u][p].secret])

(* The access token is fresh, or it has to be refreshed before the call. *)
ProviderCall(r, u, p) ==
    /\ At(r, "idle") /\ Begin
    /\ Usable(u, p)
    /\ \/ Goto(r, [at |-> "call", who |-> u, prov |-> p, turn |-> "first"])
       \/ RefreshOf(r, u, p, "first")
    /\ UNCHANGED <<database, provider, logins>>

(* mark_provider_reauth_required, whatever the grant is by now. *)
MarkReauthRequired(u, p) ==
    IF grant[u][p] = None THEN UNCHANGED grant
                         ELSE grant' = [grant EXCEPT ![u][p].status = "api_rejected"]

(* AuthenticatedProviderClient::send: a refused access token is refreshed  *)
(* once.                                                                   *)
SendOnce(r) ==
    LET u == req[r].who  p == req[r].prov IN
    /\ At(r, "call")
    /\ \/ Finish(r) /\ UNCHANGED grant
       \/ /\ req[r].turn = "first"
          /\ IF Usable(u, p) THEN RefreshOf(r, u, p, "forced")
                             ELSE Finish(r)
          /\ UNCHANGED grant
       \/ /\ req[r].turn = "forced"
          /\ MarkReauthRequired(u, p)
          /\ Finish(r)
    /\ UNCHANGED <<users, locals, identity, admins, sessions, attempts, provider, logins, started>>

(* refresh_access_token: an accepted token is rotated or stays; the answer *)
(* may be lost, the provider may be down.                                  *)
RefreshAccepted(r, rotated) ==
    LET old == req[r].secret.refresh IN
    /\ old \in refreshable /\ Len(issued) < MaxTokens
    /\ issued' = Append(issued, issued[old])
    /\ refreshable' = IF rotated THEN (refreshable \ {old}) \cup {Next1} ELSE refreshable
    /\ UNCHANGED refused
    /\ \/ Finish(r)
       \/ Goto(r, [at |-> "store", who |-> req[r].who, prov |-> req[r].prov,
                   turn |-> req[r].turn, old |-> req[r].secret,
                   secret |-> [access |-> Next1, refresh |-> IF rotated THEN Next1 ELSE old]])

RefreshUnanswered(r) == Finish(r) /\ UNCHANGED provider

(* The grant has no refresh token, or the provider answers 400 or 401, an  *)
(* error or no access token: a token it will not take, or a client it does *)
(* not accept now, whatever the token is worth.                            *)
RefreshRejected(r) ==
    /\ refused' = refused \cup {req[r].secret}
    /\ Step(r, "mark")
    /\ UNCHANGED <<issued, refreshable>>

RefreshAccessToken(r) ==
    /\ At(r, "refresh")
    /\ \/ \E rotated \in BOOLEAN : RefreshAccepted(r, rotated)
       \/ RefreshUnanswered(r)
       \/ RefreshRejected(r)
    /\ UNCHANGED <<database, logins, started>>

(* Fault: any active grant is taken for the one that was read. *)
CurrentAnySecret(u, p, secret) == Usable(u, p)

(* The grant is as the request read it: active, with the same secret. *)
Current(u, p, secret) == Usable(u, p) /\ grant[u][p].secret = secret

(* access_token_after_concurrent_grant_update: the other's secret is used, *)
(* unless it expires too soon.                                             *)
AfterConcurrentUpdate(r) ==
    \/ Usable(req[r].who, req[r].prov)
       /\ Goto(r, [at |-> "call", who |-> req[r].who, prov |-> req[r].prov,
                   turn |-> req[r].turn])
    \/ Finish(r)

(* update_refreshed_oauth_grant, if the secret is the one it read. *)
UpdateRefreshedGrant(r) ==
    LET u == req[r].who  p == req[r].prov IN
    /\ At(r, "store")
    /\ Available(r, GrantLock(u, p))
    /\ IF Current(u, p, req[r].old)
         THEN /\ grant' = [grant EXCEPT ![u][p].secret = req[r].secret]
              /\ Goto(r, [at |-> "call", who |-> u, prov |-> p, turn |-> req[r].turn])
         ELSE AfterConcurrentUpdate(r) /\ UNCHANGED grant
    /\ UNCHANGED <<users, locals, identity, admins, sessions, attempts, provider, logins, started>>

(* mark_grant_reauthorization_required_if_current *)
MarkIfCurrent(r) ==
    LET u == req[r].who  p == req[r].prov IN
    /\ At(r, "mark")
    /\ Available(r, GrantLock(u, p))
    /\ IF Current(u, p, req[r].secret)
         THEN grant' = [grant EXCEPT ![u][p].status = "refresh_refused"] /\ Finish(r)
         ELSE AfterConcurrentUpdate(r) /\ UNCHANGED grant
    /\ UNCHANGED <<users, locals, identity, admins, sessions, attempts, provider, logins, started>>

-----------------------------------------------------------------------------
(* In the beginning there is one account, that registered locally or       *)
(* signed in at a provider and connected the others.                       *)

First(p) == CHOOSE x \in Externals : AuthorityOf[x] = p
FirstToken == CHOOSE f \in [Providers -> 1..Cardinality(Providers)] :
                  \A p, q \in Providers : f[p] = f[q] => p = q

Init ==
    /\ users = {Established}
    /\ locals \in {{}, {Established}}
    /\ identity = [x \in Externals |-> IF locals = {} /\ \E p \in Providers : x = First(p)
                                           THEN Established ELSE None]
    /\ grant = [u \in Users |-> [p \in Providers |->
                  IF u = Established /\ locals = {}
                    THEN [account |-> First(p), status |-> "active",
                          secret |-> [access |-> FirstToken[p], refresh |-> FirstToken[p]]]
                    ELSE None]]
    /\ admins = {}
    /\ sessions = {Established}
    /\ attempts = {}
    /\ issued = [n \in 1..Cardinality(Providers) |-> First(CHOOSE p \in Providers : FirstToken[p] = n)]
    /\ refreshable = 1..Cardinality(Providers)
    /\ refused = {}
    /\ logins = {}
    /\ req = [r \in Requests |-> Idle]
    /\ started = 0

Login(r) ==
    \/ \E attempt \in attempts : OidcCallback(r, attempt) \/ ExternalGitOauthCallback(r, attempt)
    \/ Exchange(r)
    \/ LookupIdentity(r)
    \/ CheckBinding(r)
    \/ ProvisionLookup(r)
    \/ InsertUser(r)
    \/ UsernameExhausted(r)
    \/ GrantSiteAdmin(r)
    \/ IssueSession(r)
    \/ \E u \in Users : LocalRegister(r, u) \/ LocalLogin(r, u)

Connection(r) ==
    \/ UpsertGrant(r)
    \/ BindIdentity(r)
    \/ DeadlockAbort(r)
    \/ \E u \in Users, p \in Providers : DisconnectExternalGit(r, u, p) \/ ProviderCall(r, u, p)
    \/ LinkedProjects(r)
    \/ RemoveIdentity(r)
    \/ DeleteGrant(r)
    \/ SendOnce(r)
    \/ RefreshAccessToken(r)
    \/ UpdateRefreshedGrant(r)
    \/ MarkIfCurrent(r)

Next ==
    \/ OidcLogin
    \/ \E p \in Providers : ExternalGitLogin(p) \/ \E u \in Users : AuthorizeExternalGit(u, p)
    \/ \E u \in Users : RevokeSession(u)
    \/ \E token \in refreshable : RevokeAtProvider(token)
    \/ \E r \in Requests : Login(r) \/ Connection(r)

Spec == Init /\ [][Next]_vars

-----------------------------------------------------------------------------
(* Every account can be signed in to: disconnecting two providers at the   *)
(* same time, while others are connected, leaves it a login method         *)
(* (remove_identity_if_redundant counts the others under the user's lock). *)
LoginMethodRemains ==
    \A u \in users : u \in locals \/ \E x \in Externals : identity[x] = u

(* A grant says the truth about its tokens.  They were issued to the       *)
(* account it names, also when a refresh ends after the user disconnected  *)
(* and connected another account (update_refreshed_oauth_grant); and when  *)
(* it asks for a new authorization because a refresh was refused, it was   *)
(* the refresh of the very secret it holds: the refusal of one that        *)
(* another refresh, or a new authorization, has replaced by then does not  *)
(* disable the grant (mark_grant_reauthorization_required_if_current).     *)
GrantMatchesProvider ==
    \A u \in Users, p \in Providers : grant[u][p] /= None =>
        /\ issued[grant[u][p].secret.access] = grant[u][p].account
        /\ grant[u][p].status = "refresh_refused" => grant[u][p].secret \in refused

(* An OIDC subject always ends in the same account, also when its first    *)
(* two logins run at the same time and its email changes between them      *)
(* (provision_federated_user).                                             *)
SubjectHasOneAccount ==
    \A login \in logins : identity[login[1]] = login[2]
=============================================================================
