--------------------------- MODULE AccountsProofs ---------------------------
(***************************************************************************)
(* What the locks, the compare-and-set updates and the uniqueness of       *)
(* identities guarantee for any number of accounts, providers, tokens and  *)
(* concurrent requests: every account keeps a login method, a grant        *)
(* matches its tokens, and an OIDC subject has one account.                *)
(***************************************************************************)
EXTENDS Accounts, FiniteSetTheorems, FunctionTheorems, TLAPS

Secret == [access: Nat, refresh: Nat]
Row == [account: Externals, secret: Secret,
        status: {"active", "refresh_refused", "api_rejected"}]
Lock == [on: Users \cup Externals \cup (Users \X Providers), mode: {"update", "key"}]
Attempt == [id: Nat, purpose: {"oidc", "sign_in", "connect"},
            authority: Providers \cup {Oidc}, user: Users \cup {None}]

\* The states of a request.
Exchanging == [at: {"exchange"}, purpose: {"oidc", "sign_in", "connect"},
               authority: Providers \cup {Oidc}, who: Users \cup {None}]
SigningIn == [at: {"lookup", "binding", "provision", "insert", "admin", "upsert", "session"},
              purpose: {"oidc", "sign_in", "connect"}, who: Users \cup {None},
              ext: Externals, email: Users \cup {None}, secret: Secret \cup {None}]
LocalSession == [at: {"session"}, purpose: {"local"}, who: Users]
Binding == [at: {"bind"}, who: Users, ext: Externals, secret: Secret, held: SUBSET Lock]
Removing == [at: {"remove", "delete"}, who: Users, prov: Providers, ext: Externals,
             held: SUBSET Lock]
Calling == [at: {"call"}, who: Users, prov: Providers, turn: {"first", "forced"}]
Refreshing == [at: {"refresh", "mark"}, who: Users, prov: Providers,
               turn: {"first", "forced"}, secret: Secret]
Storing == [at: {"store"}, who: Users, prov: Providers, turn: {"first", "forced"},
            old: Secret, secret: Secret]
Request == {Idle} \cup Exchanging \cup SigningIn \cup LocalSession \cup Binding \cup Removing
             \cup Calling \cup Refreshing \cup Storing

TypeInv ==
  /\ users \subseteq Users /\ locals \subseteq users /\ sessions \subseteq users
  /\ identity \in [Externals -> users \cup {None}]
  /\ grant \in [Users -> [Providers -> Row \cup {None}]]
  /\ attempts \subseteq Attempt
  /\ issued \in Seq(Externals)
  /\ refreshable \subseteq 1..Len(issued)
  /\ req \in [Requests -> Request]
  /\ started \in Nat

\* The tokens of a secret were issued, both to one account.
Issued(secret, x) ==
  /\ secret.access \in 1..Len(issued) /\ issued[secret.access] = x
  /\ secret.refresh # 0 => secret.refresh \in 1..Len(issued) /\ issued[secret.refresh] = x

\* An attempt at a provider names it, and a connection an account.
AttemptInv ==
  \A a \in attempts :
    /\ a.purpose # "oidc" => a.authority \in Providers
    /\ a.purpose = "connect" => a.user \in users

\* A login has an account of the authority it asked, its tokens, and from its
\* provisioning on the user.  The identity of an OIDC subject is never removed.
SignsIn(q) ==
  /\ q.at \in {"lookup", "binding", "provision", "insert", "admin", "upsert", "session"}
  /\ q.purpose # "local"

SignInOK(q) ==
  /\ q.purpose = "oidc" => AuthorityOf[q.ext] = Oidc /\ q.at # "upsert"
  /\ q.purpose # "oidc" => /\ AuthorityOf[q.ext] \in Providers /\ q.secret \in Secret
                           /\ Issued(q.secret, q.ext)
  /\ q.purpose # "connect" => q.email \in Users
  /\ q.purpose = "connect" => q.at = "upsert"
  /\ q.at \in {"admin", "upsert", "session"} => q.who \in users
  /\ q.at \in {"admin", "session"} /\ q.purpose = "oidc" => identity[q.ext] = q.who

\* A connection that is being made or removed is one of a user, at a provider.
\* A secret that was read from a grant, and the one that replaces it, were
\* issued to the same account; a refused refresh token stays dead.
RequestOK(q) ==
  /\ q.at = "exchange" => /\ q.purpose # "oidc" => q.authority \in Providers
                          /\ q.purpose = "connect" => q.who \in users
  /\ SignsIn(q) => SignInOK(q)
  /\ q.at = "session" /\ q.purpose = "local" => q.who \in users
  /\ q.at = "bind" => /\ q.who \in users /\ AuthorityOf[q.ext] \in Providers
                      /\ Issued(q.secret, q.ext)
  /\ q.at \in {"remove", "delete"} => q.who \in users /\ AuthorityOf[q.ext] \in Providers
  /\ q.at \in {"refresh", "mark"} => \E x \in Externals : Issued(q.secret, x)
  /\ q.at = "mark" => q.secret \in refused
  /\ q.at = "store" => \E x \in Externals : Issued(q.old, x) /\ Issued(q.secret, x)

RequestInv == \A r \in Requests : RequestOK(req[r])

SubjectInv ==
  \A login \in logins :
    /\ login[1] \in Externals /\ AuthorityOf[login[1]] = Oidc /\ login[2] \in users
    /\ identity[login[1]] = login[2]

\* Nobody holds a lock that another request excludes.
LockInv ==
  \A r, s \in Requests : r # s =>
    \A a \in Held(r), b \in Held(s) : a.on = b.on => a.mode = "key" /\ b.mode = "key"

\* Until the deletion is committed the user's lock keeps the login methods that
\* were counted.
RemovalOK(q) ==
  q.at = "delete" =>
    /\ UserLock(q.who) \subseteq q.held
    /\ \/ identity[q.ext] # q.who
       \/ q.who \in locals
       \/ \E y \in Externals \ {q.ext} : identity[y] = q.who

RemovalInv == \A r \in Requests : RemovalOK(req[r])

\* A grant is of a user, for an account of the provider, with its tokens.
RowOK(u, p, row) ==
  /\ u \in users /\ AuthorityOf[row.account] = p
  /\ Issued(row.secret, row.account)
  /\ row.status = "refresh_refused" => row.secret \in refused

GrantInv ==
  \A u \in Users, p \in Providers : grant[u][p] # None => RowOK(u, p, grant[u][p])

IInv ==
  /\ TypeInv /\ AttemptInv /\ RequestInv /\ SubjectInv /\ LockInv
  /\ RemovalInv /\ GrantInv /\ LoginMethodRemains

-----------------------------------------------------------------------------
\* Tokens are numbered, and every provider has the first account of its own.
LEMMA FirstFacts ==
  /\ \A p \in Providers : First(p) \in Externals /\ AuthorityOf[First(p)] = p
  /\ FirstToken \in [Providers -> 1..Cardinality(Providers)]
  /\ \A p, q \in Providers : FirstToken[p] = FirstToken[q] => p = q
  /\ \A n \in 1..Cardinality(Providers) : \E p \in Providers : FirstToken[p] = n
  /\ Cardinality(Providers) \in Nat
<1>1. \A p \in Providers : First(p) \in Externals /\ AuthorityOf[First(p)] = p
  BY ProvidersAssumption DEF First
<1>2. Cardinality(Providers) \in Nat /\ ExistsBijection(1..Cardinality(Providers), Providers)
  BY ProvidersAssumption, FS_CardinalityType
<1>3. ExistsBijection(Providers, 1..Cardinality(Providers))
  BY <1>2, Fun_ExistsBijSymmetric
<1>4. PICK f : f \in Bijection(Providers, 1..Cardinality(Providers))
  BY <1>3, Fun_ExistsBij
<1>5. /\ f \in [Providers -> 1..Cardinality(Providers)]
      /\ \A p, q \in Providers : f[p] = f[q] => p = q
  BY <1>4, Fun_BijectionProperties
<1>6. \E g \in [Providers -> 1..Cardinality(Providers)] :
        \A p, q \in Providers : g[p] = g[q] => p = q
  BY <1>5
<1>7. /\ FirstToken \in [Providers -> 1..Cardinality(Providers)]
      /\ \A p, q \in Providers : FirstToken[p] = FirstToken[q] => p = q
  BY <1>6 DEF FirstToken
<1>8. FirstToken \in Surjection(Providers, 1..Cardinality(Providers))
  <2>1. FirstToken \in Injection(Providers, 1..Cardinality(Providers))
    BY <1>7, Fun_IsInj
  <2>2. IsFiniteSet(1..Cardinality(Providers)) /\ Cardinality(1..Cardinality(Providers)) = Cardinality(Providers)
    BY <1>2, FS_Interval
  <2> QED
    BY <2>1, <2>2, FS_Injection
<1>9. \A n \in 1..Cardinality(Providers) : \E p \in Providers : FirstToken[p] = n
  BY <1>8, Fun_SurjectionProperties
<1> QED
  BY <1>1, <1>2, <1>7, <1>9

\* Initially the established account has a password, or its identities and grants.
LEMMA InitInv ==
  ASSUME Init
  PROVE  IInv
<1> USE UsersAssumption, ExternalsAssumption, ProvidersAssumption
<1> DEFINE n == Cardinality(Providers)
           Holder(i) == CHOOSE p \in Providers : FirstToken[p] = i
<1>1. n \in Nat /\ \A p \in Providers : FirstToken[p] \in 1..n /\ Holder(FirstToken[p]) = p
  BY FirstFacts
<1>2. issued \in [1..n -> Externals] /\ \A p \in Providers : issued[FirstToken[p]] = First(p)
  <2>1. \A i \in 1..n : Holder(i) \in Providers
    BY FirstFacts
  <2>2. issued = [i \in 1..n |-> First(Holder(i))]
    BY DEF Init
  <2> HIDE DEF Holder, n
  <2> QED
    BY <1>1, <2>1, <2>2, FirstFacts
<1> HIDE DEF Holder, n
<1>3. issued \in Seq(Externals) /\ Len(issued) = n
  BY <1>1, <1>2
<1>4. refreshable = 1..n
  BY DEF Init, n
<1>5. \A u \in Users, p \in Providers :
        grant[u][p] = IF u = Established /\ locals = {}
                        THEN [account |-> First(p), status |-> "active",
                              secret |-> [access |-> FirstToken[p], refresh |-> FirstToken[p]]]
                        ELSE None
  BY DEF Init
<1>6. \A u \in Users, p \in Providers : grant[u][p] # None =>
        /\ u = Established /\ grant[u][p].account = First(p) /\ grant[u][p].status = "active"
        /\ grant[u][p].secret.access = FirstToken[p] /\ grant[u][p].secret.refresh = FirstToken[p]
        /\ grant[u][p] \in Row
  <2> SUFFICES ASSUME NEW u \in Users, NEW p \in Providers, grant[u][p] # None
               PROVE  /\ u = Established /\ grant[u][p].account = First(p)
                      /\ grant[u][p].status = "active"
                      /\ grant[u][p].secret.access = FirstToken[p]
                      /\ grant[u][p].secret.refresh = FirstToken[p]
                      /\ grant[u][p] \in Row
    OBVIOUS
  <2>1. /\ u = Established
        /\ grant[u][p] = [account |-> First(p), status |-> "active",
                          secret |-> [access |-> FirstToken[p], refresh |-> FirstToken[p]]]
    BY <1>5
  <2>2. FirstToken[p] \in Nat /\ First(p) \in Externals
    BY <1>1, FirstFacts
  <2> QED
    BY <2>1, <2>2 DEF Row, Secret
<1>7. GrantInv
  BY <1>1, <1>2, <1>3, <1>6, FirstFacts DEF GrantInv, RowOK, Issued, Init
<1>8. TypeInv
  <2>1. identity \in [Externals -> users \cup {None}]
    BY DEF Init
  <2>2. grant \in [Users -> [Providers -> Row \cup {None}]]
    <3>1. \A u \in Users, p \in Providers : grant[u][p] \in Row \cup {None}
      BY <1>6
    <3>2. grant = [u \in Users |-> [p \in Providers |-> grant[u][p]]]
      BY DEF Init
    <3> QED
      BY <3>1, <3>2
  <2>3. req \in [Requests -> Request]
    BY DEF Init, Request
  <2> QED
    BY <1>3, <1>4, <2>1, <2>2, <2>3 DEF Init, TypeInv
<1>9. AttemptInv /\ RequestInv /\ SubjectInv /\ LockInv /\ RemovalInv
  BY DEF Init, AttemptInv, RequestInv, RequestOK, SignsIn, SubjectInv, LockInv, Held,
     RemovalInv, RemovalOK, Idle
<1>10. LoginMethodRemains
  <2>1. users = {Established} /\ locals \in {{}, {Established}}
    BY DEF Init
  <2>2. ASSUME locals = {}
        PROVE  \E x \in Externals : identity[x] = Established
    <3>1. PICK p \in Providers : TRUE
      OBVIOUS
    <3>2. First(p) \in Externals
      BY FirstFacts
    <3>3. identity[First(p)] = Established
      BY <2>2, <3>2 DEF Init
    <3> QED
      BY <3>2, <3>3
  <2> QED
    BY <2>1, <2>2 DEF LoginMethodRemains
<1> QED
  BY <1>7, <1>8, <1>9, <1>10 DEF IInv
-----------------------------------------------------------------------------
\* The fields a request has follow from the await it is at.
LEMMA Shape ==
  ASSUME NEW q \in Request
  PROVE  /\ q.at = "exchange" => q \in Exchanging
         /\ SignsIn(q) => q \in SigningIn
         /\ q.at = "session" /\ q.purpose = "local" => q \in LocalSession
         /\ q.at = "bind" => q \in Binding
         /\ q.at \in {"remove", "delete"} => q \in Removing
         /\ q.at = "call" => q \in Calling
         /\ q.at \in {"refresh", "mark"} => q \in Refreshing
         /\ q.at = "store" => q \in Storing
  BY DEF Request, Idle, SignsIn, Exchanging, SigningIn, LocalSession, Binding, Removing, Calling,
     Refreshing, Storing

\* What no step takes back: accounts, issued tokens, the refusal of a secret,
\* and the identity of an OIDC subject.
Grows ==
  /\ users \subseteq users'
  /\ Len(issued') \in Nat /\ Len(issued) <= Len(issued')
  /\ \A n \in 1..Len(issued) : issued'[n] = issued[n]
  /\ refused \subseteq refused'
  /\ \A x \in Externals : AuthorityOf[x] = Oidc /\ identity[x] # None => identity'[x] = identity[x]

\* What was issued stays issued.
LEMMA IssuedStays ==
  ASSUME TypeInv, Grows, NEW x \in Externals, NEW secret \in Secret, Issued(secret, x)
  PROVE  Issued(secret, x)'
<1>1. Len(issued) \in Nat
  BY DEF TypeInv
<1> QED
  BY <1>1 DEF Grows, Issued, Secret

\* What a request waits with stays true while the others go on.
LEMMA RequestStays ==
  ASSUME TypeInv, Grows, NEW q \in Request, RequestOK(q)
  PROVE  RequestOK(q)'
<1> USE Shape, UsersAssumption
<1>0. Len(issued) \in Nat /\ users \subseteq users' /\ users \subseteq Users
  BY DEF TypeInv, Grows
<1>1. CASE q.at = "exchange"
  BY <1>0, <1>1 DEF RequestOK, SignsIn
<1>2. CASE SignsIn(q)
  <2>1. q \in SigningIn /\ SignInOK(q)
    BY <1>2 DEF RequestOK
  <2>2. q.purpose # "oidc" => Issued(q.secret, q.ext)'
    <3> SUFFICES ASSUME q.purpose # "oidc" PROVE Issued(q.secret, q.ext)'
      OBVIOUS
    <3>1. q.secret \in Secret /\ q.ext \in Externals /\ Issued(q.secret, q.ext)
      BY <2>1 DEF SignInOK, SigningIn
    <3> QED
      BY <3>1, IssuedStays
  <2>3. q.at \in {"admin", "session"} /\ q.purpose = "oidc" => identity'[q.ext] = q.who
    BY <1>0, <2>1 DEF SignInOK, SigningIn, Grows
  <2>4. SignInOK(q)'
    BY <1>0, <2>1, <2>2, <2>3 DEF SignInOK
  <2>5. /\ q.at \in {"lookup", "binding", "provision", "insert", "admin", "upsert", "session"}
        /\ q.purpose # "local"
    BY <1>2 DEF SignsIn
  <2> QED
    BY <2>4, <2>5 DEF RequestOK
<1>3. CASE q.at = "session" /\ q.purpose = "local"
  BY <1>0, <1>3 DEF RequestOK, SignsIn
<1>4. CASE q.at = "bind"
  <2>1. q.secret \in Secret /\ q.ext \in Externals /\ Issued(q.secret, q.ext)
    BY <1>4 DEF RequestOK, Binding
  <2> QED
    BY <1>0, <1>4, <2>1, IssuedStays DEF RequestOK, SignsIn
<1>5. CASE q.at \in {"remove", "delete"}
  BY <1>0, <1>5 DEF RequestOK, SignsIn
<1>6. CASE q.at \in {"refresh", "mark"}
  <2>1. PICK x \in Externals : Issued(q.secret, x)
    BY <1>6 DEF RequestOK
  <2>2. q.secret \in Secret /\ Issued(q.secret, x)'
    BY <1>6, <2>1, IssuedStays DEF Refreshing
  <2>4. q.at = "mark" => q.secret \in refused'
    BY DEF RequestOK, Grows
  <2> QED
    BY <1>6, <2>2, <2>4 DEF RequestOK, SignsIn
<1>7. CASE q.at = "store"
  <2>1. PICK x \in Externals : Issued(q.old, x) /\ Issued(q.secret, x)
    BY <1>7 DEF RequestOK
  <2>2. q.old \in Secret /\ q.secret \in Secret
    BY <1>7 DEF Storing
  <2>3. Issued(q.old, x)' /\ Issued(q.secret, x)'
    BY <2>1, <2>2, IssuedStays
  <2> QED
    BY <1>7, <2>3 DEF RequestOK, SignsIn
<1>8. CASE q.at \in {"idle", "call"}
  BY <1>8 DEF RequestOK, SignsIn
<1> QED
  BY <1>1, <1>2, <1>3, <1>4, <1>5, <1>6, <1>7, <1>8
     DEF SignsIn, Request, Idle, Exchanging, SigningIn, LocalSession, Binding, Removing, Calling,
         Refreshing, Storing

-----------------------------------------------------------------------------
(* What most steps leave alone.                                            *)

\* One request goes on, to a state in which it may wait.
Moves(r) == \E q \in Request : Goto(r, q) /\ RequestOK(q)'

\* An idle request waits with nothing.
LEMMA IdleOK == Idle \in Request /\ RequestOK(Idle) /\ RemovalOK(Idle)
  BY DEF Idle, Request, RequestOK, SignsIn, RemovalOK

\* A state that was fit to wait in before a step is so after it.
LEMMA MovesOn ==
  ASSUME TypeInv, Grows, NEW r \in Requests, NEW q \in Request, Goto(r, q), RequestOK(q)
  PROVE  Moves(r)
  BY RequestStays DEF Moves

\* The other requests wait where they did.
LEMMA MovesFrame ==
  ASSUME TypeInv, RequestInv, Grows, NEW r \in Requests, Moves(r)
  PROVE  /\ req' \in [Requests -> Request] /\ RequestInv'
         /\ \A s \in Requests \ {r} : req'[s] = req[s] /\ Held(s)' = Held(s)
<1>1. PICK q \in Request : req' = [req EXCEPT ![r] = q] /\ RequestOK(q)'
  BY DEF Moves, Goto
<1>2. req' \in [Requests -> Request] /\ req'[r] = q
  BY <1>1 DEF TypeInv
<1>3. ASSUME NEW s \in Requests \ {r}
      PROVE  req'[s] = req[s] /\ Held(s)' = Held(s)
  BY <1>1 DEF TypeInv, Held
<1>4. ASSUME NEW s \in Requests
      PROVE  RequestOK(req[s])'
  <2>1. CASE s = r
    BY <1>1, <1>2, <2>1
  <2>2. CASE s # r
    <3>1. PICK o \in Request : o = req[s]
      BY DEF TypeInv
    <3>2. RequestOK(o)
      BY <3>1 DEF RequestInv
    <3>3. RequestOK(o)'
      BY <3>2, RequestStays
    <3>4. req'[s] = o
      BY <1>3, <2>2, <3>1
    <3> QED
      BY <3>3, <3>4
  <2> QED
    BY <2>1, <2>2
<1> QED
  BY <1>2, <1>3, <1>4 DEF RequestInv

\* Locks are given to a request when no other excludes them.
LEMMA LocksFrame ==
  ASSUME LockInv, NEW r \in Requests, \A s \in Requests \ {r} : Held(s)' = Held(s),
         NEW L, Held(r)' \subseteq Held(r) \cup L, Available(r, L)
  PROVE  LockInv'
<1> SUFFICES ASSUME NEW s \in Requests, NEW t \in Requests, s # t,
                    NEW a \in Held(s)', NEW b \in Held(t)', a.on = b.on
             PROVE  a.mode = "key" /\ b.mode = "key"
  BY DEF LockInv
<1>1. CASE s # r /\ t # r
  BY <1>1 DEF LockInv
<1>2. CASE s = r
  <2>1. b \in Held(t) /\ t \in Requests \ {r}
    BY <1>2
  <2>2. CASE a \in Held(r)
    BY <1>2, <2>1, <2>2 DEF LockInv
  <2>3. CASE a \in L
    BY <2>1, <2>3 DEF Available
  <2> QED
    BY <1>2, <2>2, <2>3
<1>3. CASE t = r
  <2>1. a \in Held(s) /\ s \in Requests \ {r}
    BY <1>3
  <2>2. CASE b \in Held(r)
    BY <1>3, <2>1, <2>2 DEF LockInv
  <2>3. CASE b \in L
    BY <2>1, <2>3 DEF Available
  <2> QED
    BY <1>3, <2>2, <2>3
<1> QED
  BY <1>1, <1>2, <1>3

\* A removal still has the login methods it counted, if no other step changes
\* which identities its user has.
LEMMA RemovalStays ==
  ASSUME NEW q \in Request, RemovalOK(q), locals \subseteq locals',
         q.at = "delete" =>
             \A y \in Externals : identity'[y] = q.who <=> identity[y] = q.who
  PROVE  RemovalOK(q)'
<1> SUFFICES ASSUME q.at = "delete"
             PROVE  RemovalOK(q)'
  BY DEF RemovalOK
<1>1. q.ext \in Externals
  BY Shape DEF Removing
<1> QED
  BY <1>1 DEF RemovalOK

\* So have all the removals.
LEMMA RemovalFrame ==
  ASSUME TypeInv, RemovalInv, NEW r \in Requests, RemovalOK(req[r])', locals \subseteq locals',
         \A s \in Requests \ {r} :
             /\ req'[s] = req[s]
             /\ req[s].at = "delete" =>
                  \A y \in Externals : identity'[y] = req[s].who <=> identity[y] = req[s].who
  PROVE  RemovalInv'
<1> SUFFICES ASSUME NEW s \in Requests, s # r
             PROVE  RemovalOK(req[s])'
  BY DEF RemovalInv
<1>1. PICK q \in Request : q = req[s]
  BY DEF TypeInv
<1>2. RemovalOK(q)
  BY <1>1 DEF RemovalInv
<1>3. RemovalOK(q)'
  BY <1>1, <1>2, RemovalStays
<1> QED
  BY <1>1, <1>3

\* A row that matched the provider still does.
LEMMA RowStays ==
  ASSUME TypeInv, Grows, NEW u \in Users, NEW p \in Providers, NEW row \in Row, RowOK(u, p, row)
  PROVE  RowOK(u, p, row)'
<1>1. row.secret \in Secret /\ row.account \in Externals
  BY DEF Row
<1>2. Len(issued) \in Nat
  BY DEF TypeInv
<1>3. Issued(row.secret, row.account)'
  BY <1>1, IssuedStays DEF RowOK
<1>4. row.secret.refresh \in 0..Len(issued)
  BY <1>1, <1>2 DEF RowOK, Issued, Secret
<1> QED
  BY <1>3, <1>4 DEF RowOK, Grows

\* At most one grant changes, to a row that matches the provider or to none.
LEMMA GrantFrame ==
  ASSUME TypeInv, GrantInv, Grows, NEW u \in Users, NEW p \in Providers,
         NEW row \in Row \cup {None}, row # None => RowOK(u, p, row)',
         grant' = [grant EXCEPT ![u][p] = row]
  PROVE  GrantInv' /\ grant' \in [Users -> [Providers -> Row \cup {None}]]
<1>1. grant \in [Users -> [Providers -> Row \cup {None}]]
  BY DEF TypeInv
<1>2. grant' \in [Users -> [Providers -> Row \cup {None}]]
  BY <1>1
<1>3. ASSUME NEW v \in Users, NEW o \in Providers, grant'[v][o] # None
      PROVE  RowOK(v, o, grant[v][o])'
  <2>1. CASE v = u /\ o = p
    BY <1>1, <1>3, <2>1
  <2>2. CASE ~(v = u /\ o = p)
    <3>1. grant'[v][o] = grant[v][o]
      BY <1>1, <2>2
    <3>2. PICK g \in Row : g = grant[v][o]
      BY <1>1, <1>3, <3>1
    <3>3. RowOK(v, o, g)'
      BY <1>3, <3>1, <3>2, RowStays DEF GrantInv
    <3> QED
      BY <3>1, <3>2, <3>3
  <2> QED
    BY <2>1, <2>2
<1> QED
  BY <1>2, <1>3 DEF GrantInv

\* Without a change of the grants they match the provider as before.
LEMMA GrantStays ==
  ASSUME TypeInv, GrantInv, Grows, UNCHANGED grant
  PROVE  GrantInv'
<1> SUFFICES ASSUME NEW v \in Users, NEW o \in Providers, grant'[v][o] # None
             PROVE  RowOK(v, o, grant[v][o])'
  BY DEF GrantInv
<1>1. PICK g \in Row : g = grant[v][o]
  BY DEF TypeInv
<1>2. RowOK(v, o, g)'
  BY <1>1, RowStays DEF GrantInv
<1> QED
  BY <1>1, <1>2

\* The logins that ended keep their account, the attempts what they name.
LEMMA HistoryFrame ==
  ASSUME TypeInv, SubjectInv, AttemptInv, Grows
  PROVE  /\ UNCHANGED logins => SubjectInv'
         /\ attempts' \subseteq attempts => attempts' \subseteq Attempt /\ AttemptInv'
<1>1. UNCHANGED logins => SubjectInv'
  BY UsersAssumption DEF SubjectInv, Grows, TypeInv
<1> QED
  BY <1>1 DEF AttemptInv, Grows, TypeInv

\* A step that leaves accounts, identities and sessions alone.
LEMMA QuietStep ==
  ASSUME IInv, Grows, NEW r \in Requests, Moves(r), RemovalOK(req[r])',
         NEW L, Held(r)' \subseteq Held(r) \cup L, Available(r, L),
         UNCHANGED <<users, locals, identity, sessions, logins>>,
         attempts' \subseteq attempts, started' \in Nat,
         GrantInv', grant' \in [Users -> [Providers -> Row \cup {None}]],
         issued' \in Seq(Externals), refreshable' \subseteq 1..Len(issued')
  PROVE  IInv'
<1>1. /\ req' \in [Requests -> Request] /\ RequestInv'
      /\ \A s \in Requests \ {r} : req'[s] = req[s] /\ Held(s)' = Held(s)
  BY MovesFrame DEF IInv
<1>2. LockInv'
  BY <1>1, LocksFrame DEF IInv
<1>3. RemovalInv'
  BY <1>1, RemovalFrame DEF IInv
<1>4. SubjectInv' /\ AttemptInv' /\ attempts' \subseteq Attempt
  BY HistoryFrame DEF IInv
<1>5. LoginMethodRemains'
  BY DEF IInv, LoginMethodRemains
<1>6. TypeInv'
  BY <1>1, <1>4 DEF IInv, TypeInv
<1> QED
  BY <1>1, <1>2, <1>3, <1>4, <1>5, <1>6 DEF IInv

\* Nothing that only grows changes.
LEMMA GrowsStill ==
  ASSUME TypeInv, UNCHANGED <<users, identity, issued>>, refused \subseteq refused'
  PROVE  Grows
  BY DEF TypeInv, Grows

\* A step of one request that holds no lock after it.
LEMMA FreeStep ==
  ASSUME IInv, NEW r \in Requests, Grows, Moves(r),
         req'[r].at \notin {"bind", "remove", "delete"},
         UNCHANGED <<users, locals, identity, grant, sessions, logins>>,
         attempts' \subseteq attempts, started' \in Nat,
         issued' \in Seq(Externals), refreshable' \subseteq 1..Len(issued')
  PROVE  IInv'
<1>1. Held(r)' = {} /\ Available(r, {})
  BY DEF Held, Available
<1>2. RemovalOK(req[r])'
  BY DEF RemovalOK
<1>3. GrantInv' /\ grant' \in [Users -> [Providers -> Row \cup {None}]]
  BY GrantStays DEF IInv, TypeInv
<1> QED
  BY <1>1, <1>2, <1>3, QuietStep

\* A step whose only effect is where its request waits next.
LEMMA WaitStep ==
  ASSUME IInv, NEW r \in Requests, NEW q \in Request, Goto(r, q), RequestOK(q),
         q.at \notin {"bind", "remove", "delete"},
         UNCHANGED <<users, locals, identity, grant, sessions, logins, issued, refreshable, refused>>,
         attempts' \subseteq attempts, started' \in Nat
  PROVE  IInv'
<1>1. TypeInv /\ Grows
  BY GrowsStill DEF IInv
<1>2. Moves(r)
  BY <1>1, MovesOn
<1>3. req'[r] = q
  BY <1>1 DEF Goto, TypeInv
<1> QED
  BY <1>1, <1>2, <1>3, FreeStep DEF TypeInv

\* A request that ends, whatever it waited with.
LEMMA FinishStep ==
  ASSUME IInv, NEW r \in Requests, Finish(r), attempts' \subseteq attempts, started' \in Nat,
         UNCHANGED <<users, locals, identity, grant, sessions, logins, issued, refreshable, refused>>
  PROVE  IInv'
<1>1. Idle \in Request /\ Idle.at = "idle" /\ RequestOK(Idle)
  BY IdleOK DEF Idle
<1> QED
  BY <1>1, WaitStep DEF Finish

-----------------------------------------------------------------------------
(* Every step keeps the invariant.                                         *)

\* Requests that begin at an authority, sessions that end, tokens revoked.
LEMMA OutsideStep ==
  ASSUME IInv,
         \/ OidcLogin
         \/ \E p \in Providers : ExternalGitLogin(p) \/ \E u \in Users : AuthorizeExternalGit(u, p)
         \/ \E u \in Users : RevokeSession(u)
         \/ \E token \in refreshable : RevokeAtProvider(token)
  PROVE  IInv'
<1>1. TypeInv /\ started \in Nat /\ Len(issued) \in Nat
  BY DEF IInv, TypeInv
<1>2. /\ UNCHANGED <<users, locals, identity, grant, issued, refused, logins, req>>
      /\ refreshable' \subseteq refreshable /\ started' = started + 1 /\ sessions' \subseteq sessions
  BY DEF OidcLogin, ExternalGitLogin, AuthorizeExternalGit, NewAttempt, RevokeSession,
     RevokeAtProvider, Begin, database, provider
<1>3. Grows
  BY <1>1, <1>2, GrowsStill
<1>4. attempts' \subseteq Attempt /\ AttemptInv'
  <2>1. CASE \/ OidcLogin
             \/ \E p \in Providers : ExternalGitLogin(p) \/ \E u \in Users : AuthorizeExternalGit(u, p)
    <3>1. PICK purpose \in {"oidc", "sign_in", "connect"}, a \in Providers \cup {Oidc},
               u \in Users \cup {None} :
             /\ NewAttempt(purpose, a, u)
             /\ purpose # "oidc" => a \in Providers
             /\ purpose = "connect" => u \in users
      BY <2>1, UsersAssumption DEF OidcLogin, ExternalGitLogin, AuthorizeExternalGit, SignedIn,
         IInv, TypeInv
    <3> DEFINE new == [id |-> started, purpose |-> purpose, authority |-> a, user |-> u]
    <3>2. attempts' = attempts \cup {new}
      BY <3>1 DEF NewAttempt
    <3>3. new \in Attempt /\ new.purpose = purpose /\ new.authority = a /\ new.user = u
      BY <1>1 DEF Attempt
    <3> HIDE DEF new
    <3> QED
      BY <1>2, <3>1, <3>2, <3>3 DEF IInv, AttemptInv, TypeInv
  <2>2. CASE \/ \E u \in Users : RevokeSession(u)
             \/ \E token \in refreshable : RevokeAtProvider(token)
    <3>1. UNCHANGED attempts
      BY <2>2 DEF RevokeSession, RevokeAtProvider, database
    <3> QED
      BY <1>2, <3>1 DEF IInv, TypeInv, AttemptInv
  <2> QED
    BY <2>1, <2>2
<1>5. TypeInv'
  BY <1>1, <1>2, <1>4 DEF TypeInv
<1>6. RequestInv'
  <2> SUFFICES ASSUME NEW s \in Requests PROVE RequestOK(req[s])'
    BY DEF RequestInv
  <2>1. PICK q \in Request : q = req[s]
    BY <1>1 DEF TypeInv
  <2>2. RequestOK(q)'
    BY <1>1, <1>3, <2>1, RequestStays DEF IInv, RequestInv
  <2> QED
    BY <1>2, <2>1, <2>2
<1>7. GrantInv' /\ SubjectInv'
  BY <1>1, <1>2, <1>3, GrantStays, HistoryFrame DEF IInv
<1>8. LockInv' /\ RemovalInv' /\ LoginMethodRemains'
  BY <1>2 DEF IInv, LockInv, Held, RemovalInv, RemovalOK, LoginMethodRemains
<1> QED
  BY <1>4, <1>5, <1>6, <1>7, <1>8 DEF IInv

\* A callback goes on with what its attempt names.
LEMMA CallbackStep ==
  ASSUME IInv, NEW r \in Requests, NEW a \in attempts,
         OidcCallback(r, a) \/ ExternalGitOauthCallback(r, a)
  PROVE  IInv'
<1>1. /\ UNCHANGED <<users, locals, identity, grant, sessions, logins, issued, refreshable, refused>>
      /\ attempts' \subseteq attempts /\ started' \in Nat
  BY DEF OidcCallback, ExternalGitOauthCallback, Consume, IInv, TypeInv, provider
<1>2. CASE Finish(r)
  BY <1>1, <1>2, FinishStep
<1>3. CASE \E purpose \in {"oidc", "sign_in", "connect"}, auth \in Providers \cup {Oidc},
              u \in Users \cup {None} :
             /\ purpose # "oidc" => auth \in Providers
             /\ purpose = "connect" => u \in users
             /\ Goto(r, [at |-> "exchange", purpose |-> purpose, authority |-> auth, who |-> u])
  <2>1. PICK purpose \in {"oidc", "sign_in", "connect"}, auth \in Providers \cup {Oidc},
             u \in Users \cup {None} :
               /\ purpose # "oidc" => auth \in Providers
               /\ purpose = "connect" => u \in users
               /\ Goto(r, [at |-> "exchange", purpose |-> purpose, authority |-> auth, who |-> u])
    BY <1>3
  <2> DEFINE q == [at |-> "exchange", purpose |-> purpose, authority |-> auth, who |-> u]
  <2>2. q \in Request /\ q.at = "exchange"
    BY DEF Request, Exchanging
  <2>3. RequestOK(q)
    BY <2>1 DEF RequestOK, SignsIn
  <2> HIDE DEF q
  <2> QED
    BY <1>1, <2>1, <2>2, <2>3, WaitStep DEF q
<1>4. a \in Attempt /\ (a.purpose # "oidc" => a.authority \in Providers)
        /\ (a.purpose = "connect" => a.user \in users)
  BY DEF IInv, TypeInv, AttemptInv
<1> QED
  BY <1>2, <1>3, <1>4 DEF OidcCallback, ExternalGitOauthCallback, Attempt

\* What a login waits with.
LEMMA SignInFacts ==
  ASSUME IInv, NEW r \in Requests, SignsIn(req[r])
  PROVE  req[r] \in SigningIn /\ SignInOK(req[r])
<1>1. PICK q \in Request : q = req[r]
  BY DEF IInv, TypeInv
<1> QED
  BY <1>1, Shape DEF IInv, RequestInv, RequestOK

\* The authority's answer: an account of its own, with a new secret.
LEMMA ExchangeStep ==
  ASSUME IInv, NEW r \in Requests, Exchange(r)
  PROVE  IInv'
<1> USE UsersAssumption, ExternalsAssumption, ProvidersAssumption
<1>1. /\ UNCHANGED <<users, locals, identity, grant, sessions, attempts, logins>>
      /\ started' \in Nat /\ TypeInv
  BY DEF Exchange, database, IInv, TypeInv
<1>2. /\ req[r] \in Exchanging
      /\ req[r].purpose # "oidc" => req[r].authority \in Providers
      /\ req[r].purpose = "connect" => req[r].who \in users
  <2>1. req[r].at = "exchange" /\ req[r] \in Request
    BY <1>1 DEF Exchange, AuthenticateCallback, ExchangeAuthorizationCode, ExchangeFails, At, TypeInv
  <2> QED
    BY <2>1, Shape DEF IInv, RequestInv, RequestOK
<1>3. CASE ExchangeFails(r)
  BY <1>1, <1>3, FinishStep DEF ExchangeFails, provider
<1>4. CASE \E x \in Externals, email \in Users : AuthenticateCallback(r, x, email)
  <2>1. PICK x \in Externals, email \in Users : AuthenticateCallback(r, x, email)
    BY <1>4
  <2> DEFINE q == [at |-> "provision", purpose |-> "oidc", who |-> None, ext |-> x,
                   email |-> email, secret |-> None]
  <2>2. Goto(r, q) /\ AuthorityOf[x] = Oidc /\ UNCHANGED <<issued, refreshable, refused>>
    BY <2>1 DEF AuthenticateCallback, provider
  <2>3. q \in Request /\ q.at = "provision"
    BY DEF Request, SigningIn
  <2>4. RequestOK(q)
    BY <2>2 DEF RequestOK, SignsIn, SignInOK
  <2> HIDE DEF q
  <2> QED
    BY <1>1, <2>2, <2>3, <2>4, WaitStep
<1>5. CASE \E x \in Externals, email \in Users \cup {None}, refresh \in {0, Next1} :
              ExchangeAuthorizationCode(r, x, email, refresh)
  <2>1. PICK x \in Externals, email \in Users \cup {None}, refresh \in {0, Next1} :
               ExchangeAuthorizationCode(r, x, email, refresh)
    BY <1>5
  <2>2. Len(issued) \in Nat /\ issued \in Seq(Externals) /\ refreshable \subseteq 1..Len(issued)
    BY <1>1 DEF TypeInv
  <2>3. /\ issued' = Append(issued, x)
        /\ refreshable' = IF refresh = 0 THEN refreshable ELSE refreshable \cup {refresh}
        /\ UNCHANGED refused
    BY <2>1 DEF ExchangeAuthorizationCode, IssueTo
  <2>4. /\ issued' \in Seq(Externals) /\ Len(issued') = Len(issued) + 1
        /\ \A n \in 1..Len(issued) : issued'[n] = issued[n]
        /\ issued'[Len(issued) + 1] = x
    BY <2>2, <2>3
  <2>5. refresh \in {0, Len(issued) + 1}
    BY DEF Next1
  <2>6. refreshable' \subseteq 1..Len(issued') /\ Grows
    BY <1>1, <2>2, <2>3, <2>4, <2>5 DEF Grows
  <2>7. PICK p \in {"sign_in", "connect"}, w \in Users \cup {None}, i \in Nat :
          /\ p = req[r].purpose /\ w = req[r].who /\ i = Len(issued) + 1
          /\ p = "connect" => w \in users
          /\ p # "connect" => email \in Users
          /\ AuthorityOf[x] \in Providers
    BY <1>2, <2>1, <2>2 DEF ExchangeAuthorizationCode, Exchanging
  <2>8. PICK step \in {"lookup", "upsert"} :
          step = AfterExchange(p) /\ (step = "upsert" <=> p = "connect")
    BY <2>7 DEF AfterExchange
  <2>9. PICK sec \in Secret : sec = [access |-> i, refresh |-> refresh]
    <3>1. refresh \in Nat
      BY <2>2, <2>5
    <3> QED
      BY <2>7, <3>1 DEF Secret
  <2>10. PICK q : q = [at |-> step, purpose |-> p, who |-> w, ext |-> x, email |-> email,
                       secret |-> sec]
    OBVIOUS
  <2>11. Goto(r, q)
    BY <2>1, <2>7, <2>8, <2>9, <2>10 DEF ExchangeAuthorizationCode, Next1
  <2>12. q \in SigningIn /\ q \in Request /\ q.at = step
    BY <2>10 DEF Request, SigningIn
  <2>13. Issued(sec, x)'
    BY <2>2, <2>4, <2>5, <2>7, <2>9 DEF Issued
  <2>14. SignInOK(q)'
    BY <1>1, <2>7, <2>8, <2>10, <2>13 DEF SignInOK
  <2>15. RequestOK(q)'
    BY <2>8, <2>10, <2>14 DEF RequestOK, SignsIn
  <2>16. Moves(r) /\ req'[r] = q
    BY <1>1, <2>11, <2>12, <2>15 DEF Moves, Goto, TypeInv
  <2> QED
    BY <1>1, <2>4, <2>6, <2>8, <2>12, <2>16, FreeStep
<1> QED
  BY <1>3, <1>4, <1>5 DEF Exchange

\* A login that goes on keeps its account and its secret; who and where it is
\* next have to agree.
LEMMA SignInGoesOn ==
  ASSUME IInv, NEW r \in Requests, SignsIn(req[r]), NEW q \in SigningIn,
         q.purpose = req[r].purpose, q.ext = req[r].ext, q.email = req[r].email,
         q.secret = req[r].secret,
         q.purpose = "oidc" => q.at # "upsert", q.purpose = "connect" => q.at = "upsert",
         q.at \in {"admin", "upsert", "session"} => q.who \in users,
         q.at \in {"admin", "session"} /\ q.purpose = "oidc" => identity[q.ext] = q.who
  PROVE  q \in Request /\ RequestOK(q)
<1>1. q \in Request
  BY DEF Request
<1>2. SignInOK(req[r]) /\ SignsIn(q)
  BY SignInFacts DEF SigningIn, SignsIn
<1>3. SignInOK(q)
  BY <1>2 DEF SignInOK
<1> QED
  BY <1>1, <1>2, <1>3 DEF RequestOK, SignsIn, SigningIn

\* A login reads the identity, checks the grants of its account, and takes the
\* account of an identity that exists.
LEMMA LookupStep ==
  ASSUME IInv, NEW r \in Requests,
         \/ LookupIdentity(r) \/ CheckBinding(r) \/ ProvisionLookup(r)
         \/ UsernameExhausted(r) \/ GrantSiteAdmin(r)
  PROVE  IInv'
<1> USE UsersAssumption
<1>1. /\ UNCHANGED <<users, locals, identity, grant, sessions, attempts, logins, issued, refreshable, refused>>
      /\ started' \in Nat /\ TypeInv
  BY DEF LookupIdentity, CheckBinding, ProvisionLookup, UsernameExhausted, GrantSiteAdmin,
     database, provider, IInv, TypeInv
<1>2. CASE Finish(r)
  BY <1>1, <1>2, FinishStep
<1>3. ASSUME ~Finish(r)
      PROVE  \E q \in Request : /\ Goto(r, q) /\ RequestOK(q)
                                /\ q.at \notin {"bind", "remove", "delete"}
  <2>0. SignsIn(req[r])
    <3>1. req[r] \in Request /\ req[r].at \in {"lookup", "binding", "provision", "insert", "admin"}
      BY <1>1 DEF LookupIdentity, CheckBinding, ProvisionLookup, UsernameExhausted, GrantSiteAdmin,
         At, TypeInv
    <3> QED
      BY <3>1 DEF SignsIn, Request, Idle, Exchanging, SigningIn, LocalSession, Binding, Removing,
         Calling, Refreshing, Storing
  <2>1. req[r] \in SigningIn /\ SignInOK(req[r])
    BY <2>0, SignInFacts
  <2>2. identity[req[r].ext] \in users \cup {None} /\ users \subseteq Users
    BY <1>1, <2>1 DEF TypeInv, SigningIn
  <2>3. CASE LookupIdentity(r)
    <3> DEFINE q == [req[r] EXCEPT !.at = "binding", !.who = identity[req[r].ext]]
    <3>1. q \in SigningIn /\ q.at = "binding"
      BY <2>1, <2>2 DEF SigningIn
    <3>2. /\ q.purpose = req[r].purpose /\ q.ext = req[r].ext /\ q.email = req[r].email
          /\ q.secret = req[r].secret
      BY <2>1 DEF SigningIn
    <3>3. q.purpose # "connect" /\ Goto(r, q)
      BY <2>1, <2>3, <3>2 DEF SignInOK, LookupIdentity, At
    <3> HIDE DEF q
    <3> QED
      BY <2>0, <3>1, <3>2, <3>3, SignInGoesOn
  <2>4. CASE CheckBinding(r) \/ (ProvisionLookup(r) /\ Step(r, "insert"))
    <3>1. PICK step \in {"provision", "insert"} : Step(r, step)
      BY <1>3, <2>4 DEF CheckBinding
    <3> DEFINE q == [req[r] EXCEPT !.at = step]
    <3>2. q \in SigningIn /\ q.at = step
      BY <2>1 DEF SigningIn
    <3>3. /\ q.purpose = req[r].purpose /\ q.ext = req[r].ext /\ q.email = req[r].email
          /\ q.secret = req[r].secret
      BY <2>1 DEF SigningIn
    <3>4. q.purpose # "connect" /\ Goto(r, q)
      BY <2>1, <2>4, <3>1, <3>3 DEF SignInOK, CheckBinding, ProvisionLookup, At, Step
    <3> HIDE DEF q
    <3> QED
      BY <2>0, <3>1, <3>2, <3>3, <3>4, SignInGoesOn
  <2>5. CASE /\ ProvisionLookup(r) /\ identity[req[r].ext] # None
             /\ Provisioned(r, identity[req[r].ext])
    <3>1. PICK step \in {"admin", "session", "upsert"} :
            /\ Goto(r, [req[r] EXCEPT !.who = identity[req[r].ext], !.at = step])
            /\ step = "session" => req[r].purpose = "oidc"
            /\ step = "upsert" => req[r].purpose # "oidc"
      BY <2>5 DEF Provisioned
    <3> DEFINE q == [req[r] EXCEPT !.who = identity[req[r].ext], !.at = step]
    <3>2. q \in SigningIn /\ q.at = step
      BY <2>1, <2>2 DEF SigningIn
    <3>3. /\ q.purpose = req[r].purpose /\ q.ext = req[r].ext /\ q.email = req[r].email
          /\ q.secret = req[r].secret /\ q.who = identity[req[r].ext]
      BY <2>1 DEF SigningIn
    <3>4. q.purpose # "connect" /\ Goto(r, q)
      BY <2>1, <2>5, <3>1, <3>3 DEF SignInOK, ProvisionLookup, At
    <3> HIDE DEF q
    <3> QED
      BY <2>0, <2>2, <2>5, <3>1, <3>2, <3>3, <3>4, SignInGoesOn
  <2>6. CASE GrantSiteAdmin(r)
    <3>1. PICK step \in {"session", "upsert"} :
            /\ Step(r, step)
            /\ step = "session" <=> req[r].purpose = "oidc"
      BY <2>6 DEF GrantSiteAdmin
    <3> DEFINE q == [req[r] EXCEPT !.at = step]
    <3>2. q \in SigningIn /\ q.at = step
      BY <2>1 DEF SigningIn
    <3>3. /\ q.purpose = req[r].purpose /\ q.ext = req[r].ext /\ q.email = req[r].email
          /\ q.secret = req[r].secret /\ q.who = req[r].who
      BY <2>1 DEF SigningIn
    <3>4. q.purpose # "connect" /\ Goto(r, q) /\ req[r].at = "admin"
      BY <2>1, <2>6, <3>1, <3>3 DEF SignInOK, GrantSiteAdmin, At, Step
    <3>5. q.who \in users /\ (q.purpose = "oidc" => identity[q.ext] = q.who)
      BY <2>1, <3>3, <3>4 DEF SignInOK
    <3> HIDE DEF q
    <3> QED
      BY <2>0, <3>1, <3>2, <3>3, <3>4, <3>5, SignInGoesOn
  <2> QED
    BY <1>3, <2>3, <2>4, <2>5, <2>6 DEF ProvisionLookup, UsernameExhausted
<1> QED
  BY <1>1, <1>2, <1>3, WaitStep

\* The identities of a user that is in the middle of a removal do not change
\* when another user's do.
LEMMA OthersKeep ==
  ASSUME IInv, NEW s \in Requests, req[s].at = "delete"
  PROVE  /\ req[s].who \in users /\ req[s].who # None /\ req[s].ext \in Externals
         /\ UserLock(req[s].who) \subseteq Held(s) /\ AuthorityOf[req[s].ext] \in Providers
<1>1. PICK q \in Request : q = req[s]
  BY DEF IInv, TypeInv
<1>2. q \in Removing /\ RequestOK(q) /\ RemovalOK(q)
  BY <1>1, Shape DEF IInv, RequestInv, RemovalInv
<1>3. q.who \in users /\ q.who # None /\ q.ext \in Externals /\ UserLock(q.who) \subseteq q.held
        /\ AuthorityOf[q.ext] \in Providers
  BY <1>1, <1>2, UsersAssumption DEF RequestOK, RemovalOK, Removing, IInv, TypeInv
<1> QED
  BY <1>1, <1>3 DEF Held

\* A new account comes with its identity; an email or an identity that is taken
\* meanwhile is not.
LEMMA InsertStep ==
  ASSUME IInv, NEW r \in Requests, InsertUser(r)
  PROVE  IInv'
<1> USE UsersAssumption
<1>1. /\ UNCHANGED <<locals, grant, sessions, attempts, logins, issued, refreshable, refused>>
      /\ started' \in Nat /\ TypeInv
  BY DEF InsertUser, provider, IInv, TypeInv
<1>2. SignsIn(req[r])
  <2>1. req[r] \in Request /\ req[r].at = "insert"
    BY <1>1 DEF InsertUser, At, TypeInv
  <2> QED
    BY <2>1 DEF SignsIn, Request, Idle, Exchanging, SigningIn, LocalSession, Binding, Removing,
       Calling, Refreshing, Storing
<1>3. req[r] \in SigningIn /\ SignInOK(req[r]) /\ req[r].at = "insert"
  BY <1>2, SignInFacts DEF InsertUser, At
<1>4. req[r].purpose # "connect" /\ req[r].email \in Users /\ req[r].ext \in Externals
  BY <1>3 DEF SignInOK, SigningIn
<1>5. CASE req[r].email \in users
  BY <1>1, <1>5, FinishStep DEF InsertUser
<1>6. CASE req[r].email \notin users /\ identity[req[r].ext] # None
  <2> DEFINE q == [req[r] EXCEPT !.at = "provision"]
  <2>1. q \in SigningIn /\ q.at = "provision"
    BY <1>3 DEF SigningIn
  <2>2. /\ q.purpose = req[r].purpose /\ q.ext = req[r].ext /\ q.email = req[r].email
        /\ q.secret = req[r].secret
    BY <1>3 DEF SigningIn
  <2>3. Goto(r, q) /\ UNCHANGED <<users, identity>>
    BY <1>6 DEF InsertUser, Step
  <2> HIDE DEF q
  <2>4. q \in Request /\ RequestOK(q)
    BY <1>2, <1>4, <2>1, <2>2, SignInGoesOn
  <2> QED
    BY <1>1, <2>1, <2>3, <2>4, WaitStep
<1>7. CASE req[r].email \notin users /\ identity[req[r].ext] = None
  <2>1. PICK u \in Users, x \in Externals : u = req[r].email /\ x = req[r].ext
    BY <1>4
  <2>2. /\ u \notin users /\ identity[x] = None
        /\ users' = users \cup {u} /\ identity' = [identity EXCEPT ![x] = u]
        /\ Provisioned(r, u)
    BY <1>7, <2>1 DEF InsertUser
  <2>3. /\ identity' \in [Externals -> users' \cup {None}] /\ identity'[x] = u
        /\ \A y \in Externals : y # x => identity'[y] = identity[y]
        /\ \A y \in Externals : identity[y] \in users \cup {None}
    BY <1>1, <2>2 DEF TypeInv
  <2>4. Grows
    BY <1>1, <2>2, <2>3 DEF Grows, TypeInv
  <2>5. PICK step \in {"admin", "session", "upsert"} :
          /\ Goto(r, [req[r] EXCEPT !.who = u, !.at = step])
          /\ step = "session" => req[r].purpose = "oidc"
          /\ step = "upsert" => req[r].purpose # "oidc"
    BY <2>2 DEF Provisioned
  <2>6. PICK q : q = [req[r] EXCEPT !.who = u, !.at = step]
    OBVIOUS
  <2>7. q \in SigningIn /\ q.at = step
    BY <1>3, <2>6 DEF SigningIn
  <2>8. /\ q.purpose = req[r].purpose /\ q.ext = x /\ q.email = u
        /\ q.secret = req[r].secret /\ q.who = u
    BY <1>3, <2>1, <2>6 DEF SigningIn
  <2>9. SignInOK(q)'
    <3>1. q.purpose # "oidc" => /\ AuthorityOf[q.ext] \in Providers /\ q.secret \in Secret
                                /\ Issued(q.secret, q.ext)
      BY <1>3, <2>1, <2>8 DEF SignInOK
    <3>2. q.purpose # "oidc" => Issued(q.secret, q.ext)'
      BY <1>1, <2>4, <2>7, <2>8, <3>1, IssuedStays
    <3>3. q.purpose = "oidc" => AuthorityOf[q.ext] = Oidc
      BY <1>3, <2>1, <2>8 DEF SignInOK
    <3>4. q.who \in users' /\ identity'[q.ext] = q.who
      BY <2>2, <2>3, <2>8
    <3> QED
      BY <1>4, <2>5, <2>7, <2>8, <3>1, <3>2, <3>3, <3>4 DEF SignInOK
  <2>10. RequestOK(q)'
    BY <2>7, <2>9 DEF RequestOK, SignsIn, SigningIn
  <2>11. Moves(r) /\ req'[r] = q
    BY <1>1, <2>5, <2>6, <2>7, <2>10 DEF Moves, Goto, Request, TypeInv
  <2>12. /\ req' \in [Requests -> Request] /\ RequestInv'
         /\ \A s \in Requests \ {r} : req'[s] = req[s] /\ Held(s)' = Held(s)
    BY <1>1, <2>4, <2>11, MovesFrame DEF IInv
  <2>13. LockInv'
    <3>1. Held(r)' = {} /\ Available(r, {})
      BY <2>5, <2>7, <2>11 DEF Held, Available
    <3> QED
      BY <2>12, <3>1, LocksFrame DEF IInv
  <2>14. RemovalInv'
    <3>1. RemovalOK(req[r])'
      BY <2>5, <2>7, <2>11 DEF RemovalOK
    <3>2. ASSUME NEW s \in Requests \ {r}, req[s].at = "delete", NEW y \in Externals
          PROVE  identity'[y] = req[s].who <=> identity[y] = req[s].who
      BY <2>2, <2>3, <3>2, OthersKeep
    <3> QED
      BY <1>1, <2>12, <3>1, <3>2, RemovalFrame DEF IInv
  <2>15. SubjectInv' /\ AttemptInv' /\ attempts' \subseteq Attempt /\ GrantInv'
    BY <1>1, <2>4, HistoryFrame, GrantStays DEF IInv
  <2>16. LoginMethodRemains'
    <3> SUFFICES ASSUME NEW v \in users'
                 PROVE  v \in locals' \/ \E y \in Externals : identity'[y] = v
      BY DEF LoginMethodRemains
    <3>1. CASE v = u
      BY <2>3, <3>1
    <3>2. CASE v \in users
      <4>1. v # None /\ v # u
        BY <1>1, <2>2, <3>2 DEF TypeInv
      <4> QED
        BY <1>1, <2>2, <2>3, <3>2, <4>1 DEF IInv, LoginMethodRemains
    <3> QED
      BY <2>2, <3>1, <3>2
  <2>17. TypeInv'
    BY <1>1, <2>2, <2>3, <2>12, <2>15 DEF TypeInv
  <2> QED
    BY <2>12, <2>13, <2>14, <2>15, <2>16, <2>17 DEF IInv
<1> QED
  BY <1>5, <1>6, <1>7

\* Local accounts are registered with an email that is free.
LEMMA LocalStep ==
  ASSUME IInv, NEW r \in Requests, NEW u \in Users, LocalRegister(r, u) \/ LocalLogin(r, u)
  PROVE  IInv'
<1>1. /\ UNCHANGED <<identity, grant, sessions, attempts, logins, issued, refreshable, refused>>
      /\ started' \in Nat /\ TypeInv
  BY DEF LocalRegister, LocalLogin, Begin, database, provider, IInv, TypeInv
<1>2. PICK q : q = [at |-> "session", purpose |-> "local", who |-> u]
  OBVIOUS
<1>3. q \in Request /\ q.at = "session" /\ q.purpose = "local" /\ q.who = u /\ Goto(r, q)
  BY <1>2 DEF Request, LocalSession, LocalRegister, LocalLogin
<1>4. CASE LocalLogin(r, u)
  <2>1. u \in users /\ UNCHANGED <<users, locals>>
    BY <1>1, <1>4 DEF LocalLogin, TypeInv, database
  <2>2. RequestOK(q)
    BY <1>3, <2>1 DEF RequestOK, SignsIn
  <2> QED
    BY <1>1, <1>3, <2>1, <2>2, WaitStep
<1>5. CASE LocalRegister(r, u)
  <2>1. u \notin users /\ users' = users \cup {u} /\ locals' = locals \cup {u}
    BY <1>5 DEF LocalRegister
  <2>2. Grows
    BY <1>1, <2>1 DEF Grows, TypeInv
  <2>3. RequestOK(q)'
    BY <1>3, <2>1 DEF RequestOK, SignsIn
  <2>4. Moves(r) /\ req'[r] = q
    BY <1>1, <1>3, <2>3 DEF Moves, Goto, TypeInv
  <2>5. /\ req' \in [Requests -> Request] /\ RequestInv'
        /\ \A s \in Requests \ {r} : req'[s] = req[s] /\ Held(s)' = Held(s)
    BY <1>1, <2>2, <2>4, MovesFrame DEF IInv
  <2>6. LockInv'
    <3>1. Held(r)' = {} /\ Available(r, {})
      BY <1>3, <2>4 DEF Held, Available
    <3> QED
      BY <2>5, <3>1, LocksFrame DEF IInv
  <2>7. RemovalInv'
    <3>1. RemovalOK(req[r])'
      BY <1>3, <2>4 DEF RemovalOK
    <3> QED
      BY <1>1, <2>1, <2>5, <3>1, RemovalFrame DEF IInv
  <2>8. SubjectInv' /\ AttemptInv' /\ attempts' \subseteq Attempt /\ GrantInv'
    BY <1>1, <2>2, HistoryFrame, GrantStays DEF IInv
  <2>9. LoginMethodRemains'
    BY <1>1, <2>1 DEF IInv, LoginMethodRemains
  <2>10. TypeInv'
    BY <1>1, <2>1, <2>5, <2>8 DEF TypeInv
  <2> QED
    BY <2>5, <2>6, <2>7, <2>8, <2>9, <2>10 DEF IInv
<1> QED
  BY <1>4, <1>5

\* A session is one of an account; an OIDC login is remembered with the account
\* its subject has.
LEMMA SessionStep ==
  ASSUME IInv, NEW r \in Requests, IssueSession(r)
  PROVE  IInv'
<1> USE UsersAssumption
<1>1. /\ UNCHANGED <<users, locals, identity, grant, attempts, issued, refreshable, refused, started>>
      /\ TypeInv /\ Finish(r)
  BY DEF IssueSession, provider, IInv, TypeInv
<1>2. /\ req[r].who \in users
      /\ req[r].purpose = "oidc" => /\ req[r].ext \in Externals /\ AuthorityOf[req[r].ext] = Oidc
                                    /\ identity[req[r].ext] = req[r].who
  <2>1. PICK q \in Request : q = req[r]
    BY <1>1 DEF TypeInv
  <2>2. q.at = "session" /\ RequestOK(q)
    BY <2>1 DEF IssueSession, At, IInv, RequestInv
  <2>3. q.who \in users /\ (q.purpose = "oidc" => q \in SigningIn)
    BY <2>2, Shape DEF RequestOK, SignsIn, SignInOK
  <2>4. q.purpose = "oidc" => /\ q.ext \in Externals /\ AuthorityOf[q.ext] = Oidc
                              /\ identity[q.ext] = q.who
    BY <2>2, <2>3 DEF RequestOK, SignsIn, SignInOK, SigningIn
  <2> QED
    BY <2>1, <2>3, <2>4
<1>3. Grows
  BY <1>1, GrowsStill
<1>4. Moves(r) /\ req'[r] = Idle
  BY <1>1, <1>3, MovesOn, IdleOK DEF Finish, Goto, TypeInv
<1>5. /\ req' \in [Requests -> Request] /\ RequestInv'
      /\ \A s \in Requests \ {r} : req'[s] = req[s] /\ Held(s)' = Held(s)
  BY <1>1, <1>3, <1>4, MovesFrame DEF IInv
<1>6. LockInv'
  <2>1. Held(r)' = {} /\ Available(r, {})
    BY <1>4 DEF Held, Available, Idle
  <2> QED
    BY <1>5, <2>1, LocksFrame DEF IInv
<1>7. RemovalInv'
  <2>1. RemovalOK(req[r])'
    BY <1>4 DEF RemovalOK, Idle
  <2> QED
    BY <1>1, <1>5, <2>1, RemovalFrame DEF IInv
<1>8. AttemptInv' /\ attempts' \subseteq Attempt /\ GrantInv'
  BY <1>1, <1>3, HistoryFrame, GrantStays DEF IInv
<1>9. SubjectInv'
  <2> SUFFICES ASSUME NEW login \in logins'
               PROVE  /\ login[1] \in Externals /\ AuthorityOf[login[1]] = Oidc
                      /\ login[2] \in users /\ identity[login[1]] = login[2]
    BY <1>1 DEF SubjectInv
  <2>1. CASE login \in logins
    BY <2>1 DEF IInv, SubjectInv
  <2>2. CASE req[r].purpose = "oidc" /\ login = <<req[r].ext, req[r].who>>
    BY <1>2, <2>2
  <2> QED
    BY <2>1, <2>2 DEF IssueSession
<1>10. LoginMethodRemains'
  BY <1>1 DEF IInv, LoginMethodRemains
<1>11. sessions' \subseteq users
  BY <1>1, <1>2 DEF IssueSession, TypeInv
<1>12. TypeInv'
  BY <1>1, <1>5, <1>8, <1>11 DEF TypeInv
<1> QED
  BY <1>5, <1>6, <1>7, <1>8, <1>9, <1>10, <1>12 DEF IInv

-----------------------------------------------------------------------------
(* Connections.                                                            *)

\* A grant that is written for an account of the provider matches it.
LEMMA NewRow ==
  ASSUME TypeInv, NEW u \in users, NEW x \in Externals, NEW secret \in Secret,
         AuthorityOf[x] \in Providers, Issued(secret, x)
  PROVE  LET row == [account |-> x, secret |-> secret, status |-> "active"]
         IN  row \in Row /\ RowOK(u, AuthorityOf[x], row)
  BY DEF Row, RowOK

\* The locks of the upsert are row locks of the user, the grant and the account.
LEMMA UpsertLocksType ==
  ASSUME NEW r \in Requests, req[r].who \in Users, req[r].ext \in Externals,
         AuthorityOf[req[r].ext] \in Providers
  PROVE  UpsertLocks(r) \in SUBSET Lock
  BY DEF UpsertLocks, GrantLock, AccountLock, KeyLock, At1, Lock

\* A sign-in stores its grant; a connection keeps its locks to bind the identity.
LEMMA UpsertStep ==
  ASSUME IInv, NEW r \in Requests, UpsertGrant(r)
  PROVE  IInv'
<1> USE UsersAssumption
<1>1. /\ UNCHANGED <<users, locals, identity, sessions, attempts, logins, issued, refreshable, refused>>
      /\ started' \in Nat /\ TypeInv
  BY DEF UpsertGrant, provider, IInv, TypeInv
<1>2. SignsIn(req[r])
  <2>1. req[r] \in Request /\ req[r].at = "upsert"
    BY <1>1 DEF UpsertGrant, At, TypeInv
  <2> QED
    BY <2>1 DEF SignsIn, Request, Idle, Exchanging, SigningIn, LocalSession, Binding, Removing,
       Calling, Refreshing, Storing
<1>3. req[r] \in SigningIn /\ SignInOK(req[r]) /\ req[r].at = "upsert"
  BY <1>2, SignInFacts DEF UpsertGrant, At
<1>4. PICK u \in users, x \in Externals, secret \in Secret :
        /\ u = req[r].who /\ x = req[r].ext /\ secret = req[r].secret
        /\ AuthorityOf[x] \in Providers /\ Issued(secret, x)
  BY <1>3 DEF SignInOK, SigningIn
<1>5. Grows
  BY <1>1, GrowsStill
<1>6. CASE Finish(r) /\ UNCHANGED grant
  BY <1>1, <1>6, FinishStep
<1>7. CASE /\ req[r].purpose = "sign_in" /\ Step(r, "session")
           /\ grant' = [grant EXCEPT ![req[r].who][At1(r)] = Granted(r)]
  <2>1. PICK row \in Row, p \in Providers :
          /\ p = AuthorityOf[x]
          /\ row = [account |-> x, secret |-> secret, status |-> "active"]
    BY <1>4 DEF Row
  <2>2. row \in Row /\ RowOK(u, p, row)
    BY <1>1, <1>4, <2>1, NewRow
  <2>3. u \in Users /\ RowOK(u, p, row)'
    BY <1>1, <1>5, <2>2, RowStays DEF TypeInv
  <2>4. grant' = [grant EXCEPT ![u][p] = row]
    BY <1>4, <1>7, <2>1 DEF At1, Granted
  <2>5. GrantInv' /\ grant' \in [Users -> [Providers -> Row \cup {None}]]
    BY <1>1, <1>5, <2>2, <2>3, <2>4, GrantFrame DEF IInv
  <2> DEFINE q == [req[r] EXCEPT !.at = "session"]
  <2>6. q \in SigningIn /\ q.at = "session"
    BY <1>3 DEF SigningIn
  <2>7. /\ q.purpose = req[r].purpose /\ q.ext = req[r].ext /\ q.email = req[r].email
        /\ q.secret = req[r].secret /\ q.who = req[r].who
    BY <1>3 DEF SigningIn
  <2>8. Goto(r, q) /\ q.purpose = "sign_in"
    BY <1>7, <2>7 DEF Step
  <2> HIDE DEF q
  <2>9. q \in Request /\ RequestOK(q)
    BY <1>2, <1>4, <2>6, <2>7, <2>8, SignInGoesOn
  <2>10. Moves(r) /\ req'[r] = q
    BY <1>1, <1>5, <2>8, <2>9, MovesOn DEF Goto, TypeInv
  <2>11. Held(r)' = {} /\ Available(r, {}) /\ RemovalOK(req[r])'
    BY <2>6, <2>10 DEF Held, Available, RemovalOK
  <2> QED
    BY <1>1, <1>5, <2>5, <2>10, <2>11, QuietStep DEF TypeInv
<1>8. CASE /\ UNCHANGED grant
           /\ Goto(r, [at |-> "bind", who |-> req[r].who, ext |-> req[r].ext,
                       secret |-> req[r].secret, held |-> UpsertLocks(r)])
  <2>1. UpsertLocks(r) \in SUBSET Lock
    BY <1>1, <1>4, UpsertLocksType DEF TypeInv
  <2> DEFINE q == [at |-> "bind", who |-> u, ext |-> x, secret |-> secret, held |-> UpsertLocks(r)]
  <2>2. q \in Request /\ q.at = "bind" /\ q.held = UpsertLocks(r)
    BY <1>1, <2>1 DEF Request, Binding, TypeInv
  <2>3. RequestOK(q) /\ Goto(r, q)
    BY <1>4, <1>8 DEF RequestOK, SignsIn
  <2> HIDE DEF q
  <2>4. Moves(r) /\ req'[r] = q
    BY <1>1, <1>5, <2>2, <2>3, MovesOn DEF Goto, TypeInv
  <2>5. Held(r)' \subseteq Held(r) \cup UpsertLocks(r) /\ RemovalOK(req[r])'
    BY <2>2, <2>4 DEF Held, RemovalOK
  <2>6. Available(r, UpsertLocks(r))
    BY DEF UpsertGrant
  <2>7. GrantInv' /\ grant' \in [Users -> [Providers -> Row \cup {None}]]
    BY <1>1, <1>5, <1>8, GrantStays DEF IInv, TypeInv
  <2> QED
    BY <1>1, <1>5, <2>4, <2>5, <2>6, <2>7, QuietStep DEF TypeInv
<1> QED
  BY <1>6, <1>7, <1>8 DEF UpsertGrant

\* The identity is bound under the lock of the user, so no removal of the same
\* user is in the middle.
LEMMA BindStep ==
  ASSUME IInv, NEW r \in Requests, BindIdentity(r)
  PROVE  IInv'
<1> USE UsersAssumption, ProvidersAssumption
<1>1. /\ UNCHANGED <<users, locals, sessions, attempts, logins, issued, refreshable, refused>>
      /\ started' \in Nat /\ TypeInv /\ Finish(r)
  BY DEF BindIdentity, provider, IInv, TypeInv
<1>2. PICK u \in users, x \in Externals, secret \in Secret :
        /\ u = req[r].who /\ x = req[r].ext /\ secret = req[r].secret
        /\ AuthorityOf[x] \in Providers /\ Issued(secret, x)
  <2>1. PICK q \in Request : q = req[r]
    BY <1>1 DEF TypeInv
  <2>2. q.at = "bind" /\ q \in Binding /\ RequestOK(q)
    BY <2>1, Shape DEF BindIdentity, At, IInv, RequestInv
  <2> QED
    BY <2>1, <2>2 DEF RequestOK, Binding
<1>3. CASE UNCHANGED <<identity, grant>>
  BY <1>1, <1>3, FinishStep
<1>4. CASE /\ ~IdentityConflict(u, x) /\ identity' = [identity EXCEPT ![x] = u]
           /\ grant' = [grant EXCEPT ![u][At1(r)] = Granted(r)]
  <2>1. /\ identity[x] \in {None, u} /\ u \in Users /\ u # None
        /\ identity' \in [Externals -> users \cup {None}] /\ identity'[x] = u
        /\ \A y \in Externals : y # x => identity'[y] = identity[y]
    BY <1>1, <1>4 DEF IdentityConflict, TypeInv
  <2>2. Grows
    BY <1>1, <1>2, <2>1 DEF Grows, TypeInv
  <2>3. PICK row \in Row, p \in Providers :
          /\ p = AuthorityOf[x]
          /\ row = [account |-> x, secret |-> secret, status |-> "active"]
    BY <1>2 DEF Row
  <2>4. row \in Row /\ RowOK(u, p, row)
    BY <1>1, <1>2, <2>3, NewRow
  <2>5. RowOK(u, p, row)'
    BY <1>1, <2>1, <2>2, <2>4, RowStays
  <2>6. grant' = [grant EXCEPT ![u][p] = row]
    BY <1>2, <1>4, <2>3 DEF At1, Granted
  <2>7. GrantInv' /\ grant' \in [Users -> [Providers -> Row \cup {None}]]
    BY <1>1, <2>1, <2>2, <2>4, <2>5, <2>6, GrantFrame DEF IInv
  <2>8. Moves(r) /\ req'[r] = Idle
    BY <1>1, <2>2, MovesOn, IdleOK DEF Finish, Goto, TypeInv
  <2>9. /\ req' \in [Requests -> Request] /\ RequestInv'
        /\ \A s \in Requests \ {r} : req'[s] = req[s] /\ Held(s)' = Held(s)
    BY <1>1, <2>2, <2>8, MovesFrame DEF IInv
  <2>10. LockInv'
    <3>1. Held(r)' = {} /\ Available(r, {})
      BY <2>8 DEF Held, Available, Idle
    <3> QED
      BY <2>9, <3>1, LocksFrame DEF IInv
  <2>11. RemovalInv'
    <3>1. RemovalOK(req[r])'
      BY <2>8 DEF RemovalOK, Idle
    <3>2. ASSUME NEW s \in Requests \ {r}, req[s].at = "delete"
          PROVE  req[s].who # u /\ req[s].who # None
      <4>1. UserLock(req[s].who) \subseteq Held(s) /\ req[s].who # None
        BY <3>2, OthersKeep
      <4>2. Available(r, UserLock(u))
        BY <1>2 DEF BindIdentity
      <4> QED
        BY <4>1, <4>2 DEF Available, UserLock
    <3> QED
      BY <1>1, <2>1, <2>9, <3>1, <3>2, RemovalFrame DEF IInv
  <2>12. SubjectInv' /\ AttemptInv' /\ attempts' \subseteq Attempt
    BY <1>1, <2>2, HistoryFrame DEF IInv
  <2>13. LoginMethodRemains'
    <3> SUFFICES ASSUME NEW v \in users
                 PROVE  v \in locals \/ \E y \in Externals : identity'[y] = v
      BY <1>1 DEF LoginMethodRemains
    <3>1. v # None
      BY <1>1 DEF TypeInv
    <3> QED
      BY <2>1, <3>1 DEF IInv, LoginMethodRemains
  <2>14. TypeInv'
    BY <1>1, <2>1, <2>7, <2>9, <2>12 DEF TypeInv
  <2> QED
    BY <2>7, <2>9, <2>10, <2>11, <2>12, <2>13, <2>14 DEF IInv
<1> QED
  BY <1>2, <1>3, <1>4 DEF BindIdentity

\* A disconnection locks the grant; its account is one of the provider.
LEMMA DisconnectStep ==
  ASSUME IInv, NEW r \in Requests, NEW u \in Users, NEW p \in Providers,
         DisconnectExternalGit(r, u, p)
  PROVE  IInv'
<1>1. /\ UNCHANGED <<users, locals, identity, grant, sessions, attempts, logins, issued, refreshable, refused>>
      /\ started' \in Nat /\ TypeInv
  BY DEF DisconnectExternalGit, Begin, database, provider, IInv, TypeInv
<1>2. grant[u][p] \in Row /\ RowOK(u, p, grant[u][p])
  BY <1>1 DEF DisconnectExternalGit, IInv, GrantInv, TypeInv
<1>3. PICK x \in Externals : x = grant[u][p].account /\ AuthorityOf[x] = p /\ u \in users
  BY <1>2 DEF Row, RowOK
<1> DEFINE q == [at |-> "remove", who |-> u, prov |-> p, ext |-> x, held |-> GrantLock(u, p)]
<1>4. GrantLock(u, p) \in SUBSET Lock
  BY DEF GrantLock, Lock
<1>5. q \in Request /\ q.at = "remove" /\ q.held = GrantLock(u, p)
  BY <1>4 DEF Request, Removing
<1>6. Goto(r, q) /\ RequestOK(q)
  BY <1>3 DEF DisconnectExternalGit, RequestOK, SignsIn
<1> HIDE DEF q
<1>7. Grows
  BY <1>1, GrowsStill
<1>8. Moves(r) /\ req'[r] = q
  BY <1>1, <1>5, <1>6, <1>7, MovesOn DEF Goto, TypeInv
<1>9. Held(r)' \subseteq Held(r) \cup GrantLock(u, p) /\ RemovalOK(req[r])'
  BY <1>5, <1>8 DEF Held, RemovalOK
<1>10. Available(r, GrantLock(u, p))
  BY DEF DisconnectExternalGit
<1>11. GrantInv' /\ grant' \in [Users -> [Providers -> Row \cup {None}]]
  BY <1>1, <1>7, GrantStays DEF IInv, TypeInv
<1> QED
  BY <1>1, <1>7, <1>8, <1>9, <1>10, <1>11, QuietStep DEF TypeInv

\* The login methods are counted when the user's lock is taken.
LEMMA RemoveStep ==
  ASSUME IInv, NEW r \in Requests, RemoveIdentity(r)
  PROVE  IInv'
<1>1. /\ UNCHANGED <<users, locals, identity, grant, sessions, attempts, logins, issued, refreshable, refused>>
      /\ started' \in Nat /\ TypeInv
  BY DEF RemoveIdentity, database, provider, IInv, TypeInv
<1>2. PICK o \in Request : o = req[r]
  BY <1>1 DEF TypeInv
<1>3. o.at = "remove" /\ o \in Removing /\ RequestOK(o)
  BY <1>2, Shape DEF RemoveIdentity, At, IInv, RequestInv
<1>4. CASE Finish(r)
  BY <1>1, <1>4, FinishStep
<1>5. CASE ~Finish(r)
  <2>1. /\ ~(identity[o.ext] = o.who /\ OtherLoginMethods(o.who, o.ext) = {})
        /\ Goto(r, [o EXCEPT !.at = "delete", !.held = @ \cup UserLock(o.who)])
        /\ Available(r, UserLock(o.who))
    BY <1>2, <1>5 DEF RemoveIdentity, RemovalLock
  <2>2. PICK q : q = [o EXCEPT !.at = "delete", !.held = @ \cup UserLock(o.who)]
    OBVIOUS
  <2>3. UserLock(o.who) \in SUBSET Lock
    BY <1>3 DEF UserLock, Lock, Removing
  <2>4. q \in Removing
    BY <1>3, <2>2, <2>3 DEF Removing
  <2>5. /\ q.at = "delete" /\ q.who = o.who /\ q.ext = o.ext
        /\ q.held = o.held \cup UserLock(o.who)
    BY <1>3, <2>2 DEF Removing
  <2>6. q \in Request /\ RequestOK(q)
    BY <1>3, <2>4, <2>5 DEF Request, RequestOK, SignsIn
  <2>7. RemovalOK(q)
    BY <2>1, <2>5 DEF RemovalOK, OtherLoginMethods
  <2>8. RemovalOK(q)'
    BY <1>1, <2>6, <2>7, RemovalStays
  <2>9. Grows
    BY <1>1, GrowsStill
  <2>10. Moves(r) /\ req'[r] = q
    BY <1>1, <2>1, <2>2, <2>6, <2>9, MovesOn DEF Goto, TypeInv
  <2>11. Held(r)' \subseteq Held(r) \cup UserLock(o.who) /\ RemovalOK(req[r])'
    <3>1. Held(r)' = q.held
      BY <2>5, <2>10 DEF Held
    <3>2. Held(r) = o.held
      BY <1>2, <1>3 DEF Held
    <3>3. RemovalOK(req[r])'
      BY <2>8, <2>10
    <3> QED
      BY <2>5, <3>1, <3>2, <3>3
  <2>12. GrantInv' /\ grant' \in [Users -> [Providers -> Row \cup {None}]]
    BY <1>1, <2>9, GrantStays DEF IInv, TypeInv
  <2> QED
    BY <1>1, <2>1, <2>9, <2>10, <2>11, <2>12, QuietStep DEF TypeInv
<1> QED
  BY <1>4, <1>5

\* The identity goes with the grant; the user has another login method, since the
\* lock kept those that were counted.
LEMMA DeleteStep ==
  ASSUME IInv, NEW r \in Requests, DeleteGrant(r)
  PROVE  IInv'
<1> USE UsersAssumption, ProvidersAssumption
<1>1. /\ UNCHANGED <<users, locals, sessions, attempts, logins, issued, refreshable, refused>>
      /\ started' \in Nat /\ TypeInv /\ Finish(r)
  BY DEF DeleteGrant, provider, IInv, TypeInv
<1>2. req[r].at = "delete"
  BY DEF DeleteGrant, At
<1>3. PICK u \in users, x \in Externals, p \in Providers :
        /\ u = req[r].who /\ x = req[r].ext /\ p = req[r].prov
        /\ AuthorityOf[x] \in Providers /\ UserLock(u) \subseteq Held(r)
        /\ \/ identity[x] # u \/ u \in locals
           \/ \E y \in Externals \ {x} : identity[y] = u
  <2>1. PICK q \in Request : q = req[r]
    BY <1>1 DEF TypeInv
  <2>2. q \in Removing /\ RequestOK(q) /\ RemovalOK(q)
    BY <1>2, <2>1, Shape DEF IInv, RequestInv, RemovalInv
  <2>3. /\ q.who \in users /\ q.ext \in Externals /\ q.prov \in Providers
        /\ AuthorityOf[q.ext] \in Providers
    BY <1>2, <2>1, <2>2 DEF RequestOK, Removing
  <2>4. UserLock(q.who) \subseteq Held(r)
    BY <1>2, <2>1, OthersKeep
  <2> QED
    BY <1>2, <2>1, <2>2, <2>3, <2>4 DEF RemovalOK
<1>4. /\ identity' \in [Externals -> users \cup {None}]
      /\ \A y \in Externals : y # x => identity'[y] = identity[y]
      /\ identity[x] # u => identity'[x] = identity[x]
      /\ identity[x] = u => identity'[x] = None
      /\ u \in Users /\ u # None
  BY <1>1, <1>3 DEF DeleteGrant, TypeInv
<1>5. Grows
  BY <1>1, <1>3, <1>4 DEF Grows, TypeInv
<1>6. GrantInv' /\ grant' \in [Users -> [Providers -> Row \cup {None}]]
  <2>1. grant' = [grant EXCEPT ![u][p] = None]
    BY <1>3 DEF DeleteGrant
  <2> QED
    BY <1>1, <1>4, <1>5, <2>1, GrantFrame DEF IInv
<1>7. Moves(r) /\ req'[r] = Idle
  BY <1>1, <1>5, MovesOn, IdleOK DEF Finish, Goto, TypeInv
<1>8. /\ req' \in [Requests -> Request] /\ RequestInv'
      /\ \A s \in Requests \ {r} : req'[s] = req[s] /\ Held(s)' = Held(s)
  BY <1>1, <1>5, <1>7, MovesFrame DEF IInv
<1>9. LockInv'
  <2>1. Held(r)' = {} /\ Available(r, {})
    BY <1>7 DEF Held, Available, Idle
  <2> QED
    BY <1>8, <2>1, LocksFrame DEF IInv
<1>10. RemovalInv'
  <2>1. RemovalOK(req[r])'
    BY <1>7 DEF RemovalOK, Idle
  <2>2. ASSUME NEW s \in Requests \ {r}, req[s].at = "delete"
        PROVE  req[s].who # u /\ req[s].who # None
    <3>1. UserLock(req[s].who) \subseteq Held(s) /\ req[s].who # None
      BY <2>2, OthersKeep
    <3> QED
      BY <1>3, <3>1 DEF IInv, LockInv, UserLock
  <2> QED
    BY <1>1, <1>4, <1>8, <2>1, <2>2, RemovalFrame DEF IInv
<1>11. SubjectInv' /\ AttemptInv' /\ attempts' \subseteq Attempt
  BY <1>1, <1>5, HistoryFrame DEF IInv
<1>12. LoginMethodRemains'
  <2> SUFFICES ASSUME NEW v \in users
               PROVE  v \in locals \/ \E y \in Externals : identity'[y] = v
    BY <1>1 DEF LoginMethodRemains
  <2>1. v # None /\ (v \in locals \/ \E y \in Externals : identity[y] = v)
    BY <1>1 DEF TypeInv, IInv, LoginMethodRemains
  <2>2. CASE v # u
    BY <1>4, <2>1, <2>2
  <2>3. CASE v = u
    BY <1>3, <1>4, <2>1, <2>3
  <2> QED
    BY <2>2, <2>3
<1>13. TypeInv'
  BY <1>1, <1>4, <1>6, <1>8, <1>11 DEF TypeInv
<1> QED
  BY <1>6, <1>8, <1>9, <1>10, <1>11, <1>12, <1>13 DEF IInv

-----------------------------------------------------------------------------
(* Calls of the provider and refreshes.                                    *)

\* A refresh begins with the secret of the grant.
LEMMA RefreshBegins ==
  ASSUME IInv, NEW r \in Requests, NEW u \in Users, NEW p \in Providers, grant[u][p] # None,
         NEW turn \in {"first", "forced"}, RefreshOf(r, u, p, turn)
  PROVE  \E q \in Request : Goto(r, q) /\ RequestOK(q) /\ q.at = "refresh"
<1>1. grant[u][p] \in Row /\ RowOK(u, p, grant[u][p])
  BY DEF IInv, GrantInv, TypeInv
<1>2. PICK secret \in Secret, x \in Externals : secret = grant[u][p].secret /\ Issued(secret, x)
  BY <1>1 DEF Row, RowOK
<1> DEFINE q == [at |-> "refresh", who |-> u, prov |-> p, turn |-> turn, secret |-> secret]
<1>3. q \in Request /\ q.at = "refresh"
  BY DEF Request, Refreshing
<1>4. RequestOK(q)
  BY <1>2 DEF RequestOK, SignsIn
<1>5. Goto(r, q)
  BY <1>2 DEF RefreshOf
<1> QED
  BY <1>3, <1>4, <1>5

\* A call waits with nothing that another step could falsify.
LEMMA CallOK ==
  ASSUME NEW u \in Users, NEW p \in Providers, NEW turn \in {"first", "forced"}
  PROVE  LET q == [at |-> "call", who |-> u, prov |-> p, turn |-> turn]
         IN  q \in Request /\ RequestOK(q) /\ q.at = "call"
  BY DEF Request, Calling, RequestOK, SignsIn

\* A call begins, with the grant as it is or after a refresh.
LEMMA CallStep ==
  ASSUME IInv, NEW r \in Requests, NEW u \in Users, NEW p \in Providers, ProviderCall(r, u, p)
  PROVE  IInv'
<1>1. /\ UNCHANGED <<users, locals, identity, grant, sessions, attempts, logins, issued, refreshable, refused>>
      /\ started' \in Nat
  BY DEF ProviderCall, Begin, database, provider, IInv, TypeInv
<1>2. \E q \in Request : Goto(r, q) /\ RequestOK(q) /\ q.at \in {"call", "refresh"}
  <2>1. CASE Goto(r, [at |-> "call", who |-> u, prov |-> p, turn |-> "first"])
    BY <2>1, CallOK
  <2>2. CASE RefreshOf(r, u, p, "first")
    BY <2>2, RefreshBegins DEF ProviderCall, Usable
  <2> QED
    BY <2>1, <2>2 DEF ProviderCall
<1> QED
  BY <1>1, <1>2, WaitStep

\* A request at a call, a refresh, a mark or a store is one of a user at a
\* provider, with the turn it is in.
LEMMA CallerFacts ==
  ASSUME IInv, NEW r \in Requests, req[r].at \in {"call", "refresh", "mark", "store"}
  PROVE  /\ req[r].who \in Users /\ req[r].prov \in Providers
         /\ req[r].turn \in {"first", "forced"}
         /\ req[r].at \in {"refresh", "mark"} => req[r] \in Refreshing
         /\ req[r].at = "store" => req[r] \in Storing
         /\ RequestOK(req[r])
<1>1. req[r] \in Request /\ RequestOK(req[r])
  BY DEF IInv, TypeInv, RequestInv
<1> QED
  BY <1>1, Shape DEF Calling, Refreshing, Storing

\* One grant changes and its request goes on, holding no lock.
LEMMA GrantStep ==
  ASSUME IInv, NEW r \in Requests, NEW u \in Users, NEW p \in Providers, NEW row \in Row,
         RowOK(u, p, row), grant' = [grant EXCEPT ![u][p] = row],
         NEW q \in Request, Goto(r, q), RequestOK(q), q.at \notin {"bind", "remove", "delete"},
         UNCHANGED <<users, locals, identity, sessions, attempts, logins, issued, refreshable, refused, started>>
  PROVE  IInv'
<1>1. TypeInv /\ Grows
  BY GrowsStill DEF IInv
<1>2. RowOK(u, p, row)'
  BY <1>1, RowStays
<1>3. GrantInv' /\ grant' \in [Users -> [Providers -> Row \cup {None}]]
  BY <1>1, <1>2, GrantFrame DEF IInv
<1>4. Moves(r) /\ req'[r] = q
  BY <1>1, MovesOn DEF Goto, TypeInv
<1>5. Held(r)' = {} /\ Available(r, {}) /\ RemovalOK(req[r])'
  BY <1>4 DEF Held, Available, RemovalOK
<1> QED
  BY <1>1, <1>3, <1>4, <1>5, QuietStep DEF TypeInv

\* A rejected call is refreshed once, then the grant is marked.
LEMMA SendStep ==
  ASSUME IInv, NEW r \in Requests, SendOnce(r)
  PROVE  IInv'
<1>1. /\ UNCHANGED <<users, locals, identity, sessions, attempts, logins, issued, refreshable, refused, started>>
      /\ started' \in Nat /\ TypeInv
  BY DEF SendOnce, provider, IInv, TypeInv
<1>2. PICK u \in Users, p \in Providers : u = req[r].who /\ p = req[r].prov
  BY CallerFacts DEF SendOnce, At
<1>3. CASE Finish(r) /\ UNCHANGED grant
  BY <1>1, <1>3, FinishStep
<1>4. CASE Usable(u, p) /\ RefreshOf(r, u, p, "forced") /\ UNCHANGED grant
  <2>1. \E q \in Request : Goto(r, q) /\ RequestOK(q) /\ q.at = "refresh"
    BY <1>4, RefreshBegins DEF Usable
  <2> QED
    BY <1>1, <1>4, <2>1, WaitStep
<1>5. CASE /\ grant[u][p] # None /\ grant' = [grant EXCEPT ![u][p].status = "api_rejected"]
           /\ Finish(r)
  <2>1. grant[u][p] \in Row /\ RowOK(u, p, grant[u][p])
    BY <1>1, <1>5 DEF IInv, GrantInv, TypeInv
  <2> DEFINE row == [grant[u][p] EXCEPT !.status = "api_rejected"]
  <2>2. row \in Row
    BY <2>1 DEF Row
  <2>3. /\ row.account = grant[u][p].account /\ row.secret = grant[u][p].secret
        /\ row.status = "api_rejected"
    BY <2>1 DEF Row
  <2>4. RowOK(u, p, row)
    BY <2>1, <2>3 DEF RowOK
  <2>5. grant' = [grant EXCEPT ![u][p] = row]
    BY <1>5
  <2> HIDE DEF row
  <2>6. Idle \in Request /\ Idle.at = "idle" /\ RequestOK(Idle)
    BY IdleOK DEF Idle
  <2> QED
    BY <1>1, <1>5, <2>2, <2>4, <2>5, <2>6, GrantStep DEF Finish
<1> QED
  BY <1>2, <1>3, <1>4, <1>5 DEF SendOnce, MarkReauthRequired

\* The provider issues the new token to the account of the old one; a refusal
\* is remembered with the secret it is about.
LEMMA RefreshStep ==
  ASSUME IInv, NEW r \in Requests, RefreshAccessToken(r)
  PROVE  IInv'
<1>1. /\ UNCHANGED <<users, locals, identity, grant, sessions, attempts, logins, started>>
      /\ started' \in Nat /\ TypeInv
  BY DEF RefreshAccessToken, database, IInv, TypeInv
<1>2. PICK o \in Refreshing : o = req[r] /\ o.at = "refresh" /\ RequestOK(o)
  BY CallerFacts DEF RefreshAccessToken, At
<1>3. PICK x \in Externals : Issued(o.secret, x)
  BY <1>2 DEF RequestOK
<1>4. CASE RefreshUnanswered(r)
  BY <1>1, <1>4, FinishStep DEF RefreshUnanswered, provider
<1>5. CASE RefreshRejected(r)
  <2> DEFINE q == [o EXCEPT !.at = "mark"]
  <2>1. q \in Refreshing /\ q.at = "mark" /\ q.secret = o.secret
    BY <1>2 DEF Refreshing
  <2>2. Goto(r, q) /\ UNCHANGED <<issued, refreshable>> /\ refused' = refused \cup {o.secret}
    BY <1>2, <1>5 DEF RefreshRejected, Step
  <2> HIDE DEF q
  <2>3. Grows
    BY <1>1, <2>2, GrowsStill
  <2>4. o.secret \in Secret /\ Issued(o.secret, x)'
    BY <1>1, <1>2, <1>3, <2>3, IssuedStays DEF Refreshing
  <2>5. q \in Request /\ RequestOK(q)'
    BY <2>1, <2>2, <2>4 DEF Request, RequestOK, SignsIn
  <2>6. Moves(r) /\ req'[r] = q
    BY <1>1, <2>2, <2>5 DEF Moves, Goto, TypeInv
  <2> QED
    BY <1>1, <2>1, <2>2, <2>3, <2>6, FreeStep DEF TypeInv
<1>6. CASE \E rotated \in BOOLEAN : RefreshAccepted(r, rotated)
  <2>1. PICK rotated \in BOOLEAN : RefreshAccepted(r, rotated)
    BY <1>6
  <2>2. /\ o.secret.refresh \in refreshable
        /\ issued' = Append(issued, issued[o.secret.refresh])
        /\ refreshable' = IF rotated THEN (refreshable \ {o.secret.refresh}) \cup {Len(issued) + 1}
                                     ELSE refreshable
        /\ UNCHANGED refused
    BY <1>2, <2>1 DEF RefreshAccepted, Next1
  <2>3. Len(issued) \in Nat /\ issued \in Seq(Externals) /\ refreshable \subseteq 1..Len(issued)
    BY <1>1 DEF TypeInv
  <2>4. /\ o.secret.refresh \in 1..Len(issued) /\ o.secret.refresh # 0
        /\ issued[o.secret.refresh] = x
    BY <1>3, <2>2, <2>3 DEF Issued
  <2>5. /\ issued' \in Seq(Externals) /\ Len(issued') = Len(issued) + 1
        /\ \A n \in 1..Len(issued) : issued'[n] = issued[n]
        /\ issued'[Len(issued) + 1] = x
    BY <2>2, <2>3, <2>4
  <2>6. refreshable' \subseteq 1..Len(issued') /\ Grows
    <3>1. refreshable' \subseteq refreshable \cup {Len(issued) + 1}
      BY <2>2
    <3>3. 1..Len(issued') = 1..Len(issued) \cup {Len(issued) + 1}
      BY <2>3, <2>5
    <3>2. Grows
      BY <1>1, <2>2, <2>3, <2>5 DEF Grows
    <3> QED
      BY <2>3, <3>1, <3>2, <3>3
  <2>7. \E q \in Request : Goto(r, q) /\ RequestOK(q)' /\ q.at \in {"idle", "store"}
    <3>1. CASE Finish(r)
      <4>1. Idle \in Request /\ RequestOK(Idle) /\ Idle.at = "idle"
        BY IdleOK DEF Idle
      <4>2. RequestOK(Idle)'
        BY <1>1, <2>6, <4>1, RequestStays
      <4> QED
        BY <3>1, <4>1, <4>2 DEF Finish
    <3>2. CASE ~Finish(r)
      <4>1. PICK i \in Nat, f \in Nat :
              i = Len(issued) + 1 /\ f = (IF rotated THEN Len(issued) + 1 ELSE o.secret.refresh)
        BY <2>3, <2>4
      <4>2. PICK new \in Secret : new = [access |-> i, refresh |-> f]
        BY DEF Secret
      <4>3. PICK q : q = [at |-> "store", who |-> o.who, prov |-> o.prov, turn |-> o.turn,
                          old |-> o.secret, secret |-> new]
        OBVIOUS
      <4>4. Goto(r, q)
        BY <1>2, <2>1, <3>2, <4>1, <4>2, <4>3 DEF RefreshAccepted, Next1
      <4>5. q \in Storing /\ q.at = "store" /\ q.old = o.secret /\ q.secret = new
        BY <1>2, <4>3 DEF Storing, Refreshing
      <4>6. o.secret \in Secret
        BY <1>2 DEF Refreshing
      <4>7. Issued(o.secret, x)'
        BY <1>1, <1>3, <2>6, <4>6, IssuedStays
      <4>8. Issued(new, x)'
        <5>1. new.access = i /\ new.refresh = f
          BY <4>2
        <5>2. /\ i \in 1..Len(issued') /\ issued'[i] = x
              /\ f \in 1..Len(issued') /\ issued'[f] = x
          BY <2>3, <2>4, <2>5, <4>1
        <5> QED
          BY <5>1, <5>2 DEF Issued
      <4>9. RequestOK(q)'
        BY <4>5, <4>7, <4>8 DEF RequestOK, SignsIn
      <4> QED
        BY <4>4, <4>5, <4>9 DEF Request
    <3> QED
      BY <3>1, <3>2
  <2>8. PICK q \in Request : Goto(r, q) /\ RequestOK(q)' /\ q.at \in {"idle", "store"}
    BY <2>7
  <2>9. Moves(r) /\ req'[r] = q
    BY <1>1, <2>8 DEF Moves, Goto, TypeInv
  <2> QED
    BY <1>1, <2>5, <2>6, <2>8, <2>9, FreeStep
<1> QED
  BY <1>4, <1>5, <1>6 DEF RefreshAccessToken

\* When the grant was changed meanwhile, the request uses what is there or ends.
LEMMA AfterConcurrentStep ==
  ASSUME IInv, NEW r \in Requests, req[r].at \in {"mark", "store"}, AfterConcurrentUpdate(r),
         UNCHANGED <<users, locals, identity, grant, sessions, attempts, logins, issued, refreshable, refused,
                     started>>
  PROVE  IInv'
<1>1. started' \in Nat
  BY DEF IInv, TypeInv
<1>2. CASE Finish(r)
  BY <1>1, <1>2, FinishStep
<1>3. CASE Goto(r, [at |-> "call", who |-> req[r].who, prov |-> req[r].prov, turn |-> req[r].turn])
  <2>1. \E q \in Request : Goto(r, q) /\ RequestOK(q) /\ q.at = "call"
    BY <1>3, CallOK, CallerFacts
  <2> QED
    BY <1>1, <2>1, WaitStep
<1> QED
  BY <1>2, <1>3 DEF AfterConcurrentUpdate

\* A refreshed secret replaces the one it was refreshed from; both were issued to
\* the account of the grant.
LEMMA StoreStep ==
  ASSUME IInv, NEW r \in Requests, UpdateRefreshedGrant(r)
  PROVE  IInv'
<1>1. /\ UNCHANGED <<users, locals, identity, sessions, attempts, logins, issued, refreshable, refused, started>>
      /\ TypeInv
  BY DEF UpdateRefreshedGrant, provider, IInv
<1>2. PICK o \in Storing : o = req[r] /\ o.at = "store" /\ RequestOK(o)
  BY CallerFacts DEF UpdateRefreshedGrant, At
<1>3. PICK u \in Users, p \in Providers, turn \in {"first", "forced"} :
        u = o.who /\ p = o.prov /\ turn = o.turn
  BY <1>2 DEF Storing
<1>4. CASE AfterConcurrentUpdate(r) /\ UNCHANGED grant
  BY <1>1, <1>2, <1>4, AfterConcurrentStep
<1>5. CASE /\ Current(u, p, o.old) /\ grant' = [grant EXCEPT ![u][p].secret = o.secret]
           /\ Goto(r, [at |-> "call", who |-> u, prov |-> p, turn |-> turn])
  <2>1. grant[u][p] \in Row /\ RowOK(u, p, grant[u][p]) /\ grant[u][p].secret = o.old
          /\ grant[u][p].status = "active"
    BY <1>1, <1>5 DEF IInv, GrantInv, TypeInv, Current, Usable
  <2>2. PICK x \in Externals : Issued(o.old, x) /\ Issued(o.secret, x)
    BY <1>2 DEF RequestOK
  <2>3. x = grant[u][p].account
    BY <2>1, <2>2 DEF RowOK, Issued
  <2> DEFINE row == [grant[u][p] EXCEPT !.secret = o.secret]
  <2>4. row \in Row
    BY <1>2, <2>1 DEF Row, Storing
  <2>5. row.account = x /\ row.secret = o.secret /\ row.status = "active"
    BY <2>1, <2>3 DEF Row
  <2>6. RowOK(u, p, row)
    BY <2>1, <2>2, <2>3, <2>5 DEF RowOK
  <2>7. grant' = [grant EXCEPT ![u][p] = row]
    BY <1>5
  <2> HIDE DEF row
  <2>8. \E q \in Request : Goto(r, q) /\ RequestOK(q) /\ q.at = "call"
    BY <1>5, CallOK
  <2> QED
    BY <1>1, <2>4, <2>6, <2>7, <2>8, GrantStep
<1> QED
  BY <1>2, <1>3, <1>4, <1>5 DEF UpdateRefreshedGrant

\* A grant is marked only while it has the token that was refused.
LEMMA MarkStep ==
  ASSUME IInv, NEW r \in Requests, MarkIfCurrent(r)
  PROVE  IInv'
<1>1. /\ UNCHANGED <<users, locals, identity, sessions, attempts, logins, issued, refreshable, refused, started>>
      /\ TypeInv
  BY DEF MarkIfCurrent, provider, IInv
<1>2. PICK o \in Refreshing : o = req[r] /\ o.at = "mark" /\ RequestOK(o)
  BY CallerFacts DEF MarkIfCurrent, At
<1>3. PICK u \in Users, p \in Providers : u = o.who /\ p = o.prov
  BY <1>2 DEF Refreshing
<1>4. CASE AfterConcurrentUpdate(r) /\ UNCHANGED grant
  BY <1>1, <1>2, <1>4, AfterConcurrentStep
<1>5. CASE /\ Current(u, p, o.secret) /\ grant' = [grant EXCEPT ![u][p].status = "refresh_refused"]
           /\ Finish(r)
  <2>1. grant[u][p] \in Row /\ RowOK(u, p, grant[u][p]) /\ grant[u][p].secret = o.secret
    BY <1>1, <1>5 DEF IInv, GrantInv, TypeInv, Current, Usable
  <2>2. o.secret \in refused
    BY <1>2 DEF RequestOK
  <2> DEFINE row == [grant[u][p] EXCEPT !.status = "refresh_refused"]
  <2>3. row \in Row
    BY <2>1 DEF Row
  <2>4. row.account = grant[u][p].account /\ row.secret = o.secret
    BY <2>1 DEF Row
  <2>5. RowOK(u, p, row)
    BY <2>1, <2>2, <2>4 DEF RowOK
  <2>6. grant' = [grant EXCEPT ![u][p] = row]
    BY <1>5
  <2> HIDE DEF row
  <2>7. Idle \in Request /\ Idle.at = "idle" /\ RequestOK(Idle)
    BY IdleOK DEF Idle
  <2> QED
    BY <1>1, <1>5, <2>3, <2>5, <2>6, <2>7, GrantStep DEF Finish
<1> QED
  BY <1>2, <1>3, <1>4, <1>5 DEF MarkIfCurrent

-----------------------------------------------------------------------------
\* A login that goes on keeps the invariant.
LEMMA LoginStep ==
  ASSUME IInv, NEW r \in Requests, Login(r)
  PROVE  IInv'
  BY CallbackStep, ExchangeStep, LookupStep, InsertStep, SessionStep, LocalStep DEF Login

\* So does a connection, a disconnection and a call.
LEMMA ConnectionStep ==
  ASSUME IInv, NEW r \in Requests, Connection(r)
  PROVE  IInv'
<1>1. CASE DeadlockAbort(r) \/ LinkedProjects(r)
  <2>1. /\ UNCHANGED <<users, locals, identity, grant, sessions, attempts, logins, issued, refreshable, refused>>
        /\ started' \in Nat /\ Finish(r)
    BY <1>1 DEF DeadlockAbort, LinkedProjects, database, provider, IInv, TypeInv
  <2> QED
    BY <2>1, FinishStep
<1> QED
  BY <1>1, UpsertStep, BindStep, DisconnectStep, CallStep, RemoveStep, DeleteStep, SendStep,
     RefreshStep, StoreStep, MarkStep DEF Connection

\* Every step keeps the invariant.
LEMMA StepInv ==
  ASSUME IInv, [Next]_vars
  PROVE  IInv'
<1>1. CASE Next
  BY <1>1, OutsideStep, LoginStep, ConnectionStep DEF Next
<1>2. CASE UNCHANGED vars
  <2>1. UNCHANGED <<users, locals, identity, grant, sessions, attempts, issued, refreshable, refused,
                    logins, req, started>>
    BY <1>2 DEF vars, database, provider
  <2>2. TypeInv' /\ AttemptInv' /\ SubjectInv' /\ LoginMethodRemains' /\ LockInv'
    BY <2>1 DEF IInv, TypeInv, AttemptInv, SubjectInv, LoginMethodRemains, LockInv, Held
  <2>3. RequestInv' /\ RemovalInv'
    BY <2>1 DEF IInv, RequestInv, RequestOK, SignsIn, SignInOK, Issued, RemovalInv, RemovalOK
  <2>4. GrantInv'
    BY <2>1 DEF IInv, GrantInv, RowOK, Issued
  <2> QED
    BY <2>2, <2>3, <2>4 DEF IInv
<1> QED
  BY <1>1, <1>2

\* The inductive invariant of accounts, identities, grants and requests holds, for
\* any number of them.
THEOREM Invariance == Spec => []IInv
  BY InitInv, StepInv, PTL DEF Spec

\* Every account keeps a login method: remove_identity_if_redundant counts the
\* others under the lock of the user, which bind_identity and every other removal
\* wait for.
THEOREM LoginMethodsRemain == Spec => []LoginMethodRemains
<1>1. IInv => LoginMethodRemains
  BY DEF IInv
<1> QED
  BY <1>1, Invariance, PTL

\* A grant names the account its tokens were issued to, and asks for a new
\* authorization after a refused refresh only when the secret it holds was the
\* one refused (update_refreshed_oauth_grant and
\* mark_grant_reauthorization_required_if_current compare before they write).
THEOREM GrantsMatchProvider == Spec => []GrantMatchesProvider
<1>1. IInv => GrantMatchesProvider
  BY DEF IInv, GrantInv, RowOK, Issued, GrantMatchesProvider
<1> QED
  BY <1>1, Invariance, PTL

\* An OIDC subject always ends in the same account, however its logins interleave
\* (provision_federated_user looks an identity up again that was taken meanwhile).
THEOREM SubjectsHaveOneAccount == Spec => []SubjectHasOneAccount
<1>1. IInv => SubjectHasOneAccount
  BY DEF IInv, SubjectInv, SubjectHasOneAccount
<1> QED
  BY <1>1, Invariance, PTL
=============================================================================
