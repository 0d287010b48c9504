--------------------------- MODULE AccountsProofs ---------------------------
(* For every number of users, requests and ticks: who is shut out stays    *)
(* out, and a role outlives its change by less than a token's lifetime.    *)
EXTENDS Accounts, TLAPS

LEMMA SecondNat == ASSUME NEW n \in Nat PROVE Second(n) \in Nat
BY AccountsAssumption, Z3 DEF Second

LEMMA SecondGrows == ASSUME NEW n \in Nat PROVE Second(n) <= Second(n + 1)
BY AccountsAssumption, Z3 DEF Second

LEMMA PrunedIsExpired ==
    ASSUME NEW n \in Nat, NEW e \in Nat, e * TicksPerSecond < n
    PROVE  e <= Second(n)
BY AccountsAssumption, Z3 DEF Second

-----------------------------------------------------------------------------
LEMMA RequestFacts ==
    ASSUME AccountsTypeOK, NEW r \in Request, pc[r] # "idle"
    PROVE  /\ request[r] \in Asked
           /\ Subject(r) \in User
           /\ request[r].role \in Role
BY DEF AccountsTypeOK, RequestOK, Asked, Subject, Idle

LEMMA BearerFacts ==
    ASSUME AccountsTypeOK, NEW r \in Request,
           pc[r] \in {"blacklist", "account", "handling", "updating"}
    PROVE  /\ Bearer(r) \in issued
           /\ Bearer(r) \in Token
           /\ users[Bearer(r).user] # "absent"
BY DEF AccountsTypeOK, RequestOK, Bearer

LEMMA ExpiresAtNat == ASSUME NEW t \in Token PROVE Exp(t) \in Nat /\ ExpiresAt(t) \in Nat
BY AccountsAssumption DEF Token, Exp, ExpiresAt

LEMMA AskedIsNotIdle == Idle \notin Asked
BY DEF Idle, Asked, Guarded, Public

LEMMA InitTypeOK == Init => AccountsTypeOK
<1> SUFFICES ASSUME Init PROVE AccountsTypeOK
    OBVIOUS
<1>1. \A r \in Request : RequestOK(r)
    BY DEF Init, RequestOK
<1> QED
    BY <1>1, AccountsAssumption DEF Init, AccountsTypeOK, Pc

(* A request that only goes on, or leaves, and changes no table.           *)
LEMMA GoToTypeOK ==
    ASSUME AccountsTypeOK, NEW r \in Request, pc[r] # "idle", NEW step,
           \/ pc[r] = "blacklist" /\ step = "account"
           \/ pc[r] = "account" /\ step = "handling"
           \/ pc[r] = "handling" /\ step = "updating",
           GoTo(r, step),
           UNCHANGED <<now, tables, issued, loggedOut, roleSetAt, outdated>>
    PROVE  AccountsTypeOK'
<1>1. \A s \in Request : RequestOK(s)'
    BY DEF AccountsTypeOK, RequestOK, GoTo, tables
<1> QED
    BY <1>1 DEF AccountsTypeOK, GoTo, tables, arrived, Pc

LEMMA CloseKeepsRequests ==
    ASSUME AccountsTypeOK, NEW r \in Request, Close(r),
           issued \subseteq issued',
           \A u \in User : users[u] # "absent" => users'[u] # "absent"
    PROVE  /\ pc' \in [Request -> Pc]
           /\ request' \in [Request -> Asked \cup {Idle}]
           /\ \A s \in Request : RequestOK(s)'
           /\ sent' \in 0 .. MaxRequests
           /\ afterLogout' \subseteq Request
<1>1. \A s \in Request : RequestOK(s)'
  <2> TAKE s \in Request
  <2>1. CASE s = r
    BY <2>1 DEF AccountsTypeOK, RequestOK, Close
  <2>2. CASE s # r
    <3>1. pc'[s] = pc[s] /\ request'[s] = request[s]
        BY <2>2 DEF AccountsTypeOK, Close
    <3>2. pc[s] = "comparing" => request[s].user \in User
        BY RequestFacts DEF Subject
    <3> QED
        BY <3>1, <3>2 DEF AccountsTypeOK, RequestOK
  <2> QED
    BY <2>1, <2>2
<1> QED
    BY <1>1 DEF AccountsTypeOK, Close, Pc

LEMMA LeaveKeepsRequests ==
    ASSUME AccountsTypeOK, NEW r \in Request, Leave(r),
           issued \subseteq issued',
           \A u \in User : users[u] # "absent" => users'[u] # "absent"
    PROVE  /\ pc' \in [Request -> Pc]
           /\ request' \in [Request -> Asked \cup {Idle}]
           /\ \A s \in Request : RequestOK(s)'
           /\ sent' \in 0 .. MaxRequests
           /\ afterLogout' \subseteq Request
           /\ afterRemoval' \subseteq Request
BY CloseKeepsRequests DEF AccountsTypeOK, Leave

LEMMA BeginKeepsRequests ==
    ASSUME AccountsTypeOK, NEW r \in Request, NEW step \in Pc, NEW asked \in Asked,
           Begin(r, step, asked), UNCHANGED <<users, issued>>,
           \/ /\ step = "blacklist"
              /\ asked.op \in Guarded /\ asked.token \in issued
           \/ step = "comparing" /\ asked.op \in Public /\ users[asked.user] # "absent"
           \/ step = "hashing" /\ asked.op \in Public
    PROVE  /\ pc' \in [Request -> Pc]
           /\ request' \in [Request -> Asked \cup {Idle}]
           /\ \A s \in Request : RequestOK(s)'
           /\ sent' \in 0 .. MaxRequests
<1>1. \A s \in Request : RequestOK(s)'
  <2> TAKE s \in Request
  <2>1. CASE s = r
    <3>1. pc'[r] = step /\ request'[r] = asked
        BY DEF AccountsTypeOK, Begin
    <3> QED
        BY <2>1, <3>1, AskedIsNotIdle DEF RequestOK
  <2>2. CASE s # r
    BY <2>2 DEF AccountsTypeOK, RequestOK, Begin
  <2> QED
    BY <2>1, <2>2
<1> QED
    BY <1>1, AccountsAssumption DEF AccountsTypeOK, Begin

LEMMA NextTypeOK ==
    ASSUME AccountsTypeOK, [Next]_vars
    PROVE  AccountsTypeOK'
<1> USE DEF tables, arrived, history
<1>1. CASE Tick
    BY <1>1 DEF AccountsTypeOK, RequestOK, Tick
<1>2. CASE CleanupBlacklist
    BY <1>2 DEF AccountsTypeOK, RequestOK, CleanupBlacklist
<1>3. ASSUME NEW r \in Request, FindByUsername(r)
      PROVE  AccountsTypeOK'
  <2>1. PICK u \in User :
            /\ users[u] = "live"
            /\ Begin(r, "comparing", [op |-> "login", user |-> u, role |-> role[u]])
    BY <1>3 DEF FindByUsername
  <2>2. [op |-> "login", user |-> u, role |-> role[u]] \in Asked
    BY DEF AccountsTypeOK, Asked, Public
  <2>3. UNCHANGED <<users, issued>> /\ "comparing" \in Pc /\ "login" \in Public
    BY <1>3 DEF FindByUsername, Pc, Public
  <2>4. /\ pc' \in [Request -> Pc]
        /\ request' \in [Request -> Asked \cup {Idle}]
        /\ \A s \in Request : RequestOK(s)'
        /\ sent' \in 0 .. MaxRequests
    BY <2>1, <2>2, <2>3, BeginKeepsRequests
  <2> QED
    BY <1>3, <2>4 DEF AccountsTypeOK, FindByUsername
<1>4. ASSUME NEW r \in Request, HashPassword(r)
      PROVE  AccountsTypeOK'
  <2>1. PICK u \in User, x \in Role :
            Begin(r, "hashing", [op |-> "createUser", user |-> u, role |-> x])
    BY <1>4 DEF HashPassword
  <2>2. [op |-> "createUser", user |-> u, role |-> x] \in Asked
    BY DEF Asked, Public
  <2>3. UNCHANGED <<users, issued>> /\ "hashing" \in Pc /\ "createUser" \in Public
    BY <1>4 DEF HashPassword, Pc, Public
  <2>4. /\ pc' \in [Request -> Pc]
        /\ request' \in [Request -> Asked \cup {Idle}]
        /\ \A s \in Request : RequestOK(s)'
        /\ sent' \in 0 .. MaxRequests
    BY <2>1, <2>2, <2>3, BeginKeepsRequests
  <2> QED
    BY <1>4, <2>4 DEF AccountsTypeOK, HashPassword
<1>5. ASSUME NEW r \in Request, Arrive(r)
      PROVE  AccountsTypeOK'
  <2>1. PICK t \in issued, op \in Guarded, u \in User, x \in Role :
            Begin(r, "blacklist", [op |-> op, token |-> t, user |-> u, role |-> x])
    BY <1>5 DEF Arrive
  <2>2. [op |-> op, token |-> t, user |-> u, role |-> x] \in Asked
    BY DEF AccountsTypeOK, Asked
  <2>3. UNCHANGED <<users, issued>> /\ "blacklist" \in Pc
    BY <1>5 DEF Arrive, Pc
  <2>4. /\ pc' \in [Request -> Pc]
        /\ request' \in [Request -> Asked \cup {Idle}]
        /\ \A s \in Request : RequestOK(s)'
        /\ sent' \in 0 .. MaxRequests
    BY <2>1, <2>2, <2>3, BeginKeepsRequests
  <2>5. afterLogout' \subseteq Request /\ afterRemoval' \subseteq Request
    BY <1>5 DEF AccountsTypeOK, Arrive
  <2> QED
    BY <1>5, <2>4, <2>5 DEF AccountsTypeOK, Arrive
<1>6. ASSUME NEW r \in Request, LookUpToken(r) \/ LookUpUser(r) \/ FindUser(r)
      PROVE  AccountsTypeOK'
  <2>1. UNCHANGED <<now, tables, issued, loggedOut, roleSetAt, outdated>>
    BY <1>6 DEF LookUpToken, LookUpUser, FindUser
  <2>2. CASE Leave(r)
    BY <2>1, <2>2, LeaveKeepsRequests DEF AccountsTypeOK
  <2>3. CASE ~Leave(r)
    BY <1>6, <2>1, <2>3, GoToTypeOK DEF LookUpToken, LookUpUser, FindUser, Unless
  <2> QED
    BY <2>2, <2>3
<1>7. ASSUME NEW r \in Request, Sign(r)
      PROVE  AccountsTypeOK'
  <2> DEFINE t == [user |-> Subject(r), role |-> request[r].role, iat |-> Second(now)]
  <2>1. t \in Token /\ users[t.user] # "absent"
    <3>1. Subject(r) \in User /\ request[r].role \in Role
        BY <1>7, RequestFacts DEF Sign
    <3>2. Second(now) \in Nat
        BY SecondNat DEF AccountsTypeOK
    <3> QED
        BY <1>7, <3>1, <3>2 DEF AccountsTypeOK, RequestOK, Sign, Subject, Token
  <2>2. /\ issued' = issued \cup {t} /\ outdated' \subseteq outdated \cup {t}
        /\ Leave(r) /\ UNCHANGED <<now, tables, loggedOut, roleSetAt>>
    BY <1>7 DEF Sign
  <2> HIDE DEF t
  <2> QED
    BY <2>1, <2>2, LeaveKeepsRequests DEF AccountsTypeOK
<1>8. ASSUME NEW r \in Request, Logout(r)
      PROVE  AccountsTypeOK'
  <2>1. Bearer(r) \in issued /\ ExpiresAt(Bearer(r)) \in Nat /\ Bearer(r) \in Token
    BY <1>8, BearerFacts, ExpiresAtNat DEF Logout
  <2>2. [token |-> Bearer(r), expiresAt |-> ExpiresAt(Bearer(r))] \in Expiry
    BY <2>1 DEF Expiry
  <2>3. blacklist' \subseteq Expiry /\ loggedOut' \subseteq issued
    BY <1>8, <2>1, <2>2 DEF Logout, AccountsTypeOK
  <2> QED
    BY <1>8, <2>3, LeaveKeepsRequests DEF AccountsTypeOK, Logout
<1>9. ASSUME NEW r \in Request, Restore(r) \/ CutShort(r)
      PROVE  AccountsTypeOK'
    BY <1>9, LeaveKeepsRequests DEF AccountsTypeOK, Restore, CutShort
<1>10. ASSUME NEW r \in Request, UpdateUser(r) \/ RemoveUser(r) \/ CreateUser(r)
       PROVE  AccountsTypeOK'
  <2>1. Subject(r) \in User /\ request[r].role \in Role
    BY <1>10, RequestFacts DEF UpdateUser, RemoveUser, CreateUser
  <2>2. /\ users' \in [User -> {"absent", "live", "deleted"}]
        /\ role' \in [User -> Role]
        /\ roleSetAt' \in [User -> Nat]
        /\ \A u \in User : users[u] # "absent" => users'[u] # "absent"
    <3>1. Second(now) \in Nat
        BY SecondNat DEF AccountsTypeOK
    <3> QED
        BY <1>10, <2>1, <3>1 DEF AccountsTypeOK, UpdateUser, RemoveUser, CreateUser
  <2>3. Close(r) /\ UNCHANGED <<now, blacklist, issued, loggedOut, outdated>>
    BY <1>10 DEF UpdateUser, RemoveUser, CreateUser, Leave
  <2>4. afterRemoval' \subseteq Request
    BY <1>10 DEF UpdateUser, RemoveUser, CreateUser, Leave, AtTheGuards, AccountsTypeOK
  <2>5. \A t \in issued : users'[t.user] # "absent"
    BY <2>2 DEF AccountsTypeOK, Token
  <2> QED
    BY <2>2, <2>3, <2>4, <2>5, CloseKeepsRequests DEF AccountsTypeOK
<1>11. CASE UNCHANGED vars
    BY <1>11 DEF AccountsTypeOK, RequestOK, vars
<1> QED
    BY <1>1, <1>2, <1>3, <1>4, <1>5, <1>6, <1>7, <1>8, <1>9, <1>10, <1>11 DEF Next

(* Well-typed tables and requests, and no token of a user who was never    *)
(* registered, in every reachable state.                                   *)
THEOREM AccountsTypeCorrect == Spec => []AccountsTypeOK
<1>1. Init => AccountsTypeOK
    BY InitTypeOK
<1>2. AccountsTypeOK /\ [Next]_vars => AccountsTypeOK'
    BY NextTypeOK
<1> QED
    BY <1>1, <1>2, PTL DEF Spec

-----------------------------------------------------------------------------
(* The inductive invariant.  A token that was logged out is in the table   *)
(* until it has expired, because its entry says exactly when; so a request *)
(* that arrived after the logout is refused at the look-up, unless it has  *)
(* expired by then, and an expired token stays so.                         *)
Expires(t) == ~Verifies(t)

TableInv ==
    /\ \A entry \in blacklist : entry.expiresAt = ExpiresAt(entry.token)
    /\ \A t \in loggedOut : IsTokenBlacklisted(t) \/ Expires(t)

(* What the guards have found out about a request that came too late.      *)
LateOK(r) ==
    /\ r \in afterLogout =>
           /\ pc[r] \in {"blacklist", "account", "handling", "updating"}
           /\ Bearer(r) \in loggedOut
           /\ pc[r] # "blacklist" => Expires(Bearer(r))
    /\ r \in afterRemoval =>
           /\ pc[r] \in {"blacklist", "account"}
           /\ users[Bearer(r).user] = "deleted"

(* A token that is not outdated carries a role older than the last change. *)
RoleInv ==
    \A t \in issued :
        /\ t.iat <= Second(now)
        /\ t.role # role[t.user] /\ t \notin outdated => t.iat <= roleSetAt[t.user]

AccountsInv ==
    /\ AccountsTypeOK
    /\ TableInv
    /\ \A r \in Request : LateOK(r)
    /\ RoleInv

LEMMA InitAccountsInv == Init => AccountsInv
BY InitTypeOK DEF Init, AccountsInv, TableInv, LateOK, RoleInv

(* The clock only moves forward, and only Tick moves it.                   *)
LEMMA ClockForward ==
    ASSUME AccountsTypeOK, [Next]_vars
    PROVE  /\ Second(now) \in Nat /\ Second(now)' \in Nat
           /\ Second(now) <= Second(now)'
           /\ \A t \in Token : Expires(t) => Expires(t)'
<1>1. now \in Nat /\ (now' = now \/ now' = now + 1)
    BY DEF AccountsTypeOK, Next, vars, Tick, CleanupBlacklist, FindByUsername, Sign,
           HashPassword, CreateUser, Arrive, LookUpToken, LookUpUser, Logout, Restore,
           FindUser, UpdateUser, RemoveUser, CutShort
<1>2. Second(now) \in Nat /\ Second(now') \in Nat /\ Second(now) <= Second(now')
    BY <1>1, SecondNat, SecondGrows
<1>3. ASSUME NEW t \in Token, Expires(t) PROVE Expires(t)'
  <2>1. t.iat + Lifetime \in Nat /\ ~(Second(now) < t.iat + Lifetime)
    BY <1>3, ExpiresAtNat DEF Expires, Verifies, Exp
  <2>2. ~(Second(now') < t.iat + Lifetime)
    BY <1>2, <2>1
  <2> QED
    BY <2>2 DEF Expires, Verifies, Exp
<1> QED
    BY <1>2, <1>3

LEMMA NextTable ==
    ASSUME AccountsInv, [Next]_vars
    PROVE  TableInv'
<1> USE DEF tables, arrived, history
<1>1. \A t \in loggedOut : Expires(t) => Expires(t)'
    BY ClockForward DEF AccountsInv, AccountsTypeOK
<1>2. CASE CleanupBlacklist
  <2>1. \A entry \in blacklist' : entry.expiresAt = ExpiresAt(entry.token)
    BY <1>2 DEF AccountsInv, TableInv, CleanupBlacklist
  <2>2. \A entry \in blacklist : Expired(entry) => Expires(entry.token)
    <3> SUFFICES ASSUME NEW entry \in blacklist, Expired(entry)
                 PROVE  Expires(entry.token)
        OBVIOUS
    <3>1. entry.token \in Token /\ now \in Nat
        BY DEF AccountsInv, AccountsTypeOK, Expiry
    <3>2. Exp(entry.token) \in Nat /\ Exp(entry.token) * TicksPerSecond < now
        BY <3>1, ExpiresAtNat DEF AccountsInv, TableInv, Expired, ExpiresAt
    <3>3. Exp(entry.token) <= Second(now)
        BY <3>1, <3>2, PrunedIsExpired
    <3> QED
        BY <3>1, <3>2, <3>3, SecondNat DEF Expires, Verifies
  <2>3. \A t \in loggedOut' : IsTokenBlacklisted(t)' \/ Expires(t)'
    BY <1>1, <1>2, <2>2 DEF AccountsInv, TableInv, CleanupBlacklist, IsTokenBlacklisted
  <2> QED
    BY <2>1, <2>3 DEF TableInv, ExpiresAt, Exp
<1>3. CASE \E r \in Request : Logout(r)
  <2>1. PICK r \in Request : Logout(r)
    BY <1>3
  <2> DEFINE new == [token |-> Bearer(r), expiresAt |-> ExpiresAt(Bearer(r))]
  <2>2. blacklist' = blacklist \cup {new} /\ loggedOut' = loggedOut \cup {Bearer(r)}
    BY <2>1 DEF Logout
  <2>3. new.token = Bearer(r) /\ new.expiresAt = ExpiresAt(new.token)
    OBVIOUS
  <2> HIDE DEF new
  <2>4. \A entry \in blacklist' : entry.expiresAt = ExpiresAt(entry.token)
    BY <2>2, <2>3 DEF AccountsInv, TableInv
  <2>5. \A t \in loggedOut' : IsTokenBlacklisted(t)' \/ Expires(t)'
    BY <1>1, <2>2, <2>3 DEF AccountsInv, TableInv, IsTokenBlacklisted
  <2> QED
    BY <2>4, <2>5 DEF TableInv, ExpiresAt, Exp
<1>4. CASE UNCHANGED <<blacklist, loggedOut>>
    BY <1>1, <1>4 DEF AccountsInv, TableInv, IsTokenBlacklisted, ExpiresAt, Exp
<1> QED
    BY <1>2, <1>3, <1>4
    DEF Next, vars, Tick, FindByUsername, Sign, HashPassword, CreateUser, Arrive,
        LookUpToken, LookUpUser, Restore, FindUser, UpdateUser, RemoveUser, CutShort

(* What is known of a request that came too late stays true while some     *)
(* other request is handled.                                               *)
LEMMA LateOthers ==
    ASSUME AccountsInv, [Next]_vars, NEW s \in Request,
           pc'[s] = pc[s], request'[s] = request[s],
           s \in afterLogout' => s \in afterLogout,
           s \in afterRemoval' => s \in afterRemoval,
           loggedOut \subseteq loggedOut',
           \A u \in User : users[u] = "deleted" => users'[u] = "deleted"
    PROVE  LateOK(s)'
<1>1. pc[s] \in {"blacklist", "account", "handling", "updating"} =>
          Bearer(s) \in Token /\ Bearer(s).user \in User
    BY BearerFacts DEF AccountsInv, Token
<1>2. pc[s] \in {"blacklist", "account", "handling", "updating"} =>
          (Expires(Bearer(s)) => Expires(Bearer(s))')
    BY <1>1, ClockForward DEF AccountsInv, Bearer
<1> QED
    BY <1>1, <1>2 DEF AccountsInv, LateOK, Bearer

LEMMA LeftIsLate ==
    ASSUME AccountsTypeOK, NEW r \in Request, Leave(r)
    PROVE  /\ LateOK(r)'
           /\ \A s \in Request : s # r =>
                  /\ pc'[s] = pc[s] /\ request'[s] = request[s]
                  /\ s \in afterLogout' <=> s \in afterLogout
                  /\ s \in afterRemoval' <=> s \in afterRemoval
BY DEF AccountsTypeOK, Leave, Close, LateOK

(* A request still at the guards when its user is deleted is late as well. *)
LEMMA RemovedIsLate ==
    ASSUME AccountsInv, [Next]_vars, NEW r \in Request, RemoveUser(r)
    PROVE  \A s \in Request : LateOK(s)'
<1>1. /\ Close(r) /\ afterRemoval' = (afterRemoval \ {r}) \cup AtTheGuards(Subject(r))
      /\ users' = [users EXCEPT ![Subject(r)] = "deleted"] /\ UNCHANGED loggedOut
      /\ pc[r] = "updating"
    BY DEF RemoveUser
<1>2. Subject(r) \in User /\ \A u \in User : users[u] = "deleted" => users'[u] = "deleted"
    BY <1>1, RequestFacts DEF AccountsInv, AccountsTypeOK, RemoveUser
<1>3. TAKE s \in Request
<1>4. CASE s = r
    <2>1. pc'[r] = "idle" /\ r \notin afterLogout' /\ r \notin AtTheGuards(Subject(r))
        BY <1>1 DEF Close, AccountsInv, AccountsTypeOK, AtTheGuards
    <2> QED
        BY <1>1, <1>4, <2>1 DEF LateOK
<1>5. CASE s # r
    <2>1. pc'[s] = pc[s] /\ request'[s] = request[s] /\ (s \in afterLogout' => s \in afterLogout)
        BY <1>1, <1>5 DEF Close, AccountsInv, AccountsTypeOK
    <2>2. CASE s \notin AtTheGuards(Subject(r))
        BY <1>1, <1>2, <2>1, <2>2, LateOthers
    <2>3. CASE s \in AtTheGuards(Subject(r))
        <3>1. pc[s] \in {"blacklist", "account"} /\ Bearer(s).user = Subject(r) /\ Bearer(s)' = Bearer(s)
            BY <2>1, <2>3 DEF AtTheGuards, Bearer
        <3>2. Bearer(s) \in Token /\ (Expires(Bearer(s)) => Expires(Bearer(s))')
            BY <3>1, BearerFacts, ClockForward DEF AccountsInv, Bearer
        <3>3. users'[Bearer(s).user] = "deleted"
            BY <1>1, <1>2, <3>1 DEF AccountsInv, AccountsTypeOK
        <3>4. s \in afterLogout' =>
                  Bearer(s) \in loggedOut /\ (pc[s] # "blacklist" => Expires(Bearer(s))')
            BY <2>1, <3>2 DEF AccountsInv, LateOK
        <3> QED
            BY <1>1, <2>1, <3>1, <3>3, <3>4 DEF LateOK
    <2> QED
        BY <2>2, <2>3
<1> QED
    BY <1>4, <1>5

LEMMA NextLate ==
    ASSUME AccountsInv, [Next]_vars
    PROVE  \A s \in Request : LateOK(s)'
<1> USE DEF tables, arrived, history
<1>1. /\ loggedOut \subseteq loggedOut'
      /\ \A u \in User : users[u] = "deleted" => users'[u] = "deleted"
    <2> USE DEF Next, vars, Tick, CleanupBlacklist, FindByUsername, Sign, HashPassword, CreateUser,
            Arrive, LookUpToken, LookUpUser, Logout, Restore, FindUser, UpdateUser, RemoveUser,
            CutShort
    <2>1. loggedOut \subseteq loggedOut'
        OBVIOUS
    <2>2. \A u \in User : users[u] = "deleted" => users'[u] = "deleted"
        BY RequestFacts DEF AccountsInv, AccountsTypeOK, NameIsNew
    <2> QED
        BY <2>1, <2>2
<1>2. ASSUME NEW r \in Request, Leave(r)
      PROVE  \A s \in Request : LateOK(s)'
    BY <1>1, <1>2, LeftIsLate, LateOthers DEF AccountsInv
<1>3. CASE UNCHANGED <<pc, request, arrived>>
    BY <1>1, <1>3, LateOthers
<1>4. ASSUME NEW r \in Request, FindByUsername(r) \/ HashPassword(r)
      PROVE  \A s \in Request : LateOK(s)'
  <2> TAKE s \in Request
  <2>1. CASE s = r
    BY <1>4, <2>1 DEF AccountsInv, LateOK, FindByUsername, HashPassword, Begin
  <2>2. CASE s # r
    <3>1. pc'[s] = pc[s] /\ request'[s] = request[s]
        BY <1>4, <2>2 DEF AccountsInv, AccountsTypeOK, FindByUsername, HashPassword, Begin
    <3> QED
        BY <1>1, <1>4, <3>1, LateOthers DEF FindByUsername, HashPassword
  <2> QED
    BY <2>1, <2>2
<1>5. ASSUME NEW r \in Request, Arrive(r)
      PROVE  \A s \in Request : LateOK(s)'
  <2> TAKE s \in Request
  <2>1. PICK t \in issued, op \in Guarded, u \in User, x \in Role :
            /\ Begin(r, "blacklist", [op |-> op, token |-> t, user |-> u, role |-> x])
            /\ afterLogout' = IF t \in loggedOut THEN afterLogout \cup {r} ELSE afterLogout
            /\ afterRemoval' = IF users[t.user] = "deleted" THEN afterRemoval \cup {r}
                               ELSE afterRemoval
    BY <1>5 DEF Arrive
  <2>2. CASE s = r
    <3>1. pc'[r] = "blacklist" /\ Bearer(r)' = t
        BY <2>1 DEF AccountsInv, AccountsTypeOK, Begin, Bearer
    <3>2. r \notin afterLogout /\ r \notin afterRemoval
        BY <2>1 DEF AccountsInv, LateOK, Begin
    <3> QED
        BY <1>1, <1>5, <2>1, <2>2, <3>1, <3>2 DEF LateOK, Arrive
  <2>3. CASE s # r
    <3>1. pc'[s] = pc[s] /\ request'[s] = request[s]
        BY <2>1, <2>3 DEF AccountsInv, AccountsTypeOK, Begin
    <3> QED
        BY <1>1, <2>1, <2>3, <3>1, LateOthers
  <2> QED
    BY <2>2, <2>3
<1>6. ASSUME NEW r \in Request, LookUpToken(r) \/ LookUpUser(r) \/ FindUser(r), ~Leave(r)
      PROVE  \A s \in Request : LateOK(s)'
  <2> TAKE s \in Request
  <2>1. \A step : GoTo(r, step) =>
            /\ pc' = [pc EXCEPT ![r] = step]
            /\ UNCHANGED <<request, afterLogout, afterRemoval>>
    BY DEF GoTo
  <2>2. CASE s = r
    <3>1. CASE LookUpToken(r)
      <4>1. pc[r] = "blacklist" /\ GoTo(r, "account") /\ ~IsTokenBlacklisted(Bearer(r))
        BY <1>6, <3>1 DEF LookUpToken, Unless
      <4>2. r \in afterLogout => Expires(Bearer(r))
        BY <4>1 DEF AccountsInv, TableInv, LateOK
      <4>3. Bearer(r) \in Token
        BY <4>1, BearerFacts DEF AccountsInv
      <4>4. Expires(Bearer(r)) => Expires(Bearer(r))'
        BY <2>1, <4>1, <4>3, ClockForward DEF AccountsInv, Bearer
      <4>5. pc'[r] = "account" /\ Bearer(r)' = Bearer(r)
        BY <2>1, <4>1 DEF AccountsInv, AccountsTypeOK, Bearer
      <4> QED
        BY <1>1, <2>1, <2>2, <3>1, <4>1, <4>2, <4>4, <4>5 DEF AccountsInv, LateOK, LookUpToken
    <3>2. CASE LookUpUser(r) \/ FindUser(r)
      <4>1. PICK step \in {"handling", "updating"} : GoTo(r, step)
        BY <1>6, <3>2 DEF LookUpUser, FindUser, Unless
      <4>2. pc[r] \in {"account", "handling"} /\ r \notin afterRemoval
        BY <1>6, <3>2 DEF AccountsInv, LateOK, LookUpUser, FindUser, Unless, FindsUserOf
      <4>3. Bearer(r) \in Token
        BY <4>2, BearerFacts DEF AccountsInv
      <4>4. Expires(Bearer(r)) => Expires(Bearer(r))'
        BY <2>1, <4>1, <4>3, ClockForward DEF AccountsInv, Bearer
      <4>5. pc'[r] = step /\ Bearer(r)' = Bearer(r)
        BY <2>1, <4>1 DEF AccountsInv, AccountsTypeOK, Bearer
      <4> QED
        BY <1>1, <2>1, <2>2, <4>1, <4>2, <4>4, <4>5 DEF AccountsInv, LateOK
    <3> QED
        BY <1>6, <2>2, <3>1, <3>2
  <2>3. CASE s # r
    <3>1. PICK step : GoTo(r, step)
        BY <1>6 DEF LookUpToken, LookUpUser, FindUser, Unless
    <3>2. pc'[s] = pc[s] /\ UNCHANGED <<request, afterLogout, afterRemoval>>
        BY <2>1, <2>3, <3>1 DEF AccountsInv, AccountsTypeOK
    <3> QED
        BY <1>1, <3>2, LateOthers
  <2> QED
    BY <2>2, <2>3
<1> QED
    BY <1>2, <1>3, <1>4, <1>5, <1>6, RemovedIsLate
    DEF Next, vars, Tick, CleanupBlacklist, Sign, CreateUser, LookUpToken, LookUpUser, Logout,
        Restore, FindUser, UpdateUser, RemoveUser, CutShort

LEMMA NextRole ==
    ASSUME AccountsInv, [Next]_vars
    PROVE  RoleInv'
<1> USE DEF tables, arrived, history
<1>1. /\ Second(now) \in Nat /\ Second(now)' \in Nat /\ Second(now) <= Second(now)'
      /\ \A t \in issued : t \in Token /\ t.iat \in Nat /\ t.user \in User
    BY ClockForward DEF AccountsInv, AccountsTypeOK, Token
<1>2. CASE \E r \in Request : Sign(r)
  <2>1. PICK r \in Request : Sign(r)
    BY <1>2
  <2> DEFINE t == [user |-> Subject(r), role |-> request[r].role, iat |-> Second(now)]
  <2>2. /\ issued' = issued \cup {t} /\ UNCHANGED <<now, role, roleSetAt>>
        /\ t.role # role[t.user] => t \in outdated'
        /\ outdated \subseteq outdated' /\ t.iat = Second(now)
    BY <2>1 DEF Sign
  <2> HIDE DEF t
  <2> QED
    BY <1>1, <2>2 DEF AccountsInv, RoleInv
<1>3. CASE \E r \in Request : UpdateUser(r)
  <2>1. PICK r \in Request : UpdateUser(r)
    BY <1>3
  <2>2. \A t \in issued : t.user = Subject(r) => roleSetAt'[t.user] = Second(now)
    BY <1>1, <2>1 DEF AccountsInv, AccountsTypeOK, UpdateUser
  <2>3. \A t \in issued : t.user # Subject(r) =>
            role'[t.user] = role[t.user] /\ roleSetAt'[t.user] = roleSetAt[t.user]
    BY <1>1, <2>1 DEF AccountsInv, AccountsTypeOK, UpdateUser
  <2> QED
    BY <1>1, <2>1, <2>2, <2>3 DEF AccountsInv, RoleInv, UpdateUser
<1>4. CASE \E r \in Request : CreateUser(r)
  <2>1. PICK r \in Request : CreateUser(r)
    BY <1>4
  <2>2. \A t \in issued : role'[t.user] = role[t.user]
    BY <1>1, <2>1 DEF AccountsInv, AccountsTypeOK, CreateUser, NameIsNew
  <2> QED
    BY <1>1, <2>1, <2>2 DEF AccountsInv, RoleInv, CreateUser
<1>5. CASE UNCHANGED <<role, issued, roleSetAt, outdated>>
    BY <1>1, <1>5 DEF AccountsInv, RoleInv
<1> QED
    BY <1>2, <1>3, <1>4, <1>5
    DEF Next, vars, Tick, CleanupBlacklist, FindByUsername, HashPassword, Arrive,
        LookUpToken, LookUpUser, Logout, Restore, FindUser, RemoveUser, CutShort

LEMMA AccountsInvariant == Spec => []AccountsInv
<1>1. Init => AccountsInv
    BY InitAccountsInv
<1>2. AccountsInv /\ [Next]_vars => AccountsInv'
    BY NextTypeOK, NextTable, NextLate, NextRole DEF AccountsInv
<1> QED
    BY <1>1, <1>2, PTL DEF Spec

-----------------------------------------------------------------------------
(* No request that arrives after the logout of its token was answered is   *)
(* handled, unless the token has expired since.                            *)
THEOREM LogoutHolds == Spec => []LoggedOutStaysOut
<1>1. AccountsInv => LoggedOutStaysOut
    BY DEF AccountsInv, LateOK, LoggedOutStaysOut, Expires
<1> QED
    BY <1>1, AccountsInvariant, PTL

(* No request that arrives from a deleted user is handled.                 *)
THEOREM RemovalHolds == Spec => []DeletedUserStaysOut
<1>1. AccountsInv => DeletedUserStaysOut
    BY DEF AccountsInv, LateOK, DeletedUserStaysOut
<1> QED
    BY <1>1, AccountsInvariant, PTL

(* A role in a token that the user no longer has is accepted for less than *)
(* the lifetime of a token, except from a login that overlapped the change.*)
THEOREM StaleRoleBounded == Spec => []StaleRoleExpires
<1>1. ASSUME AccountsInv PROVE StaleRoleExpires
  <2> SUFFICES ASSUME NEW t \in issued, Verifies(t), t.role # role[t.user], t \notin outdated
               PROVE  Second(now) < roleSetAt[t.user] + Lifetime
    BY DEF StaleRoleExpires
  <2>1. t.iat \in Nat /\ t.user \in User /\ t.iat <= roleSetAt[t.user]
    BY <1>1 DEF AccountsInv, AccountsTypeOK, RoleInv, Token
  <2>2. Second(now) \in Nat /\ roleSetAt[t.user] \in Nat
    BY <1>1, <2>1, SecondNat DEF AccountsInv, AccountsTypeOK
  <2>3. Second(now) < t.iat + Lifetime
    BY DEF Verifies, Exp
  <2> QED
    BY <2>1, <2>2, <2>3, AccountsAssumption
<1> QED
    BY <1>1, AccountsInvariant, PTL
=============================================================================
