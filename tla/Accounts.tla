------------------------------ MODULE Accounts ------------------------------
(* Users, their tokens and the guards in front of every route: AuthService,*)
(* JwtAuthGuard, JwtStrategy, RolesGuard, UsersService.  A token is valid  *)
(* by its signature and its times alone; logging out adds it to a table    *)
(* that each request looks up, and that a nightly job prunes.  Times in    *)
(* tokens are seconds; the clock and the table are finer.                  *)
EXTENDS Naturals

CONSTANTS
    User, Request,
    TicksPerSecond,
    Lifetime,       \* JWT_EXPIRES_IN, in seconds
    MaxTime,        \* bound: when the clock stops
    LoginsUntil,    \* bound: the last second in which a token is signed
    MaxRequests     \* bound: requests sent

ASSUME AccountsAssumption ==
    /\ TicksPerSecond \in Nat \ {0}
    /\ Lifetime \in Nat
    /\ MaxTime \in Nat
    /\ LoginsUntil \in Nat
    /\ MaxRequests \in Nat

Role == {"ADMIN", "DEVELOPER"}

Second(tick) == tick \div TicksPerSecond

(* The claims of a JWT.  Two logins of a user within a second, in the same *)
(* role, are given the same token.                                         *)
Token == [user : User, role : Role, iat : Nat]

Exp(t) == t.iat + Lifetime

VARIABLES
    now,            \* the clock, in ticks
    users,          \* "users": absent, live, or deleted (isDeleted)
    role,           \* the role of each
    issued,         \* the tokens clients have
    blacklist,      \* "token_blacklist"
    pc,             \* the next awaited call of each request
    request,        \* what it asks for, and what its handler has read
    sent,           \* requests sent so far
    loggedOut,      \* history: tokens whose logout was answered
    afterLogout,    \* history: requests that arrived with such a token,
    afterRemoval,   \* and those from a deleted user: that arrived after the
                    \* removal, or were not past the guards when it came
    roleSetAt,      \* history: the second in which a user's role was last set
    outdated        \* history: tokens whose role was so when they were signed

tables  == <<users, role, blacklist>>
arrived == <<afterLogout, afterRemoval>>
history == <<loggedOut, arrived, roleSetAt, outdated>>
vars    == <<now, tables, issued, pc, request, sent, history>>

(* Routes behind the guards: logout, one that requires ADMIN, and the two  *)
(* that change a user.                                                     *)
Guarded == {"logout", "restore", "updateUser", "removeUser"}
Public == {"login", "createUser"}

Asked ==
    [op : Guarded, token : Token, user : User, role : Role]
        \cup [op : Public, user : User, role : Role]

Pc == {"idle", "comparing", "hashing", "blacklist", "account", "handling", "updating"}

Idle == [op |-> "none"]

Expiry == [token : Token, expiresAt : Nat]

(* A request says what it asks for while it is handled, and a guarded one  *)
(* by whose token.                                                         *)
RequestOK(r) ==
    /\ pc[r] = "idle" <=> request[r] = Idle
    /\ pc[r] \in {"blacklist", "account", "handling", "updating"} =>
           request[r].op \in Guarded /\ request[r].token \in issued
    /\ pc[r] \in {"comparing", "hashing"} => request[r].op \in Public
    /\ pc[r] = "comparing" => users[request[r].user] # "absent"

(* Well-typed, and a user that a token names is, or was, registered.       *)
AccountsTypeOK ==
    /\ now \in Nat
    /\ users \in [User -> {"absent", "live", "deleted"}]
    /\ role \in [User -> Role]
    /\ issued \subseteq Token
    /\ \A t \in issued : users[t.user] # "absent"
    /\ blacklist \subseteq Expiry
    /\ pc \in [Request -> Pc]
    /\ request \in [Request -> Asked \cup {Idle}]
    /\ \A r \in Request : RequestOK(r)
    /\ sent \in 0 .. MaxRequests
    /\ loggedOut \subseteq issued
    /\ afterLogout \subseteq Request
    /\ afterRemoval \subseteq Request
    /\ roleSetAt \in [User -> Nat]
    /\ outdated \subseteq issued

Init ==
    /\ now = 0
    /\ users \in [User -> {"absent", "live"}]
    /\ role \in [User -> Role]
    /\ issued = {}
    /\ blacklist = {}
    /\ pc = [r \in Request |-> "idle"]
    /\ request = [r \in Request |-> Idle]
    /\ sent = 0
    /\ loggedOut = {}
    /\ afterLogout = {}
    /\ afterRemoval = {}
    /\ roleSetAt = [u \in User |-> 0]
    /\ outdated = {}

-----------------------------------------------------------------------------
GoTo(r, step) ==
    /\ pc' = [pc EXCEPT ![r] = step]
    /\ UNCHANGED <<request, sent, arrived>>

Begin(r, step, asked) ==
    /\ pc[r] = "idle"
    /\ pc' = [pc EXCEPT ![r] = step]
    /\ request' = [request EXCEPT ![r] = asked]
    /\ sent < MaxRequests /\ sent' = sent + 1

(* The request is answered, whatever with.                                 *)
Close(r) ==
    /\ pc' = [pc EXCEPT ![r] = "idle"]
    /\ request' = [request EXCEPT ![r] = Idle]
    /\ UNCHANGED sent
    /\ afterLogout' = afterLogout \ {r}

Leave(r) == Close(r) /\ afterRemoval' = afterRemoval \ {r}

Subject(r) == request[r].user
Bearer(r) == request[r].token

Unless(r, refused, next) == IF refused THEN Leave(r) ELSE GoTo(r, next)

-----------------------------------------------------------------------------
(* login: findByUsernameInternal reads the role that the token will carry. *)
FindByUsername(r) ==
    /\ \E u \in User :
           /\ users[u] = "live"
           /\ Begin(r, "comparing", [op |-> "login", user |-> u, role |-> role[u]])
    /\ UNCHANGED <<now, tables, issued, history>>

(* bcrypt.compare succeeds, and sign() stamps the time.                    *)
Sign(r) ==
    /\ pc[r] = "comparing" /\ Second(now) <= LoginsUntil
    /\ LET t == [user |-> Subject(r), role |-> request[r].role, iat |-> Second(now)]
       IN  /\ issued' = issued \cup {t}
           /\ outdated' = IF t.role = role[t.user] THEN outdated ELSE outdated \cup {t}
    /\ Leave(r)
    /\ UNCHANGED <<now, tables, loggedOut, roleSetAt>>

-----------------------------------------------------------------------------
(* Mutant: ignoreExpiration.                                               *)
VerifiesForever(t) == TRUE

(* passport-jwt: the current second is before exp.                         *)
Verifies(t) == Second(now) < Exp(t)

(* A guarded request arrives; Passport needs no database.                  *)
Arrive(r) ==
    /\ \E t \in issued, op \in Guarded, u \in User, x \in Role :
           /\ Verifies(t)
           /\ op \in {"logout", "restore"} => u = t.user
           /\ op # "updateUser" => x = t.role
           /\ Begin(r, "blacklist", [op |-> op, token |-> t, user |-> u, role |-> x])
           /\ afterLogout' = IF t \in loggedOut THEN afterLogout \cup {r} ELSE afterLogout
           /\ afterRemoval' = IF users[t.user] = "deleted" THEN afterRemoval \cup {r} ELSE afterRemoval
    /\ UNCHANGED <<now, tables, issued, loggedOut, roleSetAt, outdated>>

IsTokenBlacklisted(t) == \E entry \in blacklist : entry.token = t

LookUpToken(r) ==
    /\ pc[r] = "blacklist"
    /\ Unless(r, IsTokenBlacklisted(Bearer(r)), "account")
    /\ UNCHANGED <<now, tables, issued, loggedOut, roleSetAt, outdated>>

(* findByIdInternal.                                                       *)
FindsUserOf(t) == users[t.user] = "live"

(* The role is the one in the token.                                       *)
RolesGuardRefuses(r) == request[r].op = "restore" /\ Bearer(r).role # "ADMIN"

(* The end of JwtAuthGuard, and RolesGuard after it.                       *)
LookUpUser(r) ==
    /\ pc[r] = "account"
    /\ Unless(r, ~FindsUserOf(Bearer(r)) \/ RolesGuardRefuses(r), "handling")
    /\ UNCHANGED <<now, tables, issued, loggedOut, roleSetAt, outdated>>

-----------------------------------------------------------------------------
(* Mutant: the date is made of seconds.                                    *)
ExpiresAtSecond(t) == Exp(t)

(* new Date(exp * 1000).                                                   *)
ExpiresAt(t) == Exp(t) * TicksPerSecond

Logout(r) ==
    /\ pc[r] = "handling" /\ request[r].op = "logout"
    /\ blacklist' = blacklist \cup
           {[token |-> Bearer(r), expiresAt |-> ExpiresAt(Bearer(r))]}
    /\ loggedOut' = loggedOut \cup {Bearer(r)}
    /\ Leave(r)
    /\ UNCHANGED <<now, users, role, issued, roleSetAt, outdated>>

(* Whatever the route does (SoftDelete).                                   *)
Restore(r) ==
    /\ pc[r] = "handling" /\ request[r].op = "restore"
    /\ Leave(r)
    /\ UNCHANGED <<now, tables, issued, loggedOut, roleSetAt, outdated>>

(* update and remove of UsersService: 404 without a live user.             *)
FindUser(r) ==
    /\ pc[r] = "handling" /\ request[r].op \in {"updateUser", "removeUser"}
    /\ Unless(r, users[Subject(r)] # "live", "updating")
    /\ UNCHANGED <<now, tables, issued, loggedOut, roleSetAt, outdated>>

(* The audit entries that follow say nothing about these tables.           *)
UpdateUser(r) ==
    /\ pc[r] = "updating" /\ request[r].op = "updateUser"
    /\ role' = [role EXCEPT ![Subject(r)] = request[r].role]
    /\ roleSetAt' = [roleSetAt EXCEPT ![Subject(r)] = Second(now)]
    /\ Leave(r)
    /\ UNCHANGED <<now, users, blacklist, issued, loggedOut, outdated>>

(* Mutant: the row goes.                                                   *)
HardRemoveUser(r) ==
    /\ pc[r] = "updating" /\ request[r].op = "removeUser"
    /\ users' = [users EXCEPT ![Subject(r)] = "absent"]
    /\ Leave(r)
    /\ UNCHANGED <<now, role, blacklist, issued, loggedOut, roleSetAt, outdated>>

(* The requests of u that the guards have not let through yet.             *)
AtTheGuards(u) == {s \in Request : pc[s] \in {"blacklist", "account"} /\ Bearer(s).user = u}

RemoveUser(r) ==
    /\ pc[r] = "updating" /\ request[r].op = "removeUser"
    /\ users' = [users EXCEPT ![Subject(r)] = "deleted"]
    /\ Close(r)
    /\ afterRemoval' = (afterRemoval \ {r}) \cup AtTheGuards(Subject(r))
    /\ UNCHANGED <<now, role, blacklist, issued, loggedOut, roleSetAt, outdated>>

(* Registration: bcrypt.hash first ...                                     *)
HashPassword(r) ==
    /\ \E u \in User, x \in Role :
           Begin(r, "hashing", [op |-> "createUser", user |-> u, role |-> x])
    /\ UNCHANGED <<now, tables, issued, history>>

(* Mutant: the name of a deleted user may be taken again, with its row.    *)
NameIsFree(u) == users[u] # "live"

(* ... then the unique name decides: deleted users keep theirs.            *)
NameIsNew(u) == users[u] = "absent"

CreateUser(r) ==
    /\ pc[r] = "hashing" /\ NameIsNew(Subject(r))
    /\ users' = [users EXCEPT ![Subject(r)] = "live"]
    /\ role' = [role EXCEPT ![Subject(r)] = request[r].role]
    /\ Leave(r)
    /\ UNCHANGED <<now, blacklist, issued, loggedOut, roleSetAt, outdated>>

(* A wrong password, a name that is taken, an error, a crash.              *)
CutShort(r) ==
    /\ pc[r] # "idle"
    /\ Leave(r)
    /\ UNCHANGED <<now, tables, issued, loggedOut, roleSetAt, outdated>>

-----------------------------------------------------------------------------
(* Mutant: pruned only in the tick in which it expires.                    *)
NoLongerNeeded(entry) == entry.expiresAt = now

(* LessThan(new Date()).                                                   *)
Expired(entry) == entry.expiresAt < now

CleanupBlacklist ==
    /\ \E entry \in blacklist : Expired(entry)
    /\ blacklist' = {entry \in blacklist : ~Expired(entry)}
    /\ UNCHANGED <<now, users, role, issued, pc, request, sent, history>>

Tick ==
    /\ now < MaxTime
    /\ now' = now + 1
    /\ UNCHANGED <<tables, issued, pc, request, sent, history>>

Next ==
    \/ Tick
    \/ CleanupBlacklist
    \/ \E r \in Request :
           \/ FindByUsername(r) \/ Sign(r) \/ HashPassword(r) \/ CreateUser(r)
           \/ Arrive(r) \/ LookUpToken(r) \/ LookUpUser(r)
           \/ Logout(r) \/ Restore(r) \/ FindUser(r) \/ UpdateUser(r) \/ RemoveUser(r)
           \/ CutShort(r)

Spec == Init /\ [][Next]_vars

(* Time passes and the job runs every night.                               *)
FairSpec == Spec /\ WF_vars(Tick) /\ WF_vars(CleanupBlacklist)

-----------------------------------------------------------------------------
(* A token whose logout was answered is refused from then on, the prunings *)
(* of the table and requests that straddle one included: the guards let a  *)
(* request that arrives later pass only if the token has expired since.    *)
LoggedOutStaysOut ==
    \A r \in Request :
        pc[r] = "handling" /\ r \in afterLogout => ~Verifies(Bearer(r))

(* "logged-out tokens and deleted user accounts are rejected immediately"  *)
(* (auth.guard.ts:9-10): no request that arrives from a deleted user, or   *)
(* is between the look-ups of the guards when the user is deleted, passes  *)
(* them, with any token signed before, during or after the removal, and no *)
(* registration brings the user back.                                      *)
DeletedUserStaysOut ==
    \A r \in Request : pc[r] \in {"handling", "updating"} => r \notin afterRemoval

(* The role in a token outlives a change of the user's role, but for less  *)
(* than the lifetime of a token, unless it was read before the change by a *)
(* login that signed after it.                                             *)
StaleRoleExpires ==
    \A t \in issued :
        Verifies(t) /\ t.role # role[t.user] /\ t \notin outdated =>
            Second(now) < roleSetAt[t.user] + Lifetime

(* No entry stays in the table for ever: each is pruned once its token has *)
(* expired.                                                                *)
BlacklistPruned ==
    \A t \in [user : User, role : Role, iat : 0 .. LoginsUntil] :
        IsTokenBlacklisted(t) ~> ~IsTokenBlacklisted(t)
=============================================================================
