---------------------------- MODULE AdminAccounts ----------------------------
(***************************************************************************)
(* The rows of admin_users, the requests that change them and the session  *)
(* tokens that those rows make good or bad.                                *)
(*   app/services/admin_users.py   AdminUserService                        *)
(*   app/services/admin_auth.py    AdminAuthService                        *)
(*   app/api/v1/security.py        guard, which every admin route depends on *)
(*   app/api/v1/admin_auth.py      the routes                              *)
(*                                                                         *)
(* A request resolves its token, loads the account it is about, counts the *)
(* other super administrators, and commits: four reads or writes of the    *)
(* database, between any two of which another request may commit.  It      *)
(* never reads a row twice: the session hands out the object it loaded     *)
(* first.                                                                  *)
(***************************************************************************)
EXTENDS Integers, FiniteSets

CONSTANTS
    Accounts,       \* normalized e-mail addresses; an account is never deleted
    Roles,          \* the roles, SUPER_ADMIN among them
    Passwords,      \* passwords that pass the strength check
    Managers,       \* threads that serve the routes that change accounts
    Logins,         \* threads that serve logins
    MaxVersion,     \* bound on session_version
    NoAccount       \* where no row is stored

ASSUME RolesAssumption == "SUPER_ADMIN" \in Roles
ASSUME VersionsAssumption == MaxVersion \in Nat \ {0}
ASSUME NoAccountAssumption ==
    NoAccount \notin [role: Roles, active: BOOLEAN, version: 1..MaxVersion,
                      hash: [password: Passwords, outdated: BOOLEAN]]

VARIABLES
    account,    \* account[i]: the committed row of i, or NoAccount
    request,    \* request[m]: what thread m is doing
    login,      \* login[l]: what login thread l is doing
    tokens      \* session tokens issued and not expired

vars == <<account, request, login, tokens>>

\* A hash is outdated when it was made with weaker parameters than those of
\* the running build.
Hashes == [password: Passwords, outdated: BOOLEAN]
Rows == [role: Roles, active: BOOLEAN, version: 1..MaxVersion, hash: Hashes]
Tokens == [id: Accounts, role: Roles, version: 1..MaxVersion]

NoRequest == [step |-> "idle"]
Requests ==
    [step: {"guarded"}, by: Accounts, actor: Rows]
      \cup [step: {"loaded"}, id: Accounts, seen: Rows]
      \cup [step: {"write"}, id: Accounts, seen: Rows, new: Rows]
      \cup [step: {"insert"}, id: Accounts, new: Rows]

Fresh(password) == [password |-> password, outdated |-> FALSE]

\* Mutant: versions start where no token may.
NewRowVersionZero(role, password) ==
    [role |-> role, active |-> TRUE, version |-> 0, hash |-> Fresh(password)]

NewRow(role, password) ==
    [role |-> role, active |-> TRUE, version |-> 1, hash |-> Fresh(password)]

Init ==
    /\ account = [i \in Accounts |-> NoAccount]
    /\ request = [m \in Managers |-> NoRequest]
    /\ login = [l \in Logins |-> NoRequest]
    /\ tokens = {}

Stored == {i \in Accounts : account[i] # NoAccount}
ActiveSuperAdmins ==
    {i \in Stored : account[i].role = "SUPER_ADMIN" /\ account[i].active}

\* resolve: the account must be active and at the version of the token.
Resolves(token) ==
    /\ account[token.id] # NoAccount
    /\ account[token.id].active
    /\ account[token.id].version = token.version

\* The deployment command creates the first account, when there is none.
BootstrapSuperAdmin ==
    /\ Stored = {}
    /\ \E i \in Accounts, p \in Passwords :
          account' = [account EXCEPT ![i] = NewRow("SUPER_ADMIN", p)]
    /\ UNCHANGED <<request, login, tokens>>

Proceed(m, r) ==
    /\ request' = [request EXCEPT ![m] = r]
    /\ UNCHANGED <<account, login, tokens>>

\* The dependency of every route: the row it loads is the actor's.
Guard(m) ==
    /\ request[m] = NoRequest
    /\ \E token \in tokens :
          /\ Resolves(token)
          /\ Proceed(m, [step |-> "guarded", by |-> token.id, actor |-> account[token.id]])

\* Only a super administrator has the capabilities to manage accounts.
MayManage(m) == request[m].step = "guarded" /\ request[m].actor.role = "SUPER_ADMIN"

\* create up to its INSERT; a second INSERT of the address waits for the first.
CreateAdmin(m) ==
    /\ MayManage(m)
    /\ \E i \in Accounts \ Stored, role \in Roles, p \in Passwords :
          /\ \A n \in Managers : request[n].step = "insert" => request[n].id # i
          /\ Proceed(m, [step |-> "insert", id |-> i, new |-> NewRow(role, p)])

\* get of the account a status or role change is about.
LoadAdmin(m) ==
    /\ MayManage(m)
    /\ \E i \in Stored :
          Proceed(m, [step |-> "loaded", id |-> i,
                      seen |-> IF i = request[m].by THEN request[m].actor ELSE account[i]])

\* _assert_not_last_super_admin, a query of its own.
NotLastSuperAdmin(i, seen) ==
    seen.role = "SUPER_ADMIN" => ActiveSuperAdmins \ {i} # {}

Write(m, i, seen, new) ==
    /\ new.version <= MaxVersion
    /\ Proceed(m, [step |-> "write", id |-> i, seen |-> seen, new |-> new])

\* Mutant: deactivation leaves the version alone.
SetActiveNoBump(m) ==
    /\ request[m].step = "loaded"
    /\ LET r == request[m] IN
       \E active \in BOOLEAN :
          /\ ~active => NotLastSuperAdmin(r.id, r.seen)
          /\ Write(m, r.id, r.seen, [r.seen EXCEPT !.active = active])

\* Deactivation ends the sessions of the account; activation starts none.
SetActive(m) ==
    /\ request[m].step = "loaded"
    /\ LET r == request[m] IN
       \E active \in BOOLEAN :
          /\ ~active => NotLastSuperAdmin(r.id, r.seen)
          /\ Write(m, r.id, r.seen,
                   [r.seen EXCEPT !.active = active,
                                  !.version = IF active THEN @ ELSE @ + 1])

\* Mutant: only losing the role of super administrator ends sessions.
SetRoleBumpDemotion(m) ==
    /\ request[m].step = "loaded"
    /\ LET r == request[m] IN
       \E role \in Roles :
          /\ role # "SUPER_ADMIN" => NotLastSuperAdmin(r.id, r.seen)
          /\ Write(m, r.id, r.seen,
                   [r.seen EXCEPT !.role = role,
                                  !.version = IF r.seen.role = "SUPER_ADMIN" /\ role # r.seen.role
                                              THEN @ + 1 ELSE @])

SetRole(m) ==
    /\ request[m].step = "loaded"
    /\ LET r == request[m] IN
       \E role \in Roles :
          /\ role # "SUPER_ADMIN" => NotLastSuperAdmin(r.id, r.seen)
          /\ Write(m, r.id, r.seen,
                   [r.seen EXCEPT !.role = role,
                                  !.version = IF role # r.seen.role THEN @ + 1 ELSE @])

\* Mutant: the new hash is stored and the sessions go on.
ChangePasswordKeepSessions(m) ==
    /\ request[m].step = "guarded"
    /\ LET r == request[m] IN
       \E p \in Passwords \ {r.actor.hash.password} :
          Write(m, r.by, r.actor, [r.actor EXCEPT !.hash = Fresh(p)])

\* The caller has given the current password, and one that differs from it.
ChangeOwnPassword(m) ==
    /\ request[m].step = "guarded"
    /\ LET r == request[m] IN
       \E p \in Passwords \ {r.actor.hash.password} :
          Write(m, r.by, r.actor, [r.actor EXCEPT !.hash = Fresh(p), !.version = @ + 1])

\* An UPDATE sets the columns whose value differs from the one loaded.
Merge(row, seen, new) ==
    [f \in DOMAIN row |-> IF new[f] # seen[f] THEN new[f] ELSE row[f]]

CommitWrite(m) ==
    LET r == request[m] IN
    /\ r.step = "write"
    /\ account' = [account EXCEPT ![r.id] = Merge(@, r.seen, r.new)]
    /\ request' = [request EXCEPT ![m] = NoRequest]
    /\ UNCHANGED <<login, tokens>>

CommitInsert(m) ==
    LET r == request[m] IN
    /\ r.step = "insert"
    /\ account' = [account EXCEPT ![r.id] = r.new]
    /\ request' = [request EXCEPT ![m] = NoRequest]
    /\ UNCHANGED <<login, tokens>>

\* authenticate: one read of the row decides, an outdated hash is made anew
\* from the password given, and the token is signed before the commit.
Authenticate(l) ==
    /\ login[l] = NoRequest
    /\ \E i \in Stored :
          /\ account[i].active
          /\ login' = [login EXCEPT ![l] =
                [step |-> "login", id |-> i, seen |-> account[i],
                 new |-> [account[i] EXCEPT !.hash.outdated = FALSE]]]
    /\ UNCHANGED <<account, request, tokens>>

TokenOf(r) == [id |-> r.id, role |-> r.seen.role, version |-> r.seen.version]

CommitLogin(l) ==
    LET r == login[l] IN
    /\ r.step = "login"
    /\ account' = [account EXCEPT ![r.id] = Merge(@, r.seen, r.new)]
    /\ tokens' = tokens \cup {TokenOf(r)}
    /\ login' = [login EXCEPT ![l] = NoRequest]
    /\ UNCHANGED request

\* A check refuses the request, or a statement fails: it is rolled back.
Fail ==
    /\ \/ /\ \E m \in Managers : request' = [request EXCEPT ![m] = NoRequest]
          /\ UNCHANGED login
       \/ /\ \E l \in Logins : login' = [login EXCEPT ![l] = NoRequest]
          /\ UNCHANGED request
    /\ UNCHANGED <<account, tokens>>

\* The lifetime of a token is over.
Expire ==
    /\ \E token \in tokens : tokens' = tokens \ {token}
    /\ UNCHANGED <<account, request, login>>

\* The process restarts, perhaps with a build whose hashing is stronger.
Restart ==
    /\ request' = [m \in Managers |-> NoRequest]
    /\ login' = [l \in Logins |-> NoRequest]
    /\ \/ UNCHANGED account
       \/ account' = [i \in Accounts |->
                         IF i \in Stored THEN [account[i] EXCEPT !.hash.outdated = TRUE]
                         ELSE NoAccount]
    /\ UNCHANGED tokens

Next ==
    \/ \E m \in Managers :
          \/ Guard(m) \/ CreateAdmin(m) \/ LoadAdmin(m) \/ SetActive(m) \/ SetRole(m)
          \/ ChangeOwnPassword(m) \/ CommitWrite(m) \/ CommitInsert(m)
    \/ \E l \in Logins : Authenticate(l) \/ CommitLogin(l)
    \/ BootstrapSuperAdmin \/ Fail \/ Expire \/ Restart

Spec == Init /\ [][Next]_vars
-----------------------------------------------------------------------------
(***************************************************************************)
(* Properties.                                                             *)
(***************************************************************************)

TypeOK ==
    /\ account \in [Accounts -> Rows \cup {NoAccount}]
    /\ request \in [Managers -> Requests \cup {NoRequest}]
    /\ login \in [Logins -> [step: {"login"}, id: Accounts, seen: Rows, new: Rows]
                              \cup {NoRequest}]
    /\ tokens \subseteq Tokens

\* Tokens that are issued, and those that a login is about to issue.
Issued == tokens \cup {TokenOf(login[l]) : l \in {k \in Logins : login[k].step = "login"}}

\* What the routes leave to their callers.  No request commits to an account
\* whose row another one has read and still works from.
WorksFrom(r) == CASE r.step = "guarded" -> {r.by}
                  [] r.step \in {"loaded", "write"} -> {r.id}
                  [] OTHER -> {}
RowsApart ==
    \A m, n \in Managers :
        request[m].step = "write" /\ request[m].id \in WorksFrom(request[n]) => m = n

\* AdminUserService.set_role: the role is part of the token, so that a change
\* has to invalidate it.  A token that still resolves names the role its
\* account has.
TokenRoleAgrees ==
    \A token \in tokens : Resolves(token) => token.role = account[token.id].role

Revoking(r) ==
    r.new.role # r.seen.role \/ r.new.hash # r.seen.hash \/ ~r.new.active

\* "Any credential or status change ... invalidates already-issued sessions
\* immediately": when a changed password, a changed role or a deactivation
\* commits, no token of the account resolves, nor will one that a login that
\* began earlier has yet to hand out.
ChangeRevokes ==
    [][\A m \in Managers :
          CommitWrite(m) /\ Revoking(request[m]) =>
              \A token \in Issued' : token.id = request[m].id => ~Resolves(token)']_vars

\* A token that does not resolve never does again: the account's return does
\* not bring its old sessions back.
RevokedStaysRevoked ==
    [][\A token \in Issued \cap Issued' : ~Resolves(token) => ~Resolves(token)']_vars
-----------------------------------------------------------------------------
(***************************************************************************)
(* What the documentation says as well and overlapping requests break: the *)
(* count of super administrators is a query of its own, and a log-in works *)
(* from the row it has read.                                               *)
(***************************************************************************)

\* docs/18-operations.md: "The last active SUPER_ADMIN cannot be deactivated
\* or demoted".  Once there is an account, one of them can manage the others.
SuperAdminRemains == Stored # {} => ActiveSuperAdmins # {}

\* AdminUserService.authenticate: a log-in that stores an outdated hash anew stores
\* the password it was given.  The password of an account changes only when the
\* request that sets it commits, and to what that request sets.
HashesAnew(r) == r.step \in {"write", "login"} /\ r.new.hash # r.seen.hash

PasswordsStand ==
    [][\A i \in Stored : account'[i].hash.password # account[i].hash.password =>
          \E m \in Managers :
              /\ CommitWrite(m) /\ request[m].id = i
              /\ HashesAnew(request[m]) /\ account'[i].hash = request[m].new.hash]_vars
=============================================================================
