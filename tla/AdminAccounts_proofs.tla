------------------------ MODULE AdminAccounts_proofs ------------------------
(***************************************************************************)
(* Proofs about AdminAccounts, for any accounts, roles, passwords, threads *)
(* and bound on versions.                                                  *)
(***************************************************************************)
EXTENDS AdminAccounts, TLAPS

(***************************************************************************)
(* Rows and what an UPDATE makes of them.                                  *)
(***************************************************************************)

\* Two rows that give an account the same rights and the same sessions.
Same(row, seen) ==
    row.role = seen.role /\ row.active = seen.active /\ row.version = seen.version

LEMMA NewRowTyped ==
    ASSUME NEW role \in Roles, NEW p \in Passwords
    PROVE  NewRow(role, p) \in Rows
BY VersionsAssumption DEF NewRow, Fresh, Rows, Hashes

LEMMA MergeTyped ==
    ASSUME NEW row \in Rows, NEW seen \in Rows, NEW new \in Rows
    PROVE  Merge(row, seen, new) \in Rows
BY DEF Merge, Rows

\* An UPDATE stores each column as written or leaves it; where the row still
\* is as it was loaded, what it stores is what was written.
LEMMA MergeSame ==
    ASSUME NEW row \in Rows, NEW seen \in Rows, NEW new \in Rows, Same(row, seen)
    PROVE  Same(Merge(row, seen, new), new)
BY DEF Merge, Rows, Same

\* A login writes no column but the hash.
LEMMA MergeOfLogin ==
    ASSUME NEW row \in Rows, NEW seen \in Rows, NEW new \in Rows,
           new = [seen EXCEPT !.hash.outdated = FALSE]
    PROVE  Same(Merge(row, seen, new), row)
<1>1. Same(new, seen)
  BY DEF Rows, Same
<1>2. QED
  BY <1>1 DEF Merge, Rows, Same

LEMMA OutdatedTyped ==
    ASSUME NEW row \in Rows, NEW b \in BOOLEAN
    PROVE  /\ [row EXCEPT !.hash.outdated = b] \in Rows
           /\ Same([row EXCEPT !.hash.outdated = b], row)
BY DEF Rows, Hashes, Same

LEMMA NoAccountIsNoRow == NoAccount \notin Rows
BY NoAccountAssumption DEF Rows, Hashes

(***************************************************************************)
(* Types.                                                                  *)
(***************************************************************************)

\* Accounts are never deleted, so the row of a request is there at its end.
PendingStored ==
    /\ \A m \in Managers :
          /\ request[m].step = "guarded" => account[request[m].by] # NoAccount
          /\ request[m].step \in {"loaded", "write"} => account[request[m].id] # NoAccount
    /\ \A l \in Logins : login[l].step = "login" => account[login[l].id] # NoAccount

LEMMA TypeInit == Init => TypeOK /\ PendingStored
BY DEF Init, TypeOK, PendingStored, NoRequest

\* A thread's next request is one it may have.
LEMMA ProceedTyped ==
    ASSUME TypeOK, NEW m \in Managers, NEW r \in Requests \cup {NoRequest}, Proceed(m, r)
    PROVE  TypeOK'
BY DEF TypeOK, Proceed

LEMMA WriteTyped ==
    ASSUME TypeOK, NEW m \in Managers, NEW i \in Accounts, NEW seen \in Rows, NEW new,
           NEW role \in Roles, NEW active \in BOOLEAN, NEW version \in {seen.version, seen.version + 1},
           NEW hash \in Hashes,
           new = [seen EXCEPT !.role = role, !.active = active,
                              !.version = version, !.hash = hash],
           Write(m, i, seen, new)
    PROVE  TypeOK'
<1>1. new.version <= MaxVersion /\ Proceed(m, [step |-> "write", id |-> i, seen |-> seen, new |-> new])
  BY DEF Write
<1>2. version \in 1..MaxVersion
  BY <1>1, VersionsAssumption DEF Rows
<1>3. new \in Rows
  BY <1>2 DEF Rows
<1>4. QED
  BY <1>1, <1>3, ProceedTyped DEF Requests

LEMMA TypeNext == TypeOK /\ PendingStored /\ [Next]_vars => TypeOK'
<1> SUFFICES ASSUME TypeOK, PendingStored, [Next]_vars PROVE TypeOK'
  OBVIOUS
<1>1. ASSUME NEW m \in Managers, Guard(m) PROVE TypeOK'
  <2>1. PICK token \in tokens :
          Resolves(token) /\ Proceed(m, [step |-> "guarded", by |-> token.id,
                                         actor |-> account[token.id]])
    BY <1>1 DEF Guard
  <2>2. token.id \in Accounts /\ account[token.id] \in Rows
    BY <2>1 DEF Resolves, TypeOK, Tokens
  <2>3. QED
    BY <2>1, <2>2, ProceedTyped DEF Requests
<1>2. ASSUME NEW m \in Managers, CreateAdmin(m) PROVE TypeOK'
  <2>1. PICK i \in Accounts, role \in Roles, p \in Passwords :
          Proceed(m, [step |-> "insert", id |-> i, new |-> NewRow(role, p)])
    BY <1>2 DEF CreateAdmin
  <2>2. QED
    BY <2>1, NewRowTyped, ProceedTyped DEF Requests
<1>3. ASSUME NEW m \in Managers, LoadAdmin(m) PROVE TypeOK'
  <2>1. PICK i \in Stored :
          Proceed(m, [step |-> "loaded", id |-> i,
                      seen |-> IF i = request[m].by THEN request[m].actor ELSE account[i]])
    BY <1>3 DEF LoadAdmin
  <2>2. i \in Accounts /\ account[i] \in Rows
    BY <2>1 DEF Stored, TypeOK
  <2>3. request[m].actor \in Rows
    BY <1>3 DEF LoadAdmin, MayManage, TypeOK, Requests, NoRequest
  <2>4. QED
    BY <2>1, <2>2, <2>3, ProceedTyped DEF Requests
<1>4. ASSUME NEW m \in Managers, request[m].step = "loaded"
      PROVE  request[m].id \in Accounts /\ request[m].seen \in Rows
  BY <1>4 DEF TypeOK, Requests, NoRequest
<1>5. ASSUME NEW m \in Managers, SetActive(m) PROVE TypeOK'
  <2> DEFINE i == request[m].id
             seen == request[m].seen
  <2>1. i \in Accounts /\ seen \in Rows
    BY <1>4, <1>5 DEF SetActive
  <2>2. PICK active \in BOOLEAN :
          Write(m, i, seen, [seen EXCEPT !.active = active,
                                         !.version = IF active THEN @ ELSE @ + 1])
    BY <1>5 DEF SetActive
  <2>3. PICK version \in {seen.version, seen.version + 1} :
          [seen EXCEPT !.active = active, !.version = IF active THEN @ ELSE @ + 1]
            = [seen EXCEPT !.role = seen.role, !.active = active,
                           !.version = version, !.hash = seen.hash]
    BY <2>1 DEF Rows
  <2>4. seen.role \in Roles /\ seen.hash \in Hashes
    BY <2>1 DEF Rows
  <2> HIDE DEF i, seen
  <2>5. QED
    BY <2>1, <2>2, <2>3, <2>4, WriteTyped
<1>6. ASSUME NEW m \in Managers, SetRole(m) PROVE TypeOK'
  <2> DEFINE i == request[m].id
             seen == request[m].seen
  <2>1. i \in Accounts /\ seen \in Rows
    BY <1>4, <1>6 DEF SetRole
  <2>2. PICK role \in Roles :
          Write(m, i, seen, [seen EXCEPT !.role = role,
                               !.version = IF role # seen.role THEN @ + 1 ELSE @])
    BY <1>6 DEF SetRole
  <2>3. PICK version \in {seen.version, seen.version + 1} :
          [seen EXCEPT !.role = role, !.version = IF role # seen.role THEN @ + 1 ELSE @]
            = [seen EXCEPT !.role = role, !.active = seen.active,
                           !.version = version, !.hash = seen.hash]
    BY <2>1 DEF Rows
  <2>4. seen.active \in BOOLEAN /\ seen.hash \in Hashes
    BY <2>1 DEF Rows
  <2> HIDE DEF i, seen
  <2>5. QED
    BY <2>1, <2>2, <2>3, <2>4, WriteTyped
<1>7. ASSUME NEW m \in Managers, ChangeOwnPassword(m) PROVE TypeOK'
  <2> DEFINE i == request[m].by
             seen == request[m].actor
  <2>1. i \in Accounts /\ seen \in Rows
    BY <1>7 DEF ChangeOwnPassword, TypeOK, Requests, NoRequest
  <2>2. PICK p \in Passwords :
          Write(m, i, seen, [seen EXCEPT !.hash = Fresh(p), !.version = @ + 1])
    BY <1>7 DEF ChangeOwnPassword
  <2>3. PICK version \in {seen.version, seen.version + 1} :
          [seen EXCEPT !.hash = Fresh(p), !.version = @ + 1]
            = [seen EXCEPT !.role = seen.role, !.active = seen.active,
                           !.version = version, !.hash = Fresh(p)]
    BY <2>1 DEF Rows
  <2>4. seen.role \in Roles /\ seen.active \in BOOLEAN /\ Fresh(p) \in Hashes
    BY <2>1 DEF Rows, Hashes, Fresh
  <2> HIDE DEF i, seen
  <2>5. QED
    BY <2>1, <2>2, <2>3, <2>4, WriteTyped
<1>8. ASSUME NEW m \in Managers, CommitWrite(m) PROVE TypeOK'
  <2>1. /\ request[m].id \in Accounts
        /\ request[m].seen \in Rows /\ request[m].new \in Rows
    BY <1>8 DEF CommitWrite, TypeOK, Requests, NoRequest
  <2>4. account[request[m].id] \in Rows
    BY <1>8, <2>1 DEF CommitWrite, TypeOK, PendingStored
  <2>2. Merge(account[request[m].id], request[m].seen, request[m].new) \in Rows
    BY <2>1, <2>4, MergeTyped
  <2>3. QED
    BY <1>8, <2>1, <2>2 DEF CommitWrite, TypeOK
<1>9. ASSUME NEW m \in Managers, CommitInsert(m) PROVE TypeOK'
  <2>1. request[m].id \in Accounts /\ request[m].new \in Rows
    BY <1>9 DEF CommitInsert, TypeOK, Requests, NoRequest
  <2>2. QED
    BY <1>9, <2>1 DEF CommitInsert, TypeOK
<1>10. ASSUME NEW l \in Logins, Authenticate(l) PROVE TypeOK'
  <2>1. PICK i \in Stored :
          login' = [login EXCEPT ![l] = [step |-> "login", id |-> i, seen |-> account[i],
                                         new |-> [account[i] EXCEPT !.hash.outdated = FALSE]]]
    BY <1>10 DEF Authenticate
  <2>2. i \in Accounts /\ account[i] \in Rows
    BY <2>1 DEF Stored, TypeOK
  <2>3. [account[i] EXCEPT !.hash.outdated = FALSE] \in Rows
    BY <2>2, OutdatedTyped
  <2>4. QED
    BY <1>10, <2>1, <2>2, <2>3 DEF Authenticate, TypeOK
<1>11. ASSUME NEW l \in Logins, CommitLogin(l) PROVE TypeOK'
  <2>1. /\ login[l].id \in Accounts
        /\ login[l].seen \in Rows /\ login[l].new \in Rows
    BY <1>11 DEF CommitLogin, TypeOK, NoRequest
  <2>5. account[login[l].id] \in Rows
    BY <1>11, <2>1 DEF CommitLogin, TypeOK, PendingStored
  <2>2. Merge(account[login[l].id], login[l].seen, login[l].new) \in Rows
    BY <2>1, <2>5, MergeTyped
  <2>3. TokenOf(login[l]) \in Tokens
    BY <2>1 DEF TokenOf, Tokens, Rows
  <2>4. QED
    BY <1>11, <2>1, <2>2, <2>3 DEF CommitLogin, TypeOK
<1>12. CASE BootstrapSuperAdmin
  BY <1>12, NewRowTyped, RolesAssumption DEF BootstrapSuperAdmin, TypeOK
<1>13. CASE Fail
  BY <1>13 DEF Fail, TypeOK
<1>14. CASE Expire
  BY <1>14 DEF Expire, TypeOK
<1>15. CASE Restart
  <2>1. \A i \in Stored : [account[i] EXCEPT !.hash.outdated = TRUE] \in Rows
    BY OutdatedTyped DEF Stored, TypeOK
  <2>2. QED
    BY <1>15, <2>1 DEF Restart, TypeOK
<1>16. CASE UNCHANGED vars
  BY <1>16 DEF vars, TypeOK
<1>17. QED
  BY <1>1, <1>2, <1>3, <1>5, <1>6, <1>7, <1>8, <1>9, <1>10, <1>11, <1>12, <1>13,
     <1>14, <1>15, <1>16 DEF Next

\* No step deletes an account.
LEMMA StoredStays ==
    ASSUME TypeOK, PendingStored, [Next]_vars, NEW i \in Accounts, account[i] # NoAccount
    PROVE  account'[i] # NoAccount
<1>0. TypeOK'
  BY TypeNext
<1>1. account[i] \in Rows /\ account \in [Accounts -> Rows \cup {NoAccount}]
  BY DEF TypeOK
<1>2. ASSUME NEW m \in Managers, CommitWrite(m) PROVE account'[i] # NoAccount
  <2>1. /\ request[m].id \in Accounts
        /\ request[m].seen \in Rows /\ request[m].new \in Rows
    BY <1>2 DEF CommitWrite, TypeOK, Requests, NoRequest
  <2>2. Merge(account[i], request[m].seen, request[m].new) \in Rows
    BY <1>1, <2>1, MergeTyped
  <2>3. QED
    BY <1>1, <1>2, <2>1, <2>2, NoAccountIsNoRow DEF CommitWrite
<1>3. ASSUME NEW m \in Managers, CommitInsert(m) PROVE account'[i] # NoAccount
  <2>1. request[m].new \in Rows
    BY <1>3 DEF CommitInsert, TypeOK, Requests, NoRequest
  <2>2. QED
    BY <1>1, <1>3, <2>1, NoAccountIsNoRow DEF CommitInsert
<1>4. ASSUME NEW l \in Logins, CommitLogin(l) PROVE account'[i] # NoAccount
  <2>1. /\ login[l].id \in Accounts
        /\ login[l].seen \in Rows /\ login[l].new \in Rows
    BY <1>4 DEF CommitLogin, TypeOK, NoRequest
  <2>2. Merge(account[i], login[l].seen, login[l].new) \in Rows
    BY <1>1, <2>1, MergeTyped
  <2>3. QED
    BY <1>1, <1>4, <2>1, <2>2, NoAccountIsNoRow DEF CommitLogin
<1>5. CASE Restart
  <2>1. [account[i] EXCEPT !.hash.outdated = TRUE] \in Rows
    BY <1>1, OutdatedTyped
  <2>2. QED
    BY <1>1, <1>5, <2>1, NoAccountIsNoRow DEF Restart, Stored
<1>6. CASE BootstrapSuperAdmin
  BY <1>6 DEF BootstrapSuperAdmin, Stored
<1>7. CASE UNCHANGED account
  BY <1>7
<1>8. QED
  BY <1>2, <1>3, <1>4, <1>5, <1>6, <1>7
     DEF Next, Guard, CreateAdmin, LoadAdmin, SetActive, SetRole, ChangeOwnPassword, Write,
         Proceed, Authenticate, Fail, Expire, vars

\* A step of a thread that writes nothing yet.
Considers(m) ==
    \/ Guard(m) \/ CreateAdmin(m) \/ LoadAdmin(m)
    \/ SetActive(m) \/ SetRole(m) \/ ChangeOwnPassword(m)

StoredFor(r) ==
    /\ r.step = "guarded" => account[r.by] # NoAccount
    /\ r.step \in {"loaded", "write"} => account[r.id] # NoAccount

\* A request's account was there when the request first loaded it.
LEMMA ConsidersStored ==
    ASSUME TypeOK, PendingStored, NEW m \in Managers, Considers(m)
    PROVE  \E r : Proceed(m, r) /\ StoredFor(r)
<1>1. CASE Guard(m)
  BY <1>1 DEF Guard, StoredFor, Resolves
<1>2. CASE CreateAdmin(m)
  BY <1>2 DEF CreateAdmin, StoredFor
<1>3. CASE LoadAdmin(m)
  BY <1>3 DEF LoadAdmin, StoredFor, Stored
<1>4. CASE SetActive(m)
  BY <1>4 DEF SetActive, Write, StoredFor, PendingStored
<1>5. CASE SetRole(m)
  BY <1>5 DEF SetRole, Write, StoredFor, PendingStored
<1>6. CASE ChangeOwnPassword(m)
  BY <1>6 DEF ChangeOwnPassword, Write, StoredFor, PendingStored
<1>7. QED
  BY <1>1, <1>2, <1>3, <1>4, <1>5, <1>6 DEF Considers

LEMMA PendingNext == TypeOK /\ PendingStored /\ [Next]_vars => PendingStored'
<1> SUFFICES ASSUME TypeOK, PendingStored, [Next]_vars PROVE PendingStored'
  OBVIOUS
<1>1. \A i \in Accounts : account[i] # NoAccount => account'[i] # NoAccount
  BY StoredStays
<1>2. /\ \A m \in Managers :
             /\ request[m].step = "guarded" => account'[request[m].by] # NoAccount
             /\ request[m].step \in {"loaded", "write"} => account'[request[m].id] # NoAccount
      /\ \A l \in Logins : login[l].step = "login" => account'[login[l].id] # NoAccount
  BY <1>1 DEF PendingStored, TypeOK, Requests, NoRequest
<1>3. ASSUME NEW m \in Managers, Considers(m) PROVE PendingStored'
  <2>1. PICK r : Proceed(m, r) /\ StoredFor(r)
    BY <1>3, ConsidersStored
  <2>2. QED
    BY <2>1 DEF Proceed, StoredFor, PendingStored, TypeOK
<1>4. ASSUME NEW m \in Managers, CommitWrite(m) \/ CommitInsert(m) PROVE PendingStored'
  BY <1>2, <1>4 DEF CommitWrite, CommitInsert, PendingStored, TypeOK, NoRequest
<1>5. ASSUME NEW l \in Logins, Authenticate(l) PROVE PendingStored'
  <2>1. PICK i \in Stored :
          login' = [login EXCEPT ![l] = [step |-> "login", id |-> i, seen |-> account[i],
                                         new |-> [account[i] EXCEPT !.hash.outdated = FALSE]]]
    BY <1>5 DEF Authenticate
  <2>2. QED
    BY <1>5, <2>1 DEF Authenticate, PendingStored, TypeOK, Stored
<1>6. ASSUME NEW l \in Logins, CommitLogin(l) PROVE PendingStored'
  BY <1>2, <1>6 DEF CommitLogin, PendingStored, TypeOK, NoRequest
<1>7. CASE Restart \/ Fail
  BY <1>2, <1>7 DEF Restart, Fail, PendingStored, TypeOK, NoRequest
<1>8. CASE BootstrapSuperAdmin \/ Expire \/ UNCHANGED vars
  BY <1>2, <1>8 DEF BootstrapSuperAdmin, Expire, vars, PendingStored
<1>9. QED
  BY <1>3, <1>4, <1>5, <1>6, <1>7, <1>8 DEF Next, Considers

\* Whatever requests race, rows, requests and tokens have their types: the
\* columns of two UPDATEs merge into a row again.
THEOREM AccountsTypeCorrect == Spec => []TypeOK
<1>1. TypeOK /\ PendingStored /\ [Next]_vars => (TypeOK /\ PendingStored)'
  BY TypeNext, PendingNext
<1>2. QED
  BY <1>1, TypeInit, PTL DEF Spec

(***************************************************************************)
(* Requests apart.                                                         *)
(*                                                                         *)
(* If no request commits to a row that another one works from, what a      *)
(* request saw of rights and sessions still holds when it commits: logins  *)
(* race with it and write hashes only.                                     *)
(***************************************************************************)

Agrees(i, seen) == account[i] # NoAccount /\ Same(account[i], seen)

\* What a write does to the version: a change of role or hash or a deactivation
\* makes it larger, and nothing makes it smaller.
Bumped(r) ==
    /\ r.new.version >= r.seen.version
    /\ \/ r.new.version > r.seen.version
       \/ /\ r.new.role = r.seen.role /\ r.new.hash = r.seen.hash
          /\ r.seen.active => r.new.active

Sound(r) ==
    /\ r # NoRequest => Stored # {}
    /\ r.step = "guarded" => Agrees(r.by, r.actor)
    /\ r.step = "loaded" => Agrees(r.id, r.seen)
    /\ r.step = "write" => Agrees(r.id, r.seen) /\ Bumped(r)
    /\ r.step = "insert" => account[r.id] = NoAccount

\* A second INSERT of an address waits for the first.
Inserts(r, i) == r.step = "insert" /\ r.id = i
InsertsApart ==
    \A m, n \in Managers, i \in Accounts :
        Inserts(request[m], i) /\ Inserts(request[n], i) => m = n

\* No token is ahead of its account, and one that is level with it was issued
\* to an active account of the same role.
Level(token) ==
    /\ account[token.id] # NoAccount
    /\ token.version <= account[token.id].version
    /\ token.version = account[token.id].version =>
          account[token.id].active /\ token.role = account[token.id].role

SessionsInv ==
    /\ TypeOK
    /\ PendingStored
    /\ \A m \in Managers : Sound(request[m])
    /\ InsertsApart
    /\ \A l \in Logins :
          login[l].step = "login" =>
              login[l].new = [login[l].seen EXCEPT !.hash.outdated = FALSE]
    /\ \A token \in Issued : Level(token)

\* A step after which every account has the rights and sessions it had.
Quiet ==
    \A i \in Accounts :
        /\ account'[i] = NoAccount <=> account[i] = NoAccount
        /\ account[i] # NoAccount => Same(account'[i], account[i])

LEMMA QuietKeepsAdmins ==
    ASSUME Quiet PROVE Stored' = Stored
BY DEF Quiet, Stored

\* What a request saw stays true while the rows it works from have the rights
\* and sessions they had, and the address it inserts is free.
LEMMA SoundKept ==
    ASSUME NEW r \in Requests \cup {NoRequest}, Sound(r), Stored # {} => Stored' # {},
           \A i \in WorksFrom(r) : account[i] # NoAccount =>
              account'[i] # NoAccount /\ Same(account'[i], account[i]),
           r.step = "insert" => account'[r.id] = account[r.id]
    PROVE  Sound(r)'
<1>1. ASSUME NEW i \in WorksFrom(r), NEW seen, Agrees(i, seen) PROVE Agrees(i, seen)'
  BY <1>1 DEF Agrees, Same
<1>2. r # NoRequest => Stored' # {}
  BY DEF Sound
<1>3. r.step = "guarded" => Agrees(r.by, r.actor)'
  BY <1>1 DEF Sound, WorksFrom
<1>4. r.step = "loaded" => Agrees(r.id, r.seen)'
  BY <1>1 DEF Sound, WorksFrom
<1>5. r.step = "write" => Agrees(r.id, r.seen)' /\ Bumped(r)'
  BY <1>1 DEF Sound, WorksFrom, Bumped
<1>6. r.step = "insert" => account'[r.id] = NoAccount
  BY DEF Sound
<1>7. QED
  BY <1>2, <1>3, <1>4, <1>5, <1>6 DEF Sound

LEMMA WorksFromTyped ==
    ASSUME NEW r \in Requests \cup {NoRequest}
    PROVE  WorksFrom(r) \subseteq Accounts /\ (r.step = "insert" => r.id \in Accounts)
BY DEF WorksFrom, Requests, NoRequest

LEMMA QuietKeepsSound ==
    ASSUME Quiet, NEW r \in Requests \cup {NoRequest}, Sound(r) PROVE Sound(r)'
<1>1. Stored # {} => Stored' # {}
  BY QuietKeepsAdmins
<1>2. \A i \in WorksFrom(r) : account[i] # NoAccount =>
         account'[i] # NoAccount /\ Same(account'[i], account[i])
  BY WorksFromTyped DEF Quiet
<1>3. r.step = "insert" => account'[r.id] = account[r.id]
  BY WorksFromTyped DEF Quiet, Sound
<1>4. QED
  BY <1>1, <1>2, <1>3, SoundKept

LEMMA QuietKeepsLevel ==
    ASSUME Quiet, NEW token \in Tokens, Level(token) PROVE Level(token)'
BY DEF Quiet, Level, Same, Tokens

LEMMA IssuedTyped == TypeOK => Issued \subseteq Tokens
BY DEF TypeOK, Issued, Tokens, TokenOf, Rows, NoRequest

\* Only the start of a login adds a token to those issued or about to be.
LEMMA IssuedShrinks ==
    ASSUME TypeOK, [Next]_vars, \A l \in Logins : ~Authenticate(l)
    PROVE  Issued' \subseteq Issued
<1>1. CASE UNCHANGED <<login, tokens>>
  BY <1>1 DEF Issued
<1>2. ASSUME NEW l \in Logins, CommitLogin(l) PROVE Issued' \subseteq Issued
  <2>1. \A k \in Logins : login'[k] = login[k] \/ login'[k] = NoRequest
    BY <1>2 DEF CommitLogin, TypeOK
  <2>2. tokens' \subseteq Issued
    BY <1>2 DEF CommitLogin, Issued
  <2>3. QED
    BY <2>1, <2>2 DEF Issued, NoRequest, TokenOf
<1>3. CASE Fail \/ Restart
  <2>1. \A k \in Logins : login'[k] = login[k] \/ login'[k] = NoRequest
    BY <1>3 DEF Fail, Restart, TypeOK
  <2>2. QED
    BY <1>3, <2>1 DEF Fail, Restart, Issued, NoRequest, TokenOf
<1>4. CASE Expire
  BY <1>4 DEF Expire, Issued
<1>5. QED
  BY <1>1, <1>2, <1>3, <1>4
     DEF Next, Guard, CreateAdmin, LoadAdmin, SetActive, SetRole, ChangeOwnPassword, Write,
         Proceed, CommitWrite, CommitInsert, BootstrapSuperAdmin, vars

\* Every request goes on from what it rightly saw.
Allowed(m, r) ==
    /\ Sound(r)
    /\ \A n \in Managers \ {m}, i \in Accounts : Inserts(r, i) => ~Inserts(request[n], i)

LEMMA ConsidersSound ==
    ASSUME SessionsInv, NEW m \in Managers, Considers(m)
    PROVE  \E r : Proceed(m, r) /\ Allowed(m, r)
<1>0. Sound(request[m]) /\ request[m] \in Requests \cup {NoRequest}
  BY DEF SessionsInv, TypeOK
<1> USE DEF Allowed
<1>1. CASE Guard(m)
  BY <1>1 DEF Guard, Sound, Resolves, Agrees, Same, SessionsInv, TypeOK, Tokens, Stored, Inserts
<1>2. CASE CreateAdmin(m)
  BY <1>0, <1>2 DEF CreateAdmin, MayManage, Sound, Stored, NoRequest, Inserts
<1>3. CASE LoadAdmin(m)
  BY <1>0, <1>3 DEF LoadAdmin, MayManage, Sound, Stored, Agrees, Same, NoRequest, Inserts
<1>4. CASE SetActive(m)
  <2> DEFINE i == request[m].id
             seen == request[m].seen
  <2>1. i \in Accounts /\ seen \in Rows /\ Agrees(i, seen) /\ Stored # {}
    BY <1>0, <1>4 DEF SetActive, Sound, Requests, NoRequest
  <2>2. PICK active \in BOOLEAN :
          /\ ~active => NotLastSuperAdmin(i, seen)
          /\ Write(m, i, seen, [seen EXCEPT !.active = active,
                                            !.version = IF active THEN @ ELSE @ + 1])
    BY <1>4 DEF SetActive
  <2> DEFINE new == [seen EXCEPT !.active = active,
                                 !.version = IF active THEN @ ELSE @ + 1]
             r == [step |-> "write", id |-> i, seen |-> seen, new |-> new]
  <2> HIDE DEF i, seen
  <2>3. Proceed(m, r)
    BY <2>2 DEF Write
  <2>7. /\ new.role = seen.role /\ new.hash = seen.hash /\ new.active = active
        /\ new.version = IF active THEN seen.version ELSE seen.version + 1
    BY <2>1, <2>2 DEF Rows
  <2> HIDE DEF new
  <2>4. Bumped(r)
    BY <2>1, <2>7 DEF Bumped, Rows
  <2>5. Allowed(m, r)
    BY <2>1, <2>4 DEF Sound, Inserts
  <2>6. QED
    BY <2>3, <2>5
<1>5. CASE SetRole(m)
  <2> DEFINE i == request[m].id
             seen == request[m].seen
  <2>1. i \in Accounts /\ seen \in Rows /\ Agrees(i, seen) /\ Stored # {}
    BY <1>0, <1>5 DEF SetRole, Sound, Requests, NoRequest
  <2>2. PICK role \in Roles :
          /\ role # "SUPER_ADMIN" => NotLastSuperAdmin(i, seen)
          /\ Write(m, i, seen, [seen EXCEPT !.role = role,
                                   !.version = IF role # seen.role THEN @ + 1 ELSE @])
    BY <1>5 DEF SetRole
  <2> DEFINE new == [seen EXCEPT !.role = role,
                                 !.version = IF role # seen.role THEN @ + 1 ELSE @]
             r == [step |-> "write", id |-> i, seen |-> seen, new |-> new]
  <2> HIDE DEF i, seen
  <2>3. Proceed(m, r)
    BY <2>2 DEF Write
  <2>7. /\ new.role = role /\ new.hash = seen.hash /\ new.active = seen.active
        /\ new.version = IF role # seen.role THEN seen.version + 1 ELSE seen.version
    BY <2>1, <2>2 DEF Rows
  <2> HIDE DEF new
  <2>4. Bumped(r)
    BY <2>1, <2>7 DEF Bumped, Rows
  <2>5. Allowed(m, r)
    BY <2>1, <2>4 DEF Sound, Inserts
  <2>6. QED
    BY <2>3, <2>5
<1>6. CASE ChangeOwnPassword(m)
  <2> DEFINE i == request[m].by
             seen == request[m].actor
  <2>1. i \in Accounts /\ seen \in Rows /\ Agrees(i, seen) /\ Stored # {}
    BY <1>0, <1>6 DEF ChangeOwnPassword, Sound, Requests, NoRequest
  <2>2. PICK p \in Passwords :
          Write(m, i, seen, [seen EXCEPT !.hash = Fresh(p), !.version = @ + 1])
    BY <1>6 DEF ChangeOwnPassword
  <2> DEFINE new == [seen EXCEPT !.hash = Fresh(p), !.version = @ + 1]
             r == [step |-> "write", id |-> i, seen |-> seen, new |-> new]
  <2> HIDE DEF i, seen
  <2>3. Proceed(m, r)
    BY <2>2 DEF Write
  <2>7. /\ new.role = seen.role /\ new.active = seen.active
        /\ new.version = seen.version + 1
    BY <2>1 DEF Rows
  <2> HIDE DEF new
  <2>4. Bumped(r)
    BY <2>1, <2>7 DEF Bumped, Rows
  <2>5. Allowed(m, r)
    BY <2>1, <2>4 DEF Sound, Inserts
  <2>6. QED
    BY <2>3, <2>5
<1>7. QED
  BY <1>1, <1>2, <1>3, <1>4, <1>5, <1>6 DEF Considers

\* A commit stores the rights and sessions its request decided on, and those
\* of no other account.
LEMMA CommitWriteStores ==
    ASSUME SessionsInv, NEW m \in Managers, CommitWrite(m)
    PROVE  LET r == request[m] IN
           /\ r.id \in Accounts /\ r.seen \in Rows /\ r.new \in Rows
           /\ Agrees(r.id, r.seen) /\ Bumped(r) /\ account[r.id] \in Rows
           /\ account'[r.id] # NoAccount /\ Same(account'[r.id], r.new)
           /\ \A i \in Accounts \ {r.id} : account'[i] = account[i]
<1> DEFINE r == request[m]
<1>1. r \in Requests \cup {NoRequest} /\ r.step = "write" /\ Sound(r)
  BY DEF CommitWrite, SessionsInv, TypeOK
<1>2. r.id \in Accounts /\ r.seen \in Rows /\ r.new \in Rows
  BY <1>1 DEF Requests, NoRequest
<1>3. Agrees(r.id, r.seen) /\ Bumped(r)
  BY <1>1 DEF Sound
<1>4. account[r.id] \in Rows /\ account \in [Accounts -> Rows \cup {NoAccount}]
  BY <1>2, <1>3 DEF SessionsInv, TypeOK, Agrees
<1>5. account' = [account EXCEPT ![r.id] = Merge(account[r.id], r.seen, r.new)]
  BY DEF CommitWrite
<1> HIDE DEF r
<1>6. /\ Merge(account[r.id], r.seen, r.new) \in Rows
      /\ Same(Merge(account[r.id], r.seen, r.new), r.new)
  BY <1>2, <1>3, <1>4, MergeTyped, MergeSame DEF Agrees
<1>7. account'[r.id] # NoAccount /\ Same(account'[r.id], r.new)
  BY <1>2, <1>4, <1>5, <1>6, NoAccountIsNoRow
<1>8. \A i \in Accounts \ {r.id} : account'[i] = account[i]
  BY <1>4, <1>5
<1>9. QED
  BY <1>2, <1>3, <1>4, <1>7, <1>8 DEF r

\* All that logins and restarts change of a row is its hash.
LEMMA OtherStepsQuiet ==
    ASSUME SessionsInv, [Next]_vars, ~BootstrapSuperAdmin,
           \A m \in Managers : ~CommitWrite(m) /\ ~CommitInsert(m)
    PROVE  Quiet
<1>1. account \in [Accounts -> Rows \cup {NoAccount}]
  BY DEF SessionsInv, TypeOK
<1>2. CASE UNCHANGED account
  BY <1>2 DEF Quiet, Same
<1>3. ASSUME NEW l \in Logins, CommitLogin(l) PROVE Quiet
  <2> DEFINE r == login[l]
  <2>4. /\ r \in [step: {"login"}, id: Accounts, seen: Rows, new: Rows] \cup {NoRequest}
        /\ r.step = "login"
    BY <1>3 DEF CommitLogin, SessionsInv, TypeOK
  <2>1. /\ r.id \in Accounts /\ r.seen \in Rows /\ r.new \in Rows
        /\ r.new = [r.seen EXCEPT !.hash.outdated = FALSE]
        /\ account[r.id] # NoAccount
    BY <1>3, <2>4 DEF SessionsInv, PendingStored, NoRequest
  <2>2. account' = [account EXCEPT ![r.id] = Merge(account[r.id], r.seen, r.new)]
    BY <1>3 DEF CommitLogin
  <2> HIDE DEF r
  <2>3. /\ Merge(account[r.id], r.seen, r.new) \in Rows
        /\ Same(Merge(account[r.id], r.seen, r.new), account[r.id])
    BY <1>1, <2>1, MergeTyped, MergeOfLogin
  <2>5. QED
    BY <1>1, <2>1, <2>2, <2>3, NoAccountIsNoRow DEF Quiet, Same
<1>4. CASE Restart
  <2>1. \A i \in Stored : /\ [account[i] EXCEPT !.hash.outdated = TRUE] \in Rows
                         /\ Same([account[i] EXCEPT !.hash.outdated = TRUE], account[i])
    BY <1>1, OutdatedTyped DEF Stored
  <2>2. CASE account' = [i \in Accounts |->
                 IF i \in Stored THEN [account[i] EXCEPT !.hash.outdated = TRUE] ELSE NoAccount]
    <3> SUFFICES ASSUME NEW i \in Accounts
                 PROVE  /\ account'[i] = NoAccount <=> account[i] = NoAccount
                        /\ account[i] # NoAccount => Same(account'[i], account[i])
      BY DEF Quiet
    <3>1. CASE i \in Stored
      <4>1. account'[i] = [account[i] EXCEPT !.hash.outdated = TRUE]
        BY <2>2, <3>1
      <4>2. account'[i] \in Rows /\ Same(account'[i], account[i])
        BY <2>1, <3>1, <4>1
      <4>3. QED
        BY <3>1, <4>2, NoAccountIsNoRow DEF Stored
    <3>2. CASE i \notin Stored
      BY <2>2, <3>2 DEF Stored
    <3>3. QED
      BY <3>1, <3>2
  <2>3. QED
    BY <1>2, <1>4, <2>2 DEF Restart
<1>5. QED
  BY <1>2, <1>3, <1>4
     DEF Next, Guard, CreateAdmin, LoadAdmin, SetActive, SetRole, ChangeOwnPassword, Write,
         Proceed, Authenticate, Fail, Expire, vars

LEMMA LevelNext == SessionsInv /\ [Next]_vars => \A token \in Issued' : Level(token)'
<1> SUFFICES ASSUME SessionsInv, [Next]_vars PROVE \A token \in Issued' : Level(token)'
  OBVIOUS
<1>0. Issued \subseteq Tokens /\ TypeOK /\ \A token \in Issued : Level(token)
  BY IssuedTyped DEF SessionsInv
<1>1. ASSUME NEW m \in Managers, CommitWrite(m), NEW token \in Issued PROVE Level(token)'
  <2> DEFINE r == request[m]
  <2>1. /\ r.id \in Accounts /\ r.seen \in Rows /\ r.new \in Rows
        /\ Agrees(r.id, r.seen) /\ Bumped(r) /\ account[r.id] \in Rows
        /\ account'[r.id] # NoAccount /\ Same(account'[r.id], r.new)
        /\ \A i \in Accounts \ {r.id} : account'[i] = account[i]
    BY <1>1, CommitWriteStores
  <2>2. token \in Tokens /\ Level(token)
    BY <1>0, <1>1
  <2> HIDE DEF r
  <2>3. CASE token.id # r.id
    BY <2>1, <2>2, <2>3 DEF Level, Tokens
  <2>4. CASE token.id = r.id
    <3>1. /\ token.version \in Int /\ r.seen.version \in Int /\ r.new.version \in Int
          /\ token.version <= r.seen.version
          /\ token.version = r.seen.version => r.seen.active /\ token.role = r.seen.role
      BY <2>1, <2>2, <2>4 DEF Level, Tokens, Rows, Agrees, Same
    <3>2. /\ token.version <= r.new.version
          /\ token.version = r.new.version => r.new.active /\ token.role = r.new.role
      BY <2>1, <3>1 DEF Bumped
    <3>3. QED
      BY <2>1, <2>4, <3>2 DEF Level, Same
  <2>5. QED
    BY <2>3, <2>4
<1>2. ASSUME NEW m \in Managers, CommitInsert(m), NEW token \in Issued PROVE Level(token)'
  <2>1. /\ request[m].id \in Accounts /\ request[m].step = "insert"
        /\ Sound(request[m])
    BY <1>2 DEF CommitInsert, SessionsInv, TypeOK, Requests, NoRequest
  <2>2. token.id # request[m].id
    BY <1>0, <1>2, <2>1 DEF Sound, Level
  <2>3. token.id \in Accounts /\ account'[token.id] = account[token.id]
    BY <1>0, <1>2, <2>1, <2>2 DEF CommitInsert, TypeOK, Tokens
  <2>4. QED
    BY <1>0, <1>2, <2>3 DEF Level
<1>4. ASSUME Quiet, NEW token \in Issued PROVE Level(token)'
  BY <1>0, <1>4, QuietKeepsLevel
<1>5. ASSUME NEW token \in Issued PROVE Level(token)'
  <2>1. CASE BootstrapSuperAdmin
    BY <1>0, <1>5, <2>1 DEF BootstrapSuperAdmin, Stored, Level, Tokens
  <2>2. QED
    BY <1>1, <1>2, <1>4, <1>5, <2>1, OtherStepsQuiet
<1>6. ASSUME NEW l \in Logins, Authenticate(l) PROVE \A token \in Issued' : Level(token)'
  <2>1. PICK i \in Stored :
          /\ account[i].active
          /\ login' = [login EXCEPT ![l] = [step |-> "login", id |-> i, seen |-> account[i],
                                         new |-> [account[i] EXCEPT !.hash.outdated = FALSE]]]
    BY <1>6 DEF Authenticate
  <2>9. PICK new : new = [id |-> i, role |-> account[i].role, version |-> account[i].version]
    OBVIOUS
  <2>2. /\ TokenOf(login'[l]) = new
        /\ \A k \in Logins \ {l} : login'[k] = login[k]
    BY <1>0, <2>1, <2>9 DEF TokenOf, TypeOK
  <2>3. Issued' \subseteq Issued \cup {new}
    BY <1>6, <2>2 DEF Authenticate, Issued, TokenOf
  <2>4. account[i] \in Rows /\ account[i] # NoAccount
    BY <1>0 DEF TypeOK, Stored
  <2>5. Level(new)
    BY <2>1, <2>4, <2>9 DEF Level, Rows
  <2>6. UNCHANGED account
    BY <1>6 DEF Authenticate
  <2>7. Level(new)'
    BY <2>5, <2>6 DEF Level
  <2>8. QED
    BY <1>5, <2>3, <2>7
<1>7. QED
  BY <1>0, <1>5, <1>6, IssuedShrinks

\* A request is as it was, or over, or it went on from what it had seen.
LEMMA RequestNext ==
    ASSUME SessionsInv, [Next]_vars, NEW m \in Managers
    PROVE  \/ request'[m] \in {request[m], NoRequest}
           \/ /\ Considers(m) /\ UNCHANGED account
              /\ \A n \in Managers \ {m} : request'[n] = request[n]
              /\ \E r : request'[m] = r /\ Allowed(m, r)
<1>1. ASSUME NEW n \in Managers, Considers(n) PROVE n = m \/ request'[m] = request[m]
  <2>1. PICK r : Proceed(n, r)
    BY <1>1, ConsidersSound
  <2>2. QED
    BY <2>1 DEF Proceed, SessionsInv, TypeOK
<1>2. CASE Considers(m)
  <2>1. PICK r : Proceed(m, r) /\ Allowed(m, r)
    BY <1>2, ConsidersSound
  <2>2. request'[m] = r /\ UNCHANGED account /\ \A n \in Managers \ {m} : request'[n] = request[n]
    BY <2>1 DEF Proceed, SessionsInv, TypeOK
  <2>3. QED
    BY <1>2, <2>1, <2>2
<1>3. CASE ~\E n \in Managers : Considers(n)
  BY <1>3 DEF Next, Considers, CommitWrite, CommitInsert, Authenticate, CommitLogin,
     BootstrapSuperAdmin, Fail, Expire, Restart, vars, SessionsInv, TypeOK
<1>4. QED
  BY <1>1, <1>2, <1>3

\* The commit of another request leaves alone what this one works from.
LEMMA CommitLeavesSound ==
    ASSUME RowsApart, SessionsInv, [Next]_vars, NEW m \in Managers, NEW n \in Managers \ {m},
           CommitWrite(n) \/ CommitInsert(n)
    PROVE  request'[m] = request[m] /\ Sound(request[m])'
<1>0. /\ request \in [Managers -> Requests \cup {NoRequest}]
      /\ account \in [Accounts -> Rows \cup {NoAccount}]
      /\ Sound(request[m]) /\ request[m] \in Requests \cup {NoRequest} /\ Sound(request[n])
      /\ PendingStored /\ TypeOK
  BY DEF SessionsInv, TypeOK
<1>1. request'[m] = request[m]
  BY <1>0 DEF CommitWrite, CommitInsert
<1>2. \A i \in Accounts \ {request[n].id} : account'[i] = account[i]
  BY <1>0 DEF CommitWrite, CommitInsert
<1>3. Stored # {} => Stored' # {}
  BY <1>0, StoredStays DEF Stored
<1>4. ASSUME NEW i \in WorksFrom(request[m]), account[i] # NoAccount
      PROVE  account'[i] # NoAccount /\ Same(account'[i], account[i])
  <2>1. i \in Accounts
    BY <1>0, WorksFromTyped
  <2>2. i # request[n].id
    BY <1>0, <1>4 DEF CommitWrite, CommitInsert, RowsApart, Sound
  <2>3. QED
    BY <1>2, <1>4, <2>1, <2>2 DEF Same
<1>5. request[m].step = "insert" => account'[request[m].id] = account[request[m].id]
  <2>1. CASE CommitWrite(n)
    <3>1. account[request[n].id] # NoAccount
      BY <1>0, <2>1 DEF CommitWrite, PendingStored
    <3>2. request[m].step = "insert" => request[m].id # request[n].id /\ request[m].id \in Accounts
      BY <1>0, <3>1, WorksFromTyped DEF Sound
    <3>3. QED
      BY <1>2, <3>2
  <2>2. CASE CommitInsert(n)
    <3>1. request[m].step = "insert" => request[m].id # request[n].id /\ request[m].id \in Accounts
      BY <1>0, <2>2, WorksFromTyped DEF SessionsInv, InsertsApart, Inserts, CommitInsert
    <3>2. QED
      BY <1>2, <3>1
  <2>3. QED
    BY <2>1, <2>2
<1>6. PICK r \in Requests \cup {NoRequest} : r = request[m]
  BY <1>0
<1>7. Sound(r)'
  BY <1>0, <1>3, <1>4, <1>5, <1>6, SoundKept
<1>8. QED
  BY <1>1, <1>6, <1>7 DEF Sound

LEMMA SoundNext ==
    ASSUME RowsApart, SessionsInv, [Next]_vars, NEW m \in Managers
    PROVE  Sound(request[m])'
<1>0. /\ request \in [Managers -> Requests \cup {NoRequest}]
      /\ Sound(request[m]) /\ request[m] \in Requests \cup {NoRequest}
  BY DEF SessionsInv, TypeOK
<1>1. CASE request'[m] = NoRequest
  BY <1>1 DEF Sound, NoRequest
<1>2. CASE Considers(m) /\ UNCHANGED account /\ \E r : request'[m] = r /\ Allowed(m, r)
  <2>1. PICK r : request'[m] = r /\ Sound(r)
    BY <1>2 DEF Allowed
  <2>2. Sound(r)'
    BY <1>2, <2>1 DEF Sound, Agrees, Bumped, Stored
  <2>3. QED
    BY <2>1, <2>2 DEF Sound
<1>3. CASE request'[m] = request[m]
  <2>1. CASE \E n \in Managers \ {m} : CommitWrite(n) \/ CommitInsert(n)
    <3>1. Sound(request[m])'
      BY <2>1, CommitLeavesSound
    <3>2. QED
      BY <3>1
  <2>2. CASE CommitWrite(m) \/ CommitInsert(m)
    BY <1>0, <1>1, <2>2 DEF CommitWrite, CommitInsert
  <2>3. CASE BootstrapSuperAdmin
    <3>1. request[m] = NoRequest
      BY <1>0, <2>3 DEF BootstrapSuperAdmin, Sound
    <3>2. QED
      BY <1>1, <1>3, <3>1
  <2>4. CASE Quiet
    <3>1. PICK r \in Requests \cup {NoRequest} : r = request[m]
      BY <1>0
    <3>2. Sound(r)'
      BY <1>0, <2>4, <3>1, QuietKeepsSound
    <3>3. QED
      BY <1>3, <3>1, <3>2 DEF Sound
  <2>5. QED
    BY <2>1, <2>2, <2>3, <2>4, OtherStepsQuiet
<1>4. QED
  BY <1>1, <1>2, <1>3, RequestNext

LEMMA InsertsApartNext ==
    ASSUME SessionsInv, [Next]_vars
    PROVE  InsertsApart'
<1> SUFFICES ASSUME NEW m \in Managers, NEW n \in Managers \ {m}, NEW i \in Accounts,
                    Inserts(request[m], i)', Inserts(request[n], i)'
             PROVE  FALSE
  BY DEF InsertsApart
<1>1. ASSUME NEW k \in Managers, Inserts(request[k], i)', ~Inserts(request[k], i)
      PROVE  /\ \A j \in Managers \ {k} : request'[j] = request[j]
             /\ \A j \in Managers \ {k} : ~Inserts(request[j], i)
  <2>1. request'[k] \notin {request[k], NoRequest}
    BY <1>1 DEF Inserts, NoRequest
  <2>2. QED
    BY <1>1, <2>1, RequestNext DEF Allowed, Inserts
<1>2. QED
  BY <1>1 DEF SessionsInv, InsertsApart, Inserts

LEMMA LoginsNext ==
    ASSUME SessionsInv, [Next]_vars, NEW l \in Logins, login'[l].step = "login"
    PROVE  login'[l].new = [login'[l].seen EXCEPT !.hash.outdated = FALSE]
<1>1. login'[l] \in {login[l], NoRequest} \/ Authenticate(l)
  BY DEF Next, Guard, CreateAdmin, LoadAdmin, SetActive, SetRole, ChangeOwnPassword, Write,
         Proceed, CommitWrite, CommitInsert, BootstrapSuperAdmin, Authenticate, CommitLogin,
         Fail, Expire, Restart, vars, SessionsInv, TypeOK
<1>2. CASE Authenticate(l)
  BY <1>2 DEF Authenticate, SessionsInv, TypeOK
<1>3. QED
  BY <1>1, <1>2 DEF SessionsInv, NoRequest

LEMMA SessionsInit == Init => SessionsInv
BY TypeInit DEF Init, SessionsInv, Stored, Sound, Issued, NoRequest, InsertsApart, Inserts

LEMMA SessionsNext == RowsApart /\ SessionsInv /\ [Next]_vars => SessionsInv'
<1> SUFFICES ASSUME RowsApart, SessionsInv, [Next]_vars PROVE SessionsInv'
  OBVIOUS
<1>1. TypeOK' /\ PendingStored'
  BY TypeNext, PendingNext DEF SessionsInv
<1>2. (\A m \in Managers : Sound(request[m]))'
  BY SoundNext
<1>3. InsertsApart'
  BY InsertsApartNext
<1>4. (\A l \in Logins : login[l].step = "login" =>
           login[l].new = [login[l].seen EXCEPT !.hash.outdated = FALSE])'
  BY LoginsNext
<1>5. (\A token \in Issued : Level(token))'
  BY LevelNext
<1>6. QED
  BY <1>1, <1>2, <1>3, <1>4, <1>5 DEF SessionsInv

\* A token that resolves names the role its account has, if no request commits
\* to a row another one works from.
THEOREM TokenRoleAgreesApart == Spec /\ []RowsApart => []TokenRoleAgrees
<1>1. SessionsInv => TokenRoleAgrees
  BY DEF SessionsInv, TokenRoleAgrees, Issued, Level, Resolves
<1>2. QED
  BY <1>1, SessionsNext, SessionsInit, PTL DEF Spec

\* A committed change of password or role is a new version, above that of
\* every token; a deactivation needs none, and has one.
LEMMA RevokingStep ==
    ASSUME SessionsInv, NEW m \in Managers, CommitWrite(m), Revoking(request[m]),
           NEW token \in Issued', token.id = request[m].id
    PROVE  ~Resolves(token)'
<1> DEFINE r == request[m]
<1>1. /\ r.id \in Accounts /\ r.seen \in Rows /\ r.new \in Rows
      /\ Agrees(r.id, r.seen) /\ Bumped(r) /\ Same(account'[r.id], r.new)
  BY CommitWriteStores
<1>2. Revoking(r) /\ token.id = r.id
  OBVIOUS
<1>3. token \in Issued
  BY DEF CommitWrite, Issued
<1>4. Level(token) /\ token \in Tokens
  BY <1>3, IssuedTyped DEF SessionsInv
<1> HIDE DEF r
<1>5. /\ token.version \in Int /\ r.seen.version \in Int /\ r.new.version \in Int
      /\ token.version <= r.seen.version
  BY <1>1, <1>2, <1>4 DEF Level, Tokens, Rows, Agrees, Same
<1>6. token.version # r.new.version \/ ~r.new.active
  BY <1>1, <1>2, <1>5 DEF Bumped, Revoking
<1>7. QED
  BY <1>1, <1>2, <1>6 DEF Resolves, Same

\* A token that does not resolve is behind its account, and stays behind.
LEMMA RevokedStep ==
    ASSUME SessionsInv, [Next]_vars, NEW token \in Issued, ~Resolves(token)
    PROVE  ~Resolves(token)'
<1>1. Level(token) /\ token \in Tokens
  BY IssuedTyped DEF SessionsInv
<1>2. ASSUME NEW m \in Managers, CommitWrite(m) PROVE ~Resolves(token)'
  <2> DEFINE r == request[m]
  <2>1. /\ r.id \in Accounts /\ r.seen \in Rows /\ r.new \in Rows
        /\ Agrees(r.id, r.seen) /\ Bumped(r) /\ Same(account'[r.id], r.new)
        /\ \A i \in Accounts \ {r.id} : account'[i] = account[i]
    BY <1>2, CommitWriteStores
  <2> HIDE DEF r
  <2>2. CASE token.id # r.id
    BY <1>1, <2>1, <2>2 DEF Resolves, Tokens
  <2>3. CASE token.id = r.id
    <3>1. /\ token.version \in Int /\ r.seen.version \in Int /\ r.new.version \in Int
          /\ token.version < r.seen.version
      BY <1>1, <2>1, <2>3 DEF Resolves, Level, Tokens, Rows, Agrees, Same
    <3>2. token.version < r.new.version
      BY <2>1, <3>1 DEF Bumped
    <3>3. QED
      BY <2>1, <2>3, <3>1, <3>2 DEF Resolves, Same
  <2>4. QED
    BY <2>2, <2>3
<1>3. ASSUME NEW m \in Managers, CommitInsert(m) PROVE ~Resolves(token)'
  <2>1. /\ request[m].id \in Accounts /\ request[m].step = "insert"
        /\ Sound(request[m])
    BY <1>3 DEF CommitInsert, SessionsInv, TypeOK, Requests, NoRequest
  <2>2. token.id # request[m].id
    BY <1>1, <2>1 DEF Sound, Level
  <2>3. token.id \in Accounts /\ account'[token.id] = account[token.id]
    BY <1>1, <1>3, <2>1, <2>2 DEF CommitInsert, SessionsInv, TypeOK, Tokens
  <2>4. QED
    BY <2>3 DEF Resolves
<1>4. CASE BootstrapSuperAdmin
  BY <1>1, <1>4 DEF BootstrapSuperAdmin, Stored, Level, Tokens
<1>5. CASE Quiet
  BY <1>1, <1>5 DEF Quiet, Same, Resolves, Level, Tokens
<1>6. QED
  BY <1>2, <1>3, <1>4, <1>5, OtherStepsQuiet

\* "Any credential or status change ... invalidates already-issued sessions
\* immediately", and those that a login under way is about to issue, if no
\* request commits to a row another one works from.
THEOREM ChangeRevokesApart == Spec /\ []RowsApart => ChangeRevokes
<1>1. SessionsInv =>
        [\A m \in Managers :
            CommitWrite(m) /\ Revoking(request[m]) =>
                \A token \in Issued' : token.id = request[m].id => ~Resolves(token)']_vars
  BY RevokingStep
<1>2. QED
  BY <1>1, SessionsNext, SessionsInit, PTL DEF Spec, ChangeRevokes

\* A session that was ended is never good again, not even when its account
\* is activated again, if no request commits to a row another one works from.
THEOREM RevokedStaysRevokedApart == Spec /\ []RowsApart => RevokedStaysRevoked
<1>1. SessionsInv /\ [Next]_vars =>
        [\A token \in Issued \cap Issued' : ~Resolves(token) => ~Resolves(token)']_vars
  BY RevokedStep
<1>2. QED
  BY <1>1, SessionsNext, SessionsInit, PTL DEF Spec, RevokedStaysRevoked
=============================================================================
