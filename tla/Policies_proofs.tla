-------------------------- MODULE Policies_proofs ---------------------------
(***************************************************************************)
(* Proofs about Policies, for any ids, admins, devices, definitions,       *)
(* edits, priorities and instants.                                         *)
(***************************************************************************)
EXTENDS Policies, PolicyRules_proofs

(***************************************************************************)
(* Types.                                                                  *)
(***************************************************************************)

LEMMA NewRowType ==
    ASSUME NEW i \in PolicyIds, NEW d \in Definitions
    PROVE  NewRow(i, d) \in Rows /\ NewRow(i, d).id = i /\ NewRow(i, d) # NoPolicy
BY DefinitionsAssumption DEF NewRow, Rows, Targets, NoPolicy, Scopes

LEMMA EditType ==
    ASSUME NEW row \in Rows, NEW c \in Edits
    PROVE  Edit(row, c) \in Rows /\ Edit(row, c).id = row.id
<1>1. /\ DOMAIN c \subseteq Editable
      /\ \A f \in DOMAIN c : c[f] \in IF f = "priority" THEN Priorities ELSE Nat \cup {None}
  BY EditsAssumption
<1>2. QED
  BY <1>1 DEF Edit, Rows, Editable

LEMMA MergeType ==
    ASSUME NEW row \in Rows, NEW seen \in Rows, NEW new \in Rows, seen.id = row.id,
           new.id = row.id
    PROVE  Merge(row, seen, new) \in Rows /\ Merge(row, seen, new).id = row.id
BY DEF Merge, Rows

\* Without a write in between, a request stores the row it computed.
LEMMA MergeUnraced ==
    ASSUME NEW row \in Rows, NEW new \in Rows
    PROVE  Merge(row, row, new) = new
BY DEF Merge, Rows

LEMMA FlagsType ==
    ASSUME NEW row \in Rows, NEW x \in BOOLEAN, NEW y \in BOOLEAN
    PROVE  /\ [row EXCEPT !.active = x] \in Rows
           /\ [row EXCEPT !.active = x, !.archived = y] \in Rows
           /\ [row EXCEPT !.active = x].id = row.id
           /\ [row EXCEPT !.active = x, !.archived = y].id = row.id
<1>1. [row EXCEPT !.active = x] \in Rows
  BY DEF Rows
<1>2. [row EXCEPT !.active = x, !.archived = y] \in Rows
  BY DEF Rows
<1>3. [row EXCEPT !.active = x].id = row.id
  BY DEF Rows
<1>4. [row EXCEPT !.active = x, !.archived = y].id = row.id
  BY DEF Rows
<1>5. QED
  BY <1>1, <1>2, <1>3, <1>4

\* A request edits a row that exists, and rows are never deleted.
Editing ==
    \A a \in Admins :
        /\ request[a].step \in {"loaded", "write"} => policies[request[a].seen.id] # NoPolicy
        /\ request[a].step = "write" => request[a].new.id = request[a].seen.id

TypeInv == TypeOK /\ Editing

\* A request that is on its way has the fields of its step.
LEMMA RequestFacts ==
    ASSUME TypeOK, NEW a \in Admins
    PROVE  /\ request[a].step = "loaded" => request[a].seen \in Rows /\ request[a].op \in Operations
           /\ request[a].step = "write" => request[a].seen \in Rows /\ request[a].new \in Rows
           /\ request[a].step = "insert" => request[a].new \in Rows
BY DEF TypeOK, Requests, NoRequest

\* How a request that was loaded goes on: it ends, or has a row to write.
LEMMA LoadedSteps ==
    ASSUME TypeOK, NEW a \in Admins,
           UpdatePolicy(a) \/ ActivatePolicy(a) \/ DeactivatePolicy(a)
             \/ ArchivePolicy(a) \/ RestorePolicy(a)
    PROVE  /\ request[a].step = "loaded" /\ UNCHANGED policies
           /\ \/ Refuse(a)
              \/ \E new \in Rows :
                    /\ Write(a, new)
                    /\ new.id = request[a].seen.id
<1> DEFINE p == request[a].seen
<1>1. request[a].step = "loaded" /\ UNCHANGED policies
  BY DEF UpdatePolicy, ActivatePolicy, DeactivatePolicy, ArchivePolicy, RestorePolicy, Loaded
<1>2. p \in Rows
  BY <1>1, RequestFacts
<1>3. ASSUME UpdatePolicy(a), ~Refuse(a)
      PROVE  \E new \in Rows : Write(a, new) /\ new.id = p.id
  <2>1. PICK c \in Edits : Write(a, Edit(p, c))
    BY <1>3 DEF UpdatePolicy
  <2>2. QED
    BY <1>2, <2>1, EditType
<1>4. ASSUME ActivatePolicy(a) \/ DeactivatePolicy(a) \/ ArchivePolicy(a) \/ RestorePolicy(a),
             ~Refuse(a)
      PROVE  \E new \in Rows : Write(a, new) /\ new.id = p.id
  BY <1>2, <1>4, FlagsType DEF ActivatePolicy, DeactivatePolicy, ArchivePolicy, RestorePolicy
<1>5. QED
  BY <1>1, <1>3, <1>4

LEMMA TypeInvStep == TypeInv /\ [Next]_vars => TypeInv'
<1> SUFFICES ASSUME TypeInv, [Next]_vars PROVE TypeInv'
  OBVIOUS
<1> USE DEF TypeInv
<1>1. ASSUME NEW a \in Admins, NEW r \in Requests \cup {NoRequest}, UNCHANGED policies,
             request' = [request EXCEPT ![a] = r],
             r # NoRequest /\ r.step \in {"loaded", "write"} => policies[r.seen.id] # NoPolicy,
             r # NoRequest /\ r.step = "write" => r.new.id = r.seen.id
      PROVE  TypeInv'
  <2>1. TypeOK'
    BY <1>1 DEF TypeOK
  <2>2. \A b \in Admins : request'[b] = IF b = a THEN r ELSE request[b]
    BY <1>1 DEF TypeOK
  <2>3. Editing'
    BY <1>1, <2>2 DEF Editing, NoRequest
  <2>4. QED
    BY <2>1, <2>3
<1>2. ASSUME NEW a \in Admins, Refuse(a), UNCHANGED policies PROVE TypeInv'
  BY <1>1, <1>2 DEF Refuse
<1>3. ASSUME NEW a \in Admins, CreatePolicy(a) PROVE TypeInv'
  <2>1. PICK i \in PolicyIds, d \in Definitions :
           request' = [request EXCEPT ![a] = [step |-> "insert", new |-> NewRow(i, d)]]
    BY <1>3 DEF CreatePolicy
  <2>2. [step |-> "insert", new |-> NewRow(i, d)] \in Requests
    BY NewRowType DEF Requests
  <2>3. QED
    BY <1>1, <1>3, <2>1, <2>2 DEF CreatePolicy
<1>4. ASSUME NEW a \in Admins, LoadPolicy(a) PROVE TypeInv'
  <2>1. PICK p \in Stored, op \in Operations :
           request' = [request EXCEPT ![a] = [step |-> "loaded", op |-> op, seen |-> p]]
    BY <1>4 DEF LoadPolicy
  <2>2. p \in Rows /\ policies[p.id] = p /\ p # NoPolicy
    BY DEF Stored, TypeOK
  <2>3. [step |-> "loaded", op |-> op, seen |-> p] \in Requests
    BY <2>2 DEF Requests
  <2>4. QED
    BY <1>1, <1>4, <2>1, <2>2, <2>3 DEF LoadPolicy
<1>5. ASSUME NEW a \in Admins,
             UpdatePolicy(a) \/ ActivatePolicy(a) \/ DeactivatePolicy(a)
               \/ ArchivePolicy(a) \/ RestorePolicy(a)
      PROVE  TypeInv'
  <2>1. CASE Refuse(a)
    BY <1>2, <1>5, <2>1, LoadedSteps
  <2>2. ASSUME NEW new \in Rows, Write(a, new), new.id = request[a].seen.id PROVE TypeInv'
    <3>1. request[a].step = "loaded" /\ UNCHANGED policies /\ request[a].seen \in Rows
      BY <1>5, LoadedSteps, RequestFacts
    <3>2. [step |-> "write", seen |-> request[a].seen, new |-> new] \in Requests
      BY <2>2, <3>1 DEF Requests
    <3>3. policies[request[a].seen.id] # NoPolicy
      BY <3>1 DEF Editing
    <3>4. QED
      BY <1>1, <2>2, <3>1, <3>2, <3>3 DEF Write
  <2>3. QED
    BY <1>5, <2>1, <2>2, LoadedSteps
\* A row is stored.
<1>6. ASSUME NEW a \in Admins, NEW row \in Rows, Refuse(a),
             policies' = [policies EXCEPT ![row.id] = row]
      PROVE  TypeInv'
  <2>1. row.id \in PolicyIds /\ row # NoPolicy
    BY DEF Rows, NoPolicy, Scopes
  <2>2. TypeOK'
    BY <1>6, <2>1 DEF TypeOK, Refuse
  <2>3. \A i \in PolicyIds : policies[i] # NoPolicy => policies'[i] # NoPolicy
    BY <1>6, <2>1 DEF TypeOK
  <2>4. \A b \in Admins : request[b].step \in {"loaded", "write"} =>
           request[b].seen.id \in PolicyIds
    BY RequestFacts DEF Rows
  <2>5. \A b \in Admins : request'[b] = IF b = a THEN NoRequest ELSE request[b]
    BY <1>6 DEF Refuse, TypeOK
  <2>6. Editing'
    BY <2>3, <2>4, <2>5 DEF Editing, NoRequest
  <2>7. QED
    BY <2>2, <2>6
<1>7. ASSUME NEW a \in Admins, CommitInsert(a) PROVE TypeInv'
  BY <1>6, <1>7, RequestFacts DEF CommitInsert
<1>8. ASSUME NEW a \in Admins, CommitWrite(a) PROVE TypeInv'
  <2> DEFINE r == request[a]
             row == Merge(policies[r.new.id], r.seen, r.new)
  <2>1. r.step = "write" /\ r.seen \in Rows /\ r.new \in Rows /\ r.new.id = r.seen.id
    BY <1>8, RequestFacts DEF CommitWrite, Editing
  <2>2. policies[r.new.id] \in Rows /\ policies[r.new.id].id = r.new.id
    BY <2>1 DEF Editing, TypeOK, Rows
  <2>3. row \in Rows /\ row.id = r.new.id
    BY <2>1, <2>2, MergeType
  <2>4. QED
    BY <1>2, <1>6, <1>8, <2>3 DEF CommitWrite
<1>9. CASE UNCHANGED vars
  BY <1>9 DEF vars, TypeOK, Editing
<1>10. QED
  BY <1>3, <1>4, <1>5, <1>7, <1>8, <1>9 DEF Next

LEMMA TypeInvariant == Spec => []TypeInv
<1>1. Init => TypeInv
  BY DEF Init, TypeInv, TypeOK, Editing, NoRequest
<1>2. QED
  BY <1>1, TypeInvStep, PTL DEF Spec

\* The tables hold rows, under their own ids.
THEOREM PoliciesTypeCorrect == Spec => []TypeOK
BY TypeInvariant, PTL DEF TypeInv

-----------------------------------------------------------------------------
(***************************************************************************)
(* What holds however the requests interleave.                             *)
(***************************************************************************)

LEMMA ReachingType ==
    ASSUME TypeOK, NEW d \in Devices
    PROVE  /\ Reaching(d) \in SUBSET Rows
           /\ \A p \in Reaching(d) : p.scope \in Scopes /\ p.priority \in 0..MaxPriority
<1>1. Reaching(d) \in SUBSET Rows
  BY DEF Reaching, Stored, TypeOK
<1>2. \A p \in Rows : p.scope \in Scopes /\ p.priority \in 0..MaxPriority
  BY NumbersAssumption DEF Rows
<1>3. QED
  BY <1>1, <1>2

\* Whatever set of policies the table has come to hold, a device that has a
\* governing policy has the narrowest one, and of those the highest.
THEOREM NarrowestGoverns == Spec => []GovernedByNarrowest
<1>1. TypeOK => GovernedByNarrowest
  <2> SUFFICES ASSUME TypeOK, NEW d \in Devices, NEW now \in Instants,
                      ~Resolution(d, now).conflict, NEW p \in Reaching(d), IsInEffect(p, now)
               PROVE  LET g == Resolution(d, now).policy IN
                      /\ g # NoPolicy
                      /\ \/ <<g.scope, p.scope>> \in Narrower
                         \/ g.scope = p.scope /\ p.priority <= g.priority
    BY DEF GovernedByNarrowest
  <2> DEFINE g == Resolution(d, now).policy
  <2>1. Reaching(d) \in SUBSET Rows /\ now \in Nat
    BY ReachingType, NumbersAssumption
  <2>2. /\ g \in Reaching(d)
        /\ \/ Precedence[g.scope] < Precedence[p.scope]
           \/ g.scope = p.scope /\ p.priority <= g.priority
    BY <2>1, ReachingType, ResolutionFacts DEF Resolution
  <2>3. g \in Rows /\ p \in Rows
    BY <2>1, <2>2
  <2>4. g # NoPolicy
    BY <2>3 DEF Rows, NoPolicy, Scopes
  <2>5. ASSUME Precedence[g.scope] < Precedence[p.scope]
        PROVE  <<g.scope, p.scope>> \in Narrower
    <3> HIDE DEF g
    <3>1. g.scope \in Scopes /\ p.scope \in Scopes
      BY <2>3 DEF Rows
    <3>2. QED
      BY <2>5, <3>1 DEF Scopes, Precedence, Narrower
  <2>6. QED
    BY <2>2, <2>4, <2>5
<1>2. QED
  BY <1>1, PoliciesTypeCorrect, PTL

-----------------------------------------------------------------------------
(***************************************************************************)
(* What holds when no request commits to a policy another one has loaded.  *)
(***************************************************************************)

\* What a request has read is still stored, what it is about to store is a
\* valid definition, and the id it inserts under is its own.
Current ==
    \A a \in Admins :
        /\ request[a].step \in {"loaded", "write"} => request[a].seen \in Stored
        /\ request[a].step \in {"write", "insert"} => ValidDefinition(request[a].new)
        /\ request[a].step = "insert" =>
              /\ policies[request[a].new.id] = NoPolicy
              /\ \A b \in Admins \ {a} :
                    request[b].step = "insert" => request[b].new.id # request[a].new.id

RowsInv == TypeInv /\ DefinitionsStand /\ Current

(***************************************************************************)
(* And when no two that have passed the conflict check are about to store  *)
(* active policies of one target.                                          *)
(***************************************************************************)

Apart ==
    \A p, q \in Stored :
        p # q /\ p.active /\ q.active /\ SameTarget(p, q) /\ p.priority = q.priority
          => ~WindowsOverlap(p, q)

\* The conflict check that a request passed still holds.
Checked == \A a \in Admins : Storing(a) => AssertNoConflict(request[a].new)

ApartInv == RowsInv /\ Apart /\ Checked

LEMMA ValidWindow ==
    ASSUME NEW p \in Rows, ValidDefinition(p)
    PROVE  Window(p) /\ p.priority \in Nat
<1>1. MaxPriority \in Nat
  BY DEF MaxPriority
<1>2. p.priority \in 0..MaxPriority
  BY NumbersAssumption DEF Rows
<1>3. p.priority \in Nat
  BY <1>1, <1>2
<1>4. Window(p)
  BY DEF Rows, ValidDefinition, Window
<1>5. QED
  BY <1>3, <1>4

\* Policies that reach one device at one scope are meant for the same target.
LEMMA ApartIsUnambiguous ==
    ASSUME ApartInv
    PROVE  NeverAmbiguous
<1> SUFFICES ASSUME NEW d \in Devices, NEW now \in Instants
             PROVE  ~ResolvePolicies(Reaching(d), now).conflict
  BY DEF NeverAmbiguous, Resolution
<1>1. now \in Nat
  BY NumbersAssumption
<1>2. \A p \in Reaching(d) : Window(p) /\ p.priority \in Nat
  BY ReachingType, ValidWindow DEF ApartInv, RowsInv, TypeInv, DefinitionsStand, Reaching
<1>3. \A p, q \in Reaching(d) : p # q /\ p.active /\ q.active /\ p.scope = q.scope
         /\ p.priority = q.priority => ~WindowsOverlap(p, q)
  <2> SUFFICES ASSUME NEW p \in Reaching(d), NEW q \in Reaching(d), p # q, p.active, q.active,
                      p.scope = q.scope, p.priority = q.priority
               PROVE  ~WindowsOverlap(p, q)
    OBVIOUS
  <2>1. p \in Stored /\ q \in Stored /\ SameTarget(p, q)
    BY DEF Reaching, SameTarget
  <2>2. QED
    BY <2>1 DEF ApartInv, Apart
<1>4. QED
  BY <1>1, <1>2, <1>3, NoConflictWithoutOverlap

\* The switches of a row are no part of its definition.
LEMMA DefinitionIgnoresFlags ==
    ASSUME NEW row \in Rows, NEW new \in Rows,
           \A f \in {"id", "scope", "device", "deviceType", "type", "target", "min", "max",
                     "priority", "starts", "ends"} : new[f] = row[f]
    PROVE  /\ ValidDefinition(row) => ValidDefinition(new)
           /\ AssertNoConflict(row) => AssertNoConflict(new)
<1>1. /\ new.id = row.id /\ new.scope = row.scope /\ new.device = row.device
      /\ new.deviceType = row.deviceType /\ new.type = row.type /\ new.target = row.target
      /\ new.min = row.min /\ new.max = row.max /\ new.priority = row.priority
      /\ new.starts = row.starts /\ new.ends = row.ends
  OBVIOUS
<1>2. ValidDefinition(row) => ValidDefinition(new)
  BY <1>1 DEF ValidDefinition, ScopeTargetFits, TypeFieldsFit
<1>3. AssertNoConflict(row) => AssertNoConflict(new)
  BY <1>1, Zenon DEF AssertNoConflict, SameTarget, WindowsOverlap
<1>4. QED
  BY <1>2, <1>3

\* What a stored row leaves in the table.
LEMMA StoredNext ==
    ASSUME TypeOK, NEW new \in Rows, policies' = [policies EXCEPT ![new.id] = new]
    PROVE  /\ \A p \in Stored' : p = new \/ (p \in Stored /\ p.id # new.id)
           /\ \A p \in Stored : p.id # new.id => p \in Stored'
<1>1. new.id \in PolicyIds
  BY DEF Rows
<1>2. ASSUME NEW p \in Stored' PROVE p = new \/ (p \in Stored /\ p.id # new.id)
  <2>1. PICK i \in PolicyIds : p = policies'[i] /\ p # NoPolicy
    BY DEF Stored
  <2>2. CASE i = new.id
    BY <1>1, <2>1, <2>2 DEF TypeOK
  <2>3. CASE i # new.id
    <3>1. p = policies[i]
      BY <1>1, <2>1, <2>3 DEF TypeOK
    <3>2. p.id = i
      BY <1>1, <2>1, <3>1 DEF TypeOK
    <3>3. QED
      BY <2>1, <2>3, <3>1, <3>2 DEF Stored
  <2>4. QED
    BY <2>2, <2>3
<1>3. ASSUME NEW p \in Stored, p.id # new.id PROVE p \in Stored'
  <2>1. PICK i \in PolicyIds : p = policies[i] /\ p # NoPolicy /\ i # new.id
    BY <1>3 DEF Stored, TypeOK
  <2>2. policies'[i] = p
    BY <2>1 DEF TypeOK
  <2>3. QED
    BY <2>1, <2>2 DEF Stored
<1>4. QED
  BY <1>2, <1>3

\* Storing a row that was checked against the others keeps them apart.
LEMMA StoredApart ==
    ASSUME TypeOK, Apart, NEW new \in Rows, new.active => AssertNoConflict(new),
           policies' = [policies EXCEPT ![new.id] = new]
    PROVE  Apart'
<1>1. \A p \in Stored' : p = new \/ (p \in Stored /\ p.id # new.id)
  BY StoredNext
<1>2. ASSUME NEW p \in Stored', NEW q \in Stored', p # q, p.active, q.active, SameTarget(p, q),
             p.priority = q.priority
      PROVE  ~WindowsOverlap(p, q)
  <2>1. CASE p = new
    BY <1>1, <1>2, <2>1 DEF AssertNoConflict
  <2>2. CASE q = new
    <3>1. SameTarget(q, p) /\ p \in Stored /\ p.id # q.id
      BY <1>1, <1>2, <2>2 DEF SameTarget
    <3>2. ~WindowsOverlap(q, p)
      BY <1>2, <2>2, <3>1 DEF AssertNoConflict
    <3>3. QED
      BY <3>2 DEF WindowsOverlap
  <2>3. CASE p # new /\ q # new
    BY <1>1, <1>2, <2>3 DEF Apart
  <2>4. QED
    BY <2>1, <2>2, <2>3
<1>3. QED
  BY <1>2 DEF Apart

\* A check passed before stays passed when a row of another target, or one that
\* is switched off, is stored.
LEMMA CheckStays ==
    ASSUME TypeOK, NEW p \in Rows, AssertNoConflict(p), NEW new \in Rows,
           new.active => ~SameTarget(p, new),
           policies' = [policies EXCEPT ![new.id] = new]
    PROVE  AssertNoConflict(p)'
<1>1. \A q \in Stored' : q = new \/ q \in Stored
  BY StoredNext
<1>2. QED
  BY <1>1 DEF AssertNoConflict

\* The row that a request on a loaded policy goes on to store was checked.
LEMMA WrittenIsChecked ==
    ASSUME RowsInv, NEW a \in Admins,
           UpdatePolicy(a) \/ ActivatePolicy(a) \/ DeactivatePolicy(a)
             \/ ArchivePolicy(a) \/ RestorePolicy(a)
    PROVE  \/ Refuse(a)
           \/ \E new \in Rows :
                 /\ Write(a, new)
                 /\ ValidDefinition(new)
                 /\ new.active => AssertNoConflict(new)
<1> DEFINE p == request[a].seen
<1>1. request[a].step = "loaded" /\ p \in Rows /\ p \in Stored /\ ValidDefinition(p)
  BY LoadedSteps, RequestFacts DEF RowsInv, TypeInv, Current, DefinitionsStand
<1>2. CASE UpdatePolicy(a)
  <2>1. PICK c \in Edits :
           \/ Refuse(a)
           \/ Write(a, Edit(p, c)) /\ ValidDefinition(Edit(p, c)) /\ AssertNoConflict(Edit(p, c))
    BY <1>2 DEF UpdatePolicy
  <2>2. QED
    BY <1>1, <2>1, EditType
<1>3. ASSUME NEW new \in Rows, Write(a, new),
             \A f \in {"id", "scope", "device", "deviceType", "type", "target", "min", "max",
                       "priority", "starts", "ends"} : new[f] = p[f],
             new.active => AssertNoConflict(p)
      PROVE  \E n \in Rows :
                /\ Write(a, n)
                /\ ValidDefinition(n)
                /\ n.active => AssertNoConflict(n)
  <2> HIDE DEF p
  <2>1. ValidDefinition(new) /\ (AssertNoConflict(p) => AssertNoConflict(new))
    BY <1>1, <1>3, DefinitionIgnoresFlags
  <2>2. QED
    BY <1>3, <2>1
<1>4. CASE ActivatePolicy(a)
  <2>1. /\ [p EXCEPT !.active = TRUE] \in Rows
        /\ \A f \in {"id", "scope", "device", "deviceType", "type", "target", "min", "max",
                     "priority", "starts", "ends"} : [p EXCEPT !.active = TRUE][f] = p[f]
    BY <1>1, FlagsType DEF Rows
  <2>2. QED
    BY <1>3, <1>4, <2>1 DEF ActivatePolicy
<1>5. CASE DeactivatePolicy(a)
  <2>1. /\ [p EXCEPT !.active = FALSE] \in Rows
        /\ \A f \in {"id", "scope", "device", "deviceType", "type", "target", "min", "max",
                     "priority", "starts", "ends"} : [p EXCEPT !.active = FALSE][f] = p[f]
        /\ ~[p EXCEPT !.active = FALSE].active
    BY <1>1, FlagsType DEF Rows
  <2>2. QED
    BY <1>3, <1>5, <2>1 DEF DeactivatePolicy
<1>6. ASSUME NEW y \in BOOLEAN, Write(a, [p EXCEPT !.active = FALSE, !.archived = y])
      PROVE  \E n \in Rows :
                /\ Write(a, n)
                /\ ValidDefinition(n)
                /\ n.active => AssertNoConflict(n)
  <2> DEFINE new == [p EXCEPT !.active = FALSE, !.archived = y]
  <2>1. /\ new \in Rows
        /\ \A f \in {"id", "scope", "device", "deviceType", "type", "target", "min", "max",
                     "priority", "starts", "ends"} : new[f] = p[f]
        /\ ~new.active
    <3>1. new \in Rows
      BY <1>1, FlagsType
    <3>2. p = [f \in DOMAIN p |-> p[f]] /\ "active" \in DOMAIN p
      BY <1>1 DEF Rows
    <3>3. QED
      BY <3>1, <3>2
  <2>2. QED
    BY <1>3, <1>6, <2>1
<1>7. QED
  BY <1>2, <1>4, <1>5, <1>6 DEF UpdatePolicy, ActivatePolicy, DeactivatePolicy, ArchivePolicy,
       RestorePolicy

\* A step of a thread that stores nothing: it ends, has loaded a row, or has
\* passed its checks.
Goes(a, r) ==
    /\ request' = [request EXCEPT ![a] = r]
    /\ r \in Requests \cup {NoRequest}
    /\ r.step \in {"loaded", "write"} => r.seen \in Stored
    /\ r.step \in {"write", "insert"} =>
          ValidDefinition(r.new) /\ (r.new.active => AssertNoConflict(r.new))
    /\ r.step = "insert" =>
          /\ policies[r.new.id] = NoPolicy
          /\ \A b \in Admins \ {a} :
                request[b].step = "insert" => request[b].new.id # r.new.id

\* A thread stores the row it decided on, and is done.
Stores(a, new) ==
    /\ new = request[a].new
    /\ request[a].step \in {"write", "insert"}
    /\ policies' = [policies EXCEPT ![new.id] = new]
    /\ request' = [request EXCEPT ![a] = NoRequest]

\* Whatever a thread does is one of the two: an UPDATE of a row that is as it
\* was loaded stores the row as written.
LEMMA StepShape ==
    ASSUME RowsInv, NEW a \in Admins,
           \/ CreatePolicy(a) \/ LoadPolicy(a)
           \/ UpdatePolicy(a) \/ ActivatePolicy(a) \/ DeactivatePolicy(a)
           \/ ArchivePolicy(a) \/ RestorePolicy(a)
           \/ CommitInsert(a) \/ CommitWrite(a)
    PROVE  \/ UNCHANGED policies /\ \E r : Goes(a, r)
           \/ \E new \in Rows : Stores(a, new)
<1>1. TypeInv /\ TypeOK
  BY DEF RowsInv, TypeInv
<1>2. ASSUME Refuse(a), UNCHANGED policies PROVE Goes(a, NoRequest)
  BY <1>2 DEF Refuse, Goes, NoRequest
<1>3. CASE CreatePolicy(a)
  <2>1. PICK i \in PolicyIds, d \in Definitions :
           /\ policies[i] = NoPolicy
           /\ \A b \in Admins : request[b].step = "insert" => request[b].new.id # i
           /\ ValidDefinition(d)
           /\ AssertNoConflict(NewRow(i, d))
           /\ request' = [request EXCEPT ![a] = [step |-> "insert", new |-> NewRow(i, d)]]
    BY <1>3 DEF CreatePolicy
  <2>2. ValidDefinition(NewRow(i, d))
    BY <2>1 DEF ValidDefinition, ScopeTargetFits, TypeFieldsFit, NewRow
  <2>3. PICK new \in Rows : new = NewRow(i, d) /\ new.id = i
    BY NewRowType
  <2>4. Goes(a, [step |-> "insert", new |-> new])
    BY <2>1, <2>2, <2>3 DEF Goes, Requests
  <2>5. QED
    BY <1>3, <2>4 DEF CreatePolicy
<1>4. CASE LoadPolicy(a)
  <2>1. PICK p \in Stored, op \in Operations :
           request' = [request EXCEPT ![a] = [step |-> "loaded", op |-> op, seen |-> p]]
    BY <1>4 DEF LoadPolicy
  <2>2. p \in Rows
    BY <1>1 DEF Stored, TypeOK
  <2>3. Goes(a, [step |-> "loaded", op |-> op, seen |-> p])
    BY <2>1, <2>2 DEF Goes, Requests
  <2>4. QED
    BY <1>4, <2>3 DEF LoadPolicy
<1>5. CASE UpdatePolicy(a) \/ ActivatePolicy(a) \/ DeactivatePolicy(a)
             \/ ArchivePolicy(a) \/ RestorePolicy(a)
  <2>1. request[a].step = "loaded" /\ UNCHANGED policies
    BY <1>1, <1>5, LoadedSteps
  <2>2. request[a].seen \in Stored /\ request[a].seen \in Rows
    BY <1>1, <2>1, RequestFacts DEF RowsInv, Current
  <2>3. ASSUME NEW new \in Rows, Write(a, new), ValidDefinition(new),
               new.active => AssertNoConflict(new)
        PROVE  Goes(a, [step |-> "write", seen |-> request[a].seen, new |-> new])
    BY <2>2, <2>3 DEF Write, Goes, Requests
  <2>4. QED
    BY <1>2, <1>5, <2>1, <2>3, WrittenIsChecked
<1>6. CASE CommitInsert(a)
  BY <1>1, <1>6, RequestFacts DEF CommitInsert, Stores, Refuse
<1>7. CASE CommitWrite(a)
  <2> DEFINE r == request[a]
             row == Merge(policies[r.new.id], r.seen, r.new)
  <2>1. r.step = "write" /\ r.seen \in Rows /\ r.new \in Rows /\ r.new.id = r.seen.id
    BY <1>1, <1>7, RequestFacts DEF CommitWrite, TypeInv, Editing
  <2>2. policies[r.new.id] = r.seen
    BY <1>1, <2>1 DEF RowsInv, Current, Stored, TypeOK
  <2>3. row = r.new
    BY <2>1, <2>2, MergeUnraced
  <2>4. CASE UNCHANGED policies
    BY <1>2, <1>7, <2>4 DEF CommitWrite
  <2>5. CASE policies' = [policies EXCEPT ![r.new.id] = row]
    BY <1>7, <2>1, <2>3, <2>5 DEF CommitWrite, Stores, Refuse
  <2>6. QED
    BY <1>7, <2>4, <2>5 DEF CommitWrite
<1>8. QED
  BY <1>3, <1>4, <1>5, <1>6, <1>7

LEMMA RowsStep == RowsApart /\ RowsInv /\ [Next]_vars => RowsInv'
<1> SUFFICES ASSUME RowsApart, RowsInv, [Next]_vars PROVE RowsInv'
  OBVIOUS
<1>1. TypeInv' /\ TypeOK /\ request \in [Admins -> Requests \cup {NoRequest}]
  BY TypeInvStep DEF RowsInv, TypeInv, TypeOK
<1>2. ASSUME NEW a \in Admins, NEW r, UNCHANGED policies, Goes(a, r) PROVE RowsInv'
  <2>1. \A b \in Admins : request'[b] = IF b = a THEN r ELSE request[b]
    BY <1>1, <1>2 DEF Goes
  <2>2. Stored' = Stored
    BY <1>2 DEF Stored
  <2>3. DefinitionsStand'
    BY <2>2 DEF RowsInv, DefinitionsStand
  <2>4. Current'
    BY <1>2, <2>1, <2>2 DEF RowsInv, Current, Goes
  <2>5. QED
    BY <1>1, <2>3, <2>4 DEF RowsInv
<1>3. ASSUME NEW a \in Admins, NEW new \in Rows, Stores(a, new) PROVE RowsInv'
  <2>1. \A b \in Admins : request'[b] = IF b = a THEN NoRequest ELSE request[b]
    BY <1>1, <1>3 DEF Stores
  <2>2. ValidDefinition(new)
    BY <1>3 DEF Stores, RowsInv, Current
  <2>3. DefinitionsStand'
    BY <1>1, <1>3, <2>2, StoredNext DEF RowsInv, DefinitionsStand, Stores
  <2>4. ASSUME NEW b \in Admins \ {a}, request[b].step \in {"loaded", "write"}
        PROVE  request[b].seen \in Stored'
    <3>1. request[b].seen \in Stored /\ policies[request[b].seen.id] # NoPolicy
      BY <2>4 DEF RowsInv, TypeInv, Editing, Current
    <3>2. request[b].seen.id # new.id
      BY <1>3, <2>4, <3>1 DEF Stores, RowsApart, RowsInv, Current
    <3>3. QED
      BY <1>1, <1>3, <3>1, <3>2, StoredNext DEF Stores
  <2>5. ASSUME NEW b \in Admins \ {a}, request[b].step = "insert"
        PROVE  policies'[request[b].new.id] = NoPolicy
    <3>1. request[b].new.id \in PolicyIds /\ policies[request[b].new.id] = NoPolicy
      BY <1>1, <2>5, RequestFacts DEF RowsInv, Current, Rows
    <3>2. request[b].new.id # new.id
      <4>1. CASE request[a].step = "write"
        BY <1>3, <3>1, <4>1 DEF Stores, RowsInv, TypeInv, Editing
      <4>2. CASE request[a].step = "insert"
        BY <1>3, <2>5, <4>2 DEF Stores, RowsInv, Current
      <4>3. QED
        BY <1>3, <4>1, <4>2 DEF Stores
    <3>3. QED
      BY <1>1, <1>3, <3>1, <3>2 DEF Stores, TypeOK
  <2>6. Current'
    BY <2>1, <2>4, <2>5 DEF RowsInv, Current, NoRequest
  <2>7. QED
    BY <1>1, <2>3, <2>6 DEF RowsInv
<1>4. CASE UNCHANGED vars
  <2>1. Stored' = Stored /\ request' = request /\ policies' = policies
    BY <1>4 DEF vars, Stored
  <2>2. QED
    BY <1>1, <2>1 DEF RowsInv, DefinitionsStand, Current
<1>5. QED
  BY <1>2, <1>3, <1>4, StepShape DEF Next

LEMMA ApartStep == RowsApart /\ TargetsApart /\ ApartInv /\ [Next]_vars => ApartInv'
<1> SUFFICES ASSUME RowsApart, TargetsApart, ApartInv, [Next]_vars PROVE ApartInv'
  OBVIOUS
<1>1. RowsInv' /\ RowsInv /\ TypeOK /\ request \in [Admins -> Requests \cup {NoRequest}]
  BY RowsStep DEF ApartInv, RowsInv, TypeInv, TypeOK
<1>2. ASSUME NEW a \in Admins, NEW r, UNCHANGED policies, Goes(a, r) PROVE ApartInv'
  <2>1. \A b \in Admins : request'[b] = IF b = a THEN r ELSE request[b]
    BY <1>1, <1>2 DEF Goes
  <2>2. Stored' = Stored
    BY <1>2 DEF Stored
  <2>3. Apart'
    BY <2>2 DEF ApartInv, Apart
  <2>4. ASSUME NEW b \in Admins, Storing(b)' PROVE AssertNoConflict(request[b].new)'
    <3>1. CASE b = a
      BY <1>2, <2>1, <2>2, <2>4, <3>1 DEF Goes, Storing, AssertNoConflict
    <3>2. CASE b # a
      BY <2>1, <2>2, <2>4, <3>2 DEF Storing, ApartInv, Checked, AssertNoConflict
    <3>3. QED
      BY <3>1, <3>2
  <2>5. QED
    BY <1>1, <2>3, <2>4 DEF ApartInv, Checked
<1>3. ASSUME NEW a \in Admins, NEW new \in Rows, Stores(a, new) PROVE ApartInv'
  <2>1. \A b \in Admins : request'[b] = IF b = a THEN NoRequest ELSE request[b]
    BY <1>1, <1>3 DEF Stores
  <2>2. new.active => AssertNoConflict(new)
    BY <1>3 DEF Stores, ApartInv, Checked, Storing
  <2>3. Apart'
    BY <1>1, <1>3, <2>2, StoredApart DEF ApartInv, Stores
  <2>4. ASSUME NEW b \in Admins, Storing(b)' PROVE AssertNoConflict(request[b].new)'
    <3>1. b # a /\ request'[b] = request[b] /\ Storing(b)
      BY <2>1, <2>4 DEF Storing, NoRequest
    <3>2. PICK p \in Rows : p = request[b].new
      BY <1>1, <3>1, RequestFacts DEF Storing
    <3>3. AssertNoConflict(p) /\ (new.active => ~SameTarget(p, new))
      BY <1>3, <3>1, <3>2 DEF ApartInv, Checked, TargetsApart, Storing, Stores
    <3>4. AssertNoConflict(p)'
      BY <1>1, <1>3, <3>3, CheckStays DEF Stores
    <3>5. QED
      BY <3>1, <3>2, <3>4 DEF AssertNoConflict
  <2>5. QED
    BY <1>1, <2>3, <2>4 DEF ApartInv, Checked
<1>4. CASE UNCHANGED vars
  <2>1. Stored' = Stored /\ request' = request
    BY <1>4 DEF vars, Stored
  <2>2. QED
    BY <1>1, <2>1 DEF ApartInv, Apart, Checked, Storing, AssertNoConflict
<1>5. QED
  BY <1>1, <1>2, <1>3, <1>4, StepShape DEF Next

LEMMA ApartInit == Init => RowsInv /\ ApartInv
BY DEF Init, ApartInv, RowsInv, TypeInv, TypeOK, Editing, DefinitionsStand, Apart, Current,
   Checked, Storing, Stored, NoRequest

\* If no request commits to a policy another one has loaded, and no two have
\* passed the conflict check with active policies of one target, no
\* configuration is ambiguous: the check is enough for every device at every
\* instant, whatever the windows and however else requests overlap.
THEOREM NeverAmbiguousApart == Spec /\ []RowsApart /\ []TargetsApart => []NeverAmbiguous
<1>1. ApartInv => NeverAmbiguous
  BY ApartIsUnambiguous
<1>2. QED
  BY <1>1, ApartInit, ApartStep, PTL DEF Spec

\* If no request commits to a policy another one has loaded, what is stored is
\* what the definition check allows.
THEOREM DefinitionsStandApart == Spec /\ []RowsApart => []DefinitionsStand
<1>1. RowsInv => DefinitionsStand
  BY DEF RowsInv
<1>2. QED
  BY <1>1, ApartInit, RowsStep, PTL DEF Spec
=============================================================================
