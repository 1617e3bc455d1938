------------------------- MODULE PolicyRules_proofs -------------------------
(***************************************************************************)
(* Facts about windows, priorities and the resolution, for any policies.   *)
(***************************************************************************)
EXTENDS PolicyRules, WellFoundedInduction, TLAPS

Window(p) == /\ p.starts \in Nat \cup {None} /\ p.ends \in Nat \cup {None}
             /\ p.starts # None /\ p.ends # None => p.starts < p.ends

Covers(p, now) ==
    /\ p.starts # None => p.starts <= now
    /\ p.ends # None => now < p.ends

\* windows_overlap says yes exactly when the two windows share an instant, for
\* open and closed ends alike.
THEOREM OverlapIsSharedInstant ==
    ASSUME NEW p, NEW q, Window(p), Window(q)
    PROVE  WindowsOverlap(p, q) <=> \E now \in Int : Covers(p, now) /\ Covers(q, now)
<1> USE DEF Window, Covers, WindowsOverlap, None
<1>1. ASSUME NEW now \in Int, Covers(p, now), Covers(q, now) PROVE WindowsOverlap(p, q)
  BY <1>1
<1>2. ASSUME WindowsOverlap(p, q), p.starts # None \/ q.starts # None
      PROVE  \E now \in Int : Covers(p, now) /\ Covers(q, now)
  <2>1. CASE p.starts < q.starts
    <3>1. q.starts \in Int /\ Covers(p, q.starts) /\ Covers(q, q.starts)
      BY <1>2, <2>1
    <3>2. QED
      BY <3>1
  <2>2. CASE ~(p.starts < q.starts)
    <3>1. p.starts \in Int /\ Covers(p, p.starts) /\ Covers(q, p.starts)
      BY <1>2, <2>2
    <3>2. QED
      BY <3>1
  <2>3. QED
    BY <2>1, <2>2
<1>3. ASSUME p.starts = None, q.starts = None
      PROVE  \E now \in Int : Covers(p, now) /\ Covers(q, now)
  <2>1. Covers(p, -2) /\ Covers(q, -2)
    BY <1>3
  <2>2. QED
    BY <2>1
<1>4. QED
  BY <1>1, <1>2, <1>3

\* Two policies of one priority that are in effect together have overlapping
\* windows, so without such a pair no resolution is a conflict.
LEMMA NoConflictWithoutOverlap ==
    ASSUME NEW ps, NEW now \in Nat,
           \A p \in ps : Window(p) /\ p.priority \in Nat,
           \A p, q \in ps : p # q /\ p.active /\ q.active /\ p.scope = q.scope
              /\ p.priority = q.priority => ~WindowsOverlap(p, q)
    PROVE  ~ResolvePolicies(ps, now).conflict
<1> DEFINE AtScope(s) == {p \in ps : IsInEffect(p, now) /\ p.scope = s}
           scope == CHOOSE s \in Scopes :
                      /\ AtScope(s) # {}
                      /\ \A t \in Scopes : Precedence[t] < Precedence[s] => AtScope(t) = {}
           winners == Highest(AtScope(scope))
<1>1. \A p, q \in winners : p = q
  <2> SUFFICES ASSUME NEW p \in winners, NEW q \in winners, p # q PROVE FALSE
    OBVIOUS
  <2>1. /\ p \in ps /\ q \in ps /\ IsInEffect(p, now) /\ IsInEffect(q, now)
        /\ p.scope = q.scope
        /\ p.priority <= q.priority /\ q.priority <= p.priority
    BY DEF Highest
  <2>2. p.priority = q.priority
    BY <2>1
  <2>3. now \in Int /\ Covers(p, now) /\ Covers(q, now) /\ p.active /\ q.active
    BY <2>1 DEF IsInEffect, Covers
  <2>4. WindowsOverlap(p, q)
    BY <2>1, <2>3, OverlapIsSharedInstant
  <2>5. QED
    BY <2>1, <2>2, <2>3, <2>4
<1>2. QED
  BY <1>1 DEF ResolvePolicies, Ungoverned

\* A bounded set of numbers that is not empty has a greatest one.
LEMMA GreatestExists ==
    ASSUME NEW n \in Nat, NEW S, S \subseteq 0..n, S # {}
    PROVE  \E x \in S : \A y \in S : y <= x
<1> DEFINE Distances == {n - x : x \in S}
<1>1. Distances \subseteq Nat /\ Distances # {}
  <2>1. \A x \in S : n - x \in Nat
    OBVIOUS
  <2>2. QED
    BY <2>1
<1>2. PICK d \in Distances : \A e \in Distances : ~(<<e, d>> \in OpToRel(<, Nat))
  <2> HIDE DEF Distances
  <2> QED
    BY <1>1, NatLessThanWellFounded, WFMin
<1>3. PICK x \in S : d = n - x
  OBVIOUS
<1>4. ASSUME NEW y \in S PROVE y <= x
  <2>1. n - y \in Distances /\ n - y \in Nat /\ d \in Nat
    BY <1>1
  <2>2. ~(n - y < d)
    BY <1>2, <2>1 DEF OpToRel
  <2>3. x \in 0..n /\ y \in 0..n
    OBVIOUS
  <2>4. QED
    BY <1>3, <2>2, <2>3
<1>5. QED
  BY <1>4

\* Priorities are bounded, so a set of policies that is not empty has a
\* highest one.
LEMMA HighestExists ==
    ASSUME NEW ps, ps # {}, \A p \in ps : p.priority \in 0..MaxPriority
    PROVE  Highest(ps) # {}
<1> DEFINE S == {p.priority : p \in ps}
<1>1. S \subseteq 0..MaxPriority /\ S # {} /\ MaxPriority \in Nat
  BY DEF MaxPriority
<1>2. PICK x \in S : \A y \in S : y <= x
  <2> HIDE DEF S
  <2> QED
    BY <1>1, GreatestExists
<1>3. QED
  BY <1>2 DEF Highest

\* Some scope with a policy in effect has no narrower one.
LEMMA NarrowestExists ==
    ASSUME NEW A, NEW s \in Scopes, A[s] # {}
    PROVE  \E t \in Scopes :
              /\ A[t] # {}
              /\ \A u \in Scopes : Precedence[u] < Precedence[t] => A[u] = {}
BY DEF Scopes, Precedence

\* The ranking of docs/07: the narrower scope first, in a scope the higher priority.
AtLeast(p, q) ==
    \/ Precedence[p.scope] < Precedence[q.scope]
    \/ p.scope = q.scope /\ q.priority <= p.priority

InEffect(ps, now) == {p \in ps : IsInEffect(p, now)}
Top(ps, now) == {p \in InEffect(ps, now) : \A q \in InEffect(ps, now) : AtLeast(p, q)}

Ranked(ps) == \A p \in ps : p.scope \in Scopes /\ p.priority \in 0..MaxPriority

\* resolve goes through the scopes one by one and takes the highest priority of
\* the first that has a policy in effect: those are the top of the ranking.
LEMMA WinnersAreTop ==
    ASSUME NEW ps, Ranked(ps), NEW now, InEffect(ps, now) # {}
    PROVE  /\ Top(ps, now) # {}
           /\ ResolvePolicies(ps, now) =
                IF \E p, q \in Top(ps, now) : p # q
                THEN [policy |-> NoPolicy, conflict |-> TRUE]
                ELSE [policy |-> CHOOSE p \in Top(ps, now) : TRUE, conflict |-> FALSE]
<1> DEFINE AtScope(s) == {q \in ps : IsInEffect(q, now) /\ q.scope = s}
           Narrowest(s) == /\ AtScope(s) # {}
                           /\ \A t \in Scopes : Precedence[t] < Precedence[s] => AtScope(t) = {}
           scope == CHOOSE s \in Scopes : Narrowest(s)
           winners == Highest(AtScope(scope))
<1>1. PICK p \in ps : IsInEffect(p, now) /\ p \in AtScope(p.scope) /\ p.scope \in Scopes
  BY DEF InEffect, Ranked
<1>2. scope \in Scopes /\ Narrowest(scope)
  <2> DEFINE A == [s \in Scopes |-> AtScope(s)]
  <2>1. \A s \in Scopes : A[s] = AtScope(s)
    OBVIOUS
  <2>2. \E t \in Scopes :
           /\ A[t] # {}
           /\ \A u \in Scopes : Precedence[u] < Precedence[t] => A[u] = {}
    <3> HIDE DEF A
    <3> QED
      BY <1>1, <2>1, NarrowestExists
  <2>3. \E t \in Scopes : Narrowest(t)
    <3> HIDE DEF A, AtScope
    <3> QED
      BY <2>1, <2>2
  <2>4. QED
    BY <2>3
<1>3. winners # {}
  <2>1. \A q \in AtScope(scope) : q.priority \in 0..MaxPriority
    BY DEF Ranked
  <2>2. QED
    BY <1>2, <2>1, HighestExists
<1>4. winners = Top(ps, now)
  <2>1. \A q \in InEffect(ps, now) :
           /\ q \in ps /\ q \in AtScope(q.scope) /\ q.scope \in Scopes
           /\ ~(Precedence[q.scope] < Precedence[scope])
    BY <1>2 DEF InEffect, Ranked
  <2>2. \A q \in InEffect(ps, now) : q.scope # scope => Precedence[scope] < Precedence[q.scope]
    BY <1>2, <2>1 DEF Precedence, Scopes
  <2>3. \A q \in winners : q \in InEffect(ps, now) /\ q.scope = scope
                           /\ \A r \in AtScope(scope) : r.priority <= q.priority
    BY DEF Highest, InEffect
  <2>4. \A q \in InEffect(ps, now) : q.scope = scope => q \in AtScope(scope)
    BY DEF InEffect
  <2>5. \A q \in AtScope(scope) : q \in InEffect(ps, now) /\ q.scope = scope
    BY DEF InEffect
  <2>6. winners \subseteq Top(ps, now)
    <3> HIDE DEF AtScope, scope, winners
    <3> QED BY <2>2, <2>3, <2>4 DEF Top, AtLeast
  <2>7. ASSUME NEW g \in Top(ps, now) PROVE g \in winners
    <3>1. PICK w \in winners : TRUE
      BY <1>3
    <3>2. g \in InEffect(ps, now) /\ \A q \in InEffect(ps, now) : AtLeast(g, q)
      BY <2>7 DEF Top
    <3>3. AtLeast(g, w) /\ w.scope = scope
      BY <2>3, <3>1, <3>2
    <3>4. g.scope = scope
      BY <2>1, <3>2, <3>3 DEF AtLeast
    <3>5. ~(Precedence[scope] < Precedence[scope])
      BY <1>2 DEF Precedence, Scopes
    <3>6. \A r \in AtScope(scope) : r.priority <= g.priority
      <4> HIDE DEF AtScope, scope
      <4> QED BY <2>5, <3>2, <3>4, <3>5 DEF AtLeast
    <3>7. QED
      BY <2>4, <3>2, <3>4, <3>6 DEF Highest
  <2>8. QED
    BY <2>6, <2>7
<1>5. ~(\A s \in Scopes : AtScope(s) = {})
  BY <1>1
<1>6. ResolvePolicies(ps, now) =
         IF \E q, r \in winners : q # r
         THEN [policy |-> NoPolicy, conflict |-> TRUE]
         ELSE [policy |-> CHOOSE q \in winners : TRUE, conflict |-> FALSE]
  BY <1>5 DEF ResolvePolicies
<1>7. QED
  <2> HIDE DEF winners
  <2> QED BY <1>3, <1>4, <1>6

\* A device is governed by the one policy that ranks above all others in effect,
\* is told of a conflict exactly if several share that rank, and of no policy
\* exactly if none is in effect: the search of the code, scope by scope, decides
\* by the ranking of docs/07 for every set of policies and every instant.
THEOREM ResolutionByRank ==
    ASSUME NEW ps, Ranked(ps), NEW now
    PROVE  /\ InEffect(ps, now) = {} => ResolvePolicies(ps, now) = Ungoverned
           /\ \A g \in Top(ps, now) :
                 (\A p \in Top(ps, now) : p = g)
                   => ResolvePolicies(ps, now) = [policy |-> g, conflict |-> FALSE]
           /\ ResolvePolicies(ps, now).conflict <=> \E p, q \in Top(ps, now) : p # q
<1>1. CASE InEffect(ps, now) = {}
  <2>1. ResolvePolicies(ps, now) = Ungoverned
    BY <1>1 DEF ResolvePolicies, InEffect
  <2>2. Top(ps, now) = {}
    BY <1>1 DEF Top
  <2>3. QED
    BY <2>1, <2>2 DEF Ungoverned
<1>2. CASE InEffect(ps, now) # {}
  <2>1. ResolvePolicies(ps, now).conflict <=> \E p, q \in Top(ps, now) : p # q
    BY <1>2, WinnersAreTop
  <2>2. ASSUME NEW g \in Top(ps, now), \A p \in Top(ps, now) : p = g
        PROVE  ResolvePolicies(ps, now) = [policy |-> g, conflict |-> FALSE]
    <3>1. (CHOOSE p \in Top(ps, now) : TRUE) = g
      BY <2>2
    <3>2. QED
      BY <1>2, <2>2, <3>1, WinnersAreTop
  <2>3. QED
    BY <1>2, <2>1, <2>2
<1>3. QED
  BY <1>1, <1>2

\* What the check before a write refuses is what the resolution could not decide:
\* two active policies of one scope, target and priority pass exactly if no
\* instant makes them ambiguous.
THEOREM OverlapIsAmbiguity ==
    ASSUME NEW p, NEW q, p # q, Window(p), Window(q), p.active, q.active, Ranked({p, q}),
           p.scope = q.scope, p.priority = q.priority
    PROVE  WindowsOverlap(p, q) <=> \E now \in Int : ResolvePolicies({p, q}, now).conflict
<1>1. ASSUME WindowsOverlap(p, q)
      PROVE  \E now \in Int : ResolvePolicies({p, q}, now).conflict
  <2>1. PICK now \in Int : Covers(p, now) /\ Covers(q, now)
    BY <1>1, OverlapIsSharedInstant
  <2>2. p \in InEffect({p, q}, now) /\ q \in InEffect({p, q}, now)
    BY <2>1 DEF InEffect, IsInEffect, Covers
  <2>3. \A r \in InEffect({p, q}, now) : r = p \/ r = q
    BY DEF InEffect
  <2>4. p.priority \in Int
    BY DEF Ranked, MaxPriority
  <2>5. p \in Top({p, q}, now) /\ q \in Top({p, q}, now)
    BY <2>2, <2>3, <2>4 DEF Top, AtLeast
  <2>6. QED
    BY <2>5, ResolutionByRank
<1>2. ASSUME NEW now \in Int, ResolvePolicies({p, q}, now).conflict
      PROVE  WindowsOverlap(p, q)
  <2>1. PICK r \in Top({p, q}, now), t \in Top({p, q}, now) : r # t
    BY <1>2, ResolutionByRank
  <2>2. IsInEffect(p, now) /\ IsInEffect(q, now)
    BY <2>1 DEF Top, InEffect
  <2>3. QED
    BY <2>2, OverlapIsSharedInstant DEF IsInEffect, Covers
<1>3. QED
  BY <1>1, <1>2

\* What a resolution that is not a conflict returns: the governing policy is
\* in effect, and outranks every policy in effect by scope or by priority.
LEMMA ResolutionFacts ==
    ASSUME NEW ps, NEW now \in Nat, NEW p \in ps, IsInEffect(p, now),
           \A q \in ps : q.scope \in Scopes /\ q.priority \in 0..MaxPriority,
           ~ResolvePolicies(ps, now).conflict
    PROVE  LET g == ResolvePolicies(ps, now).policy IN
           /\ g \in ps /\ IsInEffect(g, now)
           /\ \/ Precedence[g.scope] < Precedence[p.scope]
              \/ g.scope = p.scope /\ p.priority <= g.priority
<1>1. Ranked(ps) /\ p \in InEffect(ps, now)
  BY DEF Ranked, InEffect
<1>2. PICK g \in Top(ps, now) : TRUE
  BY <1>1, WinnersAreTop
<1>3. \A q \in Top(ps, now) : q = g
  BY <1>1, ResolutionByRank
<1>4. ResolvePolicies(ps, now).policy = g
  BY <1>1, <1>3, ResolutionByRank
<1>5. QED
  BY <1>1, <1>2, <1>4 DEF Top, InEffect, AtLeast
=============================================================================
