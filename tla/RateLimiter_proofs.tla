------------------------ MODULE RateLimiter_proofs ------------------------
(***************************************************************************)
(* Theorems about RateLimiter, for any keys, limits, windows and threads.  *)
(***************************************************************************)
EXTENDS RateLimiter, TLAPS

-----------------------------------------------------------------------------
(***************************************************************************)
(* Types.                                                                  *)
(***************************************************************************)

LEMMA WindowKinds ==
    \A w \in Windows \cup {NoWindow} :
        /\ w # NoWindow => w \in Windows
        /\ w \in Windows => w # NoWindow /\ w.expires \in Nat /\ w.count \in Nat /\ w.count >= 1
BY DEF Windows, NoWindow

LEMMA CallKinds ==
    \A c \in Calls \cup {NoCall} : c # NoCall => c.key \in Keys /\ c.now \in Nat
BY DEF Calls, NoCall

LEMMA CountedTyped ==
    ASSUME TypeOK, NEW k \in Keys, NEW now \in Nat
    PROVE  Counted(k, now) \in Windows
<1>1. WindowOf[k] \in Nat \ {0}
  BY LimitsAssumption
<1>2. CASE Over(k, now)
  BY <1>1, <1>2 DEF Counted, Windows
<1>3. CASE ~Over(k, now)
  <2>1. windows[k] \in Windows
    BY <1>3 DEF Over, TypeOK
  <2> QED
    BY <1>3, <2>1 DEF Counted, Windows
<1> QED
  BY <1>2, <1>3

LEMMA EmptyTyped == [k \in Keys |-> <<>>] \in [Keys -> Seq(Nat)]
<1>1. <<>> \in Seq(Nat)
  OBVIOUS
<1> QED
  BY <1>1

LEMMA InitTyped == Init => TypeOK
<1> SUFFICES ASSUME Init PROVE TypeOK
  OBVIOUS
<1>1. windows \in [Keys -> Windows \cup {NoWindow}] /\ call \in [Threads -> Calls \cup {NoCall}]
  BY DEF Init
<1>2. granted \in [Keys -> Nat] /\ clock \in Nat /\ overtaken \in BOOLEAN
  BY DEF Init
<1> QED
  BY <1>1, <1>2, EmptyTyped DEF Init, TypeOK

LEMMA NextTyped == TypeOK /\ [Next]_vars => TypeOK'
<1> SUFFICES ASSUME TypeOK, [Next]_vars PROVE TypeOK'
  OBVIOUS
<1>1. CASE Tick
  BY <1>1 DEF Tick, TypeOK
<1>2. ASSUME NEW t \in Threads, NEW k \in Keys, ReadClock(t, k) PROVE TypeOK'
  BY <1>2 DEF ReadClock, TypeOK, Calls
<1>3. ASSUME NEW t \in Threads, Allow(t) PROVE TypeOK'
  <2> DEFINE k == call[t].key
             now == call[t].now
  <2>1. k \in Keys /\ now \in Nat
    BY <1>3, CallKinds DEF Allow, TypeOK
  <2>2. Counted(k, now) \in Windows
    BY <2>1, CountedTyped
  <2>3. windows' \in [Keys -> Windows \cup {NoWindow}]
    <3>1. windows' = [j \in Keys |-> IF j = k THEN Counted(k, now)
                                     ELSE IF j \in Sweep(now) THEN NoWindow ELSE windows[j]]
      BY <1>3 DEF Allow
    <3> HIDE DEF k, now
    <3> QED
      BY <2>2, <3>1 DEF TypeOK
  <2>4. answered' \in [Keys -> Seq(Nat)]
    BY <1>3, <2>1 DEF Allow, TypeOK
  <2>5. granted' \in [Keys -> Nat]
    <3>1. granted' = [granted EXCEPT ![k] = @ + IF Allows(k, now) THEN 1 ELSE 0]
      BY <1>3 DEF Allow
    <3> HIDE DEF k, now
    <3> QED
      BY <2>1, <3>1 DEF TypeOK
  <2>6. overtaken' \in BOOLEAN /\ clock' \in Nat
    BY <1>3 DEF Allow, TypeOK
  <2>7. call' \in [Threads -> Calls \cup {NoCall}]
    BY <1>3 DEF Allow, TypeOK
  <2> QED
    BY <2>3, <2>4, <2>5, <2>6, <2>7 DEF TypeOK
<1>4. CASE Restart
  BY <1>4, EmptyTyped DEF Restart, TypeOK
<1>5. CASE UNCHANGED vars
  BY <1>5 DEF vars, TypeOK
<1> QED
  BY <1>1, <1>2, <1>3, <1>4, <1>5 DEF Next

\* The variables have their types, whatever the limits.
THEOREM LimiterTypeCorrect == Spec => []TypeOK
BY InitTyped, NextTyped, PTL DEF Spec

-----------------------------------------------------------------------------
(***************************************************************************)
(* Products of naturals, as far as they are needed.                        *)
(***************************************************************************)

LEMMA ProductNat == \A a, n \in Nat : a * n \in Nat
OBVIOUS

LEMMA ProductNext == \A a, n \in Nat : a * (n + 1) = a * n + a
OBVIOUS

LEMMA ProductMonotone == \A a, m, n \in Nat : m <= n => a * m <= a * n
<1> SUFFICES ASSUME NEW a \in Nat, NEW m \in Nat, NEW n \in Nat, m <= n
             PROVE  a * m <= a * n
  OBVIOUS
<1>1. n - m \in Nat /\ n = m + (n - m)
  OBVIOUS
<1>2. a * (m + (n - m)) = a * m + a * (n - m)
  BY <1>1
<1>3. a * (n - m) \in Nat /\ a * m \in Nat
  BY <1>1, ProductNat
<1> QED
  BY <1>1, <1>2, <1>3

-----------------------------------------------------------------------------
(***************************************************************************)
(* A key with n windows behind it has been granted n times its limit at    *)
(* most, and n windows take n times as long.  A window counts as behind    *)
(* when it has expired for every call that may still look for it.          *)
(***************************************************************************)

\* No call has read a time that has not come.
ReadingsPast == \A t \in Threads : call[t] # NoCall => call[t].now <= clock

Behind(k, n) ==
    /\ granted[k] <= LimitOf[k] * n
    /\ WindowOf[k] * n <= clock
    /\ \A t \in Waiting(k) : WindowOf[k] * n <= call[t].now

Within(k, n) ==
    /\ granted[k] <= LimitOf[k] * n + windows[k].count
    /\ granted[k] <= LimitOf[k] * n + LimitOf[k]
    /\ WindowOf[k] * n + WindowOf[k] <= windows[k].expires
    /\ windows[k].expires <= clock + WindowOf[k]

Paced(k) ==
    \E n \in Nat : IF windows[k] = NoWindow THEN Behind(k, n) ELSE Within(k, n)

RateInv == TypeOK /\ ReadingsPast /\ (~overtaken => \A k \in Keys : Paced(k))

LEMMA InitRate == Init => RateInv
<1> SUFFICES ASSUME Init PROVE RateInv
  OBVIOUS
<1>1. TypeOK
  BY InitTyped
<1>2. ASSUME NEW k \in Keys PROVE Paced(k)
  <2>1. LimitOf[k] \in Nat /\ WindowOf[k] \in Nat
    BY LimitsAssumption
  <2>2. Waiting(k) = {}
    BY DEF Init, Waiting
  <2>3. Behind(k, 0)
    BY <2>1, <2>2 DEF Init, Behind
  <2> QED
    BY <2>3 DEF Init, Paced
<1> QED
  BY <1>1, <1>2 DEF RateInv, ReadingsPast, Init

\* Time goes on, or a call begins, and nothing is granted.
LEMMA QuietPaced ==
    ASSUME RateInv, NEW k \in Keys, Paced(k), clock' \in Nat, clock <= clock',
           windows' = windows, granted' = granted,
           \A t \in Waiting(k)' : call'[t].now = clock \/ (t \in Waiting(k) /\ call'[t] = call[t])
    PROVE  Paced(k)'
<1>1. PICK n \in Nat : IF windows[k] = NoWindow THEN Behind(k, n) ELSE Within(k, n)
  BY DEF Paced
<1>2. WindowOf[k] * n \in Nat /\ WindowOf[k] \in Nat /\ clock \in Nat
  BY LimitsAssumption, ProductNat DEF RateInv, TypeOK
<1>3. CASE windows[k] = NoWindow
  <2>1. Behind(k, n)
    BY <1>1, <1>3
  <2>2. WindowOf[k] * n <= clock'
    BY <1>2, <2>1 DEF Behind
  <2>3. \A t \in Waiting(k)' : WindowOf[k] * n <= call'[t].now
    BY <2>1 DEF Behind
  <2>4. Behind(k, n)'
    BY <2>1, <2>2, <2>3 DEF Behind
  <2> QED
    BY <1>3, <2>4 DEF Paced
<1>4. CASE windows[k] # NoWindow
  <2>1. windows[k].expires \in Nat
    BY <1>4, WindowKinds DEF RateInv, TypeOK
  <2>2. Within(k, n)'
    BY <1>1, <1>2, <1>4, <2>1 DEF Within
  <2> QED
    BY <1>4, <2>2 DEF Paced
<1> QED
  BY <1>3, <1>4

\* The key of the call: its window goes on, or a new one opens after the last.
LEMMA AllowedPaced ==
    ASSUME RateInv, NEW t \in Threads, Allow(t), NEW k \in Keys, k = call[t].key, Paced(k)
    PROVE  Paced(k)'
<1> DEFINE now == call[t].now
           a == LimitOf[k]
           w == WindowOf[k]
<1>1. k \in Keys /\ now \in Nat /\ clock \in Nat /\ now <= clock /\ call[t] # NoCall
  BY CallKinds DEF Allow, RateInv, TypeOK, ReadingsPast
<1>2. a \in Nat \ {0} /\ w \in Nat \ {0}
  BY <1>1, LimitsAssumption
<1>3. windows'[k] = Counted(k, now) /\ clock' = clock
  BY <1>1 DEF Allow
<1>4. granted[k] \in Nat /\ granted'[k] = granted[k] + IF Allows(k, now) THEN 1 ELSE 0
  BY <1>1 DEF Allow, RateInv, TypeOK
<1>5. windows'[k] \in Windows /\ windows'[k] # NoWindow
  BY <1>1, <1>3, CountedTyped, WindowKinds DEF RateInv
<1>6. PICK n \in Nat : IF windows[k] = NoWindow THEN Behind(k, n) ELSE Within(k, n)
  BY DEF Paced
<1> HIDE DEF now, a, w
<1>7. ASSUME NEW m \in Nat, granted[k] <= a * m, w * m <= now, Over(k, now)
      PROVE  Paced(k)'
  <2>1. Counted(k, now) = [expires |-> now + w, count |-> 1]
    BY <1>7 DEF Counted, w
  <2>2. a * m \in Nat /\ w * m \in Nat
    BY <1>2, ProductNat
  <2>3. Within(k, m)'
    BY <1>1, <1>2, <1>3, <1>4, <1>7, <2>1, <2>2 DEF Within, a, w
  <2> QED
    BY <1>5, <2>3 DEF Paced
<1>8. CASE windows[k] = NoWindow
  <2>1. Behind(k, n) /\ t \in Waiting(k)
    BY <1>1, <1>6, <1>8 DEF Waiting
  <2>2. granted[k] <= a * n /\ w * n <= now
    BY <2>1 DEF Behind, now, a, w
  <2> QED
    BY <1>7, <1>8, <2>2 DEF Over
<1>9. CASE windows[k] # NoWindow
  <2>1. Within(k, n) /\ windows[k].expires \in Nat /\ windows[k].count \in Nat
    BY <1>1, <1>6, <1>9, WindowKinds DEF RateInv, TypeOK
  <2>2. a * n \in Nat /\ w * n \in Nat
    BY <1>2, ProductNat
  <2>3. CASE Over(k, now)
    <3>1. windows[k].expires <= now
      BY <1>9, <2>3 DEF Over, Sweep
    <3>2. a * (n + 1) = a * n + a /\ w * (n + 1) = w * n + w
      BY <1>2, ProductNext
    <3>3. granted[k] <= a * (n + 1) /\ w * (n + 1) <= now
      BY <1>1, <1>2, <1>4, <2>1, <2>2, <3>1, <3>2 DEF Within, a, w
    <3> QED
      BY <1>7, <2>3, <3>3, n + 1 \in Nat
  <2>4. CASE ~Over(k, now)
    <3>1. windows'[k].expires = windows[k].expires /\ windows'[k].count = windows[k].count + 1
      <4>1. windows[k] \in Windows
        BY <1>1, <1>9 DEF RateInv, TypeOK
      <4> QED
        BY <1>3, <2>4, <4>1 DEF Counted, Windows
    <3>2. granted'[k] <= a * n + a
      <4>1. CASE Allows(k, now)
        <5>1. windows[k].count + 1 <= a
          BY <1>3, <3>1, <4>1 DEF Allows, a
        <5> QED
          BY <1>2, <1>4, <2>1, <2>2, <4>1, <5>1 DEF Within, a
      <4>2. CASE ~Allows(k, now)
        BY <1>2, <1>4, <2>1, <2>2, <4>2 DEF Within, a
      <4> QED
        BY <4>1, <4>2
    <3>3. Within(k, n)'
      BY <1>1, <1>2, <1>3, <1>4, <2>1, <2>2, <3>1, <3>2 DEF Within, a, w
    <3> QED
      BY <1>5, <3>3 DEF Paced
  <2> QED
    BY <2>3, <2>4
<1> QED
  BY <1>8, <1>9

\* Another key: its window stays, or has expired for every call that waits.
LEMMA OthersPaced ==
    ASSUME RateInv, NEW t \in Threads, Allow(t), ~overtaken',
           NEW j \in Keys, j # call[t].key, Paced(j)
    PROVE  Paced(j)'
<1> DEFINE k == call[t].key
           now == call[t].now
           a == LimitOf[j]
           w == WindowOf[j]
<1>1. k \in Keys /\ now \in Nat /\ clock \in Nat /\ now <= clock
  BY CallKinds DEF Allow, RateInv, TypeOK, ReadingsPast
<1>2. a \in Nat \ {0} /\ w \in Nat \ {0}
  BY LimitsAssumption
<1>3. windows'[j] = (IF j \in Sweep(now) THEN NoWindow ELSE windows[j]) /\ clock' = clock
  BY DEF Allow
<1>4. granted'[j] = granted[j] /\ granted[j] \in Nat
  BY DEF Allow, RateInv, TypeOK
<1>5. Waiting(j)' = Waiting(j) /\ \A s \in Waiting(j) : call'[s] = call[s]
  BY DEF Allow, RateInv, TypeOK, Waiting
<1>6. PICK n \in Nat : IF windows[j] = NoWindow THEN Behind(j, n) ELSE Within(j, n)
  BY DEF Paced
<1>7. CASE j \notin Sweep(now)
  BY <1>3, <1>4, <1>5, <1>6, <1>7 DEF Paced, Behind, Within
<1>8. CASE j \in Sweep(now)
  <2>1. windows[j] # NoWindow /\ windows[j].expires <= now
    BY <1>8 DEF Sweep
  <2>2. Within(j, n) /\ windows[j].expires \in Nat
    BY <1>6, <2>1, WindowKinds DEF RateInv, TypeOK
  <2>3. \A s \in Waiting(j) : call[s].now >= windows[j].expires
    <3> SUFFICES ASSUME NEW s \in Waiting(j) PROVE call[s].now >= windows[j].expires
      OBVIOUS
    <3>1. ~(call[s].now < windows[j].expires)
      BY <1>8 DEF Allow
    <3>2. call[s].now \in Nat
      BY CallKinds DEF Waiting, RateInv, TypeOK
    <3> QED
      BY <2>2, <3>1, <3>2
  <2>4. a * n \in Nat /\ w * n \in Nat /\ a * (n + 1) = a * n + a /\ w * (n + 1) = w * n + w
    BY <1>2, ProductNat, ProductNext
  <2>5. granted[j] <= a * (n + 1) /\ w * (n + 1) <= windows[j].expires
    BY <1>2, <1>4, <2>2, <2>4 DEF Within
  <2>6. \A s \in Waiting(j)' : w * (n + 1) <= call'[s].now
    <3> SUFFICES ASSUME NEW s \in Waiting(j) PROVE w * (n + 1) <= call[s].now
      BY <1>5
    <3>1. call[s].now \in Nat
      BY CallKinds DEF Waiting, RateInv, TypeOK
    <3> QED
      BY <1>2, <2>2, <2>3, <2>4, <2>5, <3>1
  <2>7. w * (n + 1) <= clock
    BY <1>1, <1>2, <2>1, <2>2, <2>4, <2>5
  <2>8. Behind(j, n + 1)'
    BY <1>3, <1>4, <2>5, <2>6, <2>7 DEF Behind
  <2>9. windows'[j] = NoWindow
    BY <1>3, <1>8
  <2> QED
    BY <2>8, <2>9, n + 1 \in Nat DEF Paced
<1> QED
  BY <1>7, <1>8

LEMMA NextRate == RateInv /\ [Next]_vars => RateInv'
<1> SUFFICES ASSUME RateInv, [Next]_vars PROVE RateInv'
  OBVIOUS
<1>1. TypeOK'
  BY NextTyped DEF RateInv
<1>2. CASE Tick
  <2>1. ASSUME NEW k \in Keys, Paced(k) PROVE Paced(k)'
    <3>1. clock' \in Nat /\ clock <= clock' /\ call' = call
      BY <1>2 DEF Tick, RateInv, TypeOK
    <3>2. \A t \in Waiting(k)' : t \in Waiting(k) /\ call'[t] = call[t]
      BY <3>1 DEF Waiting
    <3> QED
      BY <1>2, <2>1, <3>1, <3>2, QuietPaced DEF Tick
  <2>2. ReadingsPast'
    <3> SUFFICES ASSUME NEW t \in Threads, call[t] # NoCall PROVE call[t].now <= clock + 1
      BY <1>2 DEF Tick, ReadingsPast
    <3> QED
      BY CallKinds DEF RateInv, TypeOK, ReadingsPast
  <2> QED
    BY <1>1, <1>2, <2>1, <2>2 DEF RateInv, Tick
<1>3. ASSUME NEW t \in Threads, NEW c \in Keys, ReadClock(t, c) PROVE RateInv'
  <2>1. ASSUME NEW k \in Keys, Paced(k) PROVE Paced(k)'
    <3>1. clock' \in Nat /\ clock <= clock'
      BY <1>3 DEF ReadClock, RateInv, TypeOK
    <3>2. ASSUME NEW s \in Waiting(k)'
          PROVE  call'[s].now = clock \/ (s \in Waiting(k) /\ call'[s] = call[s])
      BY <1>3, <3>2 DEF ReadClock, Waiting, RateInv, TypeOK
    <3> QED
      BY <1>3, <2>1, <3>1, <3>2, QuietPaced DEF ReadClock
  <2>2. ReadingsPast'
    BY <1>3 DEF ReadClock, ReadingsPast, RateInv, TypeOK
  <2> QED
    BY <1>1, <1>3, <2>1, <2>2 DEF RateInv, ReadClock
<1>4. ASSUME NEW t \in Threads, Allow(t) PROVE RateInv'
  <2>1. ReadingsPast'
    BY <1>4 DEF Allow, ReadingsPast, RateInv, TypeOK
  <2>2. ASSUME ~overtaken', NEW j \in Keys PROVE Paced(j)'
    <3>1. ~overtaken
      BY <1>4, <2>2 DEF Allow
    <3>2. Paced(j)
      BY <3>1 DEF RateInv
    <3> QED
      BY <1>4, <2>2, <3>2, AllowedPaced, OthersPaced
  <2> QED
    BY <1>1, <2>1, <2>2 DEF RateInv
<1>5. CASE Restart
  <2>1. ReadingsPast'
    BY <1>5 DEF Restart, ReadingsPast
  <2>2. ASSUME NEW k \in Keys PROVE Paced(k)'
    <3>1. LimitOf[k] \in Nat /\ WindowOf[k] \in Nat /\ clock' \in Nat
      BY <1>5, LimitsAssumption DEF Restart, RateInv, TypeOK
    <3>2. Waiting(k)' = {}
      BY <1>5 DEF Restart, Waiting
    <3>3. Behind(k, 0)'
      BY <1>5, <3>1, <3>2 DEF Restart, Behind
    <3> QED
      BY <1>5, <3>3 DEF Restart, Paced
  <2> QED
    BY <1>1, <2>1, <2>2 DEF RateInv
<1>6. CASE UNCHANGED vars
  BY <1>1, <1>6 DEF vars, RateInv, ReadingsPast, Paced, Behind, Within, Waiting
<1> QED
  BY <1>2, <1>3, <1>4, <1>5, <1>6 DEF Next

LEMMA PacedRate == RateInv => LongRunRate
<1> SUFFICES ASSUME RateInv, ~overtaken, NEW k \in Keys, NEW m \in 0..MaxCalls,
                    granted[k] > LimitOf[k] * m
             PROVE  clock >= WindowOf[k] * m
  BY DEF LongRunRate
<1> DEFINE a == LimitOf[k]
           w == WindowOf[k]
<1>1. PICK n \in Nat : IF windows[k] = NoWindow THEN Behind(k, n) ELSE Within(k, n)
  BY DEF RateInv, Paced
<1>2. a \in Nat /\ w \in Nat /\ m \in Nat /\ clock \in Nat /\ granted[k] \in Nat
  BY LimitsAssumption, BoundsAssumption DEF RateInv, TypeOK
<1>3. a * n \in Nat /\ a * m \in Nat /\ w * n \in Nat /\ w * m \in Nat
  BY <1>2, ProductNat
<1>4. granted[k] <= a * (n + 1) /\ w * n <= clock
  <2>1. a * (n + 1) = a * n + a
    BY <1>2, ProductNext
  <2>2. CASE windows[k] = NoWindow
    BY <1>1, <1>2, <1>3, <2>1, <2>2 DEF Behind
  <2>3. CASE windows[k] # NoWindow
    <3>1. Within(k, n) /\ windows[k].expires \in Nat
      BY <1>1, <2>3, WindowKinds DEF RateInv, TypeOK
    <3> QED
      BY <1>2, <1>3, <2>1, <3>1 DEF Within
  <2> QED
    BY <2>2, <2>3
<1>5. ~(n + 1 <= m)
  <2> SUFFICES ASSUME n + 1 <= m PROVE FALSE
    OBVIOUS
  <2>1. a * (n + 1) <= a * m /\ a * (n + 1) \in Nat
    BY <1>2, n + 1 \in Nat, ProductMonotone, ProductNat
  <2> QED
    BY <1>2, <1>3, <1>4, <2>1
<1>6. w * m <= w * n
  BY <1>2, <1>5, ProductMonotone
<1> QED
  BY <1>2, <1>3, <1>4, <1>6

\* In the long run a key is granted its limit per window, for any number of
\* calls that wait with readings of any age, unless a sweep passes one of them.
THEOREM RateHolds == Spec => []LongRunRate
BY InitRate, NextRate, PacedRate, PTL DEF Spec

-----------------------------------------------------------------------------
(***************************************************************************)
(* What a window has counted was answered while it was open.               *)
(***************************************************************************)

Recent(k) ==
    /\ \A i \in 1..Len(answered[k]) : answered[k][i] <= clock
    /\ windows[k] # NoWindow =>
          /\ windows[k].expires <= clock + WindowOf[k]
          /\ windows[k].count <= Len(answered[k])
          /\ \A i \in (Len(answered[k]) - windows[k].count + 1)..Len(answered[k]) :
                windows[k].expires <= answered[k][i] + WindowOf[k]

BusyInv == TypeOK /\ ReadingsPast /\ \A k \in Keys : Recent(k)

LEMMA AnswersTyped ==
    ASSUME TypeOK, NEW k \in Keys
    PROVE  Len(answered[k]) \in Nat /\ \A i \in 1..Len(answered[k]) : answered[k][i] \in Nat
BY DEF TypeOK

\* The calls of the key: those of an open window and one more, or that one alone.
LEMMA AllowedRecent ==
    ASSUME BusyInv, NEW t \in Threads, Allow(t), NEW k \in Keys, k = call[t].key
    PROVE  Recent(k)'
<1> DEFINE now == call[t].now
           w == WindowOf[k]
           n == Len(answered[k])
<1>1. now \in Nat /\ clock \in Nat /\ now <= clock /\ w \in Nat
  BY CallKinds, LimitsAssumption DEF Allow, BusyInv, TypeOK, ReadingsPast
<1>2. windows'[k] = Counted(k, now) /\ clock' = clock
  BY DEF Allow
<1>3. answered'[k] = Append(answered[k], clock) /\ answered[k] \in Seq(Nat)
  BY DEF Allow, BusyInv, TypeOK
<1>4. /\ n \in Nat /\ Len(answered'[k]) = n + 1
      /\ \A i \in 1..n : answered'[k][i] = answered[k][i] /\ answered[k][i] \in Nat
      /\ answered'[k][n + 1] = clock
  <2> DEFINE q == answered[k]
             r == Append(q, clock)
  <2>1. /\ Len(q) \in Nat /\ Len(r) = Len(q) + 1
        /\ \A i \in 1..Len(q) : r[i] = q[i] /\ q[i] \in Nat
        /\ r[Len(q) + 1] = clock
    <3>1. q \in Seq(Nat) /\ clock \in Nat
      BY <1>1, <1>3
    <3> HIDE DEF q
    <3> QED
      BY <3>1
  <2>2. answered'[k] = r
    BY <1>3
  <2> HIDE DEF r
  <2> QED
    BY <2>1, <2>2
<1>5. \A i \in 1..n : answered[k][i] <= clock
  BY DEF BusyInv, Recent
<1>6. windows'[k] # NoWindow
  BY <1>1, <1>2, CountedTyped, WindowKinds DEF BusyInv
<1> HIDE DEF now, w, n
<1>7. \A i \in 1..(n + 1) : answered'[k][i] <= clock
  BY <1>1, <1>4, <1>5
<1>8. CASE Over(k, now)
  <2>1. windows'[k].expires = now + w /\ windows'[k].count = 1
    BY <1>2, <1>8 DEF Counted, w
  <2>2. \A i \in (n + 1 - 1 + 1)..(n + 1) : now + w <= answered'[k][i] + w
    BY <1>1, <1>4
  <2> QED
    BY <1>1, <1>2, <1>4, <1>7, <2>1, <2>2 DEF Recent, w
<1>9. CASE ~Over(k, now)
  <2>1. windows[k] \in Windows /\ windows[k] # NoWindow
    BY <1>9 DEF Over, BusyInv, TypeOK
  <2>2. windows[k].expires \in Nat /\ windows[k].count \in Nat
    BY <2>1, WindowKinds
  <2>3. windows'[k].expires = windows[k].expires /\ windows'[k].count = windows[k].count + 1
    BY <1>2, <1>9, <2>1 DEF Counted, Windows
  <2>4. /\ windows[k].expires <= clock + w /\ windows[k].count <= n
        /\ \A i \in (n - windows[k].count + 1)..n : windows[k].expires <= answered[k][i] + w
    BY <2>1 DEF BusyInv, Recent, w, n
  <2>5. \A i \in (n + 1 - (windows[k].count + 1) + 1)..(n + 1) :
           windows[k].expires <= answered'[k][i] + w
    <3> SUFFICES ASSUME NEW i \in (n + 1 - (windows[k].count + 1) + 1)..(n + 1)
                 PROVE  windows[k].expires <= answered'[k][i] + w
      OBVIOUS
    <3>1. CASE i = n + 1
      BY <1>4, <2>4, <3>1
    <3>2. CASE i # n + 1
      <4>1. i \in (n - windows[k].count + 1)..n /\ i \in 1..n
        BY <1>4, <2>2, <2>4, <3>2
      <4> QED
        BY <1>4, <2>4, <4>1
    <3> QED
      BY <3>1, <3>2
  <2>6. windows[k].count + 1 <= n + 1
    BY <1>4, <2>2, <2>4
  <2>7. Len(answered'[k]) = n + 1 /\ windows'[k].count = windows[k].count + 1
    BY <1>4, <2>3
  <2>8. \A i \in 1..Len(answered'[k]) : answered'[k][i] <= clock'
    BY <1>2, <1>7, <2>7
  <2>9. windows'[k].expires <= clock' + WindowOf[k]
    BY <1>2, <2>3, <2>4 DEF w
  <2>10. windows'[k].count <= Len(answered'[k])
    BY <2>6, <2>7
  <2>11. \A i \in (Len(answered'[k]) - windows'[k].count + 1)..Len(answered'[k]) :
            windows'[k].expires <= answered'[k][i] + WindowOf[k]
    <3> DEFINE m == Len(answered'[k])
               c == windows'[k].count
    <3>1. m = n + 1 /\ c = windows[k].count + 1
      BY <2>7
    <3> HIDE DEF m, c
    <3>2. \A i \in (m - c + 1)..m : windows[k].expires <= answered'[k][i] + w
      <4>1. m - c + 1 = n + 1 - (windows[k].count + 1) + 1
        <5>1. n \in Nat /\ windows[k].count \in Nat
          BY <1>4, <2>2
        <5> QED
          BY <3>1, <5>1
      <4> QED
        BY <2>5, <3>1, <4>1
    <3> QED
      BY <2>3, <3>2 DEF w, m, c
  <2> QED
    BY <2>8, <2>9, <2>10, <2>11 DEF Recent
<1> QED
  BY <1>8, <1>9

LEMMA OthersRecent ==
    ASSUME BusyInv, NEW t \in Threads, Allow(t), NEW j \in Keys, j # call[t].key
    PROVE  Recent(j)'
<1>1. /\ windows'[j] = NoWindow \/ windows'[j] = windows[j]
      /\ answered'[j] = answered[j] /\ clock' = clock
  BY DEF Allow, BusyInv, TypeOK
<1>2. Recent(j)
  BY DEF BusyInv
<1> QED
  BY <1>1, <1>2 DEF Recent

LEMMA InitBusy == Init => BusyInv
BY InitTyped DEF Init, BusyInv, ReadingsPast, Recent

LEMMA NextBusy == BusyInv /\ [Next]_vars => BusyInv'
<1> SUFFICES ASSUME BusyInv, [Next]_vars PROVE BusyInv'
  OBVIOUS
<1>1. TypeOK'
  BY NextTyped DEF BusyInv
<1>2. CASE Tick
  <2>1. ReadingsPast'
    <3> SUFFICES ASSUME NEW t \in Threads, call[t] # NoCall PROVE call[t].now <= clock + 1
      BY <1>2 DEF Tick, ReadingsPast
    <3> QED
      BY CallKinds DEF BusyInv, TypeOK, ReadingsPast
  <2>2. ASSUME NEW k \in Keys PROVE Recent(k)'
    <3>1. clock \in Nat /\ clock' = clock + 1 /\ windows' = windows /\ answered' = answered
      BY <1>2 DEF Tick, BusyInv, TypeOK
    <3>2. WindowOf[k] \in Nat /\ Recent(k)
      BY LimitsAssumption DEF BusyInv
    <3>3. \A i \in 1..Len(answered[k]) : answered[k][i] <= clock + 1
      BY <3>1, <3>2, AnswersTyped DEF BusyInv, Recent
    <3>4. windows[k] # NoWindow => windows[k].expires <= clock + 1 + WindowOf[k]
      BY <3>1, <3>2, WindowKinds DEF BusyInv, TypeOK, Recent
    <3> QED
      BY <3>1, <3>2, <3>3, <3>4 DEF Recent
  <2> QED
    BY <1>1, <2>1, <2>2 DEF BusyInv
<1>3. ASSUME NEW t \in Threads, NEW c \in Keys, ReadClock(t, c) PROVE BusyInv'
  <2>1. ReadingsPast'
    BY <1>3 DEF ReadClock, ReadingsPast, BusyInv, TypeOK
  <2> QED
    BY <1>1, <1>3, <2>1 DEF BusyInv, ReadClock, Recent
<1>4. ASSUME NEW t \in Threads, Allow(t) PROVE BusyInv'
  <2>1. ReadingsPast'
    BY <1>4 DEF Allow, ReadingsPast, BusyInv, TypeOK
  <2> QED
    BY <1>1, <1>4, <2>1, AllowedRecent, OthersRecent DEF BusyInv
<1>5. CASE Restart
  BY <1>1, <1>5 DEF Restart, BusyInv, ReadingsPast, Recent
<1>6. CASE UNCHANGED vars
  BY <1>1, <1>6 DEF vars, BusyInv, ReadingsPast, Recent
<1> QED
  BY <1>2, <1>3, <1>4, <1>5, <1>6 DEF Next

\* A call that is refused finds its limit used up in an open window.
Busy(t) ==
    LET k == call[t].key
        n == Len(answered[k]) IN
    answered'[k] # <<>> /\ granted'[k] = granted[k] =>
        /\ n >= LimitOf[k]
        /\ \A i \in (n - LimitOf[k] + 1)..n : answered[k][i] + WindowOf[k] > call[t].now

LEMMA RefusalIsBusy ==
    ASSUME BusyInv, NEW t \in Threads, Allow(t) PROVE Busy(t)
<1> DEFINE k == call[t].key
           now == call[t].now
           n == Len(answered[k])
<1> SUFFICES ASSUME granted'[k] = granted[k]
             PROVE  /\ n >= LimitOf[k]
                    /\ \A i \in (n - LimitOf[k] + 1)..n : answered[k][i] + WindowOf[k] > now
  BY DEF Busy
<1>1. k \in Keys /\ now \in Nat
  BY CallKinds DEF Allow, BusyInv, TypeOK
<1>2. LimitOf[k] \in Nat \ {0} /\ WindowOf[k] \in Nat /\ n \in Nat
  BY <1>1, LimitsAssumption, AnswersTyped DEF BusyInv
<1>3. granted'[k] = granted[k] + IF Allows(k, now) THEN 1 ELSE 0
  BY <1>1 DEF Allow, BusyInv, TypeOK
<1>4. granted[k] \in Nat /\ Recent(k)
  BY <1>1 DEF BusyInv, TypeOK
<1> HIDE DEF k, now
<1>5. ~Allows(k, now)
  BY <1>3, <1>4
<1>6. ~Over(k, now)
  BY <1>2, <1>5 DEF Allows, Counted
<1>7. windows[k] \in Windows /\ windows[k] # NoWindow
  BY <1>1, <1>6 DEF Over, BusyInv, TypeOK
<1>8. windows[k].expires \in Nat /\ windows[k].count \in Nat /\ now < windows[k].expires
  BY <1>1, <1>6, <1>7, WindowKinds DEF Over
<1>9. windows[k].count >= LimitOf[k]
  BY <1>2, <1>5, <1>6, <1>7, <1>8 DEF Allows, Counted, Windows
<1>10. n >= LimitOf[k]
  BY <1>2, <1>4, <1>7, <1>8, <1>9 DEF Recent
<1>11. ASSUME NEW i \in (n - LimitOf[k] + 1)..n PROVE answered[k][i] + WindowOf[k] > now
  <2>1. i \in (n - windows[k].count + 1)..n /\ i \in 1..n
    BY <1>2, <1>8, <1>9, <1>10
  <2>2. answered[k][i] \in Nat
    BY <1>1, <2>1, AnswersTyped DEF BusyInv
  <2> QED
    BY <1>1, <1>2, <1>4, <1>7, <1>8, <2>1, <2>2 DEF Recent
<1> QED
  BY <1>10, <1>11

LEMMA StepIsBusy ==
    ASSUME BusyInv, [Next]_vars, NEW t \in Threads, call[t] # NoCall, call'[t] = NoCall
    PROVE  Busy(t)
<1>1. CASE Tick \/ UNCHANGED vars
  BY <1>1 DEF Tick, vars
<1>2. ASSUME NEW s \in Threads, NEW c \in Keys, ReadClock(s, c) PROVE Busy(t)
  BY <1>2 DEF ReadClock, BusyInv, TypeOK, NoCall
<1>3. ASSUME NEW s \in Threads, Allow(s) PROVE Busy(t)
  <2>1. s = t
    BY <1>3 DEF Allow, BusyInv, TypeOK
  <2> QED
    BY <1>3, <2>1, RefusalIsBusy
<1>4. CASE Restart
  <2>1. call[t].key \in Keys
    BY CallKinds DEF BusyInv, TypeOK
  <2> QED
    BY <1>4, <2>1 DEF Restart, Busy
<1> QED
  BY <1>1, <1>2, <1>3, <1>4 DEF Next

\* A call is refused only if as many as the limit of its key were answered less
\* than a window before it read the clock, whatever other keys and calls do.
THEOREM RefusalsAreEarned == Spec => RefusedOnlyWhenBusy
<1>1. BusyInv /\ [Next]_vars =>
        [\A t \in Threads : call[t] # NoCall /\ call'[t] = NoCall => Busy(t)]_vars
  BY StepIsBusy
<1>2. Spec => [][\A t \in Threads : call[t] # NoCall /\ call'[t] = NoCall => Busy(t)]_vars
  BY InitBusy, NextBusy, <1>1, PTL DEF Spec
<1> QED
  BY <1>2 DEF RefusedOnlyWhenBusy, Busy
=============================================================================
