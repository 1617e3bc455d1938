---------------------------- MODULE RateLimiter ----------------------------
(***************************************************************************)
(* The limiter that all routes of the one server process share.            *)
(*   app/services/rate_limit.py  InMemoryRateLimiter                       *)
(*   app/services/ota.py         keys of the device surfaces               *)
(*   app/api/v1/security.py      keys of the admin and log-in surfaces     *)
(*                                                                         *)
(* allow() reads the clock, then waits for the lock: other requests, and   *)
(* any amount of time, may pass between the two.                           *)
(***************************************************************************)
EXTENDS Naturals, Sequences, FiniteSets

CONSTANTS
    Keys,           \* a surface with the account, the device or the address
    LimitOf,        \* requests that a window of this key lets through
    WindowOf,       \* how long a window of this key lasts
    SweepThreshold, \* number of windows above which expired ones are removed
    Threads,        \* threads that serve requests
    MaxClock,       \* bound: the last instant
    MaxCalls        \* bound: calls of one key that one process answers

ASSUME LimitsAssumption ==
    LimitOf \in [Keys -> Nat \ {0}] /\ WindowOf \in [Keys -> Nat \ {0}]
ASSUME BoundsAssumption == MaxClock \in Nat /\ MaxCalls \in Nat /\ SweepThreshold \in Nat

VARIABLES
    clock,      \* what time.monotonic() would return
    windows,    \* windows[k]: the current window of key k, or NoWindow
    call,       \* call[t]: the call of allow() in thread t
    answered,   \* answered[k]: the instants at which calls of k were answered
    granted,    \* granted[k]: how many of them were allowed
    overtaken   \* a sweep has removed a window under a call that waits with an
                \* older reading

vars == <<clock, windows, call, answered, granted, overtaken>>
\* The last three variables record what happened; nothing depends on them but
\* the bound on the number of calls.

NoWindow == [count |-> 0]
Windows == [expires: Nat, count: Nat \ {0}]
NoCall == [step |-> "idle"]
Calls == [step: {"waiting"}, key: Keys, now: Nat]

Init ==
    /\ clock = 0
    /\ windows = [k \in Keys |-> NoWindow]
    /\ call = [t \in Threads |-> NoCall]
    /\ answered = [k \in Keys |-> <<>>]
    /\ granted = [k \in Keys |-> 0]
    /\ overtaken = FALSE

Waiting(k) == {t \in Threads : call[t] # NoCall /\ call[t].key = k}

Tick ==
    /\ clock < MaxClock
    /\ clock' = clock + 1
    /\ UNCHANGED <<windows, call, answered, granted, overtaken>>

ReadClock(t, k) ==
    /\ call[t] = NoCall
    /\ Len(answered[k]) < MaxCalls
    /\ call' = [call EXCEPT ![t] = [step |-> "waiting", key |-> k, now |-> clock]]
    /\ UNCHANGED <<clock, windows, answered, granted, overtaken>>

\* Mutant: a crowded map is emptied.
SweepAll(now) ==
    IF Cardinality({k \in Keys : windows[k] # NoWindow}) > SweepThreshold
    THEN {k \in Keys : windows[k] # NoWindow} ELSE {}

\* The windows that a call with this reading removes before it looks.
Sweep(now) ==
    IF Cardinality({k \in Keys : windows[k] # NoWindow}) > SweepThreshold
    THEN {k \in Keys : windows[k] # NoWindow /\ windows[k].expires <= now} ELSE {}

\* Mutant: a window still counts at the instant it expires.
OverLate(k, now) == k \in Sweep(now) \/ windows[k] = NoWindow \/ now > windows[k].expires

Over(k, now) == k \in Sweep(now) \/ windows[k] = NoWindow \/ now >= windows[k].expires

\* The window of k after a call with this reading.
Counted(k, now) ==
    IF Over(k, now) THEN [expires |-> now + WindowOf[k], count |-> 1]
    ELSE [windows[k] EXCEPT !.count = @ + 1]

Allows(k, now) == Counted(k, now).count <= LimitOf[k]

\* All that allow() does while it holds the lock.
Allow(t) ==
    /\ call[t] # NoCall
    /\ LET k == call[t].key
           now == call[t].now IN
       /\ windows' = [j \in Keys |-> IF j = k THEN Counted(k, now)
                                     ELSE IF j \in Sweep(now) THEN NoWindow
                                     ELSE windows[j]]
       /\ answered' = [answered EXCEPT ![k] = Append(@, clock)]
       /\ granted' = [granted EXCEPT ![k] = @ + IF Allows(k, now) THEN 1 ELSE 0]
       /\ overtaken' = \/ overtaken
                       \/ \E j \in Sweep(now) : \E s \in Waiting(j) :
                             call[s].now < windows[j].expires
    /\ call' = [call EXCEPT ![t] = NoCall]
    /\ UNCHANGED clock

\* The windows are in memory only.
Restart ==
    /\ windows' = [k \in Keys |-> NoWindow]
    /\ call' = [t \in Threads |-> NoCall]
    /\ answered' = [k \in Keys |-> <<>>]
    /\ granted' = [k \in Keys |-> 0]
    /\ overtaken' = FALSE
    /\ UNCHANGED clock

Next ==
    \/ Tick
    \/ \E t \in Threads : Allow(t) \/ \E k \in Keys : ReadClock(t, k)
    \/ Restart

Spec == Init /\ [][Next]_vars
-----------------------------------------------------------------------------
(***************************************************************************)
(* Properties.                                                             *)
(***************************************************************************)

TypeOK ==
    /\ clock \in Nat
    /\ windows \in [Keys -> Windows \cup {NoWindow}]
    /\ call \in [Threads -> Calls \cup {NoCall}]
    /\ answered \in [Keys -> Seq(Nat)]
    /\ granted \in [Keys -> Nat]
    /\ overtaken \in BOOLEAN

\* "Fixed window per key": in the long run a key gets its limit once per window
\* and no more, however long calls wait for the lock.  Only a sweep under a call
\* that waits with an older reading lets a window begin before the last one ends.
LongRunRate ==
    ~overtaken =>
        \A k \in Keys, n \in 0..MaxCalls :
            granted[k] > LimitOf[k] * n => clock >= WindowOf[k] * n

\* "Deliberately generous": a call is refused only if the last calls of its key,
\* as many as the limit, were all answered less than a window before it read the
\* clock.  No stale reading and no other key's traffic limits a quiet client.
RefusedOnlyWhenBusy ==
    [][\A t \in Threads :
          call[t] # NoCall /\ call'[t] = NoCall =>
            LET k == call[t].key
                n == Len(answered[k]) IN
            answered'[k] # <<>> /\ granted'[k] = granted[k] =>
                /\ n >= LimitOf[k]
                /\ \A i \in (n - LimitOf[k] + 1)..n :
                      answered[k][i] + WindowOf[k] > call[t].now]_vars
=============================================================================
