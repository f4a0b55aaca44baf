----------------------------- MODULE RateLimiter -----------------------------
(***************************************************************************)
(* One client's bucket of a FixedWindowRateLimiter, checked by several     *)
(* server threads: each reads the clock before it takes the lock.          *)
(***************************************************************************)
EXTENDS Integers, Sequences

CONSTANTS
    Threads,  \* server threads that check an attempt of the client
    Limit,    \* attempts that a window allows
    Window,   \* window_seconds, in ticks of the clock
    Delay,    \* ticks that may pass between a thread's reading and its lock
    MaxTime,  \* bound: the clock stops here
    Nothing   \* no reading, no window yet

ASSUME Limits == /\ Limit \in Nat \ {0} /\ Window \in Nat \ {0}
                 /\ Delay \in 0..(Window - 1) /\ MaxTime \in Nat
                 /\ Nothing \notin Nat \cup [started_at : Nat, attempts : Nat]

VARIABLES
    clock,     \* time.monotonic
    reading,   \* "now" of each thread that is in check
    window,    \* _windows[bucket_key]
    admitted   \* history: the tick of each attempt that was allowed

limiterVars == <<clock, reading, window, admitted>>

-----------------------------------------------------------------------------
NewWindow(now) == [started_at |-> now, attempts |-> 1]

\* A reading older than the window is not over it: the difference is negative then.
IsOver(now) == window = Nothing \/ now >= window.started_at + Window

OneMoreRoom == window.attempts <= Limit   \* mutant: off by one

HasRoom == window.attempts < Limit

LimiterInit ==
    /\ clock = 0 /\ window = Nothing
    /\ reading = [t \in Threads |-> Nothing]
    /\ admitted = <<>>

\* No thread is held up for longer than Delay.
Tick ==
    /\ clock < MaxTime
    /\ \A t \in Threads : reading[t] # Nothing => clock - reading[t] < Delay
    /\ clock' = clock + 1
    /\ UNCHANGED <<reading, window, admitted>>

ReadClock(t) ==
    /\ reading[t] = Nothing
    /\ reading' = [reading EXCEPT ![t] = clock]
    /\ UNCHANGED <<clock, window, admitted>>

\* The block under the lock: a new window, a further attempt of this one, or a refusal.
Check(t) ==
    /\ reading[t] # Nothing
    /\ reading' = [reading EXCEPT ![t] = Nothing]
    /\ window' = IF IsOver(reading[t]) THEN NewWindow(reading[t])
                 ELSE IF HasRoom THEN [window EXCEPT !.attempts = @ + 1]
                 ELSE window
    /\ admitted' = IF IsOver(reading[t]) \/ HasRoom THEN Append(admitted, clock) ELSE admitted
    /\ UNCHANGED clock

LimiterNext == Tick \/ \E t \in Threads : ReadClock(t) \/ Check(t)

LimiterSpec == LimiterInit /\ [][LimiterNext]_limiterVars

-----------------------------------------------------------------------------
LimiterTypeOK ==
    /\ clock \in 0..MaxTime
    /\ reading \in [Threads -> 0..clock \cup {Nothing}]
    /\ window = Nothing \/ window \in [started_at : 0..clock, attempts : 1..Limit]
    /\ admitted \in Seq(0..clock)

\* Threads that judge a window with an older reading, and windows that begin with one, do not
\* add up: a burst of one client gets at most two windows' attempts within a window's length
\* less the delay, and three within a whole one: one attempt more takes longer.
BurstBounded ==
    \A i \in DOMAIN admitted :
       /\ i + 2 * Limit \in DOMAIN admitted => admitted[i + 2 * Limit] - admitted[i] >= Window - Delay
       /\ i + 3 * Limit \in DOMAIN admitted => admitted[i + 3 * Limit] - admitted[i] >= Window
==============================================================================
