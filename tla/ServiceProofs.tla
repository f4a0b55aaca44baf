---------------------------- MODULE ServiceProofs ----------------------------
(***************************************************************************)
(* Proofs about the mechanisms of the server side, for every number of     *)
(* threads, rows, connections and operators: a client's bursts are         *)
(* bounded, orders are pictures of the menu at one moment, transactions    *)
(* wait in circles only where edits trade names or places, connections are *)
(* not shared, and the operators' commands take turns.                     *)
(***************************************************************************)
EXTENDS MCService, TLAPS, FiniteSetTheorems, SequenceTheorems, WellFoundedInduction

-----------------------------------------------------------------------------
(* The rate limiter.                                                       *)

\* The attempts that the current window has counted are the latest; this is the first of them.
FirstCounted == Len(admitted) - window.attempts + 1

\* The window began when or before its first attempt was allowed, by the delay at most, and a
\* window's length after the one before: whatever is Limit attempts older is of a window that
\* began so much earlier.
WindowsApart ==
    window # Nothing =>
        /\ FirstCounted \in DOMAIN admitted
        /\ window.started_at <= admitted[FirstCounted]
        /\ admitted[FirstCounted] <= window.started_at + Delay
        /\ \A i \in DOMAIN admitted :
            /\ i + Limit <= FirstCounted => admitted[i] + Window - Delay <= window.started_at
            /\ i + 2 * Limit <= FirstCounted => admitted[i] + 2 * Window - Delay <= window.started_at

LimiterInv ==
    /\ LimiterTypeOK
    /\ \A t \in Threads : reading[t] # Nothing => clock <= reading[t] + Delay
    /\ \A i, j \in DOMAIN admitted : i <= j => admitted[i] <= admitted[j]
    /\ window = Nothing => admitted = <<>>
    /\ WindowsApart
    /\ BurstBounded

LEMMA LimitsTyped == /\ Limit \in Nat /\ Window \in Nat /\ Delay \in Nat
                     /\ Limit >= 1 /\ Window >= 1 /\ Delay < Window
BY Limits

LEMMA AdmittedTyped ==
    ASSUME LimiterTypeOK
    PROVE  /\ clock \in Nat /\ Len(admitted) \in Nat /\ DOMAIN admitted = 1 .. Len(admitted)
           /\ admitted \in Seq(0..clock)
           /\ \A i \in DOMAIN admitted : admitted[i] \in 0..clock
<1>1. admitted \in Seq(0..clock) /\ clock \in Nat
  BY DEF LimiterTypeOK
<1>2. Len(admitted) \in Nat /\ DOMAIN admitted = 1 .. Len(admitted) /\ \A i \in DOMAIN admitted : admitted[i] \in 0..clock
  BY <1>1, LenProperties
<1>. QED BY <1>1, <1>2

LEMMA LimiterStarts == LimiterInit => LimiterInv
<1>. SUFFICES ASSUME LimiterInit PROVE LimiterInv
  OBVIOUS
<1>1. clock = 0 /\ window = Nothing /\ reading = [t \in Threads |-> Nothing] /\ admitted = <<>>
  BY DEF LimiterInit
<1>2. LimiterTypeOK
  <2>1. admitted \in Seq(0..clock)
    BY <1>1
  <2>. QED BY <1>1, <2>1, Limits DEF LimiterTypeOK
<1>3. \A i : i \notin DOMAIN admitted
  BY <1>1
<1>. QED BY <1>1, <1>2, <1>3 DEF LimiterInv, WindowsApart, BurstBounded

LEMMA TickStep ==
    ASSUME LimiterInv, Tick
    PROVE  LimiterInv'
<1>1. /\ clock < MaxTime /\ clock' = clock + 1 /\ UNCHANGED <<reading, window, admitted>>
      /\ \A t \in Threads : reading[t] # Nothing => clock - reading[t] < Delay
  BY DEF Tick
<1>2. clock \in 0..MaxTime /\ 0..clock \subseteq 0..clock' /\ clock' \in 0..MaxTime
  BY <1>1, Limits DEF LimiterInv, LimiterTypeOK
<1>3. admitted' \in Seq(0..clock')
  BY <1>1, <1>2, AdmittedTyped, SeqMonotonic DEF LimiterInv
<1>4. LimiterTypeOK'
  BY <1>1, <1>2, <1>3 DEF LimiterInv, LimiterTypeOK
<1>5. \A t \in Threads : reading'[t] # Nothing => clock' <= reading'[t] + Delay
  BY <1>1, <1>2, Limits DEF LimiterInv, LimiterTypeOK
<1>6. WindowsApart' /\ BurstBounded'
  BY <1>1 DEF LimiterInv, WindowsApart, BurstBounded, FirstCounted
<1>. QED BY <1>1, <1>4, <1>5, <1>6 DEF LimiterInv

LEMMA ReadClockStep ==
    ASSUME LimiterInv, NEW t \in Threads, ReadClock(t)
    PROVE  LimiterInv'
<1>1. reading' = [reading EXCEPT ![t] = clock] /\ UNCHANGED <<clock, window, admitted>>
  BY DEF ReadClock
<1>2. clock \in 0..clock /\ clock \in Nat
  BY AdmittedTyped DEF LimiterInv
<1>3. LimiterTypeOK'
  BY <1>1, <1>2 DEF LimiterInv, LimiterTypeOK
<1>4. \A u \in Threads : reading'[u] # Nothing => clock' <= reading'[u] + Delay
  BY <1>1, <1>2, Limits DEF LimiterInv, LimiterTypeOK
<1>5. WindowsApart' /\ BurstBounded'
  BY <1>1 DEF LimiterInv, WindowsApart, BurstBounded, FirstCounted
<1>. QED BY <1>1, <1>3, <1>4, <1>5 DEF LimiterInv

\* An attempt that is allowed now, counted by a window that began at s with attempts a: the
\* facts about windows that are apart give the bound on bursts.
LEMMA BurstStep ==
    ASSUME LimiterInv, admitted' = Append(admitted, clock), UNCHANGED clock, WindowsApart',
           window' \in [started_at : 0..clock, attempts : 1..Limit]
    PROVE  BurstBounded'
<1>. DEFINE n == Len(admitted) + 1
<1>1. /\ n \in Nat /\ DOMAIN admitted = 1 .. n - 1 /\ DOMAIN admitted' = 1 .. n /\ admitted'[n] = clock
      /\ Len(admitted') = n
      /\ \A i \in DOMAIN admitted : admitted'[i] = admitted[i] /\ admitted[i] \in 0..clock
  <2>1. LimiterTypeOK
    BY DEF LimiterInv
  <2>2. clock \in 0..clock
    BY <2>1, AdmittedTyped
  <2>3. /\ Len(admitted') = n /\ admitted'[n] = clock /\ admitted' \in Seq(0..clock)
        /\ \A i \in 1 .. Len(admitted) : admitted'[i] = admitted[i]
    BY <2>1, <2>2, AdmittedTyped, AppendProperties
  <2>4. DOMAIN admitted' = 1 .. n
    BY <2>3, LenProperties
  <2>. QED BY <2>1, <2>3, <2>4, AdmittedTyped
<1>. DEFINE f == n - window'.attempts + 1
            s == window'.started_at
<1>2. window' # Nothing
  BY Limits, AdmittedTyped DEF LimiterInv
<1>3. f \in 1 .. n /\ n + 1 <= f + Limit /\ s \in Nat /\ s <= clock /\ clock \in Nat
  <2>1. f \in DOMAIN admitted'
    BY <1>1, <1>2 DEF WindowsApart, FirstCounted
  <2>2. clock \in Nat /\ s \in 0..clock /\ window'.attempts \in 1..Limit
    BY AdmittedTyped DEF LimiterInv
  <2>. QED BY <1>1, <2>1, <2>2, Limits
<1>4. \A i \in 1 .. n : /\ i + Limit <= f => admitted'[i] + Window - Delay <= s
                        /\ i + 2 * Limit <= f => admitted'[i] + 2 * Window - Delay <= s
  BY <1>1, <1>2 DEF WindowsApart, FirstCounted
<1>. HIDE DEF n, f, s
<1>5. ASSUME NEW i \in DOMAIN admitted', i + 2 * Limit \in DOMAIN admitted'
      PROVE  admitted'[i + 2 * Limit] - admitted'[i] >= Window - Delay
  <2>1. CASE i + 2 * Limit = n
    <3>1. i \in 1 .. n - 1 /\ i + Limit <= f
      BY <1>1, <1>3, <1>5, <2>1, Limits
    <3>2. admitted'[i] + Window - Delay <= s /\ admitted'[i] \in Nat
      BY <1>1, <1>4, <1>5, <3>1
    <3>. QED BY <1>1, <1>3, <2>1, <3>2, Limits
  <2>2. CASE i + 2 * Limit # n
    <3>1. i \in DOMAIN admitted /\ i + 2 * Limit \in DOMAIN admitted
      BY <1>1, <1>5, <2>2, Limits
    <3>. QED BY <1>1, <3>1 DEF LimiterInv, BurstBounded
  <2>. QED BY <2>1, <2>2
<1>6. ASSUME NEW i \in DOMAIN admitted', i + 3 * Limit \in DOMAIN admitted'
      PROVE  admitted'[i + 3 * Limit] - admitted'[i] >= Window
  <2>1. CASE i + 3 * Limit = n
    <3>1. i \in 1 .. n - 1 /\ i + 2 * Limit <= f
      BY <1>1, <1>3, <1>6, <2>1, Limits
    <3>2. admitted'[i] + 2 * Window - Delay <= s /\ admitted'[i] \in Nat
      BY <1>1, <1>4, <1>6, <3>1
    <3>. QED BY <1>1, <1>3, <2>1, <3>2, Limits
  <2>2. CASE i + 3 * Limit # n
    <3>1. i \in DOMAIN admitted /\ i + 3 * Limit \in DOMAIN admitted
      BY <1>1, <1>6, <2>2, Limits
    <3>. QED BY <1>1, <3>1 DEF LimiterInv, BurstBounded
  <2>. QED BY <2>1, <2>2
<1>. QED BY <1>5, <1>6 DEF BurstBounded

\* The history with one more attempt, allowed at this tick.
LEMMA OneMoreAdmitted ==
    ASSUME LimiterInv, admitted' = Append(admitted, clock)
    PROVE  /\ Len(admitted') = Len(admitted) + 1 /\ DOMAIN admitted' = 1 .. Len(admitted) + 1
           /\ admitted' \in Seq(0..clock) /\ admitted'[Len(admitted) + 1] = clock
           /\ \A i \in DOMAIN admitted : admitted'[i] = admitted[i]
           /\ \A i, j \in DOMAIN admitted' : i <= j => admitted'[i] <= admitted'[j]
<1>1. LimiterTypeOK /\ clock \in 0..clock
  BY AdmittedTyped DEF LimiterInv
<1>2. /\ Len(admitted') = Len(admitted) + 1 /\ admitted' \in Seq(0..clock)
      /\ admitted'[Len(admitted) + 1] = clock
      /\ \A i \in 1 .. Len(admitted) : admitted'[i] = admitted[i]
  BY <1>1, AdmittedTyped, AppendProperties
<1>3. DOMAIN admitted' = 1 .. Len(admitted) + 1
  BY <1>2, LenProperties
<1>4. ASSUME NEW i \in DOMAIN admitted', NEW j \in DOMAIN admitted', i <= j PROVE admitted'[i] <= admitted'[j]
  <2>1. /\ Len(admitted) \in Nat /\ clock \in Nat
        /\ \A k \in 1 .. Len(admitted) : admitted[k] \in 0..clock
        /\ \A k, l \in 1 .. Len(admitted) : k <= l => admitted[k] <= admitted[l]
    BY <1>1, AdmittedTyped DEF LimiterInv
  <2>2. CASE j = Len(admitted) + 1
    <3>1. admitted'[i] \in 0..clock
      BY <1>1, <1>2, <1>3, <2>1
    <3>. QED BY <1>2, <2>1, <2>2, <3>1
  <2>3. CASE j # Len(admitted) + 1
    <3>1. i \in 1 .. Len(admitted) /\ j \in 1 .. Len(admitted)
      BY <1>3, <1>4, <2>1, <2>3
    <3>. QED BY <1>2, <1>4, <2>1, <3>1
  <2>. QED BY <2>2, <2>3
<1>. QED BY <1>1, <1>2, <1>3, <1>4, AdmittedTyped

\* A reading that finds the window over begins another.
LEMMA NewWindowApart ==
    ASSUME LimiterInv, NEW now \in 0..clock, clock <= now + Delay, IsOver(now),
           admitted' = Append(admitted, clock), window' = NewWindow(now)
    PROVE  window' \in [started_at : 0..clock, attempts : 1..Limit] /\ WindowsApart'
<1>. DEFINE n == Len(admitted)
<1>1. /\ n \in Nat /\ clock \in Nat /\ DOMAIN admitted = 1 .. n
      /\ \A i \in 1 .. n : admitted[i] \in 0..clock
      /\ \A i, j \in 1 .. n : i <= j => admitted[i] <= admitted[j]
  BY AdmittedTyped DEF LimiterInv
<1>2. /\ Len(admitted') = n + 1 /\ DOMAIN admitted' = 1 .. n + 1 /\ admitted'[n + 1] = clock
      /\ \A i \in 1 .. n : admitted'[i] = admitted[i]
  BY <1>1, OneMoreAdmitted
<1>3. /\ window'.started_at = now /\ window'.attempts = 1
      /\ window' \in [started_at : 0..clock, attempts : 1..Limit]
  BY <1>1, Limits DEF NewWindow
<1>4. FirstCounted' = n + 1
  BY <1>1, <1>2, <1>3 DEF FirstCounted
<1>. HIDE DEF n
<1>5. ASSUME NEW i \in 1 .. n + 1
      PROVE  /\ i + Limit <= n + 1 => admitted'[i] + Window - Delay <= now
             /\ i + 2 * Limit <= n + 1 => admitted'[i] + 2 * Window - Delay <= now
  <2>. SUFFICES ASSUME i + Limit <= n + 1
                PROVE  /\ admitted'[i] + Window - Delay <= now
                       /\ i + 2 * Limit <= n + 1 => admitted'[i] + 2 * Window - Delay <= now
    BY <1>1, Limits
  <2>1. i \in 1 .. n /\ admitted'[i] = admitted[i] /\ admitted[i] \in Nat
    BY <1>1, <1>2, Limits
  <2>2. window # Nothing /\ window \in [started_at : 0..clock, attempts : 1..Limit]
    <3>1. admitted # <<>>
      BY <1>1, <2>1
    <3>. QED BY <3>1 DEF LimiterInv, LimiterTypeOK
  <2>. DEFINE f == n - window.attempts + 1
              s == window.started_at
  <2>3. /\ f \in 1 .. n /\ s <= admitted[f] /\ admitted[f] <= s + Delay
        /\ i + Limit <= f => admitted[i] + Window - Delay <= s
    BY <1>1, <2>1, <2>2 DEF LimiterInv, WindowsApart, FirstCounted, n
  <2>4. s \in Nat /\ now >= s + Window /\ now \in Nat /\ n + 1 <= f + Limit /\ admitted[f] \in Nat
    <3>1. s \in Nat /\ now \in Nat /\ admitted[f] \in Nat /\ window.attempts \in 1..Limit
      BY <1>1, <2>2, <2>3
    <3>2. now >= s + Window
      BY <2>2 DEF IsOver
    <3>3. n + 1 <= f + Limit
      BY <1>1, <3>1, LimitsTyped
    <3>. QED BY <3>1, <3>2, <3>3
  <2>. HIDE DEF f, s
  <2>5. admitted[i] <= admitted[f]
    BY <1>1, <2>1, <2>3, <2>4, Limits
  <2>6. admitted'[i] + Window - Delay <= now
    BY <2>1, <2>3, <2>4, <2>5, LimitsTyped
  <2>7. ASSUME i + 2 * Limit <= n + 1 PROVE admitted'[i] + 2 * Window - Delay <= now
    <3>1. i + Limit <= f
      BY <1>1, <2>1, <2>3, <2>4, <2>7, Limits
    <3>. QED BY <2>1, <2>3, <2>4, <3>1, Limits
  <2>. QED BY <2>6, <2>7
<1>6. now <= clock /\ now \in Nat
  BY <1>1
<1>. QED BY <1>1, <1>2, <1>3, <1>4, <1>5, <1>6 DEF WindowsApart

\* A further attempt of the window: the first counted is the same.
LEMMA CountedApart ==
    ASSUME LimiterInv, window # Nothing, HasRoom,
           admitted' = Append(admitted, clock), window' = [window EXCEPT !.attempts = @ + 1]
    PROVE  window' \in [started_at : 0..clock, attempts : 1..Limit] /\ WindowsApart'
<1>1. /\ Len(admitted) \in Nat /\ clock \in Nat /\ DOMAIN admitted = 1 .. Len(admitted)
  BY AdmittedTyped DEF LimiterInv
<1>2. /\ Len(admitted') = Len(admitted) + 1 /\ DOMAIN admitted' = 1 .. Len(admitted) + 1
      /\ \A i \in DOMAIN admitted : admitted'[i] = admitted[i]
  BY OneMoreAdmitted
<1>3. window \in [started_at : 0..clock, attempts : 1..Limit]
  BY DEF LimiterInv, LimiterTypeOK
<1>4. /\ window'.started_at = window.started_at /\ window'.attempts = window.attempts + 1
      /\ window' \in [started_at : 0..clock, attempts : 1..Limit]
  BY <1>3, Limits DEF HasRoom
<1>5. FirstCounted' = FirstCounted
  BY <1>1, <1>2, <1>3, <1>4 DEF FirstCounted
<1>6. FirstCounted \in DOMAIN admitted /\ FirstCounted \in 1 .. Len(admitted)
  BY <1>1 DEF LimiterInv, WindowsApart
<1>7. FirstCounted \in DOMAIN admitted' /\ admitted'[FirstCounted] = admitted[FirstCounted]
  BY <1>1, <1>2, <1>6
<1>8. ASSUME NEW i \in DOMAIN admitted', i + Limit <= FirstCounted PROVE i \in DOMAIN admitted
  BY <1>1, <1>2, <1>6, <1>8, Limits
<1>9. ASSUME NEW i \in DOMAIN admitted', i + 2 * Limit <= FirstCounted PROVE i + Limit <= FirstCounted
  BY <1>2, <1>6, <1>9, <1>1, Limits
<1>. QED BY <1>2, <1>4, <1>5, <1>7, <1>8, <1>9 DEF LimiterInv, WindowsApart

LEMMA CheckStep ==
    ASSUME LimiterInv, NEW t \in Threads, Check(t)
    PROVE  LimiterInv'
<1>1. /\ reading[t] # Nothing /\ reading' = [reading EXCEPT ![t] = Nothing] /\ UNCHANGED clock
  BY DEF Check
<1>2. reading[t] \in 0..clock /\ clock <= reading[t] + Delay
  BY <1>1 DEF LimiterInv, LimiterTypeOK
<1>3. /\ clock \in 0..MaxTime /\ reading' \in [Threads -> 0..clock \cup {Nothing}]
      /\ \A u \in Threads : reading'[u] # Nothing => clock' <= reading'[u] + Delay
  BY <1>1 DEF LimiterInv, LimiterTypeOK
<1>4. ASSUME admitted' = Append(admitted, clock), WindowsApart', window' # Nothing,
             window' \in [started_at : 0..clock, attempts : 1..Limit]
      PROVE  LimiterInv'
  <2>1. LimiterTypeOK'
    BY <1>1, <1>3, <1>4, OneMoreAdmitted DEF LimiterTypeOK
  <2>2. BurstBounded'
    BY <1>1, <1>4, BurstStep
  <2>. QED BY <1>3, <1>4, <2>1, <2>2, OneMoreAdmitted DEF LimiterInv
<1>5. CASE IsOver(reading[t])
  <2>1. admitted' = Append(admitted, clock) /\ window' = NewWindow(reading[t])
    BY <1>5 DEF Check
  <2>2. window' # Nothing
    BY <1>2, <2>1, AdmittedTyped, Limits DEF LimiterInv, NewWindow
  <2>. QED BY <1>2, <1>4, <1>5, <2>1, <2>2, NewWindowApart
<1>6. CASE ~IsOver(reading[t]) /\ HasRoom
  <2>1. admitted' = Append(admitted, clock) /\ window' = [window EXCEPT !.attempts = @ + 1] /\ window # Nothing
    BY <1>6 DEF Check, IsOver
  <2>2. window' \in [started_at : 0..clock, attempts : 1..Limit] /\ WindowsApart'
    BY <1>6, <2>1, CountedApart
  <2>3. window' # Nothing
    BY <2>2, AdmittedTyped, Limits DEF LimiterInv
  <2>. QED BY <1>4, <2>1, <2>2, <2>3
<1>7. CASE ~IsOver(reading[t]) /\ ~HasRoom
  <2>1. UNCHANGED <<admitted, window, clock>>
    BY <1>1, <1>7 DEF Check
  <2>2. LimiterTypeOK'
    BY <1>3, <2>1 DEF LimiterInv, LimiterTypeOK
  <2>3. WindowsApart' /\ BurstBounded'
    BY <2>1 DEF LimiterInv, WindowsApart, BurstBounded, FirstCounted
  <2>. QED BY <1>3, <2>1, <2>2, <2>3 DEF LimiterInv
<1>. QED BY <1>5, <1>6, <1>7

LEMMA LimiterKeeps == LimiterInv /\ [LimiterNext]_limiterVars => LimiterInv'
<1>. SUFFICES ASSUME LimiterInv, [LimiterNext]_limiterVars PROVE LimiterInv'
  OBVIOUS
<1>1. CASE Tick
  BY <1>1, TickStep
<1>2. ASSUME NEW t \in Threads, ReadClock(t) \/ Check(t) PROVE LimiterInv'
  BY <1>2, ReadClockStep, CheckStep
<1>3. CASE UNCHANGED limiterVars
  BY <1>3 DEF limiterVars, LimiterInv, LimiterTypeOK, WindowsApart, BurstBounded, FirstCounted
<1>. QED BY <1>1, <1>2, <1>3 DEF LimiterNext

\* The limiter's state keeps its shape: a window counts at most Limit attempts.
THEOREM LimiterTypeCorrect == LimiterSpec => []LimiterTypeOK
<1>1. LimiterInv => LimiterTypeOK
  BY DEF LimiterInv
<1>. QED BY <1>1, LimiterStarts, LimiterKeeps, PTL DEF LimiterSpec

\* A client's burst is bounded, whatever threads judge it and with readings however old.
THEOREM BurstBoundedAlways == LimiterSpec => []BurstBounded
<1>1. LimiterInv => BurstBounded
  BY DEF LimiterInv
<1>. QED BY <1>1, LimiterStarts, LimiterKeeps, PTL DEF LimiterSpec


-----------------------------------------------------------------------------
(* The rows of the menu.                                                   *)

\* What an order has read is of rows that it holds, and is what they say.
Pictured(r) ==
    /\ \A i \in DOMAIN r.lines :
         /\ i \in r.held /\ r.joined[i] \in r.held
         /\ menu[i].category = r.joined[i] /\ r.lines[i] = SnapshotOf(i)
    /\ r.pc = "category" => (CHOOSE i \in r.todo : \A j \in r.todo : i <= j) \in r.held

\* A row is locked by readers or for update, not both.
Excluded(r) == \A e \in Editors : editing[e].pc \in Holding => editing[e].edit.row \notin r.held

\* A row is locked for update once.
EditorsApart ==
    \A e, f \in Editors :
       editing[e].pc \in Holding /\ editing[f].pc \in Holding /\ e # f
          => editing[e].edit.row # editing[f].edit.row

RowsInv ==
    /\ RowsTypeOK
    /\ EditorsApart
    /\ \A b \in Buyers : Pictured(creating[b]) /\ Excluded(creating[b])

LEMMA Least ==
    ASSUME NEW S \in SUBSET Nat, S # {}
    PROVE  (CHOOSE i \in S : \A j \in S : i <= j) \in S
<1>1. PICK i \in S : \A j \in S : ~ (<<j, i>> \in OpToRel(<, Nat))
  BY NatLessThanWellFounded, WFMin
<1>2. ASSUME NEW j \in S, j < i PROVE FALSE
  <2>1. <<j, i>> \in OpToRel(<, Nat)
    BY <1>2 DEF OpToRel
  <2>. QED BY <1>1, <2>1
<1>3. \A j \in S : i <= j
  BY <1>2
<1>. QED BY <1>3

LEMMA PicksAre ==
    ASSUME NEW S, NEW f
    PROVE  /\ f \in Picks(S) => DOMAIN f \subseteq MenuItemIds /\ f \in [DOMAIN f -> S]
           /\ \A W \in SUBSET MenuItemIds : f \in [W -> S] => f \in Picks(S)
BY DEF Picks

LEMMA RowTyped ==
    ASSUME RowsTypeOK
    PROVE  /\ \A i \in MenuItemIds : menu[i] \in ItemRow /\ menu[i].category \in CategoryIds
           /\ \A i \in MenuItemIds : SnapshotOf(i) \in Lines
BY DEF RowsTypeOK, ItemRow, SnapshotOf, Lines

LEMMA NothingPicked == /\ NoCreation \in Creations /\ Pictured(NoCreation) /\ Excluded(NoCreation)
                       /\ DOMAIN NoCreation.lines = {} /\ NoCreation.todo = {}
<1>1. DOMAIN <<>> = {} /\ \A S : <<>> \in [{} -> S]
  OBVIOUS
<1>2. \A S : <<>> \in Picks(S)
  BY <1>1, PicksAre
<1>. QED BY <1>1, <1>2 DEF NoCreation, Creations, Pictured, Excluded

LEMMA RowsStart == RowsInit => RowsInv
<1>. SUFFICES ASSUME RowsInit PROVE RowsInv
  OBVIOUS
<1>1. RowsTypeOK
  <2>1. /\ DOMAIN menu = MenuItemIds \cup CategoryIds
        /\ \A i \in MenuItemIds : menu[i] \in ItemRow
        /\ \A c \in CategoryIds : menu[c] \in CategoryRow
    <3>1. /\ \A i \in MenuItemIds : /\ Home[i] \in CategoryIds /\ Called[i] \in Names
                                   /\ menu[i] = [category |-> Home[i], name |-> Called[i], offered |-> TRUE, version |-> 0]
          /\ \A c \in CategoryIds : /\ Called[c] \in Names
                                   /\ menu[c] = [name |-> Called[c], offered |-> TRUE, version |-> 0]
      BY MenuRows DEF RowsInit
    <3>. QED BY <3>1, MenuRows DEF RowsInit, ItemRow, CategoryRow
  <2>2. creating \in [Buyers -> Creations] /\ \A b \in Buyers : creating[b] = NoCreation
    BY NothingPicked DEF RowsInit
  <2>3. NoCreation.pc = "idle"
    BY DEF NoCreation
  <2>. QED BY <2>1, <2>2, <2>3, NothingPicked DEF RowsTypeOK, RowsInit
<1>2. EditorsApart
  BY DEF RowsInit, NoEdit, EditorsApart, Holding
<1>. QED BY <1>1, <1>2, NothingPicked DEF RowsInit, RowsInv

\* A step of one buyer changes its own transaction alone.
LEMMA BuyerStep ==
    ASSUME RowsInv, NEW b \in Buyers, NEW r \in Creations,
           creating' = [creating EXCEPT ![b] = r], UNCHANGED <<menu, editing>>,
           r.todo \cup DOMAIN r.lines \subseteq DOMAIN r.joined, r.pc = "category" => r.todo # {},
           Pictured(r), Excluded(r)
    PROVE  RowsInv'
<1>1. \A a \in Buyers : creating'[a] = IF a = b THEN r ELSE creating[a]
  BY DEF RowsInv, RowsTypeOK
<1>2. RowsTypeOK' /\ EditorsApart'
  BY <1>1 DEF RowsInv, RowsTypeOK, EditorsApart
<1>3. ASSUME NEW a \in Buyers PROVE Pictured(creating[a])' /\ Excluded(creating[a])'
  <2>1. PICK s : s = creating'[a] /\ Pictured(s) /\ Excluded(s)
    BY <1>1 DEF RowsInv
  <2>. QED BY <2>1 DEF Pictured, Excluded, SnapshotOf
<1>. QED BY <1>2, <1>3 DEF RowsInv

LEMMA PlaceOrderStep ==
    ASSUME RowsInv, NEW b \in Buyers, PlaceOrder(b)
    PROVE  RowsInv'
<1>1. PICK wanted \in (SUBSET MenuItemIds) \ {{}} :
        creating' = [creating EXCEPT ![b] = [NoCreation EXCEPT !.pc = "item", !.todo = wanted,
                        !.joined = [i \in wanted |-> menu[i].category]]]
  BY DEF PlaceOrder
<1>. DEFINE r == [NoCreation EXCEPT !.pc = "item", !.todo = wanted,
                                    !.joined = [i \in wanted |-> menu[i].category]]
<1>2. [i \in wanted |-> menu[i].category] \in Picks(CategoryIds)
  <2>1. [i \in wanted |-> menu[i].category] \in [wanted -> CategoryIds]
    BY RowTyped DEF RowsInv
  <2>. QED BY <2>1, PicksAre
<1>3. /\ r.pc = "item" /\ r.todo = wanted /\ DOMAIN r.joined = wanted /\ r.held = {}
      /\ DOMAIN r.lines = {} /\ r \in Creations
  BY <1>2, NothingPicked DEF NoCreation, Creations
<1>. HIDE DEF r
<1>4. Pictured(r) /\ Excluded(r)
  BY <1>3 DEF Pictured, Excluded
<1>. QED BY <1>1, <1>3, <1>4, BuyerStep DEF PlaceOrder, r

LEMMA LockItemStep ==
    ASSUME RowsInv, NEW b \in Buyers, LockItem(b)
    PROVE  RowsInv'
<1>. DEFINE r == [creating[b] EXCEPT !.pc = "category", !.held = @ \cup {NextItem(b)}]
<1>1. creating[b] \in Creations /\ creating \in [Buyers -> Creations]
  BY DEF RowsInv, RowsTypeOK
<1>2. creating' = [creating EXCEPT ![b] = r]
  BY <1>1 DEF LockItem
<1>3. NextItem(b) \in creating[b].todo /\ NextItem(b) \in MenuItemIds
  BY <1>1, Least, MenuRows DEF LockItem, NextItem, Creations
<1>4. /\ r \in Creations /\ r.pc = "category" /\ r.held = creating[b].held \cup {NextItem(b)}
      /\ r.todo = creating[b].todo /\ r.joined = creating[b].joined /\ r.lines = creating[b].lines
  BY <1>1, <1>3 DEF Creations
<1>. HIDE DEF r
<1>5. Pictured(r)
  BY <1>4 DEF RowsInv, Pictured, NextItem
<1>6. Excluded(r)
  <2>1. Updating(NextItem(b)) = {}
    BY DEF LockItem, BlocksRead
  <2>. QED BY <1>4, <2>1 DEF RowsInv, Excluded, Updating
<1>. QED BY <1>2, <1>3, <1>4, <1>5, <1>6, BuyerStep DEF LockItem, RowsInv, RowsTypeOK

LEMMA LockCategoryStep ==
    ASSUME RowsInv, NEW b \in Buyers, LockCategory(b)
    PROVE  RowsInv'
<1>. DEFINE i == NextItem(b)
            c == creating[b].joined[i]
            lines == IF menu[i].category = c THEN WithLine(creating[b].lines, i) ELSE creating[b].lines
            r == [creating[b] EXCEPT !.pc = "item", !.held = @ \cup {c}, !.todo = @ \ {i}, !.lines = lines]
<1>1. creating[b] \in Creations /\ creating \in [Buyers -> Creations] /\ creating[b].pc = "category"
  BY DEF RowsInv, RowsTypeOK, LockCategory
<1>2. creating' = [creating EXCEPT ![b] = r]
  BY <1>1 DEF LockCategory
<1>3. i \in creating[b].todo /\ i \in MenuItemIds /\ i \in creating[b].held /\ i \in DOMAIN creating[b].joined
  <2>1. creating[b].todo # {} /\ creating[b].todo \subseteq DOMAIN creating[b].joined /\ creating[b].todo \subseteq MenuItemIds
    BY <1>1 DEF RowsInv, RowsTypeOK, Creations
  <2>2. i \in creating[b].todo
    BY <2>1, Least, MenuRows DEF NextItem
  <2>. QED BY <1>1, <2>1, <2>2 DEF RowsInv, Pictured, NextItem
<1>4. c \in CategoryIds
  <2>1. creating[b].joined \in Picks(CategoryIds)
    BY <1>1 DEF Creations
  <2>. QED BY <1>3, <2>1, PicksAre
<1>5. /\ lines \in Picks(Lines) /\ DOMAIN lines \subseteq DOMAIN creating[b].joined
      /\ \A j \in DOMAIN lines : \/ j \in DOMAIN creating[b].lines /\ lines[j] = creating[b].lines[j]
                                 \/ j = i /\ menu[i].category = c /\ lines[j] = SnapshotOf(i)
  <2>1. creating[b].lines \in Picks(Lines) /\ DOMAIN creating[b].lines \subseteq DOMAIN creating[b].joined
    BY <1>1 DEF Creations, RowsInv, RowsTypeOK
  <2>2. DOMAIN creating[b].lines \subseteq MenuItemIds /\ creating[b].lines \in [DOMAIN creating[b].lines -> Lines]
    BY <2>1, PicksAre
  <2>3. SnapshotOf(i) \in Lines
    BY <1>3, RowTyped DEF RowsInv
  <2>. DEFINE W == DOMAIN creating[b].lines \cup {i}
              f == WithLine(creating[b].lines, i)
  <2>4. f \in [W -> Lines] /\ DOMAIN f = W /\ \A j \in W : f[j] = IF j = i THEN SnapshotOf(i) ELSE creating[b].lines[j]
    BY <2>2, <2>3 DEF WithLine
  <2>5. W \in SUBSET MenuItemIds
    BY <1>3, <2>2
  <2>6. f \in Picks(Lines)
    BY <2>4, <2>5, PicksAre
  <2>7. CASE menu[i].category = c
    <3>1. lines = f
      BY <2>7
    <3>. HIDE DEF f, lines, i, c
    <3>. QED BY <1>3, <2>1, <2>4, <2>6, <2>7, <3>1
  <2>8. CASE menu[i].category # c
    <3>1. lines = creating[b].lines
      BY <2>8
    <3>. HIDE DEF lines, i, c
    <3>. QED BY <2>1, <3>1
  <2>. QED BY <2>7, <2>8
<1>6. /\ r \in Creations /\ r.pc = "item" /\ r.held = creating[b].held \cup {c}
      /\ r.todo = creating[b].todo \ {i} /\ r.joined = creating[b].joined /\ r.lines = lines
  <2>. HIDE DEF i, c, lines
  <2>. QED BY <1>1, <1>4, <1>5 DEF Creations
<1>7. Pictured(creating[b]) /\ Excluded(creating[b]) /\ creating[b].todo \subseteq DOMAIN creating[b].joined
  BY DEF RowsInv, RowsTypeOK
<1>8. Updating(c) = {}
  BY <1>1 DEF LockCategory, BlocksRead
<1>. HIDE DEF i, c, lines, r
<1>9. Pictured(r)
  <2>1. ASSUME NEW j \in DOMAIN lines
        PROVE  /\ j \in r.held /\ r.joined[j] \in r.held
               /\ menu[j].category = r.joined[j] /\ lines[j] = SnapshotOf(j)
    <3>1. CASE j \in DOMAIN creating[b].lines /\ lines[j] = creating[b].lines[j]
      BY <1>6, <1>7, <3>1 DEF Pictured
    <3>2. CASE j = i /\ menu[i].category = c /\ lines[j] = SnapshotOf(i)
      BY <1>3, <1>6, <3>2 DEF c
    <3>. QED BY <1>5, <3>1, <3>2
  <2>. QED BY <1>6, <2>1 DEF Pictured
<1>10. Excluded(r)
  BY <1>6, <1>7, <1>8 DEF Excluded, Updating
<1>. QED BY <1>2, <1>5, <1>6, <1>7, <1>9, <1>10, BuyerStep DEF LockCategory

LEMMA EndStep ==
    ASSUME RowsInv, NEW b \in Buyers, CreateOrder(b) \/ EndCreation(b)
    PROVE  RowsInv'
<1>1. PICK pc \in {"created", "refused", "idle"} :
        creating' = [creating EXCEPT ![b] = [NoCreation EXCEPT !.pc = pc]]
  <2>1. NoCreation = [NoCreation EXCEPT !.pc = "idle"]
    BY DEF NoCreation
  <2>. QED BY <2>1 DEF CreateOrder, EndCreation
<1>. DEFINE r == [NoCreation EXCEPT !.pc = pc]
<1>2. /\ r.pc = pc /\ r.todo = {} /\ DOMAIN r.lines = {} /\ r.held = {} /\ r \in Creations
  BY NothingPicked DEF NoCreation, Creations
<1>. HIDE DEF r
<1>3. Pictured(r) /\ Excluded(r)
  BY <1>2 DEF Pictured, Excluded
<1>. QED BY <1>1, <1>2, <1>3, BuyerStep DEF CreateOrder, EndCreation, r

\* An edit goes on, with what nobody reads and no other edit holds: it changes no picture.
LEMMA EditStep ==
    ASSUME RowsInv, NEW e \in Editors, NEW s \in Editing \cup {NoEdit},
           editing' = [editing EXCEPT ![e] = s], UNCHANGED <<menu, creating>>,
           s.pc \in Holding =>
              /\ \A b \in Buyers : s.edit.row \notin creating[b].held
              /\ \A f \in Editors \ {e} : editing[f].pc \in Holding => editing[f].edit.row # s.edit.row
    PROVE  RowsInv'
<1>1. \A f \in Editors : editing'[f] = IF f = e THEN s ELSE editing[f]
  BY DEF RowsInv, RowsTypeOK
<1>2. RowsTypeOK'
  BY DEF RowsInv, RowsTypeOK
<1>3. EditorsApart'
  BY <1>1 DEF RowsInv, EditorsApart
<1>4. ASSUME NEW b \in Buyers PROVE Pictured(creating[b])' /\ Excluded(creating[b])'
  BY <1>1 DEF RowsInv, Pictured, Excluded, SnapshotOf
<1>. QED BY <1>2, <1>3, <1>4 DEF RowsInv

LEMMA BeginEditStep ==
    ASSUME RowsInv, NEW e \in Editors, BeginEdit(e) \/ AbandonEdit(e)
    PROVE  RowsInv'
<1>1. PICK s \in Editing \cup {NoEdit} : editing' = [editing EXCEPT ![e] = s] /\ s.pc \notin Holding
  <2>1. \A edit \in Edits : [pc |-> "waiting", edit |-> edit] \in Editing
    BY DEF Editing
  <2>2. NoEdit.pc \notin Holding /\ "waiting" \notin Holding
    BY DEF NoEdit, Holding
  <2>. QED BY <2>1, <2>2 DEF BeginEdit, AbandonEdit
<1>. QED BY <1>1, EditStep DEF BeginEdit, AbandonEdit

LEMMA ProceedStep ==
    ASSUME RowsInv, NEW e \in Editors, LockForUpdate(e) \/ FlushUpdate(e) \/ EnterName(e)
    PROVE  RowsInv'
<1>1. PICK from \in {"waiting"} \cup Holding, to \in Holding :
        /\ editing[e].pc = from /\ editing' = [editing EXCEPT ![e].pc = to]
        /\ UNCHANGED <<menu, creating>>
        /\ from = "waiting" => Sharing(editing[e].edit.row) \cup Updating(editing[e].edit.row) = {}
  BY DEF LockForUpdate, FlushUpdate, EnterName, Proceed, Holding, BlocksEdit
<1>2. editing[e] \in Editing /\ editing \in [Editors -> Editing \cup {NoEdit}]
  BY <1>1 DEF RowsInv, RowsTypeOK, NoEdit, Holding
<1>. DEFINE s == [editing[e] EXCEPT !.pc = to]
<1>3. s \in Editing /\ s.edit = editing[e].edit /\ editing' = [editing EXCEPT ![e] = s]
  BY <1>1, <1>2 DEF Editing
<1>. HIDE DEF s
<1>4. CASE from = "waiting"
  <2>1. /\ \A b \in Buyers : s.edit.row \notin creating[b].held
        /\ \A f \in Editors : editing[f].pc \in Holding => editing[f].edit.row # s.edit.row
    BY <1>1, <1>3, <1>4 DEF Sharing, Updating
  <2>. QED BY <1>1, <1>3, <2>1, EditStep
<1>5. CASE from \in Holding
  <2>1. /\ \A b \in Buyers : s.edit.row \notin creating[b].held
        /\ \A f \in Editors \ {e} : editing[f].pc \in Holding => editing[f].edit.row # s.edit.row
    BY <1>1, <1>3, <1>5 DEF RowsInv, Excluded, EditorsApart
  <2>. QED BY <1>1, <1>3, <2>1, EditStep
<1>. QED BY <1>1, <1>4, <1>5

\* The row of an edit after it, a row of the same table.
LEMMA PatchedTyped ==
    ASSUME RowsTypeOK, NEW e \in Editors, editing[e].pc # "idle"
    PROVE  /\ editing[e].edit.row \in MenuItemIds =>
                 Patched(e) \in ItemRow
           /\ editing[e].edit.row \in CategoryIds => Patched(e) \in CategoryRow
           /\ editing[e].edit.row \in MenuItemIds \cup CategoryIds
<1>1. editing[e].edit \in Edits
  BY DEF RowsTypeOK, NoEdit, Editing
<1>2. \A S, old : old \in S => \A set \in Optional(S) : Chosen(set, old) \in S
  BY DEF Optional, Chosen
<1>3. PICK edit : edit = editing[e].edit /\ edit \in Edits
  BY <1>1
<1>4. /\ edit.row \in MenuItemIds \cup CategoryIds /\ edit.name \in Optional(Names)
      /\ edit.row \in MenuItemIds => edit.to \in Optional(CategoryIds)
      /\ edit.row \in CategoryIds => edit.to = {}
  BY <1>3, MenuRows DEF Edits, Optional
<1>5. CASE edit.row \in MenuItemIds
  <2>1. menu[edit.row] \in ItemRow
    BY <1>5 DEF RowsTypeOK
  <2>2. Chosen(edit.name, menu[edit.row].name) \in Names
    BY <1>2, <1>4, <2>1 DEF ItemRow
  <2>3. Chosen(edit.to, menu[edit.row].category) \in CategoryIds
    BY <1>2, <1>4, <1>5, <2>1 DEF ItemRow
  <2>4. edit.row \notin CategoryIds
    BY <1>5, MenuRows
  <2>. QED BY <1>3, <1>4, <1>5, <2>1, <2>2, <2>3, <2>4 DEF Patched, ItemRow
<1>6. CASE edit.row \in CategoryIds
  <2>1. menu[edit.row] \in CategoryRow
    BY <1>6 DEF RowsTypeOK
  <2>2. Chosen(edit.name, menu[edit.row].name) \in Names
    BY <1>2, <1>4, <2>1 DEF CategoryRow
  <2>3. edit.row \notin MenuItemIds
    BY <1>6, MenuRows
  <2>. QED BY <1>3, <1>4, <1>6, <2>1, <2>2, <2>3 DEF Patched, CategoryRow
<1>. QED BY <1>4, <1>5, <1>6

LEMMA SaveEditStep ==
    ASSUME RowsInv, NEW e \in Editors, SaveEdit(e)
    PROVE  RowsInv'
<1>1. /\ editing[e].pc \in Holding /\ editing[e].pc # "idle"
      /\ editing' = [editing EXCEPT ![e] = NoEdit] /\ UNCHANGED creating
  BY DEF SaveEdit, Holding
<1>2. PICK id \in DOMAIN menu, offered \in BOOLEAN, version \in 1..MaxEdits :
        /\ id = editing[e].edit.row
        /\ menu' = [menu EXCEPT ![id] = [Patched(e) EXCEPT !.offered = offered, !.version = version]]
  <2>. DEFINE Saved(offered, version) == [Patched(e) EXCEPT !.offered = offered, !.version = version]
  <2>1. \E offered \in BOOLEAN, version \in 1..MaxEdits :
          menu' = [menu EXCEPT ![editing[e].edit.row] = Saved(offered, version)]
    BY Zenon DEF SaveEdit
  <2>. HIDE DEF Saved
  <2>2. \E id \in DOMAIN menu, offered \in BOOLEAN, version \in 1..MaxEdits :
          id = editing[e].edit.row /\ menu' = [menu EXCEPT ![id] = Saved(offered, version)]
    BY <1>1, <2>1, PatchedTyped DEF RowsInv, RowsTypeOK
  <2>. QED BY <2>2, Zenon DEF Saved
<1>3. /\ DOMAIN menu' = DOMAIN menu /\ DOMAIN menu = MenuItemIds \cup CategoryIds
      /\ \A x \in DOMAIN menu \ {id} : menu'[x] = menu[x]
      /\ id \in DOMAIN menu => menu'[id] = [Patched(e) EXCEPT !.offered = offered, !.version = version]
  BY <1>2 DEF RowsInv, RowsTypeOK
<1>4. RowsTypeOK' /\ EditorsApart'
  <2>1. editing' \in [Editors -> Editing \cup {NoEdit}]
    BY <1>1 DEF RowsInv, RowsTypeOK
  <2>2. version \in 0..MaxEdits
    BY MenuRows
  <2>3. /\ \A x \in ItemRow : [x EXCEPT !.offered = offered, !.version = version] \in ItemRow
        /\ \A x \in CategoryRow : [x EXCEPT !.offered = offered, !.version = version] \in CategoryRow
    BY <2>2 DEF ItemRow, CategoryRow
  <2>4. /\ id \in MenuItemIds => Patched(e) \in ItemRow
        /\ id \in CategoryIds => Patched(e) \in CategoryRow
    BY <1>1, <1>2, PatchedTyped DEF RowsInv
  <2>5. \A i \in MenuItemIds : menu'[i] \in ItemRow
    BY <1>3, <2>3, <2>4 DEF RowsInv, RowsTypeOK
  <2>6. \A c \in CategoryIds : menu'[c] \in CategoryRow
    BY <1>3, <2>3, <2>4 DEF RowsInv, RowsTypeOK
  <2>7. EditorsApart'
    BY <1>1 DEF RowsInv, RowsTypeOK, EditorsApart, NoEdit, Holding
  <2>. QED BY <1>1, <1>3, <2>1, <2>5, <2>6, <2>7 DEF RowsInv, RowsTypeOK
<1>5. ASSUME NEW b \in Buyers PROVE Pictured(creating[b])' /\ Excluded(creating[b])'
  <2>1. PICK r \in Creations : r = creating[b] /\ r = creating'[b]
    BY <1>1 DEF RowsInv, RowsTypeOK
  <2>2. Pictured(r) /\ Excluded(r) /\ id \notin r.held
    BY <1>1, <1>2, <2>1 DEF RowsInv, Excluded
  <2>3. Excluded(r)'
    BY <1>1, <2>2 DEF Excluded, RowsInv, RowsTypeOK, NoEdit, Holding
  <2>4. ASSUME NEW i \in DOMAIN r.lines PROVE menu'[i].category = r.joined[i] /\ r.lines[i] = SnapshotOf(i)'
    <3>1. /\ i # id /\ r.joined[i] # id /\ menu[i].category = r.joined[i]
          /\ r.lines[i] = SnapshotOf(i)
      BY <2>2 DEF Pictured
    <3>2. i \in MenuItemIds /\ menu[i].category \in CategoryIds
      BY PicksAre, RowTyped DEF RowsInv, Creations
    <3>. QED BY <1>3, <3>1, <3>2 DEF SnapshotOf
  <2>5. Pictured(r)'
    BY <2>2, <2>4 DEF Pictured
  <2>. QED BY <2>1, <2>3, <2>5
<1>. QED BY <1>4, <1>5 DEF RowsInv

LEMMA RowsKeep == RowsInv /\ [RowsNext]_rowsVars => RowsInv'
<1>. SUFFICES ASSUME RowsInv, [RowsNext]_rowsVars PROVE RowsInv'
  OBVIOUS
<1>1. ASSUME NEW b \in Buyers,
             PlaceOrder(b) \/ LockItem(b) \/ LockCategory(b) \/ CreateOrder(b) \/ EndCreation(b)
      PROVE  RowsInv'
  BY <1>1, PlaceOrderStep, LockItemStep, LockCategoryStep, EndStep
<1>2. ASSUME NEW e \in Editors,
             \/ BeginEdit(e) \/ LockForUpdate(e) \/ FlushUpdate(e)
             \/ EnterName(e) \/ SaveEdit(e) \/ AbandonEdit(e)
      PROVE  RowsInv'
  BY <1>2, BeginEditStep, ProceedStep, SaveEditStep
<1>3. CASE UNCHANGED rowsVars
  <2>1. RowsTypeOK' /\ EditorsApart'
    BY <1>3 DEF rowsVars, RowsInv, RowsTypeOK, EditorsApart
  <2>2. ASSUME NEW b \in Buyers PROVE Pictured(creating[b])' /\ Excluded(creating[b])'
    BY <1>3 DEF rowsVars, RowsInv, Pictured, Excluded, SnapshotOf
  <2>. QED BY <2>1, <2>2 DEF RowsInv
<1>. QED BY <1>1, <1>2, <1>3 DEF RowsNext

\* The menu and its transactions keep their shape; what an order has locked or read is of the
\* rows that its SELECT joined.
THEOREM RowsTypeCorrect == RowsSpec => []RowsTypeOK
<1>1. RowsInv => RowsTypeOK
  BY DEF RowsInv
<1>. QED BY <1>1, RowsStart, RowsKeep, PTL DEF RowsSpec

\* When an order is committed, every line it read is what the menu says at that moment.
LEMMA CreatesAPicture ==
    ASSUME RowsInv, [RowsNext]_rowsVars, NEW b \in Buyers,
           creating[b].pc = "item", creating'[b].pc = "created"
    PROVE  \A i \in DOMAIN creating[b].joined :
              creating[b].lines[i] = SnapshotOf(i) /\ Orderable(SnapshotOf(i))
<1>1. Pictured(creating[b])
  BY DEF RowsInv
<1>2. creating \in [Buyers -> Creations]
  BY DEF RowsInv, RowsTypeOK
<1>3. CreateOrder(b)
  <2>1. ASSUME NEW a \in Buyers, PlaceOrder(a) \/ LockItem(a) \/ LockCategory(a) \/ EndCreation(a)
        PROVE  FALSE
    <3>1. CASE PlaceOrder(a)
      <4>1. PICK r : creating' = [creating EXCEPT ![a] = r] /\ r.pc = "item"
        BY <3>1 DEF PlaceOrder, NoCreation
      <4>. QED BY <1>2, <4>1
    <3>2. CASE LockItem(a)
      BY <1>2, <3>2 DEF LockItem, Creations
    <3>3. CASE LockCategory(a)
      <4>1. PICK r : creating' = [creating EXCEPT ![a] = r] /\ r.pc = "item"
        BY <1>2, <3>3 DEF LockCategory, Creations
      <4>. QED BY <1>2, <4>1
    <3>4. CASE EndCreation(a)
      BY <1>2, <3>4 DEF EndCreation, NoCreation
    <3>. QED BY <2>1, <3>1, <3>2, <3>3, <3>4
  <2>2. ASSUME NEW a \in Buyers, CreateOrder(a), a # b PROVE FALSE
    BY <1>2, <2>2 DEF CreateOrder
  <2>3. creating' # creating
    BY <1>2
  <2>4. \A e \in Editors : ~ \/ BeginEdit(e) \/ LockForUpdate(e) \/ FlushUpdate(e)
                              \/ EnterName(e) \/ SaveEdit(e) \/ AbandonEdit(e)
    BY <2>3 DEF BeginEdit, LockForUpdate, FlushUpdate, EnterName, Proceed, SaveEdit, AbandonEdit
  <2>. QED BY <2>1, <2>2, <2>3, <2>4 DEF RowsNext, rowsVars
<1>4. /\ DOMAIN creating[b].lines = DOMAIN creating[b].joined
      /\ \A i \in DOMAIN creating[b].lines : Orderable(creating[b].lines[i])
  BY <1>2, <1>3 DEF CreateOrder, NoCreation
<1>. QED BY <1>1, <1>4 DEF Pictured

\* An order is a picture of the menu at one moment.
THEOREM PicturesAlways == RowsSpec => SnapshotsAreCurrent
<1>1. RowsInv /\ [RowsNext]_rowsVars
        => [\A b \in Buyers : creating[b].pc = "item" /\ creating'[b].pc = "created" =>
              \A i \in DOMAIN creating[b].joined :
                 creating[b].lines[i] = SnapshotOf(i) /\ Orderable(SnapshotOf(i))]_rowsVars
  BY CreatesAPicture
<1>. QED BY <1>1, RowsStart, RowsKeep, PTL DEF RowsSpec, SnapshotsAreCurrent

\* In a circle, edits of categories wait only for each other's names; without them, those that
\* hold items wait only for each other's names and places; and all others wait for holders.
LEMMA CircleTrades ==
    ASSUME RowsInv, NEW T, T \subseteq Buyers \cup Editors, T # {},
           \A t \in T : Blocks(t) \cap T # {}
    PROVE  \E U \in (SUBSET (T \cap Editors)) \ {{}} : Trade(U)
<1>. DEFINE Holders == {e \in T \cap Editors : editing[e].pc \in Holding}
            OfCategories == {e \in Holders : editing[e].edit.row \in CategoryIds}
<1>1. \A e \in T \cap Editors : BlocksEdit(e) \cap T # {}
  BY MenuRows DEF Blocks
<1>2. \A e \in Holders : /\ editing[e].edit \in Edits
                         /\ editing[e].edit.row \in MenuItemIds \cup CategoryIds
                         /\ editing[e].edit.to \subseteq CategoryIds
                         /\ editing[e].edit.row \in CategoryIds => editing[e].edit.to = {}
  <2>1. \A e \in Holders : editing[e].edit \in Edits
    BY DEF RowsInv, RowsTypeOK, Editing, NoEdit, Holding
  <2>2. \A edit \in Edits : /\ edit.row \in MenuItemIds \cup CategoryIds /\ edit.to \subseteq CategoryIds
                            /\ edit.row \in CategoryIds => edit.to = {}
    BY MenuRows DEF Edits, Optional
  <2>. QED BY <2>1, <2>2
<1>3. ASSUME NEW e \in Holders PROVE editing[e].pc \in {"updating", "entered"}
  <2>1. editing[e].pc # "holding"
    BY <1>1 DEF BlocksEdit
  <2>. QED BY <2>1 DEF Holding
<1>4. ASSUME NEW e \in Holders, editing[e].pc = "entered" PROVE OfCategories # {} /\ e \notin OfCategories
  <2>1. PICK f \in T : f \in UNION {BlocksReference(c) :
                                      c \in {d \in editing[e].edit.to : d # menu[editing[e].edit.row].category}}
    BY <1>1, <1>4 DEF BlocksEdit
  <2>2. PICK c \in editing[e].edit.to : f \in Updating(c)
    BY <2>1 DEF BlocksReference
  <2>3. f \in OfCategories
    BY <1>2, <2>2 DEF Updating
  <2>. QED BY <1>2, <2>2, <2>3
\* Who has updated its row waits for another one of the same table.
<1>5. ASSUME NEW e \in Holders, editing[e].pc = "updating"
      PROVE  \E f \in Holders : /\ f \in BlocksName(e) /\ editing[f].edit.row # editing[e].edit.row
                                /\ editing[f].edit.row \in CategoryIds <=> editing[e].edit.row \in CategoryIds
                                /\ editing[f].pc # "entered" => Asks(e, editing[f].edit.row, menu[editing[f].edit.row])
  <2>1. PICK f \in T : f \in BlocksName(e)
    BY <1>1, <1>5 DEF BlocksEdit
  <2>2. f \in Holders /\ f # e
    BY <2>1 DEF BlocksName, Holding
  <2>3. editing[e].edit.row \in MenuItemIds <=> editing[f].edit.row \in MenuItemIds
    BY <2>1 DEF BlocksName, Asks, SameKey
  <2>4. editing[f].edit.row \in CategoryIds <=> editing[e].edit.row \in CategoryIds
    BY <1>2, <2>2, <2>3, MenuRows
  <2>5. editing[f].edit.row # editing[e].edit.row
    BY <2>2 DEF RowsInv, EditorsApart
  <2>6. editing[f].pc # "entered" => Asks(e, editing[f].edit.row, menu[editing[f].edit.row])
    BY <2>1 DEF BlocksName
  <2>. QED BY <2>1, <2>2, <2>4, <2>5, <2>6
<1>6. CASE OfCategories # {}
  <2>1. \A e \in OfCategories : editing[e].pc = "updating"
    BY <1>3, <1>4
  <2>2. Trade(OfCategories)
    BY <1>5, <2>1 DEF Trade
  <2>. QED BY <1>6, <2>2
<1>7. CASE OfCategories = {}
  <2>1. \A e \in Holders : editing[e].pc = "updating"
    BY <1>3, <1>4, <1>7
  <2>2. Trade(Holders)
    <3>. HIDE DEF Holders
    <3>. QED BY <1>5, <2>1 DEF Trade
  <2>3. \A x : Updating(x) \cap T \subseteq Holders
    BY DEF Updating
  <2>4. ASSUME NEW b \in T \cap Buyers PROVE Holders # {}
    <3>1. BlocksRead(b) = {} \/ \E x : BlocksRead(b) = Updating(x)
      BY DEF BlocksRead
    <3>2. BlocksRead(b) \cap T # {}
      BY DEF Blocks
    <3>. QED BY <2>3, <3>1, <3>2
  <2>5. ASSUME NEW e \in T \cap Editors PROVE Holders # {}
    <3>1. CASE editing[e].pc \in Holding
      BY <3>1
    <3>2. CASE editing[e].pc \notin Holding
      <4>1. BlocksEdit(e) = {} \/ \E x : BlocksEdit(e) = Sharing(x) \cup Updating(x)
        BY <3>2 DEF BlocksEdit, Holding
      <4>. QED BY <1>1, <2>3, <2>4, <4>1 DEF Sharing
    <3>. QED BY <3>1, <3>2
  <2>6. Holders # {}
    BY <2>4, <2>5
  <2>. QED BY <2>2, <2>6
<1>. QED BY <1>6, <1>7

\* Row locks, names and foreign keys are awaited in a circle only where edits trade names or
\* places; no creation of an order is needed for a circle, nor helps to close one.
THEOREM CirclesAreTradesAlways == RowsSpec => []CirclesAreTrades
<1>1. RowsInv => CirclesAreTrades
  BY CircleTrades DEF CirclesAreTrades
<1>. QED BY <1>1, RowsStart, RowsKeep, PTL DEF RowsSpec


-----------------------------------------------------------------------------
(* The server process.                                                     *)

LEMMA HandlingStarts == HandlingInit => HandlingTypeOK
<1>. SUFFICES ASSUME HandlingInit PROVE HandlingTypeOK
  OBVIOUS
<1>1. \A c \in Calls : call[c].kind = "read" /\ call[c].at = "closed"
  BY DEF HandlingInit, At
<1>2. Cardinality(Connected) <= PoolSize
  <2>1. Connected = {}
    BY <1>1 DEF Connected
  <2>. QED BY <2>1, FS_EmptySet, Pool
<1>. QED BY <1>1, <1>2, Pool DEF HandlingInit, HandlingTypeOK, At, Kinds, Places

\* A call that goes on takes no connection, but when it connects; then there is room for it.
LEMMA ConnectionsKept ==
    ASSUME HandlingTypeOK, NEW c \in Calls, NEW C \in SUBSET Calls,
           C \subseteq Connected \/ (HasRoomFor(c) /\ C \subseteq Connected \cup {c})
    PROVE  Cardinality(C) <= PoolSize
<1>1. Connected \subseteq Calls /\ IsFiniteSet(Connected) /\ IsFiniteSet(C) /\ Cardinality(C) \in Nat
  <2>1. Connected \subseteq Calls
    BY DEF Connected
  <2>. QED BY <2>1, Pool, FS_Subset, FS_CardinalityType
<1>2. CASE C \subseteq Connected
  <2>1. Cardinality(C) <= Cardinality(Connected) /\ Cardinality(Connected) \in Nat
    BY <1>1, <1>2, FS_Subset, FS_CardinalityType
  <2>. QED BY <1>1, <2>1, Pool DEF HandlingTypeOK
<1>3. CASE HasRoomFor(c) /\ C \subseteq Connected \cup {c}
  <2>. DEFINE D == Connected \ {c}
  <2>1. IsFiniteSet(D) /\ c \notin D /\ Cardinality(D) \in Nat /\ Cardinality(D) < PoolSize
    BY <1>1, <1>3, FS_Subset, FS_CardinalityType DEF HasRoomFor
  <2>. HIDE DEF D
  <2>2. IsFiniteSet(D \cup {c}) /\ Cardinality(D \cup {c}) = Cardinality(D) + 1
    BY <2>1, FS_AddElement
  <2>3. C \subseteq D \cup {c}
    BY <1>3 DEF D
  <2>4. Cardinality(C) <= Cardinality(D \cup {c})
    BY <2>2, <2>3, FS_Subset
  <2>. QED BY <1>1, <2>1, <2>2, <2>4, Pool
<1>. QED BY <1>2, <1>3

\* One call moves.
LEMMA CallStep ==
    ASSUME HandlingTypeOK, NEW c \in Calls, NEW k \in Kinds, NEW place \in Places,
           call' = [call EXCEPT ![c] = At(k, place)],
           k = call[c].kind \/ place = "arrived",
           \/ place \notin {"connected", "locked"} /\ ~(k = "read" /\ place \in {"returned", "responded"})
           \/ c \in Connected
           \/ HasRoomFor(c),
           \/ place = "locked" /\ row = NoCall /\ row' = c
           \/ place # "locked" /\ call[c].at = "locked" /\ row' = NoCall
           \/ place # "locked" /\ call[c].at # "locked" /\ row' = row,
           \/ loop' = loop /\ (loop = c => place \in {"connected", "locked"} /\ k = call[c].kind)
           \/ loop' = c /\ k \in OnLoop /\ place = "waiting"
           \/ loop' = NoCall
    PROVE  HandlingTypeOK'
<1>1. /\ call' \in [Calls -> [kind : Kinds, at : Places]]
      /\ call'[c].kind = k /\ call'[c].at = place
      /\ \A d \in Calls \ {c} : call'[d] = call[d]
  BY DEF HandlingTypeOK, At
<1>2. loop' \in Calls \cup {NoCall} /\ row' \in Calls \cup {NoCall}
  BY DEF HandlingTypeOK
<1>3. loop' # NoCall => call'[loop'].kind \in OnLoop /\ call'[loop'].at \in {"waiting", "connected", "locked"}
  BY <1>1 DEF HandlingTypeOK
<1>4. \A d \in Calls : row' = d <=> call'[d].at = "locked"
  BY <1>1, Pool DEF HandlingTypeOK
<1>5. Cardinality(Connected') <= PoolSize
  <2>1. Connected' \subseteq Calls /\ Connected' \subseteq Connected \cup {c}
    BY <1>1 DEF Connected
  <2>2. place \notin {"connected", "locked"} /\ ~(k = "read" /\ place \in {"returned", "responded"})
          => Connected' \subseteq Connected
    BY <1>1 DEF Connected
  <2>. QED BY <2>1, <2>2, ConnectionsKept
<1>. QED BY <1>1, <1>2, <1>3, <1>4, <1>5 DEF HandlingTypeOK

LEMMA HandlingKeeps == HandlingTypeOK /\ [HandlingNext]_handlingVars => HandlingTypeOK'
<1>. SUFFICES ASSUME HandlingTypeOK, [HandlingNext]_handlingVars PROVE HandlingTypeOK'
  OBVIOUS
<1>1. ASSUME NEW c \in Calls, Arrive(c) PROVE HandlingTypeOK'
  <2>1. PICK k \in Kinds : call' = [call EXCEPT ![c] = At(k, "arrived")]
    BY <1>1 DEF Arrive
  <2>2. loop # c /\ call[c].at # "locked" /\ "arrived" \in Places /\ UNCHANGED <<loop, row>>
    BY <1>1, Pool DEF Arrive, HandlingTypeOK, Places
  <2>. QED BY <2>1, <2>2, CallStep
<1>2. ASSUME NEW c \in Calls, Serve(c) PROVE HandlingTypeOK'
  <2>1. call[c] \in [kind : Kinds, at : Places] /\ call \in [Calls -> [kind : Kinds, at : Places]]
    BY DEF HandlingTypeOK
  <2>2. \A place : Move(c, place) => call' = [call EXCEPT ![c] = At(call[c].kind, place)]
    BY <2>1 DEF Move, At
  <2>3. CASE Dispatch(c)
    BY <1>2, <2>1, <2>2, <2>3, CallStep DEF Dispatch, Places
  <2>4. CASE Connect(c)
    BY <1>2, <2>1, <2>2, <2>4, CallStep DEF Connect, Places
  <2>5. CASE PoolTimeout(c)
    BY <1>2, <2>1, <2>2, <2>5, CallStep DEF PoolTimeout, Return, Places, HandlingTypeOK
  <2>6. CASE LockRow(c)
    BY <1>2, <2>1, <2>2, <2>6, CallStep DEF LockRow, Places, Connected
  <2>7. CASE Finish(c)
    <3>1. /\ call' = [call EXCEPT ![c] = At(call[c].kind, "returned")] /\ c \in Connected
          /\ (loop' = loop /\ loop # c) \/ loop' = NoCall
          /\ \/ call[c].at = "locked" /\ row' = NoCall
             \/ call[c].at # "locked" /\ row' = row
      BY <2>2, <2>7 DEF Finish, Return, Connected, HandlingTypeOK
    <3>. QED BY <2>1, <3>1, CallStep DEF Places
  <2>8. CASE Respond(c)
    BY <1>2, <2>1, <2>2, <2>8, CallStep DEF Respond, Places, Connected
  <2>9. CASE CloseSession(c)
    BY <1>2, <2>1, <2>2, <2>9, CallStep DEF CloseSession, Places, HandlingTypeOK
  <2>. QED BY <1>2, <2>3, <2>4, <2>5, <2>6, <2>7, <2>8, <2>9 DEF Serve
<1>3. CASE UNCHANGED handlingVars
  BY <1>3 DEF handlingVars, HandlingTypeOK, Connected
<1>. QED BY <1>1, <1>2, <1>3 DEF HandlingNext

\* No more connections than the pool has, and the order's row is locked by one call at a time.
THEOREM HandlingTypeCorrect == HandlingInit /\ [][HandlingNext]_handlingVars => []HandlingTypeOK
BY HandlingStarts, HandlingKeeps, PTL


-----------------------------------------------------------------------------
(* The operators' commands.                                                *)

Holds(c) == c.at \in {"locked", "begun", "read", "written", "committed", "failed"}

\* A command that has had its turn holds its lock until it ends, and nobody else does.
Turn(o, c) == Holds(c) => advisory[LockOf(c.does)] = o
Taken(l, o) == o # Nobody => Holds(command[o]) /\ LockOf(command[o].does) = l

\* What a command saw is still so, but for a registration with the reserved address that comes
\* before the flush.
Sound(c) ==
    /\ c.does = "migrate" => /\ c.at = "written" => database.revision <= c.release
                             /\ c.at = "committed" => database.revision = c.release
    /\ c.at \in {"read", "written"} =>
         /\ c.does = "seed" => c.saw = "empty" /\ database.portfolio = "empty"
         /\ c.does = "deactivate" => c.saw = "active" /\ database.demo = "active"
         /\ c.does = "provision" => /\ c.saw = "missing" /\ database.demo \in {"missing", "drifted"}
                                    /\ c.at = "written" => database.demo = "missing"
         /\ c.does = "bootstrap" => database.admins = 0

DeploymentInv ==
    /\ DeploymentTypeOK
    /\ database.admins <= 1
    /\ \A o \in Operators : Turn(o, command[o]) /\ Sound(command[o])
    /\ \A l \in Locks : Taken(l, advisory[l])

Records == [does : Commands \cup {"nothing"}, release : 0..HeadRevision,
            saw : Portfolio \cup DemoAdmin \cup {"unread"}, at : Outcomes \cup Stages]

LEMMA LocksAre == Locks = {"migrate", "seed", "demo", "bootstrap"} /\ \A c \in Commands : LockOf(c) \in Locks
BY DEF Locks, LockOf, Commands

LEMMA EndedIs ==
    ASSUME NEW how \in Outcomes
    PROVE  Ended(how) \in Records /\ Ended(how).does = "nothing" /\ Ended(how).at = how
BY Releases DEF Ended, Records

LEMMA DeploymentStarts == DeploymentInit => DeploymentInv
<1>. SUFFICES ASSUME DeploymentInit PROVE DeploymentInv
  OBVIOUS
<1>1. \A o \in Operators : command[o] = Ended("idle") /\ command[o].does = "nothing" /\ command[o].at = "idle"
  BY DEF DeploymentInit, Ended
<1>2. database \in Database /\ database.admins = 0
  BY Releases DEF DeploymentInit, Database, Portfolio, DemoAdmin
<1>3. command \in [Operators -> Records]
  BY EndedIs DEF DeploymentInit, Outcomes
<1>4. \A l \in Locks : advisory[l] = Nobody
  BY DEF DeploymentInit
<1>5. DeploymentTypeOK
  BY <1>1, <1>2, <1>3 DEF DeploymentTypeOK, Records, DeploymentInit, Outcomes
<1>6. \A o \in Operators : Turn(o, command[o]) /\ Sound(command[o])
  BY <1>1 DEF Turn, Sound, Holds
<1>. QED BY <1>2, <1>4, <1>5, <1>6 DEF DeploymentInv, Taken

\* Commands of one lock are never both past it.
LEMMA OneHolds ==
    ASSUME DeploymentInv, NEW o \in Operators, NEW p \in Operators, Holds(command[o]), Holds(command[p]),
           LockOf(command[o].does) = LockOf(command[p].does)
    PROVE  o = p
BY DEF DeploymentInv, Turn

\* One operator's step: what becomes of its lock, given that what all have seen remains sound.
LEMMA OperatorStep ==
    ASSUME DeploymentInv, NEW o \in Operators, NEW c \in Records,
           command' = [command EXCEPT ![o] = c], c.does = "nothing" <=> c.at \in Outcomes,
           database' \in Database, database'.admins <= 1,
           Sound(c)', \A p \in Operators \ {o} : \A d \in Records : d = command[p] => Sound(d)',
           \/ Holds(c) /\ Holds(command[o]) /\ c.does = command[o].does /\ advisory' = advisory
           \/ Holds(c) /\ ~Holds(command[o]) /\ c.does \in Commands /\ advisory[LockOf(c.does)] = Nobody
                /\ advisory' = [advisory EXCEPT ![LockOf(c.does)] = o]
           \/ ~Holds(c) /\ ~Holds(command[o]) /\ advisory' = advisory
           \/ ~Holds(c) /\ advisory' = Unlocked(o)
    PROVE  DeploymentInv'
<1>1. /\ command \in [Operators -> Records] /\ advisory \in [Locks -> Operators \cup {Nobody}]
      /\ \A p \in Operators : command[p].does = "nothing" <=> command[p].at \in Outcomes
  BY DEF DeploymentInv, DeploymentTypeOK, Records
<1>2. command' \in [Operators -> Records] /\ \A p \in Operators : command'[p] = IF p = o THEN c ELSE command[p]
  BY <1>1
<1>3. \A d \in Records : Holds(d) /\ (d.does = "nothing" <=> d.at \in Outcomes) => d.does \in Commands /\ LockOf(d.does) \in Locks
  BY LocksAre DEF Holds, Records, Outcomes
<1>4. advisory' \in [Locks -> Operators \cup {Nobody}]
  BY <1>1 DEF Unlocked
<1>5. DeploymentTypeOK'
  BY <1>1, <1>2, <1>4 DEF DeploymentTypeOK, Records
<1>6. ASSUME NEW p \in Operators PROVE \A d \in Records : d = command'[p] => Sound(d)'
  BY <1>1, <1>2
<1>7. /\ \A p \in Operators : \A d \in Records : d = command[p] => Turn(p, d)
      /\ \A l \in Locks : \A p \in Operators : advisory[l] = p => Holds(command[p]) /\ LockOf(command[p].does) = l
  BY <1>1, Releases DEF DeploymentInv, Taken
<1>8. /\ \A p \in Operators : Holds(command'[p]) => advisory'[LockOf(command'[p].does)] = p
      /\ \A l \in Locks : \A p \in Operators : advisory'[l] = p => Holds(command'[p]) /\ LockOf(command'[p].does) = l
  <2>1. /\ \A p \in Operators : Holds(command[p]) => advisory[LockOf(command[p].does)] = p /\ LockOf(command[p].does) \in Locks
        /\ o # Nobody
    BY <1>1, <1>3, <1>7, Releases DEF Turn
  <2>2. CASE Holds(c) /\ Holds(command[o]) /\ c.does = command[o].does /\ advisory' = advisory
    BY <1>1, <1>2, <1>7, <2>1, <2>2
  <2>3. CASE Holds(c) /\ ~Holds(command[o]) /\ c.does \in Commands /\ advisory[LockOf(c.does)] = Nobody
               /\ advisory' = [advisory EXCEPT ![LockOf(c.does)] = o]
    <3>1. LockOf(c.does) \in Locks
      BY <2>3, LocksAre
    <3>2. \A l \in Locks : advisory'[l] = IF l = LockOf(c.does) THEN o ELSE advisory[l]
      BY <1>1, <2>3
    <3>. QED BY <1>1, <1>2, <1>7, <2>1, <2>3, <3>1, <3>2, Releases
  <2>4. CASE ~Holds(c) /\ ~Holds(command[o]) /\ advisory' = advisory
    BY <1>1, <1>2, <1>7, <2>1, <2>4
  <2>5. CASE ~Holds(c) /\ advisory' = Unlocked(o)
    <3>1. \A l \in Locks : advisory'[l] = IF advisory[l] = o THEN Nobody ELSE advisory[l]
      BY <2>5 DEF Unlocked
    <3>. QED BY <1>1, <1>2, <1>7, <2>1, <2>5, <3>1, Releases
  <2>. QED BY <2>2, <2>3, <2>4, <2>5
<1>9. ASSUME NEW p \in Operators PROVE Turn(p, command[p])' /\ Sound(command[p])'
  <2>1. PICK d \in Records : d = command'[p]
    BY <1>2
  <2>. QED BY <1>6, <1>8, <2>1 DEF Turn, Sound
<1>10. ASSUME NEW l \in Locks PROVE Taken(l, advisory[l])'
  BY <1>4, <1>8 DEF Taken
<1>. QED BY <1>5, <1>9, <1>10 DEF DeploymentInv

\* A step that commits nothing leaves what the others have seen as it is.
LEMMA QuietStep ==
    ASSUME DeploymentInv, NEW o \in Operators, NEW c \in Records, UNCHANGED database,
           command' = [command EXCEPT ![o] = c], c.does = "nothing" <=> c.at \in Outcomes,
           Sound(c),
           \/ Holds(c) /\ Holds(command[o]) /\ c.does = command[o].does /\ advisory' = advisory
           \/ Holds(c) /\ ~Holds(command[o]) /\ c.does \in Commands /\ advisory[LockOf(c.does)] = Nobody
                /\ advisory' = [advisory EXCEPT ![LockOf(c.does)] = o]
           \/ ~Holds(c) /\ ~Holds(command[o]) /\ advisory' = advisory
           \/ ~Holds(c) /\ advisory' = Unlocked(o)
    PROVE  DeploymentInv'
<1>1. database' \in Database /\ database'.admins <= 1
  BY DEF DeploymentInv, DeploymentTypeOK
<1>2. Sound(c)'
  BY DEF Sound
<1>3. \A p \in Operators \ {o} : \A d \in Records : d = command[p] => Sound(d)'
  BY DEF DeploymentInv, Sound
<1>. QED BY <1>1, <1>2, <1>3, OperatorStep

LEMMA ReachIs ==
    ASSUME DeploymentInv, NEW o \in Operators, NEW at \in Stages, Reach(o, at)
    PROVE  \E c \in Records :
              /\ c.does = command[o].does /\ c.release = command[o].release /\ c.saw = command[o].saw
              /\ c.at = at /\ command' = [command EXCEPT ![o] = c]
<1>1. command \in [Operators -> Records]
  BY DEF DeploymentInv, DeploymentTypeOK, Records
<1>. DEFINE c == [command[o] EXCEPT !.at = at]
<1>2. command' = [command EXCEPT ![o] = c]
  BY <1>1 DEF Reach
<1>3. /\ c \in Records /\ c.at = at
      /\ c.does = command[o].does /\ c.release = command[o].release /\ c.saw = command[o].saw
  BY <1>1 DEF Records
<1>. QED BY <1>2, <1>3

LEMMA ReachStep ==
    ASSUME DeploymentInv, NEW o \in Operators, NEW at \in Stages, Reach(o, at), UNCHANGED database,
           command[o].does \in Commands,
           \A c \in Records : c.does = command[o].does /\ c.release = command[o].release
                                /\ c.saw = command[o].saw /\ c.at = at => Sound(c),
           \/ Holds(command[o]) /\ at \notin {"connected", "verified"} /\ advisory' = advisory
           \/ ~Holds(command[o]) /\ at = "verified" /\ advisory' = advisory
           \/ ~Holds(command[o]) /\ at = "locked" /\ advisory[LockOf(command[o].does)] = Nobody
                /\ advisory' = [advisory EXCEPT ![LockOf(command[o].does)] = o]
    PROVE  DeploymentInv'
<1>1. PICK c \in Records : /\ c.does = command[o].does /\ c.release = command[o].release
                           /\ c.saw = command[o].saw /\ c.at = at /\ command' = [command EXCEPT ![o] = c]
  BY ReachIs
<1>2. c.does # "nothing" /\ c.at \notin Outcomes /\ (Holds(c) <=> at \notin {"connected", "verified"})
  BY <1>1 DEF Stages, Outcomes, Holds, Commands
<1>. QED BY <1>1, <1>2, QuietStep

LEMMA EndedStep ==
    ASSUME DeploymentInv, NEW o \in Operators, NEW how \in Outcomes, End(o, how), UNCHANGED database,
           advisory' = Unlocked(o) \/ (~Holds(command[o]) /\ advisory' = advisory)
    PROVE  DeploymentInv'
<1>. DEFINE c == Ended(how)
<1>1. command' = [command EXCEPT ![o] = c]
  BY DEF End
<1>2. c \in Records /\ c.does = "nothing" /\ c.at = how
  BY EndedIs
<1>. HIDE DEF c
<1>3. ~Holds(c) /\ Sound(c)
  BY <1>2 DEF Holds, Outcomes, Sound
<1>. QED BY <1>1, <1>2, <1>3, QuietStep

LEMMA LaunchStep ==
    ASSUME DeploymentInv, NEW o \in Operators, Launch(o)
    PROVE  DeploymentInv'
<1>1. PICK does \in Commands, release \in 1..HeadRevision :
        command' = [command EXCEPT ![o] = [does |-> does, release |-> release, saw |-> "unread", at |-> "connected"]]
  BY DEF Launch
<1>. DEFINE c == [does |-> does, release |-> release, saw |-> "unread", at |-> "connected"]
<1>2. c \in Records /\ c.does = does /\ c.at = "connected" /\ does # "nothing" /\ c.at \notin Outcomes
  BY Releases DEF Records, Commands, Stages, Outcomes
<1>. HIDE DEF c
<1>3. ~Holds(c) /\ Sound(c) /\ ~Holds(command[o])
  BY <1>2 DEF Holds, Sound, Launch
<1>. QED BY <1>1, <1>2, <1>3, QuietStep DEF Launch, c

LEMMA OutsideStep ==
    ASSUME DeploymentInv, NEW o \in Operators,
           Dismiss(o) \/ VerifyPortfolio(o) \/ AcquireLock(o) \/ Crash(o)
    PROVE  DeploymentInv'
<1>1. \A at \in Outcomes \cup Stages : at \in Outcomes => at \notin Stages
  BY DEF Outcomes, Stages
<1>2. /\ command[o].does \in Commands \cup {"nothing"} /\ command[o].at \in Outcomes \cup Stages
      /\ command[o].does = "nothing" <=> command[o].at \in Outcomes
  BY DEF DeploymentInv, DeploymentTypeOK
<1>3. CASE Dismiss(o)
  BY <1>3, EndedStep DEF Dismiss, Outcomes, Holds
<1>4. CASE VerifyPortfolio(o)
  <2>1. ~Holds(command[o]) /\ command[o].does \in Commands /\ UNCHANGED <<database, advisory>>
    BY <1>4 DEF VerifyPortfolio, Is, Holds, Commands
  <2>2. Reach(o, "verified") \/ End(o, "refused")
    BY <1>4 DEF VerifyPortfolio
  <2>3. \A c \in Records : c.at = "verified" => Sound(c)
    BY DEF Sound
  <2>. QED BY <2>1, <2>2, <2>3, ReachStep, EndedStep DEF Outcomes, Stages
<1>5. CASE AcquireLock(o)
  <2>1. ~Holds(command[o]) /\ command[o].does \in Commands /\ UNCHANGED database
    BY <1>5 DEF AcquireLock, ReadyToLock, Is, Holds, Commands
  <2>2. \A c \in Records : c.at = "locked" => Sound(c)
    BY DEF Sound
  <2>3. \/ /\ advisory[LockOf(command[o].does)] = Nobody /\ Reach(o, "locked")
           /\ advisory' = [advisory EXCEPT ![LockOf(command[o].does)] = o]
        \/ End(o, "locked_out") /\ UNCHANGED advisory
    BY <1>5 DEF AcquireLock
  <2>. QED BY <2>1, <2>2, <2>3, ReachStep, EndedStep DEF Outcomes, Stages
<1>6. CASE Crash(o)
  BY <1>6, EndedStep DEF Crash, EndTransaction, Outcomes
<1>. QED BY <1>3, <1>4, <1>5, <1>6

LEMMA MigrationStep ==
    ASSUME DeploymentInv, NEW o \in Operators,
           CommitPreflight(o) \/ UpgradeExactRevision(o) \/ FailMigration(o) \/ CleanupSession(o)
    PROVE  DeploymentInv'
<1>1. UNCHANGED database /\ Holds(command[o]) /\ command[o].does = "migrate"
  BY DEF CommitPreflight, UpgradeExactRevision, FailMigration, CleanupSession, Is, Holds
<1>2. CASE CommitPreflight(o)
  <2>1. \A c \in Records : c.at = "begun" => Sound(c)
    BY DEF Sound
  <2>. QED BY <1>1, <1>2, <2>1, ReachStep DEF CommitPreflight, KeptByPreflight, Commands, Stages
<1>3. ASSUME Reach(o, "failed"), UNCHANGED advisory PROVE DeploymentInv'
  <2>1. \A c \in Records : c.at = "failed" => Sound(c)
    BY DEF Sound
  <2>. QED BY <1>1, <1>3, <2>1, ReachStep DEF Commands, Stages
<1>4. ASSUME Reach(o, "written"), UNCHANGED advisory, database.revision <= command[o].release
      PROVE  DeploymentInv'
  <2>1. \A c \in Records : c.does = "migrate" /\ c.at = "written" /\ c.release = command[o].release => Sound(c)
    BY <1>4 DEF Sound
  <2>. QED BY <1>1, <1>4, <2>1, ReachStep DEF Commands, Stages
<1>5. CASE CleanupSession(o)
  BY <1>1, <1>5, EndedStep DEF CleanupSession, EndTransaction, Outcomes
<1>. QED BY <1>2, <1>3, <1>4, <1>5 DEF UpgradeExactRevision, FailMigration

LEMMA CommitUpgradeStep ==
    ASSUME DeploymentInv, NEW o \in Operators, CommitUpgrade(o)
    PROVE  DeploymentInv'
<1>1. /\ command[o].does = "migrate" /\ command[o].at = "written" /\ Holds(command[o])
      /\ database' = [database EXCEPT !.revision = command[o].release] /\ UNCHANGED advisory
      /\ Reach(o, "committed")
  BY DEF CommitUpgrade, Is, Holds
<1>2. PICK c \in Records : /\ c.does = command[o].does /\ c.release = command[o].release
                           /\ c.saw = command[o].saw /\ c.at = "committed" /\ command' = [command EXCEPT ![o] = c]
  BY <1>1, ReachIs DEF Stages
<1>3. /\ database' \in Database /\ database'.revision = c.release /\ database'.admins = database.admins
      /\ database'.demo = database.demo /\ database'.portfolio = database.portfolio
  BY <1>1, <1>2 DEF DeploymentInv, DeploymentTypeOK, Database, Records
<1>4. Holds(c) /\ Sound(c)' /\ c.does # "nothing" /\ c.at \notin Outcomes
  BY <1>1, <1>2, <1>3 DEF Holds, Sound, Outcomes
<1>5. ASSUME NEW p \in Operators \ {o}, NEW d \in Records, d = command[p] PROVE Sound(d)'
  <2>1. Sound(d)
    BY <1>5 DEF DeploymentInv
  <2>2. d.at \in {"written", "committed"} => d.does # "migrate"
    BY <1>1, <1>5, OneHolds DEF Holds
  <2>. QED BY <1>3, <2>1, <2>2 DEF Sound
<1>. QED BY <1>1, <1>2, <1>3, <1>4, <1>5, OperatorStep DEF DeploymentInv

LEMMA RowsOfCommandStep ==
    ASSUME DeploymentInv, NEW o \in Operators, ReadRows(o) \/ WriteRows(o)
    PROVE  DeploymentInv'
<1>1. /\ UNCHANGED database /\ Holds(command[o]) /\ command[o].does \in Commands \ {"migrate"}
      /\ command[o] \in Records /\ command \in [Operators -> Records]
  BY DEF ReadRows, WriteRows, Is, Holds, DeploymentInv, DeploymentTypeOK, Records
<1>2. ASSUME NEW how \in Outcomes, EndTransaction(o, how) PROVE DeploymentInv'
  BY <1>1, <1>2, EndedStep DEF EndTransaction
<1>3. CASE ReadRows(o)
  <2>. DEFINE saw == Subject(command[o].does)
              c == [command[o] EXCEPT !.at = "read", !.saw = saw]
  <2>1. SUFFICES ASSUME <<command[o].does, saw>> \in Writes, command' = [command EXCEPT ![o] = c], UNCHANGED advisory
                 PROVE  DeploymentInv'
    <3>1. \/ \E how \in Outcomes : EndTransaction(o, how)
          \/ /\ <<command[o].does, saw>> \in Writes /\ UNCHANGED advisory
             /\ command' = [command EXCEPT ![o].at = "read", ![o].saw = saw]
      BY <1>3 DEF ReadRows, Outcomes
    <3>. QED BY <1>1, <1>2, <2>1, <3>1
  <2>2. saw \in Portfolio \cup DemoAdmin
    BY <2>1 DEF Writes, Portfolio, DemoAdmin
  <2>3. /\ c \in Records /\ c.does = command[o].does /\ c.saw = saw /\ c.at = "read"
        /\ Holds(c) /\ c.at \notin Outcomes /\ c.does # "nothing"
    BY <1>1, <2>2 DEF Records, Stages, Holds, Outcomes, Commands
  <2>4. /\ command[o].does = "seed" => saw = "empty" /\ database.portfolio = "empty"
        /\ command[o].does = "deactivate" => saw = "active" /\ database.demo = "active"
        /\ command[o].does = "provision" => saw = "missing" /\ database.demo = "missing"
        /\ command[o].does = "bootstrap" => database.admins = 0
    BY <2>1 DEF Writes, Subject
  <2>. HIDE DEF saw, c
  <2>5. Sound(c)
    BY <1>1, <2>3, <2>4 DEF Sound
  <2>. QED BY <1>1, <2>1, <2>3, <2>5, QuietStep
<1>4. CASE WriteRows(o)
  <2>1. SUFFICES ASSUME command[o].does = "bootstrap" \/ command[o].saw = Subject(command[o].does),
                        command[o].at = "read", Reach(o, "written"), UNCHANGED advisory
                 PROVE  DeploymentInv'
    BY <1>2, <1>4 DEF WriteRows, Outcomes, Is
  <2>2. Sound(command[o])
    BY DEF DeploymentInv
  <2>3. command[o].does = "provision" => database.demo = "missing"
    BY <2>1, <2>2 DEF Sound, Subject
  <2>4. \A c \in Records : c.does = command[o].does /\ c.saw = command[o].saw /\ c.at = "written" => Sound(c)
    BY <1>1, <2>1, <2>2, <2>3 DEF Sound
  <2>. QED BY <1>1, <2>1, <2>4, ReachStep DEF Stages, Commands
<1>. QED BY <1>3, <1>4

LEMMA CommitStep ==
    ASSUME DeploymentInv, NEW o \in Operators, Commit(o)
    PROVE  DeploymentInv'
<1>. DEFINE c == Ended("done")
<1>1. /\ command[o].does \in Commands \ {"migrate"} /\ command[o].at = "written" /\ Holds(command[o])
      /\ command' = [command EXCEPT ![o] = c] /\ advisory' = Unlocked(o)
  BY DEF Commit, Is, Holds, EndTransaction, End
<1>2. c \in Records /\ c.does = "nothing" /\ c.at = "done" /\ c.at \in Outcomes
  BY EndedIs DEF Outcomes
<1>. HIDE DEF c
<1>3. ~Holds(c) /\ Sound(c)'
  BY <1>2 DEF Holds, Sound
<1>4. database \in Database /\ database.admins <= 1 /\ Sound(command[o])
  BY DEF DeploymentInv, DeploymentTypeOK
<1>5. /\ database' \in Database /\ database'.admins <= 1 /\ database'.revision = database.revision
      /\ command[o].does # "seed" => database'.portfolio = database.portfolio
      /\ command[o].does \notin {"provision", "deactivate"} => database'.demo = database.demo
      /\ command[o].does # "bootstrap" => database'.admins = database.admins
  <2>1. CASE command[o].does = "seed"
    BY <1>4, <2>1 DEF Commit, Database, Portfolio
  <2>2. CASE command[o].does = "provision"
    BY <1>4, <2>2 DEF Commit, Database, DemoAdmin
  <2>3. CASE command[o].does = "deactivate"
    BY <1>4, <2>3 DEF Commit, Database, DemoAdmin
  <2>4. CASE command[o].does = "bootstrap"
    <3>1. database.admins = 0 /\ database' = [database EXCEPT !.admins = @ + 1]
      BY <1>1, <1>4, <2>4 DEF Sound, Commit
    <3>. QED BY <1>4, <2>4, <3>1 DEF Database
  <2>. QED BY <1>1, <2>1, <2>2, <2>3, <2>4 DEF Commands
<1>6. ASSUME NEW p \in Operators \ {o}, NEW d \in Records, d = command[p] PROVE Sound(d)'
  <2>1. Sound(d)
    BY <1>6 DEF DeploymentInv
  <2>2. d.at \in {"read", "written"} => LockOf(d.does) # LockOf(command[o].does)
    BY <1>1, <1>6, OneHolds DEF Holds
  <2>. QED BY <1>5, <2>1, <2>2 DEF Sound, LockOf
<1>. QED BY <1>1, <1>2, <1>3, <1>5, <1>6, OperatorStep

LEMMA RegisterStep ==
    ASSUME DeploymentInv, RegisterReserved
    PROVE  DeploymentInv'
<1>1. /\ database.demo = "missing" /\ database' = [database EXCEPT !.demo = "drifted"]
      /\ \A p \in Operators : ~(command[p].does = "provision" /\ command[p].at = "written")
      /\ UNCHANGED <<advisory, command>>
  BY DEF RegisterReserved, Is
<1>2. /\ database' \in Database /\ database'.demo = "drifted" /\ database'.admins = database.admins
      /\ database'.revision = database.revision /\ database'.portfolio = database.portfolio
  BY <1>1 DEF DeploymentInv, DeploymentTypeOK, Database, DemoAdmin
<1>3. ASSUME NEW p \in Operators PROVE Sound(command[p])' /\ Turn(p, command[p])'
  BY <1>1, <1>2 DEF DeploymentInv, Sound, Turn
<1>. QED BY <1>1, <1>2, <1>3 DEF DeploymentInv, DeploymentTypeOK, Taken

LEMMA DeploymentKeeps == DeploymentInv /\ [DeploymentNext]_deploymentVars => DeploymentInv'
<1>. SUFFICES ASSUME DeploymentInv, [DeploymentNext]_deploymentVars PROVE DeploymentInv'
  OBVIOUS
<1>1. ASSUME NEW o \in Operators,
             \/ Launch(o) \/ Dismiss(o) \/ VerifyPortfolio(o) \/ AcquireLock(o) \/ Crash(o)
             \/ CommitPreflight(o) \/ UpgradeExactRevision(o) \/ CommitUpgrade(o)
             \/ FailMigration(o) \/ CleanupSession(o)
             \/ ReadRows(o) \/ WriteRows(o) \/ Commit(o)
      PROVE  DeploymentInv'
  BY <1>1, LaunchStep, OutsideStep, MigrationStep, CommitUpgradeStep, RowsOfCommandStep, CommitStep
<1>2. CASE UNCHANGED deploymentVars
  BY <1>2 DEF deploymentVars, DeploymentInv, DeploymentTypeOK, Turn, Taken, Sound
<1>. QED BY <1>1, <1>2, RegisterStep DEF DeploymentNext

\* The operators' commands, locks and database keep their shape.
THEOREM DeploymentTypeCorrect == DeploymentSpec => []DeploymentTypeOK
<1>1. DeploymentInv => DeploymentTypeOK
  BY DEF DeploymentInv
<1>. QED BY <1>1, DeploymentStarts, DeploymentKeeps, PTL DEF DeploymentSpec

LEMMA AtMostOne ==
    ASSUME NEW S, \A x, y \in S : x = y
    PROVE  Cardinality(S) \in Nat /\ Cardinality(S) <= 1 /\ (S = {} => Cardinality(S) = 0)
<1>1. CASE S = {}
  BY <1>1, FS_EmptySet
<1>2. CASE S # {}
  <2>1. PICK x : S = {x}
    BY <1>2
  <2>. QED BY <1>2, <2>1, FS_Singleton
<1>. QED BY <1>1, <1>2

\* Two commands of one lock are never both past it, and whoever writes a super administrator
\* saw that there is none, which is still so.
LEMMA OneOfEach == DeploymentInv => OneAtATime
<1>. SUFFICES ASSUME DeploymentInv PROVE OneAtATime
  OBVIOUS
<1>. DEFINE migrations == {o \in Operators : command[o].does = "migrate" /\ command[o].at \in {"begun", "written"}}
            bootstraps == {o \in Operators : Is(o, {"bootstrap"}, "written")}
<1>1. \A x, y \in migrations : x = y
  BY OneHolds DEF Holds
<1>2. \A x, y \in bootstraps : x = y
  BY OneHolds DEF Holds, Is
<1>3. database.admins \in Nat /\ database.admins <= 1 /\ (bootstraps # {} => database.admins = 0)
  BY DEF DeploymentInv, DeploymentTypeOK, Database, Sound, Is
<1>4. Cardinality(migrations) <= 1
  BY <1>1, AtMostOne
<1>5. Cardinality(bootstraps) \in Nat /\ Cardinality(bootstraps) <= 1 /\ (bootstraps = {} => Cardinality(bootstraps) = 0)
  BY <1>2, AtMostOne
<1>6. database.admins + Cardinality(bootstraps) <= 1
  <2>. HIDE DEF bootstraps
  <2>. QED BY <1>3, <1>5
<1>. QED BY <1>4, <1>6 DEF OneAtATime

\* Which steps end a command with a conflict, or as done.
LEMMA HowItEnds ==
    ASSUME DeploymentInv, [DeploymentNext]_deploymentVars, NEW o \in Operators, command[o].at \in Stages
    PROVE  /\ command'[o].at = "conflict" => ReadRows(o) \/ WriteRows(o)
           /\ command'[o].at = "done" /\ command[o].does = "migrate" => CleanupSession(o)
<1>1. command \in [Operators -> Records] /\ command[o].at \notin Outcomes
  BY DEF DeploymentInv, DeploymentTypeOK, Records, Stages, Outcomes
<1>2. /\ \A p \in Operators \ {o} : \A how : End(p, how) => command'[o] = command[o]
      /\ \A p \in Operators \ {o} : \A at : Reach(p, at) => command'[o] = command[o]
      /\ \A how : End(o, how) => command'[o].at = how
      /\ \A at : Reach(o, at) => command'[o].at = at
  BY <1>1 DEF End, Reach, Ended, Records
<1>3. ASSUME NEW p \in Operators \ {o},
             \/ Launch(p) \/ Dismiss(p) \/ VerifyPortfolio(p) \/ AcquireLock(p) \/ Crash(p)
             \/ CommitPreflight(p) \/ UpgradeExactRevision(p) \/ CommitUpgrade(p)
             \/ FailMigration(p) \/ CleanupSession(p)
             \/ ReadRows(p) \/ WriteRows(p) \/ Commit(p)
      PROVE  command'[o] = command[o]
  <2>1. CASE Launch(p)
    BY <1>1, <2>1 DEF Launch
  <2>2. CASE Dismiss(p) \/ VerifyPortfolio(p) \/ AcquireLock(p) \/ Crash(p)
    BY <1>2, <2>2 DEF Dismiss, VerifyPortfolio, AcquireLock, Crash, EndTransaction
  <2>3. CASE CommitPreflight(p) \/ UpgradeExactRevision(p) \/ CommitUpgrade(p) \/ FailMigration(p) \/ CleanupSession(p)
    BY <1>2, <2>3 DEF CommitPreflight, UpgradeExactRevision, CommitUpgrade, FailMigration, CleanupSession, EndTransaction
  <2>4. CASE ReadRows(p)
    <3>1. (\E how : End(p, how)) \/ command' = [command EXCEPT ![p].at = "read", ![p].saw = Subject(command[p].does)]
      BY <2>4 DEF ReadRows, EndTransaction
    <3>. QED BY <1>1, <1>2, <3>1
  <2>5. CASE WriteRows(p) \/ Commit(p)
    BY <1>2, <2>5 DEF WriteRows, Commit, EndTransaction
  <2>. QED BY <1>3, <2>1, <2>2, <2>3, <2>4, <2>5
<1>4. ~Launch(o) /\ ~Dismiss(o)
  BY <1>1 DEF Launch, Dismiss, Outcomes
<1>5. VerifyPortfolio(o) \/ AcquireLock(o) \/ Crash(o) => command'[o].at \notin {"conflict", "done"}
  BY <1>2 DEF VerifyPortfolio, AcquireLock, Crash, EndTransaction
<1>6. CommitPreflight(o) \/ UpgradeExactRevision(o) \/ CommitUpgrade(o) \/ FailMigration(o)
        => command'[o].at \notin {"conflict", "done"}
  BY <1>2 DEF CommitPreflight, UpgradeExactRevision, CommitUpgrade, FailMigration
<1>7. /\ CleanupSession(o) \/ Commit(o) => command'[o].at # "conflict"
      /\ ReadRows(o) \/ WriteRows(o) \/ Commit(o) => command[o].does # "migrate"
  BY <1>2 DEF CleanupSession, Commit, ReadRows, WriteRows, EndTransaction, Is
<1>8. RegisterReserved \/ UNCHANGED deploymentVars => command'[o] = command[o]
  BY DEF RegisterReserved, deploymentVars
<1>9. \A p \in Operators : command'[o] # command[o] => p = o \/ p \in Operators \ {o}
  OBVIOUS
<1>. QED BY <1>1, <1>3, <1>4, <1>5, <1>6, <1>7, <1>8, <1>9 DEF DeploymentNext, Outcomes

LEMMA RealConflicts ==
    ASSUME DeploymentInv, [DeploymentNext]_deploymentVars, NEW o \in Operators
    PROVE  ConflictsAreReal(o) /\ RevisionIsVerified(o)
<1>1. Sound(command[o]) /\ command[o] \in Records /\ database \in Database /\ database.admins <= 1
  BY DEF DeploymentInv, DeploymentTypeOK, Records
<1>2. \A how : End(o, how) => command'[o].at = how
  BY DEF End, Ended, DeploymentInv, DeploymentTypeOK
<1>3. ConflictsAreReal(o)
  <2>. SUFFICES ASSUME command[o].at \in Stages, command'[o].at = "conflict"
                PROVE  /\ command[o].does \in Commands \ {"migrate"}
                       /\ command[o].does = "seed" => database.portfolio = "other"
                       /\ command[o].does = "provision" => database.demo \in {"inactive", "drifted"}
                       /\ command[o].does = "deactivate" => database.demo \in {"missing", "drifted"}
                       /\ command[o].does = "bootstrap" => database.admins = 1
    BY DEF ConflictsAreReal, Commands
  <2>1. command[o].does \in Commands \ {"migrate"}
    BY HowItEnds DEF ReadRows, WriteRows, Is
  <2>2. database.portfolio \in Portfolio /\ database.demo \in DemoAdmin /\ database.admins \in Nat
    BY <1>1 DEF Database
  <2>3. CASE ReadRows(o)
    <3>1. <<command[o].does, Subject(command[o].does)>> \notin Writes \cup Exact
      BY <1>1, <1>2, <2>3 DEF ReadRows, EndTransaction, DeploymentInv, DeploymentTypeOK
    <3>. QED BY <1>1, <2>1, <2>2, <3>1 DEF Subject, Writes, Exact, Portfolio, DemoAdmin
  <2>4. CASE WriteRows(o)
    <3>1. command[o].at = "read" /\ command[o].does # "bootstrap" /\ command[o].saw # Subject(command[o].does)
      BY <1>1, <1>2, <2>4 DEF WriteRows, Reach, Is, DeploymentInv, DeploymentTypeOK
    <3>. QED BY <1>1, <2>1, <3>1 DEF Sound, Subject
  <2>. QED BY <2>3, <2>4, HowItEnds
<1>4. RevisionIsVerified(o)
  <2>. SUFFICES ASSUME command[o].does = "migrate", command'[o].at = "done"
                PROVE  database'.revision = command[o].release
    BY DEF RevisionIsVerified
  <2>1. command[o].at \in Stages
    BY DEF DeploymentInv, DeploymentTypeOK
  <2>2. CleanupSession(o)
    BY <2>1, HowItEnds
  <2>3. command[o].at = "committed" /\ UNCHANGED database
    BY <1>2, <2>2 DEF CleanupSession, EndTransaction, Is
  <2>. QED BY <1>1, <2>3 DEF Sound
<1>. QED BY <1>3, <1>4

LEMMA NothingLeft ==
    ASSUME DeploymentInv, [DeploymentNext]_deploymentVars, DeploymentInv'
    PROVE  NothingIsLeftBehind
<1>1. database'.revision >= database.revision
  <2>1. database \in Database /\ database.revision \in Nat
    BY Releases DEF DeploymentInv, DeploymentTypeOK, Database
  <2>2. ASSUME NEW o \in Operators, CommitUpgrade(o) PROVE database'.revision >= database.revision
    <3>1. Sound(command[o]) /\ command[o].does = "migrate" /\ command[o].at = "written"
      BY <2>2 DEF CommitUpgrade, Is, DeploymentInv
    <3>2. database'.revision = command[o].release /\ command[o].release \in Nat
      BY <2>1, <2>2, Releases DEF CommitUpgrade, Database, DeploymentInv, DeploymentTypeOK
    <3>. QED BY <2>1, <3>1, <3>2 DEF Sound
  <2>3. ASSUME NEW o \in Operators, Commit(o) PROVE database'.revision = database.revision
    <3>1. command[o].does \in {"seed", "provision", "deactivate", "bootstrap"}
      BY <2>3 DEF Commit, Is, Commands
    <3>. QED BY <2>1, <2>3, <3>1 DEF Commit, Database
  <2>4. CASE RegisterReserved
    BY <2>1, <2>4 DEF RegisterReserved, Database
  <2>5. ASSUME NEW o \in Operators,
               \/ Launch(o) \/ Dismiss(o) \/ VerifyPortfolio(o) \/ AcquireLock(o) \/ Crash(o)
               \/ CommitPreflight(o) \/ UpgradeExactRevision(o) \/ FailMigration(o) \/ CleanupSession(o)
               \/ ReadRows(o) \/ WriteRows(o)
        PROVE  UNCHANGED database
    BY <2>5 DEF Launch, Dismiss, VerifyPortfolio, AcquireLock, Crash, CommitPreflight,
                UpgradeExactRevision, FailMigration, CleanupSession, ReadRows, WriteRows
  <2>. QED BY <2>1, <2>2, <2>3, <2>4, <2>5 DEF DeploymentNext, deploymentVars
<1>2. ASSUME NEW l \in Locks, advisory'[l] # Nobody PROVE command'[advisory'[l]].at \in Stages
  BY <1>2 DEF DeploymentInv, Taken, Holds, Stages
<1>. QED BY <1>1, <1>2 DEF NothingIsLeftBehind

\* Migrations and bootstraps run one at a time, conflicts are real, a migration leaves its
\* revision, the schema moves forward and no lock outlives its command.
THEOREM OperatorsTakeTurnsAlways == DeploymentSpec => OperatorsTakeTurns
<1>1. DeploymentInv /\ [DeploymentNext]_deploymentVars
        => [/\ OneAtATime' /\ NothingIsLeftBehind
            /\ \A o \in Operators : ConflictsAreReal(o) /\ RevisionIsVerified(o)]_deploymentVars
  <2>. SUFFICES ASSUME DeploymentInv, [DeploymentNext]_deploymentVars
                PROVE  /\ OneAtATime' /\ NothingIsLeftBehind
                       /\ \A o \in Operators : ConflictsAreReal(o) /\ RevisionIsVerified(o)
    OBVIOUS
  <2>1. DeploymentInv'
    BY DeploymentKeeps
  <2>2. OneAtATime'
    BY <2>1, OneOfEach, PTL
  <2>. QED BY <2>1, <2>2, NothingLeft, RealConflicts
<1>. QED BY <1>1, DeploymentStarts, DeploymentKeeps, PTL DEF DeploymentSpec, OperatorsTakeTurns


-----------------------------------------------------------------------------
(* The composition.                                                        *)

Topics == {"rows", "limit", "requests", "commands"}

\* A behaviour of the service is one of each of its mechanisms: they share nothing.
THEOREM ServiceIsAll ==
    ServiceSpec => RowsSpec /\ LimiterSpec /\ HandlingSpec /\ DeploymentSpec /\ [](topic \in Topics)
<1>1. ServiceInit => RowsInit /\ LimiterInit /\ HandlingInit /\ DeploymentInit /\ topic \in Topics
  BY DEF ServiceInit, Topics
<1>2. [ServiceNext]_<<rowsVars, limiterVars, handlingVars, deploymentVars, topic>>
        => /\ [RowsNext]_rowsVars /\ [LimiterNext]_limiterVars
           /\ [HandlingNext]_handlingVars /\ [DeploymentNext]_deploymentVars
           /\ (topic \in Topics => (topic \in Topics)')
  BY DEF ServiceNext
<1>. QED BY <1>1, <1>2, PTL DEF ServiceSpec, RowsSpec, LimiterSpec, HandlingSpec, DeploymentSpec

\* The state of every mechanism keeps its shape, whichever of them the behaviour is of.
THEOREM ServiceTypeCorrect == ServiceSpec => []ServiceTypeOK
<1>1. topic \in Topics /\ RowsTypeOK /\ LimiterTypeOK /\ HandlingTypeOK /\ DeploymentTypeOK => ServiceTypeOK
  BY DEF ServiceTypeOK, Topics
<1>. QED BY <1>1, ServiceIsAll, RowsTypeCorrect, LimiterTypeCorrect, HandlingTypeCorrect, DeploymentTypeCorrect, PTL
         DEF HandlingSpec

\* What is promised of each mechanism holds of the service.
THEOREM ServicePromises ==
    ServiceSpec => []CirclesAreTrades /\ []BurstBounded /\ SnapshotsAreCurrent /\ OperatorsTakeTurns
BY ServiceIsAll, CirclesAreTradesAlways, BurstBoundedAlways, PicturesAlways, OperatorsTakeTurnsAlways, PTL
=============================================================================
