---------------------- MODULE MaintenanceWindowProofs ----------------------
(***************************************************************************)
(* The maintenance window for every length of day and minute, every delay   *)
(* of the requeue and every time zone.                                      *)
(***************************************************************************)
EXTENDS MaintenanceWindow, TLAPS

\* isInMaintenanceWindow decides membership in the arc, on both branches of
\* its comparison of start and end.
LEMMA WindowIsArc ==
    ASSUME NEW start \in Minutes, NEW end \in Minutes, NEW m \in Minutes
    PROVE  IsInWindow(start, end, m) <=> InArc(start, end, m)
BY WindowAssumption DEF Minutes, IsInWindow, InArc, Until

\* A remainder is below its divisor.
LEMMA Remainder ==
    ASSUME NEW a \in Nat, NEW n \in Nat \ {0}
    PROVE  a % n \in 0 .. n - 1
OBVIOUS

\* A day has at least one tick.
LEMMA Product ==
    ASSUME NEW a \in Nat \ {0}, NEW b \in Nat \ {0}
    PROVE  a * b \in Nat \ {0}
OBVIOUS

\* The local time is a minute of the day, in every zone.
LEMMA NowIsAMinute ==
    ASSUME TypeOK
    PROVE  NowMinutes \in Minutes
<1>1. utc \div Minute \in Nat
    BY WindowAssumption, Product DEF TypeOK
<1>2. LocalOffset \in Nat
    BY WindowAssumption DEF TypeOK, LocalOffset, Minutes
<1>3. (utc \div Minute) + LocalOffset \in Nat
    BY <1>1, <1>2
<1> QED
    BY <1>3, WindowAssumption, Remainder DEF NowMinutes, Minutes

\* The code's answer is the right one at every moment.
LEMMA AnswerIsRight ==
    ASSUME TypeOK
    PROVE  IsInMaintenanceWindow <=> Open
BY WindowIsArc, NowIsAMinute
DEF IsInMaintenanceWindow, Open, TypeOK, Windows

-----------------------------------------------------------------------------

\* Every step keeps the types.
LEMMA WindowTypeStep == TypeOK /\ [Next]_vars => TypeOK'
<1> SUFFICES ASSUME TypeOK, [Next]_vars PROVE TypeOK'
    OBVIOUS
<1>1. CASE UpgradePhaseWaiting
    BY <1>1, WindowAssumption DEF UpgradePhaseWaiting, TypeOK
<1>2. CASE Tick
  <2>1. utc' \in 0 .. Day * Minute - 1
    <3>1. utc + 1 \in Nat /\ Day * Minute \in Nat \ {0}
        BY WindowAssumption, Product DEF TypeOK
    <3> HIDE DEF TypeOK
    <3> DEFINE n == Day * Minute
               a == utc + 1
    <3>2. utc' = a % n
        BY <1>2 DEF Tick
    <3>3. a \in Nat /\ n \in Nat \ {0}
        BY <3>1
    <3> HIDE DEF a, n
    <3>4. a % n \in 0 .. n - 1
        BY <3>3, Remainder
    <3> QED
        BY <3>2, <3>4 DEF n
  <2>2. age' \in 0 .. Minute + MaxDelay
      BY <1>2, WindowAssumption DEF Tick, TypeOK, RequeueAfter
  <2> QED
      BY <1>2, <2>1, <2>2 DEF Tick, TypeOK
<1>3. CASE Shift
    BY <1>3 DEF Shift, TypeOK
<1>4. CASE UNCHANGED vars
    BY <1>4 DEF vars, TypeOK
<1> QED
    BY <1>1, <1>2, <1>3, <1>4 DEF Next, Done

\* The clock stays on its dial, and no requeue is later than assumed.
THEOREM WindowTypeCorrect == Spec => []TypeOK
<1>1. Init => TypeOK
    BY WindowAssumption DEF Init, TypeOK
<1> QED
    BY <1>1, WindowTypeStep, PTL DEF Spec

-----------------------------------------------------------------------------

\* Why no window is overlooked: the last reconcile found it closed, so it has
\* been open for no longer than that is ago.
OpenSinceReconcile ==
    phase = "Waiting" => open <= age /\ (open = 0 \/ Open)

\* Every step keeps the window open no longer than since the last reconcile.
LEMMA OpenStep ==
    TypeOK /\ OpenSinceReconcile /\ [Next]_vars => OpenSinceReconcile'
<1> SUFFICES ASSUME TypeOK, OpenSinceReconcile, [Next]_vars
             PROVE  OpenSinceReconcile'
    OBVIOUS
<1>1. CASE UpgradePhaseWaiting
  <2>1. phase' = "Waiting" => ~Open /\ open = 0
      BY <1>1, AnswerIsRight DEF UpgradePhaseWaiting, OpenSinceReconcile
  <2>2. age' = 0 /\ open' = open
      BY <1>1 DEF UpgradePhaseWaiting
  <2> QED
      BY <2>1, <2>2 DEF OpenSinceReconcile
<1>2. CASE Tick
    BY <1>2 DEF Tick, OpenSinceReconcile, TypeOK
<1>3. CASE Shift
    BY <1>3 DEF Shift, OpenSinceReconcile, TypeOK
<1>4. CASE UNCHANGED vars
    BY <1>4
    DEF vars, OpenSinceReconcile, Open, NowMinutes, LocalOffset
<1> QED
    BY <1>1, <1>2, <1>3, <1>4 DEF Next, Done

\* An open window is noticed within a minute and the delay of the requeue.
THEOREM WindowIsNoticed == Spec => []OpenWindowIsNoticed
<1>1. Init => OpenSinceReconcile
    BY DEF Init, OpenSinceReconcile
<1>2. TypeOK /\ OpenSinceReconcile => OpenWindowIsNoticed
    BY WindowAssumption DEF TypeOK, OpenSinceReconcile, OpenWindowIsNoticed
<1> QED
    BY <1>1, <1>2, OpenStep, WindowTypeCorrect, PTL DEF Spec

\* upgradePhaseWaiting lets no upgrade through outside the window.
THEOREM NoEarlyStart == Spec => StartsInsideWindow
<1> DEFINE A == phase = "Waiting" /\ phase' = "Started" => Open
<1>1. TypeOK /\ [Next]_vars => [A]_vars
  <2> SUFFICES ASSUME TypeOK, [Next]_vars, phase = "Waiting",
                      phase' = "Started"
               PROVE  Open
      OBVIOUS
  <2>1. UpgradePhaseWaiting
      BY DEF Next, Tick, Shift, Done, vars
  <2> QED
      BY <2>1, AnswerIsRight DEF UpgradePhaseWaiting
<1> QED
    BY <1>1, WindowTypeCorrect, PTL DEF Spec, StartsInsideWindow

=============================================================================
