------------------------- MODULE MaintenanceWindow -------------------------
(***************************************************************************)
(* An upgrade that waits for its maintenance window.  upgradePhaseWaiting   *)
(* looks at the clock (isInMaintenanceWindow) each time the cluster is      *)
(* reconciled and asks to be called again in 60 seconds.  The clock and the *)
(* requeue timer run against each other here; what else happens in a        *)
(* reconcile is in ClusterReconciler, where the clock is a free choice.     *)
(*                                                                          *)
(* Time is counted in ticks of a minute, so that a reconcile can come in    *)
(* the middle of one.  The API server admits only HH:MM for the two ends,   *)
(* so parseTimeOfDay cannot fail and an end is a minute of the day.         *)
(***************************************************************************)
EXTENDS Integers

CONSTANTS
    Day,        \* minutes in a day
    Minute,     \* ticks in a minute
    MaxDelay,   \* how many ticks a requeue may be late
    Shifts      \* how often the zone's offset from UTC may change

ASSUME WindowAssumption ==
    /\ Day \in Nat \ {0}
    /\ Minute \in Nat \ {0}
    /\ MaxDelay \in Nat
    /\ Shifts \in Nat

VARIABLES
    window,     \* spec.maintenanceWindow
    offset,     \* minutes the zone is ahead of UTC
    utc,        \* the clock, in ticks since midnight UTC
    phase,      \* the upgrade's phase
    age,        \* ticks since the last reconcile
    open,       \* ticks the window has now been open with the upgrade waiting
    shifts      \* changes of the offset left

vars == <<window, offset, utc, phase, age, open, shifts>>

Minutes == 0 .. Day - 1

\* A time zone is absent, known to time.LoadLocation or unknown to it.
Zones == {"nil", "known", "unknown"}

Windows == [start: Minutes, end: Minutes, timeZone: Zones]

\* Minutes from minute a until minute b comes round next.
Until(a, b) == IF b >= a THEN b - a ELSE b - a + Day

\* The window as docs and users mean it: an arc of the day from its start up
\* to but without its end, whether or not midnight lies on it.
InArc(start, end, m) == Until(start, m) < Until(start, end)

-----------------------------------------------------------------------------

\* Mutation of IsInWindow: a window never crosses midnight.
IsInWindowSameDay(start, end, nowMinutes) ==
    nowMinutes >= start /\ nowMinutes < end

\* Mutation of IsInWindow: the end counts as inside.
IsInWindowInclusive(start, end, nowMinutes) ==
    IF start <= end
    THEN nowMinutes >= start /\ nowMinutes <= end
    ELSE nowMinutes >= start \/ nowMinutes <= end

\* isInMaintenanceWindow, once the local time is known.
IsInWindow(start, end, nowMinutes) ==
    IF start <= end
    THEN nowMinutes >= start /\ nowMinutes < end
    ELSE nowMinutes >= start \/ nowMinutes < end

\* An unknown zone is taken for UTC.
LocalOffset == IF window.timeZone = "known" THEN offset ELSE 0

NowMinutes == ((utc \div Minute) + LocalOffset) % Day

IsInMaintenanceWindow == IsInWindow(window.start, window.end, NowMinutes)

\* What the answer should be.
Open == InArc(window.start, window.end, NowMinutes)

\* Mutation of RequeueAfter: the timer of another phase, ten times as long.
RequeueAfterLong == 10 * Minute

\* RequeueAfter: 60 * time.Second.
RequeueAfter == Minute

Init ==
    /\ window \in Windows
    /\ offset \in Minutes
    /\ window.timeZone # "known" => offset = 0
    /\ utc \in 0 .. Day * Minute - 1
    /\ phase = "Waiting"
    /\ age = 0
    /\ open = 0
    /\ shifts = Shifts

\* upgradePhaseWaiting, in a reconcile that the timer or any event causes.
UpgradePhaseWaiting ==
    /\ phase = "Waiting"
    /\ phase' = IF IsInMaintenanceWindow THEN "Started" ELSE "Waiting"
    /\ age' = 0
    /\ UNCHANGED <<window, offset, utc, open, shifts>>

\* Time passes; the requeue comes at most MaxDelay late.
Tick ==
    /\ phase = "Waiting"
    /\ age < RequeueAfter + MaxDelay
    /\ utc' = (utc + 1) % (Day * Minute)
    /\ age' = age + 1
    /\ UNCHANGED <<window, offset, phase, shifts>>
    /\ open' = IF Open' THEN open + 1 ELSE 0

\* Summer time begins or ends.
Shift ==
    /\ phase = "Waiting"
    /\ window.timeZone = "known"
    /\ shifts > 0
    /\ shifts' = shifts - 1
    /\ offset' \in Minutes \ {offset}
    /\ UNCHANGED <<window, utc, phase, age>>
    /\ open' = IF Open' THEN open ELSE 0

Done == phase = "Started" /\ UNCHANGED vars

Next == UpgradePhaseWaiting \/ Tick \/ Shift \/ Done

Spec == Init /\ [][Next]_vars

\* The clock runs, and the work queue serves the requeue.
FairSpec == Spec /\ WF_vars(Tick) /\ WF_vars(UpgradePhaseWaiting)

-----------------------------------------------------------------------------
(* Properties *)

\* Every variable has its type; the timer of a waiting upgrade is never more
\* than a minute and the delay behind.
TypeOK ==
    /\ window \in Windows
    /\ offset \in Minutes
    /\ utc \in 0 .. Day * Minute - 1
    /\ phase \in {"Waiting", "Started"}
    /\ age \in 0 .. Minute + MaxDelay
    /\ open \in Nat
    /\ shifts \in Nat

\* An upgrade leaves Waiting only at a time on the window's arc, in the zone of
\* the window.
StartsInsideWindow ==
    [][phase = "Waiting" /\ phase' = "Started" => Open]_vars

\* A waiting upgrade lets the window stay open for at most a minute and the
\* delay of the requeue: only a window shorter than that can be missed.
OpenWindowIsNoticed == phase = "Waiting" => open <= Minute + MaxDelay

\* The windows longer than the gap between two reconciles.
LongWindows ==
    {w \in Windows : Until(w.start, w.end) * Minute > Minute + MaxDelay}

\* An upgrade with a long window starts, also across midnight, in any zone and
\* when summer time skips one opening.  (A window whose start equals its end
\* never opens.)
UpgradeStarts == (window \in LongWindows) ~> (phase = "Started")

=============================================================================
