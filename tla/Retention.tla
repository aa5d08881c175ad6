----------------------------- MODULE Retention -----------------------------
(***************************************************************************)
(* LoadRetention (retention.go): the GFS restore points of a job by tier,    *)
(* when each expires, and the periods its policy should cover today with     *)
(* those of them that have no point.  The view is an operator of the moment  *)
(* it is computed at; the actions are what changes it: time, the job, the    *)
(* administrator.  Two other pivots leave out the periods.                   *)
(*                                                                         *)
(* A moment is a number of ticks since the beginning of the calendar, which  *)
(* starts in January; the days are those of UTC.  A label of a period (like   *)
(* 2026-W37) is the number of the week, month, quarter or year.              *)
(*                                                                         *)
(* VBR may mark a point for several tiers; the view has it in one.  And it   *)
(* has only the points whose mark was read.                                 *)
(***************************************************************************)
EXTENDS FiniteSetsExt, SequencesExt, Integers

CONSTANTS
  LastMonth,    \* the calendar ends before it
  MonthStart,   \* the first day of each month
  WeekStart,    \* days since Monday on the first day of the calendar
  TicksPerDay,
  Moments,      \* when things happen
  Policies,     \* what the GFS policy of the job may be: records of the keeps
  Marks,        \* what gfsPeriods of a point may be: tiers, and "None", in the order of VBR
  MaxPoints     \* bound on the points of the job and those in the view

Tiers == {"Weekly", "Monthly", "Quarterly", "Yearly"}

ASSUME TicksAssumption == TicksPerDay \in Nat \ {0} /\ WeekStart \in 0..6
ASSUME CalendarAssumption ==
  /\ LastMonth \in Nat
  /\ MonthStart \in [0..LastMonth -> Nat] /\ MonthStart[0] = 0
  /\ \A m \in 1..LastMonth : MonthStart[m] - MonthStart[m - 1] \in 28..31
  /\ \A m \in 1..LastMonth : m % 12 = 0 => MonthStart[m] - MonthStart[m - 1] = 31
ASSUME MomentsAssumption == Moments \subseteq Nat
ASSUME PoliciesAssumption ==
  \A p \in Policies : p \in [Tiers -> Nat] /\ p.Quarterly = 0
ASSUME PointsAssumption == Marks \subseteq Seq(Tiers \cup {"None"}) /\ MaxPoints \in Nat

VARIABLES
  now,      \* a moment
  policy,   \* Job.GFSPolicy, a keep per tier, all zero if it is not enabled
  points,   \* the restore points of the job at VBR: records of date and periods
  seen      \* those that RestorePoints returned with their gfsPeriods

retentionVars == <<now, policy, points, seen>>

-----------------------------------------------------------------------------
(* The calendar of package time *)

Day(t) == t \div TicksPerDay

\* No month has more than 31 days: those before Day(t) \div 31 are over.
Month(t) ==
  CHOOSE m \in (Day(t) \div 31)..(LastMonth - 1) :
    MonthStart[m] <= Day(t) /\ Day(t) < MonthStart[m + 1]

\* The calendar of the model begins and ends; that of the code does not.  It has every
\* day the view computes.
ASSUME HorizonAssumption ==
  \A t \in Moments, p \in Policies :
    /\ Day(t) < MonthStart[LastMonth]
    /\ Month(t) - (p.Monthly - 1) >= 0 /\ Month(t) + p.Monthly <= LastMonth
    /\ Month(t) - 12 * (p.Yearly - 1) >= 0 /\ Month(t) + 12 * p.Yearly <= LastMonth

DayOfMonth(t) == Day(t) - MonthStart[Month(t)] + 1

\* time.AddDate: days that the month does not have run over into the next one.
AddDays(t, n) == t + TicksPerDay * n
AddMonths(t, n) == AddDays(t, MonthStart[Month(t) + n] - MonthStart[Month(t)])

\* periodLabel
Period(tier, t) ==
  CASE tier = "Weekly" -> (Day(t) + WeekStart) \div 7
    [] tier = "Monthly" -> Month(t)
    [] tier = "Quarterly" -> Month(t) \div 3
    [] OTHER -> Month(t) \div 12

\* shift.  Slip: a month has 30 days and a year 365.
ShiftInDays(tier, t, n) ==
  AddDays(t, n * CASE tier = "Weekly" -> 7 [] tier = "Monthly" -> 30
                   [] tier = "Quarterly" -> 91 [] OTHER -> 365)
Shift(tier, t, n) ==
  CASE tier = "Weekly" -> AddDays(t, 7 * n)
    [] tier = "Monthly" -> AddMonths(t, n)
    [] tier = "Quarterly" -> AddMonths(t, 3 * n)
    [] OTHER -> AddMonths(t, 12 * n)

-----------------------------------------------------------------------------
(* The view *)

\* RestorePoint.GFS: of the periods of a point, the first.  Slip: the last.
Given(x) == {i \in DOMAIN x.periods : x.periods[i] # "None"}
GFSLast(x) == IF Given(x) = {} THEN "None" ELSE x.periods[Max(Given(x))]
GFS(x) == IF Given(x) = {} THEN "None" ELSE x.periods[Min(Given(x))]

\* keepFor.  There is no keep for quarters.
Keep(tier) == IF tier \in {"Weekly", "Monthly", "Yearly"} THEN policy[tier] ELSE 0

\* expiry.  Slip: one period is kept less.
ExpirySooner(x) == Shift(GFS(x), x.date, Keep(GFS(x)) - 1)
Expiry(x) == Shift(GFS(x), x.date, Keep(GFS(x)))
HasExpiry(x) == Keep(GFS(x)) > 0

\* int(...Hours() / 24) cuts towards zero.
Trunc(ticks) == IF ticks >= 0 THEN ticks \div TicksPerDay ELSE -((-ticks) \div TicksPerDay)
DaysLeft(x) == Trunc(Expiry(x) - now)

Soon == {x \in seen : HasExpiry(x) /\ DaysLeft(x) \in 0..30}

\* Slip: the count goes one too far.
ExpectedMore(tier) == {Period(tier, Shift(tier, now, -i)) : i \in 0..Keep(tier)}
Expected(tier) == {Period(tier, Shift(tier, now, -i)) : i \in 0..(Keep(tier) - 1)}

Have(tier) == {Period(tier, x.date) : x \in {y \in seen : GFS(y) = tier}}
Missing(tier) == Expected(tier) \ Have(tier)

-----------------------------------------------------------------------------
RetentionInit ==
  /\ now \in Moments
  /\ policy \in Policies
  /\ points = {} /\ seen = {}

Later == {t \in Moments : t > now}

\* Time passes until something may happen again.
Tick ==
  /\ Later # {}
  /\ now' = Min(Later)
  /\ UNCHANGED <<policy, points, seen>>

\* The job makes a restore point and marks it for tiers of its policy.  That it may fail
\* to is what the view is for.
Mark(periods) ==
  /\ \A tier \in ToSet(periods) \ {"None"} : Keep(tier) > 0
  /\ Cardinality(points \cup seen) < MaxPoints
  /\ points' = points \cup {[date |-> now, periods |-> periods]}
  /\ UNCHANGED <<now, policy, seen>>

\* Retention, or somebody, removes it.
RemovePoint(x) ==
  /\ points' = points \ {x}
  /\ UNCHANGED <<now, policy, seen>>

\* LoadRetention reads the points again, or some of them: an object may fail, and a point
\* whose file is not in the answer to backupFiles has no periods (unless VBR gives them with
\* the point).  That call may fail, and its answer may be an earlier one, without the files
\* of the newest points and with those (points by themselves for plug-ins) of points that
\* are gone.
Read(some) ==
  /\ some # seen
  /\ seen' = some
  /\ UNCHANGED <<now, policy, points>>

\* The administrator changes the policy.
Edit(p) ==
  /\ p # policy
  /\ policy' = p
  /\ UNCHANGED <<now, points, seen>>

RetentionNext ==
  \/ Tick
  \/ \E periods \in Marks : Mark(periods)
  \/ \E x \in points : RemovePoint(x)
  \/ \E some \in SUBSET (points \cup seen) : Read(some)
  \/ \E p \in Policies : Edit(p)

RetentionSpec == RetentionInit /\ [][RetentionNext]_retentionVars

-----------------------------------------------------------------------------
(* Properties *)

RetentionTypeOK ==
  /\ now \in Moments
  /\ policy \in Policies
  /\ points \cup seen \subseteq [date : Moments, periods : Marks]
  /\ Cardinality(points \cup seen) <= MaxPoints
  /\ \A tier \in Tiers : Cardinality(Expected(tier)) <= Keep(tier)

\* The last periods the policy keeps, the present one included.
Kept(tier) == (Period(tier, now) - Keep(tier) + 1)..Period(tier, now)

\* VBR marks x for a period of a tier.
Covers(x, tier, p) == tier \in ToSet(x.periods) /\ Period(tier, x.date) = p

\* Of the periods of x, another tier comes before this one.
Outranked(x, tier) ==
  \E i \in DOMAIN x.periods, j \in DOMAIN x.periods :
    j < i /\ x.periods[i] = tier /\ x.periods[j] \notin {"None", tier}

\* retention.go:4-5 of the periods that miss their GFS point, by the points that count for
\* a tier: those the policy keeps without one are shown, and no others.
GapsShown == \A tier \in Tiers : Missing(tier) = Kept(tier) \ Have(tier)

\* What the gaps shown do tell, for weeks and years on every day and for months up to the
\* 28th: they are among the periods the policy keeps; a kept period that is not shown has
\* a point that was read and is marked for it; and one that is shown has none, but one
\* whose mark for it comes after that for another tier.
GapsAccountedFor ==
  \A tier \in Tiers :
    tier # "Monthly" \/ DayOfMonth(now) <= 28 =>
      /\ Missing(tier) \subseteq Kept(tier)
      /\ \A p \in Kept(tier) \ Missing(tier) : \E x \in seen : Covers(x, tier, p)
      /\ \A p \in Missing(tier), x \in seen : Covers(x, tier, p) => Outranked(x, tier)

\* The three notions of a period, shift's, periodLabel's and expiry's, agree: a
\* point in a period the policy covers today has not expired, whatever the lengths
\* of the months and the day of the week.  And the list of what is about to expire
\* has every point with thirty days or less, and none that expired a day ago or more.
ExpectedUnexpired ==
  \A x \in seen :
    /\ Period(GFS(x), x.date) \in Expected(GFS(x)) => Expiry(x) > now
    /\ HasExpiry(x) /\ Expiry(x) - now \in 0..(30 * TicksPerDay) => x \in Soon
    /\ HasExpiry(x) /\ x \in Soon => Expiry(x) - now > -TicksPerDay

\* A period that is shown as missing is shown so until a point that counts for it has been
\* read, the policy changes or the job need not cover it any longer (weeks and years).
GapStays ==
  [][\A tier \in {"Weekly", "Yearly"} :
       \A p \in Missing(tier) :
         \/ p \in Missing(tier)' \/ p \in Have(tier)'
         \/ policy' # policy
         \/ p < Period(tier, now') - Keep(tier)' + 1]_retentionVars
=============================================================================
