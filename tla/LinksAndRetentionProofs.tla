---------------------- MODULE LinksAndRetentionProofs ----------------------
(***************************************************************************)
(* Proofs about InventoryLinks for any answers of VBR, and about Retention  *)
(* for any calendar, moments and policies: the two that recur over a list   *)
(* or a calendar, which needs induction.  The library's induction theorems  *)
(* take a predicate, so it is done by the least counterexample             *)
(* (LeastNatural).                                                         *)
(*                                                                         *)
(* RetentionIInv is inductive, hence the properties of the view.  IInv is   *)
(* inductive, hence LinksTrue; with Found, Repos and EndComplete it is so   *)
(* for LinkedIsFound and NothingLostButFailed.                             *)
(***************************************************************************)
EXTENDS InventoryLinks, Retention, FiniteSetTheorems, SequenceTheorems, TLAPS

-----------------------------------------------------------------------------
(* A set of naturals has a least member: induction by the least counterexample *)

\* The intervals from 0 to a member are finite sets, and the smallest of them is the
\* one of the least member.
LEMMA LeastNatural ==
  ASSUME NEW A \in SUBSET Nat, A # {}
  PROVE  \E m \in A : \A k \in A : m <= k
<1> DEFINE Intervals == {0..k : k \in A}
<1>1. IsWellFoundedOn(StrictSubsetOrdering(Nat), FiniteSubsetsOf(Nat))
  BY FS_StrictSubsetOrderingWellFounded
<1>2. Intervals \subseteq FiniteSubsetsOf(Nat)
  <2>1. ASSUME NEW k \in A PROVE 0..k \in SUBSET Nat /\ IsFiniteSet(0..k)
    BY FS_Interval
  <2> QED BY <2>1 DEF FiniteSubsetsOf
<1>3. Intervals # {}
  <2>1. PICK k : k \in A
    OBVIOUS
  <2>2. 0..k \in Intervals
    BY <2>1
  <2> QED BY <2>2
<1>4. PICK x \in Intervals : \A y \in Intervals : ~ (<<y, x>> \in StrictSubsetOrdering(Nat))
  <2> HIDE DEF Intervals
  <2> QED BY <1>1, <1>2, <1>3, WFMin
<1>5. PICK m \in A : x = 0..m
  OBVIOUS
<1>6. ASSUME NEW k \in A, k < m PROVE FALSE
  <2>1. 0..k \in SUBSET Nat /\ 0..m \in SUBSET Nat /\ 0..k \subseteq 0..m
    BY <1>6
  <2>2. 0..k # 0..m
    <3>1. m \in 0..m /\ m \notin 0..k
      BY <1>6
    <3> QED BY <3>1
  <2>3. <<0..k, 0..m>> \in StrictSubsetOrdering(Nat)
    BY <2>1, <2>2 DEF StrictSubsetOrdering
  <2> QED BY <2>3, <1>4, <1>5
<1> QED BY <1>6

-----------------------------------------------------------------------------
(* Retention: the calendar *)

\* A day is TicksPerDay ticks.
LEMMA Days ==
  ASSUME NEW t \in Int
  PROVE  /\ Day(t) \in Int
         /\ TicksPerDay * Day(t) <= t /\ t < TicksPerDay * Day(t) + TicksPerDay
  BY TicksAssumption DEF Day

LEMMA DaysAdded ==
  ASSUME NEW t \in Int, NEW n \in Int
  PROVE  AddDays(t, n) \in Int /\ Day(AddDays(t, n)) = Day(t) + n
  BY TicksAssumption DEF Day, AddDays

\* Later is not an earlier day.
LEMMA DaysOrdered ==
  ASSUME NEW s \in Int, NEW t \in Int
  PROVE  (s <= t => Day(s) <= Day(t)) /\ (Day(s) < Day(t) => s < t)
<1>1. Day(s) \in Int /\ Day(t) \in Int
  BY Days
<1>2. s <= t => Day(s) <= Day(t)
  BY TicksAssumption DEF Day
<1>3. t <= s => Day(t) <= Day(s)
  BY TicksAssumption DEF Day
<1> QED BY <1>1, <1>2, <1>3

LEMMA MonthTypes ==
  /\ LastMonth \in Nat
  /\ \A m \in 0..LastMonth : MonthStart[m] \in Nat
  /\ \A m \in 0..(LastMonth - 1) : /\ MonthStart[m + 1] - MonthStart[m] \in 28..31
                                   /\ m % 12 = 11 => MonthStart[m + 1] - MonthStart[m] = 31
<1>1. ASSUME NEW m \in 0..(LastMonth - 1)
      PROVE  /\ MonthStart[m + 1] - MonthStart[m] \in 28..31
             /\ m % 12 = 11 => MonthStart[m + 1] - MonthStart[m] = 31
  <2>1. m + 1 \in 1..LastMonth /\ (m + 1) - 1 = m /\ (m % 12 = 11 => (m + 1) % 12 = 0)
    <3>1. LastMonth \in Nat
      BY CalendarAssumption
    <3>2. m \in Nat /\ m + 1 \in 1..LastMonth
      BY <3>1
    <3>3. m % 12 = 11 => (m + 1) % 12 = 0
      BY <3>2
    <3> QED BY <3>2, <3>3
  <2>2. /\ MonthStart[m + 1] - MonthStart[(m + 1) - 1] \in 28..31
        /\ (m + 1) % 12 = 0 => MonthStart[m + 1] - MonthStart[(m + 1) - 1] = 31
    BY <2>1, CalendarAssumption
  <2> QED BY <2>1, <2>2
<1> QED BY <1>1, CalendarAssumption

\* The months follow one another, by induction on the later one.
LEMMA MonthsGrow ==
  ASSUME NEW m \in 0..LastMonth, NEW n \in 0..LastMonth, m <= n
  PROVE  MonthStart[m] <= MonthStart[n]
<1> DEFINE Bad == {k \in m..LastMonth : MonthStart[k] < MonthStart[m]}
<1>1. ASSUME Bad # {} PROVE FALSE
  <2>1. PICK k \in Bad : \A j \in Bad : k <= j
    <3>1. Bad \in SUBSET Nat
      BY MonthTypes
    <3> HIDE DEF Bad
    <3> QED BY <1>1, <3>1, LeastNatural
  <2>2. k # m /\ k \in (m + 1)..LastMonth
    BY <2>1, MonthTypes
  <2>3. k - 1 \in m..LastMonth /\ k - 1 \notin Bad /\ k - 1 \in 0..(LastMonth - 1) /\ (k - 1) + 1 = k
    BY <2>1, <2>2, MonthTypes
  <2>4. MonthStart[m] <= MonthStart[k - 1] /\ MonthStart[k - 1] <= MonthStart[k]
    <3>1. MonthStart[k] - MonthStart[k - 1] \in 28..31
      BY <2>3, MonthTypes
    <3> QED BY <2>3, <3>1, MonthTypes
  <2> QED BY <2>1, <2>4, MonthTypes, <2>3
<1> QED BY <1>1, MonthTypes

\* 31 days are enough for each month, by induction.
LEMMA MonthsShort ==
  ASSUME NEW m \in 0..LastMonth
  PROVE  MonthStart[m] <= 31 * m
<1> DEFINE Bad == {k \in 0..LastMonth : MonthStart[k] > 31 * k}
<1>1. ASSUME Bad # {} PROVE FALSE
  <2>1. PICK k \in Bad : \A j \in Bad : k <= j
    <3>1. Bad \in SUBSET Nat
      OBVIOUS
    <3> HIDE DEF Bad
    <3> QED BY <1>1, <3>1, LeastNatural
  <2>2. k # 0
    BY <2>1, CalendarAssumption
  <2>3. k - 1 \in 0..LastMonth /\ k - 1 \notin Bad /\ k - 1 \in 0..(LastMonth - 1) /\ (k - 1) + 1 = k
    BY <2>1, <2>2, MonthTypes
  <2>4. MonthStart[k - 1] <= 31 * (k - 1) /\ MonthStart[k] - MonthStart[k - 1] \in 28..31
    BY <2>3, MonthTypes
  <2> QED BY <2>1, <2>3, <2>4, MonthTypes
<1> QED BY <1>1, MonthTypes

\* A day is in one month at most.
LEMMA MonthIs ==
  ASSUME NEW t \in Int, NEW m \in 0..(LastMonth - 1),
         MonthStart[m] <= Day(t), Day(t) < MonthStart[m + 1]
  PROVE  Month(t) = m
<1>1. Day(t) \in Nat /\ m \in 0..LastMonth /\ m + 1 \in 0..LastMonth
  BY Days, MonthTypes
<1>2. m \in (Day(t) \div 31)..(LastMonth - 1)
  <2>1. MonthStart[m + 1] <= 31 * (m + 1)
    BY <1>1, MonthsShort
  <2>2. Day(t) \div 31 <= m /\ Day(t) \div 31 \in Int
    BY <1>1, <2>1, MonthTypes
  <2> QED BY <2>2
<1>3. ASSUME NEW k \in (Day(t) \div 31)..(LastMonth - 1),
             MonthStart[k] <= Day(t), Day(t) < MonthStart[k + 1]
      PROVE  k = m
  <2>1. k \in 0..LastMonth /\ k + 1 \in 0..LastMonth
    <3>1. Day(t) \div 31 >= 0 /\ Day(t) \div 31 \in Int
      BY <1>1
    <3> QED BY <3>1, MonthTypes
  <2>2. CASE k < m
    <3>1. MonthStart[k + 1] <= MonthStart[m]
      BY <1>1, <2>1, <2>2, MonthsGrow
    <3> QED BY <1>1, <1>3, <2>1, <3>1, MonthTypes
  <2>3. CASE m < k
    <3>1. MonthStart[m + 1] <= MonthStart[k]
      BY <1>1, <2>1, <2>3, MonthsGrow
    <3> QED BY <1>1, <1>3, <2>1, <3>1, MonthTypes
  <2> QED BY <2>1, <2>2, <2>3
<1> QED BY <1>2, <1>3 DEF Month

InCalendar(t) == t \in Int /\ 0 <= Day(t) /\ Day(t) < MonthStart[LastMonth]

\* Every day of the calendar is in a month: the one before the first that begins later.
LEMMA MonthFound ==
  ASSUME NEW t, InCalendar(t)
  PROVE  /\ Month(t) \in 0..(LastMonth - 1)
         /\ MonthStart[Month(t)] <= Day(t) /\ Day(t) < MonthStart[Month(t) + 1]
<1> DEFINE After == {k \in 0..LastMonth : Day(t) < MonthStart[k]}
<1>1. Day(t) \in Nat /\ t \in Int
  BY Days DEF InCalendar
<1>2. PICK k \in After : \A j \in After : k <= j
  <2>1. After \in SUBSET Nat /\ LastMonth \in After
    BY MonthTypes DEF InCalendar
  <2> HIDE DEF After
  <2> QED BY <2>1, LeastNatural
<1>3. k # 0
  BY <1>1, <1>2, CalendarAssumption
<1>4. k - 1 \in 0..(LastMonth - 1) /\ k - 1 \in 0..LastMonth /\ k - 1 \notin After /\ (k - 1) + 1 = k
  BY <1>2, <1>3, MonthTypes
<1>5. MonthStart[k - 1] <= Day(t) /\ Day(t) < MonthStart[(k - 1) + 1]
  BY <1>1, <1>2, <1>4, MonthTypes
<1>6. Month(t) = k - 1
  BY <1>1, <1>4, <1>5, MonthIs
<1> QED BY <1>4, <1>5, <1>6

\* Later is not an earlier month.
LEMMA MonthsOrdered ==
  ASSUME NEW s, NEW t, InCalendar(s), InCalendar(t), s <= t
  PROVE  Month(s) <= Month(t)
<1> DEFINE m == Month(s)
           n == Month(t)
<1>1. /\ m \in 0..(LastMonth - 1) /\ MonthStart[m] <= Day(s)
      /\ n \in 0..(LastMonth - 1) /\ Day(t) < MonthStart[n + 1]
  BY MonthFound
<1>2. Day(s) <= Day(t) /\ Day(s) \in Int /\ Day(t) \in Int
  BY Days, DaysOrdered DEF InCalendar
<1>3. ASSUME n < m PROVE FALSE
  <2> HIDE DEF m, n
  <2>1. n + 1 \in 0..LastMonth /\ m \in 0..LastMonth /\ n + 1 <= m
    BY <1>1, <1>3, MonthTypes
  <2>2. MonthStart[n + 1] <= MonthStart[m] /\ MonthStart[n + 1] \in Nat /\ MonthStart[m] \in Nat
    BY <2>1, MonthsGrow, MonthTypes
  <2> QED BY <1>1, <1>2, <2>2
<1> QED BY <1>1, <1>3

-----------------------------------------------------------------------------
(* AddDate *)

\* The day that AddDate counts from the beginning of the month.
LEMMA MonthsAdded ==
  ASSUME NEW t, InCalendar(t), NEW n \in Int, Month(t) + n \in 0..LastMonth
  PROVE  /\ AddMonths(t, n) \in Int
         /\ DayOfMonth(t) \in 1..31
         /\ Day(AddMonths(t, n)) = MonthStart[Month(t) + n] + DayOfMonth(t) - 1
<1> DEFINE m == Month(t)
<1>1. /\ m \in 0..(LastMonth - 1) /\ m \in 0..LastMonth /\ m + 1 \in 0..LastMonth
      /\ m + n \in 0..LastMonth /\ t \in Int /\ Day(t) \in Int
      /\ MonthStart[m] <= Day(t) /\ Day(t) < MonthStart[m + 1]
  BY MonthFound, MonthTypes, Days DEF InCalendar
<1>2. MonthStart[m] \in Nat /\ MonthStart[m + n] \in Nat /\ MonthStart[m + 1] - MonthStart[m] \in 28..31
      /\ MonthStart[m + 1] \in Nat
  <2> HIDE DEF m
  <2> QED BY <1>1, MonthTypes
<1>3. DayOfMonth(t) \in 1..31
  BY <1>1, <1>2 DEF DayOfMonth
<1>4. MonthStart[m + n] - MonthStart[m] \in Int
  BY <1>2
<1>5. /\ AddMonths(t, n) \in Int
      /\ Day(AddMonths(t, n)) = Day(t) + (MonthStart[m + n] - MonthStart[m])
  BY <1>1, <1>4, DaysAdded DEF AddMonths
<1>6. DayOfMonth(t) = Day(t) - MonthStart[m] + 1
  BY DEF DayOfMonth
<1> HIDE DEF m
<1>7. Day(AddMonths(t, n)) = MonthStart[m + n] + DayOfMonth(t) - 1
  BY <1>1, <1>2, <1>5, <1>6
<1> QED BY <1>3, <1>5, <1>7 DEF m

\* Some months back is the month meant, or the one after it when the day runs over; it
\* does not up to the 28th, and out of a December.
LEMMA MonthsBack ==
  ASSUME NEW t, InCalendar(t), NEW n \in Nat, Month(t) - n >= 0
  PROVE  /\ Month(AddMonths(t, -n)) \in {Month(t) - n, Month(t) - n + 1}
         /\ DayOfMonth(t) <= 28 \/ (Month(t) - n) % 12 = 11 \/ n = 0 =>
              Month(AddMonths(t, -n)) = Month(t) - n
<1> DEFINE M == Month(t)
           m == M - n
           u == AddMonths(t, -n)
           d == DayOfMonth(t)
<1>1. /\ LastMonth \in Nat /\ M \in 0..(LastMonth - 1) /\ m \in 0..(LastMonth - 1) /\ M + (-n) \in 0..LastMonth
      /\ M + (-n) = m /\ M \in 0..LastMonth /\ M + 1 \in 0..LastMonth
      /\ Day(t) < MonthStart[M + 1] /\ MonthStart[M] <= Day(t)
  BY MonthFound, MonthTypes
<1>2. u \in Int /\ d \in 1..31 /\ Day(u) = MonthStart[m] + d - 1
  BY <1>1, MonthsAdded
<1>3. /\ m \in 0..LastMonth /\ m + 1 \in 0..LastMonth
      /\ MonthStart[m] \in Nat /\ MonthStart[m + 1] \in Nat
      /\ MonthStart[m + 1] - MonthStart[m] \in 28..31
      /\ (m % 12 = 11 => MonthStart[m + 1] - MonthStart[m] = 31)
  BY <1>1, MonthTypes
<1>4. ASSUME Day(u) < MonthStart[m + 1] PROVE Month(u) = m
  <2>1. MonthStart[m] <= Day(u)
    BY <1>2, <1>3
  <2> HIDE DEF u, m
  <2> QED BY <1>1, <1>2, <1>4, <2>1, MonthIs
<1>5. d <= 28 \/ m % 12 = 11 \/ n = 0 => Day(u) < MonthStart[m + 1]
  <2>1. CASE d <= 28 \/ m % 12 = 11
    BY <1>2, <1>3, <2>1
  <2>2. CASE n = 0
    <3>1. m = M
      BY <1>1, <2>2
    <3>2. Day(u) = Day(t)
      BY <1>1, <1>2, <3>1, Days, MonthTypes DEF DayOfMonth, InCalendar
    <3> QED BY <1>1, <3>1, <3>2
  <2> QED BY <2>1, <2>2
<1>6. ASSUME ~(Day(u) < MonthStart[m + 1]) PROVE Month(u) = m + 1
  <2>1. n # 0 /\ m + 1 \in 0..(LastMonth - 1)
    <3>1. n # 0
      BY <1>5, <1>6
    <3>2. m = M - n
      OBVIOUS
    <3> HIDE DEF m, M, u, d
    <3> QED BY <1>1, <3>1, <3>2
  <2>2. MonthStart[(m + 1) + 1] \in Nat /\ MonthStart[(m + 1) + 1] - MonthStart[m + 1] \in 28..31
    <3>1. \A k \in 0..(LastMonth - 1) :
            MonthStart[k + 1] \in Nat /\ MonthStart[k + 1] - MonthStart[k] \in 28..31
      BY MonthTypes
    <3> HIDE DEF m
    <3> QED BY <2>1, <3>1
  <2>3. MonthStart[m + 1] <= Day(u) /\ Day(u) < MonthStart[(m + 1) + 1]
    BY <1>2, <1>3, <1>6, <2>2
  <2> HIDE DEF u, m
  <2> QED BY <1>2, <2>1, <2>3, MonthIs
<1> QED BY <1>4, <1>5, <1>6
\* A year back is the same month, or the one after it in the same year.
LEMMA YearsBack ==
  ASSUME NEW t, InCalendar(t), NEW i \in Nat, Month(t) - 12 * i >= 0
  PROVE  Month(AddMonths(t, -(12 * i))) \div 12 = (Month(t) \div 12) - i
<1> DEFINE M == Month(t)
           m == M - 12 * i
           u == AddMonths(t, -(12 * i))
<1>1. 12 * i \in Nat /\ M \in Nat /\ m \in Nat
  BY MonthFound, MonthTypes
<1>2. Month(u) \in {m, m + 1} /\ (m % 12 = 11 => Month(u) = m)
  BY <1>1, MonthsBack
<1>3. m \div 12 = (M \div 12) - i
  BY <1>1
<1>4. m % 12 # 11 => (m + 1) \div 12 = m \div 12
  <2> HIDE DEF m
  <2> QED BY <1>1
<1> HIDE DEF M, m, u
<1> QED BY <1>2, <1>3, <1>4 DEF M, u

-----------------------------------------------------------------------------
(* The periods a policy covers *)

\* keepFor, of any policy.
KeepOf(p, tier) == IF tier \in {"Weekly", "Monthly", "Yearly"} THEN p[tier] ELSE 0

LEMMA MomentInCalendar ==
  ASSUME NEW t \in Moments, NEW p \in Policies
  PROVE  /\ InCalendar(t)
         /\ p.Monthly \in Nat /\ p.Yearly \in Nat /\ p.Weekly \in Nat
         /\ Month(t) - (p.Monthly - 1) >= 0 /\ Month(t) + p.Monthly <= LastMonth
         /\ Month(t) - 12 * (p.Yearly - 1) >= 0 /\ Month(t) + 12 * p.Yearly <= LastMonth
<1>1. t \in Nat /\ Day(t) >= 0
  <2>1. t \in Nat
    BY MomentsAssumption
  <2> QED BY <2>1, TicksAssumption DEF Day
<1>2. p.Monthly \in Nat /\ p.Yearly \in Nat /\ p.Weekly \in Nat
  BY PoliciesAssumption DEF Tiers
<1>3. InCalendar(t)
  BY <1>1, HorizonAssumption DEF InCalendar
<1> QED BY <1>2, <1>3, HorizonAssumption

LEMMA PeriodTypes ==
  ASSUME NEW t, InCalendar(t), NEW tier \in Tiers
  PROVE  Period(tier, t) \in Int
<1>1. Day(t) \in Int /\ Month(t) \in Int
  BY Days, MonthFound DEF InCalendar
<1> QED BY <1>1, TicksAssumption DEF Period, Tiers

\* shift by one period leads to the period before: weeks and years on every day, months
\* up to the 28th.
LEMMA PeriodBefore ==
  ASSUME NEW t \in Moments, NEW p \in Policies, NEW tier \in Tiers, tier # "Quarterly",
         NEW i \in 0..(KeepOf(p, tier) - 1), tier # "Monthly" \/ DayOfMonth(t) <= 28
  PROVE  Period(tier, Shift(tier, t, -i)) = Period(tier, t) - i
<1>0. /\ InCalendar(t) /\ KeepOf(p, tier) \in Nat /\ i \in Nat /\ i <= KeepOf(p, tier) - 1
      /\ t \in Int /\ Day(t) \in Int
  BY MomentInCalendar, Days DEF KeepOf, Tiers, InCalendar
<1>1. CASE tier = "Weekly"
  <2>1. Day(AddDays(t, 7 * (-i))) = Day(t) + 7 * (-i)
    BY <1>0, DaysAdded
  <2>2. (Day(t) + 7 * (-i) + WeekStart) \div 7 = ((Day(t) + WeekStart) \div 7) - i
    BY <1>0, TicksAssumption
  <2> QED BY <1>1, <2>1, <2>2 DEF Period, Shift
<1>2. CASE tier = "Monthly"
  <2>1. Month(t) - i >= 0
    BY <1>0, <1>2, MomentInCalendar, MonthFound DEF KeepOf
  <2>2. Month(AddMonths(t, -i)) = Month(t) - i
    BY <1>0, <1>2, <2>1, MonthsBack
  <2> QED BY <1>2, <2>2 DEF Period, Shift
<1>3. CASE tier = "Yearly"
  <2>1. Month(t) - 12 * i >= 0
    BY <1>0, <1>3, MomentInCalendar, MonthFound DEF KeepOf
  <2>2. 12 * (-i) = -(12 * i)
    BY <1>0
  <2> QED BY <1>0, <1>3, <2>1, <2>2, YearsBack DEF Period, Shift
<1> QED BY <1>1, <1>2, <1>3 DEF Tiers

\* So the expected periods are the last ones, the present one included.
LEMMA PeriodsCovered ==
  ASSUME NEW t \in Moments, NEW p \in Policies, NEW tier \in Tiers,
         tier # "Monthly" \/ DayOfMonth(t) <= 28
  PROVE  {Period(tier, Shift(tier, t, -i)) : i \in 0..(KeepOf(p, tier) - 1)}
         = (Period(tier, t) - KeepOf(p, tier) + 1)..Period(tier, t)
<1> DEFINE P == Period(tier, t)
           K == KeepOf(p, tier)
<1>1. P \in Int /\ K \in Nat
  BY MomentInCalendar, PeriodTypes DEF KeepOf, Tiers
<1>2. CASE tier = "Quarterly"
  <2>1. K = 0
    BY <1>2 DEF KeepOf
  <2> HIDE DEF P, K
  <2> QED BY <1>1, <2>1 DEF P, K
<1>3. CASE tier # "Quarterly"
  <2>1. \A i \in 0..(K - 1) : Period(tier, Shift(tier, t, -i)) = P - i
    BY <1>3, PeriodBefore
  <2>2. {Period(tier, Shift(tier, t, -i)) : i \in 0..(K - 1)} = {P - i : i \in 0..(K - 1)}
    BY <2>1
  <2>3. {P - i : i \in 0..(K - 1)} = (P - K + 1)..P
    <3> HIDE DEF P, K
    <3>1. ASSUME NEW q \in (P - K + 1)..P PROVE P - q \in 0..(K - 1) /\ q = P - (P - q)
      BY <1>1
    <3>2. ASSUME NEW i \in 0..(K - 1) PROVE P - i \in (P - K + 1)..P
      BY <1>1
    <3> QED BY <3>1, <3>2
  <2> QED BY <2>2, <2>3
<1> QED BY <1>2, <1>3

-----------------------------------------------------------------------------
(* The inductive invariant *)

RetentionIInv ==
  /\ now \in Moments
  /\ policy \in Policies
  /\ points \cup seen \subseteq [date : Moments, periods : Marks]
  /\ IsFiniteSet(points \cup seen) /\ Cardinality(points \cup seen) <= MaxPoints

LEMMA RetentionStarts == RetentionInit => RetentionIInv
<1> SUFFICES ASSUME RetentionInit PROVE RetentionIInv
  OBVIOUS
<1>1. points \cup seen = {}
  BY DEF RetentionInit
<1> QED BY <1>1, FS_EmptySet, PointsAssumption DEF RetentionInit, RetentionIInv

LEMMA LaterIsLater == Later # {} => Min(Later) \in Moments /\ Min(Later) > now
<1> SUFFICES ASSUME Later # {} PROVE Min(Later) \in Later
  BY DEF Later
<1>1. Later \in SUBSET Nat
  BY MomentsAssumption DEF Later
<1>2. PICK m \in Later : \A k \in Later : m <= k
  BY <1>1, LeastNatural
<1> QED BY <1>2 DEF Min

\* Some of the points there were are no more than there were.
LEMMA FewerPoints ==
  ASSUME RetentionIInv, points' \cup seen' \subseteq points \cup seen
  PROVE  /\ points' \cup seen' \subseteq [date : Moments, periods : Marks]
         /\ IsFiniteSet(points' \cup seen') /\ Cardinality(points' \cup seen') <= MaxPoints
<1> DEFINE before == points \cup seen
           after == points' \cup seen'
<1>1. IsFiniteSet(before) /\ Cardinality(before) <= MaxPoints /\ after \subseteq before
  BY DEF RetentionIInv
<1>2. before \subseteq [date : Moments, periods : Marks]
  BY DEF RetentionIInv
<1> HIDE DEF before, after
<1>3. IsFiniteSet(after) /\ Cardinality(after) <= Cardinality(before)
  BY <1>1, FS_Subset
<1>4. Cardinality(after) \in Nat /\ Cardinality(before) \in Nat
  BY <1>1, <1>3, FS_CardinalityType
<1>5. Cardinality(after) <= MaxPoints
  BY <1>1, <1>3, <1>4, PointsAssumption
<1>6. after \subseteq [date : Moments, periods : Marks]
  BY <1>1, <1>2
<1> QED BY <1>3, <1>5, <1>6 DEF after

LEMMA RetentionKeeps == RetentionIInv /\ [RetentionNext]_retentionVars => RetentionIInv'
<1> SUFFICES ASSUME RetentionIInv, [RetentionNext]_retentionVars PROVE RetentionIInv'
  OBVIOUS
<1>1. CASE Tick
  <2>1. now' \in Moments
    BY <1>1, LaterIsLater DEF Tick
  <2> QED BY <1>1, <2>1 DEF Tick, RetentionIInv
<1>2. ASSUME NEW periods \in Marks, Mark(periods) PROVE RetentionIInv'
  <2> DEFINE x == [date |-> now, periods |-> periods]
             held == points \cup seen
  <2>1. x \in [date : Moments, periods : Marks]
    BY DEF RetentionIInv
  <2>2. held \subseteq [date : Moments, periods : Marks] /\ IsFiniteSet(held) /\ Cardinality(held) < MaxPoints
    BY <1>2 DEF RetentionIInv, Mark
  <2>3. points' \cup seen' = held \cup {x} /\ now' = now /\ policy' = policy
    BY <1>2 DEF Mark
  <2> HIDE DEF x, held
  <2>4. /\ IsFiniteSet(held \cup {x}) /\ Cardinality(held) \in Nat
        /\ Cardinality(held \cup {x}) \in {Cardinality(held), Cardinality(held) + 1}
    BY <2>2, FS_AddElement, FS_CardinalityType
  <2>5. Cardinality(held \cup {x}) <= MaxPoints
    BY <2>2, <2>4, PointsAssumption
  <2>6. held \cup {x} \subseteq [date : Moments, periods : Marks]
    BY <2>1, <2>2
  <2> QED BY <2>3, <2>4, <2>5, <2>6 DEF RetentionIInv
<1>3. ASSUME points' \cup seen' \subseteq points \cup seen, now' = now, policy' \in Policies
      PROVE  RetentionIInv'
  BY <1>3, FewerPoints DEF RetentionIInv
<1>4. ASSUME NEW x \in points, RemovePoint(x) PROVE RetentionIInv'
  BY <1>3, <1>4 DEF RemovePoint, RetentionIInv
<1>5. ASSUME NEW some \in SUBSET (points \cup seen), Read(some) PROVE RetentionIInv'
  BY <1>3, <1>5 DEF Read, RetentionIInv
<1>6. ASSUME NEW p \in Policies, Edit(p) PROVE RetentionIInv'
  BY <1>3, <1>6 DEF Edit
<1>7. CASE UNCHANGED retentionVars
  BY <1>7 DEF RetentionIInv, retentionVars
<1> QED BY <1>1, <1>2, <1>4, <1>5, <1>6, <1>7 DEF RetentionNext

LEMMA RetentionInvariant == RetentionSpec => []RetentionIInv
  BY RetentionStarts, RetentionKeeps, PTL DEF RetentionSpec

-----------------------------------------------------------------------------
(* What the view shows *)

LEMMA KeepIsKeepOf == \A tier : Keep(tier) = KeepOf(policy, tier)
  BY DEF Keep, KeepOf

\* No more periods are expected than the policy keeps.
LEMMA ExpectedCount ==
  ASSUME RetentionIInv, NEW tier \in Tiers
  PROVE  Cardinality(Expected(tier)) <= Keep(tier)
<1> DEFINE K == Keep(tier)
           f == [i \in 0..(K - 1) |-> Period(tier, Shift(tier, now, -i))]
<1>1. K \in Nat
  BY MomentInCalendar DEF RetentionIInv, Keep
<1>2. IsFiniteSet(0..(K - 1)) /\ Cardinality(0..(K - 1)) = K
  <2> HIDE DEF K
  <2> QED BY <1>1, FS_Interval
<1>3. f \in Surjection(0..(K - 1), Expected(tier))
  BY DEF Expected, Surjection
<1> HIDE DEF f, K
<1> QED BY <1>2, <1>3, FS_Surjection DEF K

\* The points and the policy stay in their types, and no more periods are expected than
\* the policy keeps.
THEOREM RetentionTypeCorrect == RetentionSpec => []RetentionTypeOK
<1>1. RetentionIInv => RetentionTypeOK
  BY ExpectedCount DEF RetentionIInv, RetentionTypeOK
<1> QED BY <1>1, RetentionInvariant, PTL

LEMMA ExpectedIsKept ==
  ASSUME RetentionIInv, NEW tier \in Tiers, tier # "Monthly" \/ DayOfMonth(now) <= 28
  PROVE  Expected(tier) = Kept(tier)
<1>1. Expected(tier) = {Period(tier, Shift(tier, now, -i)) : i \in 0..(KeepOf(policy, tier) - 1)}
  BY KeepIsKeepOf DEF Expected
<1>2. Kept(tier) = (Period(tier, now) - KeepOf(policy, tier) + 1)..Period(tier, now)
  BY KeepIsKeepOf DEF Kept
<1>3. now \in Moments /\ policy \in Policies
  BY DEF RetentionIInv
<1> QED BY <1>1, <1>2, <1>3, PeriodsCovered

\* The periods of a point are finitely many, so one that is given is the first or comes
\* after the first.
LEMMA FirstPeriod ==
  ASSUME RetentionIInv, NEW x \in seen
  PROVE  /\ x.date \in Moments
         /\ GFS(x) # "None" => GFS(x) \in ToSet(x.periods)
         /\ \A tier \in Tiers : tier \in ToSet(x.periods) => GFS(x) = tier \/ Outranked(x, tier)
<1>1. x.date \in Moments /\ x.periods \in Seq(Tiers \cup {"None"})
  BY PointsAssumption DEF RetentionIInv
<1>2. Given(x) \in SUBSET Nat /\ Given(x) \subseteq DOMAIN x.periods
  BY <1>1 DEF Given
<1>3. ASSUME Given(x) # {}
      PROVE  Min(Given(x)) \in Given(x) /\ \A k \in Given(x) : Min(Given(x)) <= k
  <2>1. PICK m \in Given(x) : \A k \in Given(x) : m <= k
    BY <1>2, <1>3, LeastNatural
  <2> QED BY <2>1 DEF Min
<1>4. ASSUME GFS(x) # "None" PROVE GFS(x) \in ToSet(x.periods)
  BY <1>2, <1>3, <1>4 DEF GFS, ToSet
<1>5. ASSUME NEW tier \in Tiers, tier \in ToSet(x.periods), GFS(x) # tier PROVE Outranked(x, tier)
  <2>1. PICK i \in DOMAIN x.periods : x.periods[i] = tier
    BY <1>5 DEF ToSet
  <2>2. tier # "None" /\ i \in Given(x)
    BY <2>1 DEF Given, Tiers
  <2> DEFINE j == Min(Given(x))
  <2>3. j \in Given(x) /\ j <= i /\ x.periods[j] = GFS(x)
    BY <1>3, <2>2 DEF GFS
  <2>4. j \in DOMAIN x.periods /\ x.periods[j] \notin {"None", tier}
    BY <1>5, <2>3 DEF Given
  <2>5. j < i
    <3>1. j # i
      BY <2>1, <2>4
    <3>2. i \in Nat /\ j \in Nat
      BY <1>2, <2>2, <2>3
    <3> HIDE DEF j
    <3> QED BY <2>3, <3>1, <3>2
  <2> QED BY <2>1, <2>4, <2>5 DEF Outranked
<1> QED BY <1>1, <1>4, <1>5

\* In every calendar, for every policy, whatever tiers the points are marked for and
\* whichever of them are read: the gaps shown are accounted for, for weeks and years on each
\* day and for months up to the 28th.
THEOREM GapsAreAccountedFor == RetentionSpec => []GapsAccountedFor
<1>1. ASSUME RetentionIInv PROVE GapsAccountedFor
  <2> SUFFICES ASSUME NEW tier \in Tiers, tier # "Monthly" \/ DayOfMonth(now) <= 28
               PROVE  /\ Missing(tier) \subseteq Kept(tier)
                      /\ \A p \in Kept(tier) \ Missing(tier) : \E x \in seen : Covers(x, tier, p)
                      /\ \A p \in Missing(tier), x \in seen : Covers(x, tier, p) => Outranked(x, tier)
    BY DEF GapsAccountedFor
  <2>1. Missing(tier) = Kept(tier) \ Have(tier)
    BY <1>1, ExpectedIsKept DEF Missing
  <2>2. ASSUME NEW p \in Kept(tier) \ Missing(tier) PROVE \E x \in seen : Covers(x, tier, p)
    <3>1. PICK x \in seen : GFS(x) = tier /\ Period(tier, x.date) = p
      BY <2>1 DEF Have
    <3>2. tier \in ToSet(x.periods)
      BY <1>1, <3>1, FirstPeriod DEF Tiers
    <3> QED BY <3>1, <3>2 DEF Covers
  <2>3. ASSUME NEW p \in Missing(tier), NEW x \in seen, Covers(x, tier, p) PROVE Outranked(x, tier)
    <3>1. GFS(x) # tier
      BY <2>1, <2>3 DEF Have, Covers
    <3> QED BY <1>1, <2>3, <3>1, FirstPeriod DEF Covers
  <2> QED BY <2>1, <2>2, <2>3
<1> QED BY <1>1, RetentionInvariant, PTL

\* What AddDate makes of a date in a later month is later.
LEMMA LaterMonthIsLater ==
  ASSUME NEW s, NEW t, InCalendar(s), InCalendar(t), NEW n \in Nat,
         Month(s) + n <= LastMonth, Month(t) < Month(s) + n
  PROVE  AddMonths(s, n) > t
<1> DEFINE m == Month(s) + n
           e == AddMonths(s, n)
<1>1. /\ m \in 0..LastMonth /\ Month(t) + 1 \in 0..LastMonth /\ Month(t) + 1 <= m
      /\ Day(t) < MonthStart[Month(t) + 1]
  BY MonthFound, MonthTypes
<1>2. e \in Int /\ DayOfMonth(s) \in 1..31 /\ Day(e) = MonthStart[m] + DayOfMonth(s) - 1
  BY <1>1, MonthsAdded
<1>3. MonthStart[Month(t) + 1] <= MonthStart[m] /\ MonthStart[Month(t) + 1] \in Nat /\ MonthStart[m] \in Nat
  BY <1>1, MonthsGrow, MonthTypes
<1>4. t \in Int /\ Day(t) \in Int
  BY Days DEF InCalendar
<1>5. Day(t) < Day(e)
  <2> HIDE DEF m, e
  <2> QED BY <1>1, <1>2, <1>3, <1>4
<1> QED BY <1>2, <1>4, <1>5, DaysOrdered

LEMMA ExpiryTypes ==
  ASSUME NEW s \in Moments, NEW p \in Policies, NEW tier \in Tiers \ {"Quarterly"}
  PROVE  Shift(tier, s, p[tier]) \in Int
<1>1. /\ InCalendar(s) /\ s \in Int /\ p.Monthly \in Nat /\ p.Yearly \in Nat /\ p.Weekly \in Nat
      /\ Month(s) + p.Monthly <= LastMonth /\ Month(s) + 12 * p.Yearly <= LastMonth
      /\ Month(s) \in Nat
  BY MomentInCalendar, MonthFound, MonthTypes DEF InCalendar
<1>2. AddDays(s, 7 * p.Weekly) \in Int
  <2>1. 7 * p.Weekly \in Int
    BY <1>1
  <2> QED BY <1>1, <2>1, DaysAdded
<1>3. AddMonths(s, p.Monthly) \in Int
  BY <1>1, MonthsAdded, MonthTypes
<1>4. AddMonths(s, 12 * p.Yearly) \in Int
  <2>1. 12 * p.Yearly \in Int /\ Month(s) + 12 * p.Yearly \in 0..LastMonth
    BY <1>1, MonthTypes
  <2> QED BY <1>1, <2>1, MonthsAdded
<1> QED BY <1>2, <1>3, <1>4 DEF Shift, Tiers

\* The three notions of a period agree.
LEMMA CoveredIsUnexpired ==
  ASSUME NEW s \in Moments, NEW t \in Moments, NEW p \in Policies, NEW tier \in Tiers,
         NEW i \in 0..(KeepOf(p, tier) - 1), Period(tier, s) = Period(tier, Shift(tier, t, -i))
  PROVE  Shift(tier, s, KeepOf(p, tier)) > t
<1>1. /\ InCalendar(s) /\ InCalendar(t) /\ s \in Int /\ t \in Int
      /\ Day(s) \in Int /\ Day(t) \in Int /\ Month(s) \in Nat /\ Month(t) \in Nat
  BY MomentInCalendar, MonthFound, MonthTypes, Days DEF InCalendar
<1>2. tier # "Quarterly"
  BY DEF KeepOf
<1>3. CASE tier = "Weekly"
  <2> DEFINE K == p.Weekly
             e == AddDays(s, 7 * K)
  <2>1. K \in Nat /\ i \in Nat /\ i <= K - 1
    BY <1>3, MomentInCalendar DEF KeepOf
  <2>2. Period(tier, s) = Period(tier, t) - i
    BY <1>2, <1>3, PeriodBefore
  <2>3. (Day(s) + WeekStart) \div 7 = ((Day(t) + WeekStart) \div 7) - i
    BY <1>3, <2>2 DEF Period
  <2>4. e \in Int /\ Day(e) = Day(s) + 7 * K
    <3>1. 7 * K \in Int
      BY <2>1
    <3> QED BY <1>1, <3>1, DaysAdded
  <2>5. Day(t) < Day(e)
    <3> HIDE DEF K, e
    <3> QED BY <1>1, <2>1, <2>3, <2>4, TicksAssumption
  <2>6. e > t
    BY <1>1, <2>4, <2>5, DaysOrdered
  <2> QED BY <1>3, <2>6 DEF Shift, KeepOf
<1>4. CASE tier = "Monthly"
  <2> DEFINE K == p.Monthly
  <2>1. K \in Nat /\ i \in Nat /\ i <= K - 1 /\ Month(s) + K <= LastMonth /\ Month(t) - (K - 1) >= 0
    BY <1>4, MomentInCalendar DEF KeepOf
  <2>2. Month(s) = Month(AddMonths(t, -i))
    BY <1>4 DEF Period, Shift
  <2>3. Month(s) \in {Month(t) - i, Month(t) - i + 1}
    <3>1. Month(t) - i >= 0
      BY <1>1, <2>1
    <3> QED BY <1>1, <2>1, <2>2, <3>1, MonthsBack
  <2>4. Month(t) < Month(s) + K
    BY <1>1, <2>1, <2>3
  <2>5. AddMonths(s, K) > t
    BY <1>1, <2>1, <2>4, LaterMonthIsLater
  <2> QED BY <1>4, <2>5 DEF Shift, KeepOf
<1>5. CASE tier = "Yearly"
  <2> DEFINE K == p.Yearly
  <2>1. K \in Nat /\ i \in Nat /\ i <= K - 1 /\ Month(s) + 12 * K <= LastMonth
    BY <1>5, MomentInCalendar DEF KeepOf
  <2>2. Period(tier, s) = Period(tier, t) - i
    BY <1>2, <1>5, PeriodBefore
  <2>3. Month(s) \div 12 = (Month(t) \div 12) - i
    BY <1>5, <2>2 DEF Period
  <2>4. Month(t) < Month(s) + 12 * K /\ 12 * K \in Nat
    <3> HIDE DEF K
    <3> QED BY <1>1, <2>1, <2>3
  <2>5. AddMonths(s, 12 * K) > t
    BY <1>1, <2>1, <2>4, LaterMonthIsLater
  <2> QED BY <1>5, <2>5 DEF Shift, KeepOf
<1> QED BY <1>2, <1>3, <1>4, <1>5 DEF Tiers

\* int() of a number of days.
LEMMA Truncated ==
  ASSUME NEW d \in Int
  PROVE  /\ d \in 0..(30 * TicksPerDay) => Trunc(d) \in 0..30
         /\ Trunc(d) \in 0..30 => d > -TicksPerDay
<1>1. CASE d >= 0
  <2>1. d > -TicksPerDay
    BY <1>1, TicksAssumption
  <2>2. d <= 30 * TicksPerDay => d \div TicksPerDay \in 0..30
    BY <1>1, TicksAssumption
  <2> QED BY <1>1, <2>1, <2>2 DEF Trunc
<1>2. CASE d < 0
  <2>1. (-d) \div TicksPerDay \in Int /\ (-d) < TicksPerDay * ((-d) \div TicksPerDay) + TicksPerDay
    BY TicksAssumption
  <2>2. Trunc(d) = -((-d) \div TicksPerDay)
    BY <1>2 DEF Trunc
  <2>3. ASSUME Trunc(d) \in 0..30 PROVE d > -TicksPerDay
    <3>1. (-d) \div TicksPerDay <= 0
      BY <2>1, <2>2, <2>3
    <3>2. TicksPerDay * ((-d) \div TicksPerDay) <= 0
      BY <2>1, <3>1, TicksAssumption
    <3> QED BY <2>1, <3>2, TicksAssumption
  <2> QED BY <1>2, <2>3
<1> QED BY <1>1, <1>2

\* Whatever the lengths of the months, the day of the week and the hour: no point of a
\* period that the policy covers has expired, and the list of what is about to expire
\* is right up to a day.
THEOREM CoveredPointsAreUnexpired == RetentionSpec => []ExpectedUnexpired
<1>1. ASSUME RetentionIInv PROVE ExpectedUnexpired
  <2> SUFFICES ASSUME NEW x \in seen
               PROVE  /\ Period(GFS(x), x.date) \in Expected(GFS(x)) => Expiry(x) > now
                      /\ HasExpiry(x) /\ Expiry(x) - now \in 0..(30 * TicksPerDay) => x \in Soon
                      /\ HasExpiry(x) /\ x \in Soon => Expiry(x) - now > -TicksPerDay
    BY DEF ExpectedUnexpired
  <2>1. /\ x.date \in Moments /\ now \in Moments /\ policy \in Policies
        /\ now \in Int
    BY <1>1, MomentsAssumption DEF RetentionIInv
  <2>2. Expiry(x) = Shift(GFS(x), x.date, KeepOf(policy, GFS(x)))
    BY KeepIsKeepOf DEF Expiry
  <2>3. ASSUME Period(GFS(x), x.date) \in Expected(GFS(x)) PROVE Expiry(x) > now
    <3>1. PICK i \in 0..(KeepOf(policy, GFS(x)) - 1) :
            Period(GFS(x), x.date) = Period(GFS(x), Shift(GFS(x), now, -i))
      BY <2>3, KeepIsKeepOf DEF Expected
    <3>2. GFS(x) \in Tiers
      BY <3>1 DEF KeepOf, Tiers
    <3> QED BY <2>1, <2>2, <3>1, <3>2, CoveredIsUnexpired
  <2>4. ASSUME HasExpiry(x)
        PROVE  /\ Expiry(x) - now \in 0..(30 * TicksPerDay) => x \in Soon
               /\ x \in Soon => Expiry(x) - now > -TicksPerDay
    <3>1. GFS(x) \in Tiers \ {"Quarterly"} /\ KeepOf(policy, GFS(x)) = policy[GFS(x)]
      BY <2>4 DEF HasExpiry, Keep, KeepOf, Tiers
    <3>2. Expiry(x) \in Int
      BY <2>1, <2>2, <3>1, ExpiryTypes
    <3>3. Expiry(x) - now \in Int /\ DaysLeft(x) = Trunc(Expiry(x) - now)
      BY <2>1, <3>2 DEF DaysLeft
    <3> QED BY <2>4, <3>3, Truncated DEF Soon
  <2> QED BY <2>3, <2>4
<1> QED BY <1>1, RetentionInvariant, PTL

\* A later moment is in no earlier week or year.
LEMMA PeriodsOrdered ==
  ASSUME NEW s \in Moments, NEW t \in Moments, NEW p \in Policies, s <= t,
         NEW tier \in {"Weekly", "Yearly"}
  PROVE  Period(tier, s) <= Period(tier, t)
<1>1. /\ InCalendar(s) /\ InCalendar(t) /\ s \in Int /\ t \in Int
      /\ Day(s) \in Int /\ Day(t) \in Int /\ Month(s) \in Nat /\ Month(t) \in Nat
  BY MomentInCalendar, MonthFound, MonthTypes, Days DEF InCalendar
<1>2. Day(s) <= Day(t) /\ Month(s) <= Month(t)
  BY <1>1, DaysOrdered, MonthsOrdered
<1>3. (Day(s) + WeekStart) \div 7 <= (Day(t) + WeekStart) \div 7
  BY <1>1, <1>2, TicksAssumption
<1>4. Month(s) \div 12 <= Month(t) \div 12
  BY <1>1, <1>2
<1> QED BY <1>3, <1>4 DEF Period

\* A gap does not vanish from the view unless it is closed, is no longer to be covered, or
\* the policy changes.
THEOREM GapsStay == RetentionSpec => GapStays
<1>1. ASSUME RetentionIInv, RetentionIInv', [RetentionNext]_retentionVars,
             NEW tier \in {"Weekly", "Yearly"}, NEW q \in Missing(tier)
      PROVE  \/ q \in Missing(tier)' \/ q \in Have(tier)'
             \/ policy' # policy
             \/ q < Period(tier, now') - Keep(tier)' + 1
  <2> SUFFICES ASSUME policy' = policy, ~(q < Period(tier, now') - Keep(tier)' + 1), q \notin Have(tier)'
               PROVE  q \in Missing(tier)'
    OBVIOUS
  <2>1. tier \in Tiers /\ tier # "Monthly"
    BY DEF Tiers
  <2>2. /\ now \in Moments /\ now' \in Moments /\ policy \in Policies /\ policy' \in Policies
        /\ now <= now'
    <3>1. now \in Moments /\ now' \in Moments /\ policy \in Policies /\ policy' \in Policies
      BY <1>1 DEF RetentionIInv
    <3>2. now \in Nat
      BY <3>1, MomentsAssumption
    <3>3. now' = now \/ now' > now
      BY <1>1, LaterIsLater DEF RetentionNext, Tick, Mark, RemovePoint, Read, Edit, retentionVars
    <3> QED BY <3>1, <3>2, <3>3, MomentsAssumption
  <2> DEFINE K == KeepOf(policy, tier)
  <2>3. K \in Nat /\ Keep(tier) = K /\ Keep(tier)' = K
    BY <2>2, MomentInCalendar DEF KeepOf, Keep, Tiers
  <2>4. Expected(tier) = (Period(tier, now) - K + 1)..Period(tier, now)
    BY <2>1, <2>2, KeepIsKeepOf, PeriodsCovered DEF Expected
  <2>5. Expected(tier)' = (Period(tier, now') - K + 1)..Period(tier, now')
    <3>1. Expected(tier)' = {Period(tier, Shift(tier, now', -i)) : i \in 0..(K - 1)}
      BY <2>3 DEF Expected
    <3> QED BY <2>1, <2>2, <3>1, PeriodsCovered
  <2>6. /\ Period(tier, now) \in Int /\ Period(tier, now') \in Int
        /\ Period(tier, now) <= Period(tier, now')
    BY <2>1, <2>2, MomentInCalendar, PeriodTypes, PeriodsOrdered
  <2>7. q \in (Period(tier, now) - K + 1)..Period(tier, now)
    BY <2>4 DEF Missing
  <2>8. q \in Expected(tier)'
    <3> HIDE DEF K
    <3> QED BY <2>3, <2>5, <2>6, <2>7
  <2> QED BY <2>8 DEF Missing
<1>2. RetentionIInv /\ RetentionIInv' /\ [RetentionNext]_retentionVars =>
        [\A tier \in {"Weekly", "Yearly"} :
           \A p \in Missing(tier) :
             \/ p \in Missing(tier)' \/ p \in Have(tier)'
             \/ policy' # policy
             \/ p < Period(tier, now') - Keep(tier)' + 1]_retentionVars
  BY <1>1
<1> QED BY <1>2, RetentionInvariant, PTL DEF RetentionSpec, GapStays

-----------------------------------------------------------------------------
(* InventoryLinks: what Added returns *)

\* a[k] is what has been gathered after k members of more.
Grown(rs, more, n, a) ==
  /\ DOMAIN a = 0..n
  /\ \A k \in 0..n :
       a[k] = IF k = 0 THEN rs
              ELSE IF more[k] \in ToSet(a[k - 1]) THEN a[k - 1] ELSE Append(a[k - 1], more[k])

\* The recursion of Added has a solution, and Added is its last value.
LEMMA GrownExists ==
  ASSUME NEW rs, NEW more, NEW n \in Nat
  PROVE  \E a : Grown(rs, more, n, a)
<1> DEFINE Without == {k \in Nat : ~ \E a : Grown(rs, more, k, a)}
<1>1. ASSUME Without # {} PROVE FALSE
  <2>1. PICK k \in Without : \A j \in Without : k <= j
    <3>1. Without \in SUBSET Nat
      OBVIOUS
    <3> HIDE DEF Without
    <3> QED BY <1>1, <3>1, LeastNatural
  <2>2. CASE k = 0
    <3>1. Grown(rs, more, 0, [j \in 0..0 |-> rs])
      BY DEF Grown
    <3> QED BY <2>2, <3>1
  <2>3. CASE k # 0
    <3>1. k - 1 \in Nat /\ k - 1 \notin Without
      BY <2>1, <2>3
    <3>2. PICK a : Grown(rs, more, k - 1, a)
      BY <3>1
    <3> DEFINE last == IF more[k] \in ToSet(a[k - 1]) THEN a[k - 1] ELSE Append(a[k - 1], more[k])
               b == [j \in 0..k |-> IF j = k THEN last ELSE a[j]]
    <3>3. \A j \in 0..(k - 1) : b[j] = a[j] /\ j \in 0..k
      OBVIOUS
    <3>4. ASSUME NEW j \in 0..k
          PROVE  b[j] = IF j = 0 THEN rs
                        ELSE IF more[j] \in ToSet(b[j - 1]) THEN b[j - 1] ELSE Append(b[j - 1], more[j])
      <4>1. CASE j = k
        <5>1. b[j] = last /\ b[j - 1] = a[k - 1]
          BY <2>3, <3>3, <4>1
        <5> QED BY <2>3, <4>1, <5>1
      <4>2. CASE j \in 0..(k - 1)
        <5>1. b[j] = a[j] /\ (j # 0 => b[j - 1] = a[j - 1])
          BY <3>3, <4>2
        <5> HIDE DEF b
        <5> QED BY <3>2, <4>2, <5>1 DEF Grown
      <4> QED BY <4>1, <4>2
    <3>5. Grown(rs, more, k, b)
      <4>1. DOMAIN b = 0..k
        OBVIOUS
      <4> HIDE DEF b
      <4> QED BY <3>4, <4>1 DEF Grown
    <3> QED BY <3>5
  <2> QED BY <2>2, <2>3
<1> QED BY <1>1

LEMMA AddedIsGrown ==
  ASSUME NEW rs, NEW more, Len(more) \in Nat
  PROVE  \E a : Grown(rs, more, Len(more), a) /\ Added(rs, more) = a[Len(more)]
<1> DEFINE F(g) == [n \in 0..Len(more) |->
                      IF n = 0 THEN rs
                      ELSE IF more[n] \in ToSet(g[n - 1]) THEN g[n - 1] ELSE Append(g[n - 1], more[n])]
           acc == CHOOSE g : g = F(g)
<1>1. Added(rs, more) = acc[Len(more)]
  BY DEF Added
<1>2. PICK a : Grown(rs, more, Len(more), a)
  BY GrownExists
<1>3. [k \in 0..Len(more) |-> a[k]] = F([k \in 0..Len(more) |-> a[k]])
  BY <1>2 DEF Grown
<1>4. acc = F(acc)
  <2> HIDE DEF F
  <2> QED BY <1>3
<1>5. Grown(rs, more, Len(more), acc)
  <2>1. DOMAIN F(acc) = 0..Len(more)
    OBVIOUS
  <2>2. ASSUME NEW n \in 0..Len(more)
        PROVE  F(acc)[n] = IF n = 0 THEN rs
                      ELSE IF more[n] \in ToSet(acc[n - 1]) THEN acc[n - 1] ELSE Append(acc[n - 1], more[n])
    OBVIOUS
  <2> HIDE DEF acc, F
  <2> QED BY <1>4, <2>1, <2>2 DEF Grown
<1> QED BY <1>1, <1>5

\* Adding the members of more one by one, those seen before left out.
LEMMA AddedHasAll ==
  ASSUME NEW S, NEW rs \in Seq(S), NEW more \in Seq(S), IsInjective(rs)
  PROVE  /\ Added(rs, more) \in Seq(S)
         /\ IsInjective(Added(rs, more))
         /\ ToSet(rs) \cup ToSet(more) \subseteq ToSet(Added(rs, more))
<1>1. PICK a : Grown(rs, more, Len(more), a) /\ Added(rs, more) = a[Len(more)]
  BY AddedIsGrown
<1> DEFINE Good(k) == /\ a[k] \in Seq(S)
                      /\ IsInjective(a[k])
                      /\ ToSet(rs) \subseteq ToSet(a[k])
                      /\ \A i \in 1..k : more[i] \in ToSet(a[k])
           Bad == {k \in 0..Len(more) : ~Good(k)}
<1>2. ASSUME Bad # {} PROVE FALSE
  <2>1. PICK k \in Bad : \A j \in Bad : k <= j
    <3>1. Bad \in SUBSET Nat
      OBVIOUS
    <3> HIDE DEF Bad
    <3> QED BY <1>2, <3>1, LeastNatural
  <2>2. CASE k = 0
    BY <1>1, <2>1, <2>2 DEF Grown
  <2>3. CASE k # 0
    <3>1. k \in 1..Len(more) /\ k - 1 \in 0..Len(more) /\ Good(k - 1)
      BY <2>1, <2>3
    <3>2. a[k] = IF more[k] \in ToSet(a[k - 1]) THEN a[k - 1] ELSE Append(a[k - 1], more[k])
      BY <1>1, <2>3, <3>1 DEF Grown
    <3>3. \A i \in 1..k : i = k \/ i \in 1..(k - 1)
      OBVIOUS
    <3>4. CASE more[k] \in ToSet(a[k - 1])
      <4>1. a[k] = a[k - 1]
        BY <3>2, <3>4
      <4> QED BY <2>1, <3>1, <3>3, <3>4, <4>1
    <3>5. CASE more[k] \notin ToSet(a[k - 1])
      <4> DEFINE p == a[k - 1]
      <4>1. a[k] = Append(p, more[k]) /\ p \in Seq(S) /\ more[k] \in S
        BY <3>1, <3>2, <3>5
      <4>2. a[k] \in Seq(S) /\ Len(a[k]) = Len(p) + 1 /\ Len(p) \in Nat
            /\ DOMAIN a[k] = 1..(Len(p) + 1) /\ DOMAIN p = 1..Len(p)
            /\ a[k][Len(p) + 1] = more[k] /\ \A i \in 1..Len(p) : a[k][i] = p[i]
        <5> HIDE DEF p
        <5> QED BY <4>1
      <4>3. ToSet(a[k]) = ToSet(p) \cup {more[k]}
        <5> DEFINE n == Len(p)
        <5>1. ToSet(p) = {p[i] : i \in 1..n} /\ ToSet(a[k]) = {a[k][i] : i \in 1..(n + 1)}
          BY <4>2 DEF ToSet
        <5>2. n \in Nat /\ a[k][n + 1] = more[k] /\ \A i \in 1..n : a[k][i] = p[i]
          BY <4>2
        <5> HIDE DEF p, n
        <5>3. \A i \in 1..(n + 1) : i \in 1..n \/ i = n + 1
          BY <5>2
        <5>4. 1..n \subseteq 1..(n + 1) /\ n + 1 \in 1..(n + 1)
          BY <5>2
        <5>5. ASSUME NEW x \in ToSet(a[k]) PROVE x \in ToSet(p) \cup {more[k]}
          BY <5>1, <5>2, <5>3
        <5>6. ASSUME NEW x \in ToSet(p) \cup {more[k]} PROVE x \in ToSet(a[k])
          BY <5>1, <5>2, <5>4
        <5> QED BY <5>5, <5>6
      <4>4. IsInjective(a[k])
        <5>1. IsInjective(p) /\ \A i \in 1..Len(p) : p[i] # more[k]
          BY <3>1, <3>5, <4>2 DEF ToSet
        <5> HIDE DEF p
        <5>2. \A i \in 1..(Len(p) + 1) : i \in 1..Len(p) \/ i = Len(p) + 1
          BY <4>2
        <5>3. \A i, j \in 1..Len(p) : p[i] = p[j] => i = j
          BY <4>2, <5>1 DEF IsInjective
        <5>4. ASSUME NEW i \in DOMAIN a[k], NEW j \in DOMAIN a[k], a[k][i] = a[k][j]
              PROVE  i = j
          BY <4>2, <5>1, <5>2, <5>3, <5>4
        <5> QED BY <5>4 DEF IsInjective
      <4> QED BY <2>1, <3>1, <3>3, <4>2, <4>3, <4>4
    <3> QED BY <3>4, <3>5
  <2> QED BY <2>2, <2>3
<1>3. Good(Len(more))
  <2>1. Len(more) \in 0..Len(more)
    OBVIOUS
  <2> HIDE DEF Good
  <2> QED BY <1>2, <2>1
<1>4. ToSet(more) \subseteq ToSet(a[Len(more)])
  BY <1>3 DEF ToSet
<1> QED BY <1>1, <1>3, <1>4

-----------------------------------------------------------------------------
(* Types *)

USE JobsAssumption, BackupsAssumption, ObjectsAssumption, WorldsAssumption

Linking == {"contents", "files", "links"}

\* No backup is read before the objects are known.
StartsAtFirst == pc \notin Linking \cup {"done"} => at = 1

\* The backup that is read is one of /backups.
LEMMA ThisIsHeld == TypeOK /\ pc \in {"contents", "files"} => This \in Held
  BY DEF TypeOK, This, Held, ToSet

LEMMA JobsOfBackups == ASSUME NEW bs \in SUBSET Held PROVE JobsOf(bs) \subseteq Jobs
  BY DEF JobsOf

\* Linking keeps both tables in their types.
LEMMA LinkTypes ==
  ASSUME TypeOK, NEW pairs \in SUBSET (Workloads \X (Jobs \cup {NoJob})), Link(pairs)
  PROVE  vmJobs' \in [Workloads -> SUBSET Jobs] /\ jobVms' \in [Jobs -> SUBSET Workloads]
<1> DEFINE named == {p \in pairs : p[2] # NoJob}
<1>1. \A p \in named : p[1] \in Workloads /\ p[2] \in Jobs
  OBVIOUS
<1>2. \A w \in Workloads : {p[2] : p \in {q \in named : q[1] = w}} \subseteq Jobs
  BY <1>1
<1>3. \A j \in Jobs : {p[1] : p \in {q \in named : q[2] = j}} \subseteq Workloads
  BY <1>1
<1> QED BY <1>2, <1>3 DEF Link, TypeOK

LEMMA ReadRepositoriesTypes == TypeOK /\ ReadRepositories => TypeOK'
  BY DEF TypeOK, ReadRepositories, links

LEMMA ReadStatesTypes == TypeOK /\ ReadStates => TypeOK'
  BY DEF TypeOK, ReadStates, links

LEMMA ReadScaleOutTypes == TypeOK /\ ReadScaleOut => TypeOK'
  BY DEF TypeOK, ReadScaleOut, links

LEMMA ListJobsTypes == TypeOK /\ ListJobs => TypeOK'
<1> SUFFICES ASSUME TypeOK, ListJobs PROVE TypeOK'
  OBVIOUS
<1>1. jobs' \subseteq Jobs
  BY DEF TypeOK, ListJobs, JobsOf
<1> QED BY <1>1 DEF TypeOK, ListJobs, links

LEMMA ReadBackupsTypes == TypeOK /\ ReadBackups => TypeOK'
  BY JobsOfBackups DEF TypeOK, ReadBackups, links, JobsOf

LEMMA SomeBackup == IF Held = {} THEN Len(Backups) = 0 ELSE Len(Backups) >= 1
<1>1. Len(Backups) \in Nat /\ DOMAIN Backups = 1..Len(Backups)
  OBVIOUS
<1>2. Held = {Backups[i] : i \in 1..Len(Backups)}
  BY <1>1 DEF Held, ToSet
<1>3. CASE Len(Backups) = 0
  <2>1. Held = {}
    BY <1>2, <1>3
  <2> QED BY <2>1, <1>3
<1>4. CASE Len(Backups) >= 1
  <2>1. Backups[1] \in Held
    BY <1>2, <1>4
  <2> QED BY <2>1, <1>4
<1> QED BY <1>1, <1>3, <1>4

LEMMA ReadObjectsTypes == TypeOK /\ StartsAtFirst /\ ReadObjects => TypeOK'
<1> SUFFICES ASSUME TypeOK, StartsAtFirst, ReadObjects PROVE TypeOK'
  OBVIOUS
<1>1. at = 1
  BY DEF StartsAtFirst, ReadObjects, Linking
<1>2. pc' \in {"contents", "files"} => at <= Len(Backups)
  BY <1>1, SomeBackup DEF ReadObjects
<1> QED BY <1>2 DEF TypeOK, ReadObjects, Claimed

LEMMA ReadContentsTypes == TypeOK /\ ReadContents => TypeOK'
<1> SUFFICES ASSUME TypeOK, ReadContents PROVE TypeOK'
  OBVIOUS
<1> DEFINE pairs == {<<KeyOf[o], JobOf[This]>> : o \in world.contents[This]}
<1>1. This \in Held
  BY ThisIsHeld DEF ReadContents
<1>2. world.contents[This] \subseteq Objects
  BY <1>1 DEF TypeOK
<1>3. pairs \in SUBSET (Workloads \X (Jobs \cup {NoJob}))
  BY <1>1, <1>2
<1>4. Link(pairs)
  BY DEF ReadContents, Place
<1>5. vmJobs' \in [Workloads -> SUBSET Jobs] /\ jobVms' \in [Jobs -> SUBSET Workloads]
  BY <1>3, <1>4, LinkTypes
<1>6. at' \in 1..(Len(Backups) + 1) /\ (pc' \in {"contents", "files"} => at' <= Len(Backups))
  BY DEF ReadContents, NextBackup, TypeOK
<1> QED BY <1>2, <1>5, <1>6 DEF TypeOK, ReadContents, links, Place, Placed, NextBackup

LEMMA ReadEmptyTypes == TypeOK /\ ReadEmpty => TypeOK'
  BY DEF TypeOK, ReadEmpty, links

LEMMA ReadFilesTypes == TypeOK /\ ReadFiles => TypeOK'
<1> SUFFICES ASSUME TypeOK, ReadFiles PROVE TypeOK'
  OBVIOUS
<1> DEFINE pairs == {<<KeyOf[o], JobOf[This]>> : o \in world.named[This] \cap known}
<1>1. This \in Held
  BY ThisIsHeld DEF ReadFiles
<1>2. world.named[This] \cap known \subseteq Objects
  BY <1>1 DEF TypeOK
<1>3. pairs \in SUBSET (Workloads \X (Jobs \cup {NoJob}))
  BY <1>1, <1>2
<1>4. Link(pairs)
  BY DEF ReadFiles, Place
<1>5. vmJobs' \in [Workloads -> SUBSET Jobs] /\ jobVms' \in [Jobs -> SUBSET Workloads]
  BY <1>3, <1>4, LinkTypes
<1>6. at' \in 1..(Len(Backups) + 1) /\ (pc' \in {"contents", "files"} => at' <= Len(Backups))
  BY DEF ReadFiles, NextBackup, TypeOK
<1> QED BY <1>2, <1>5, <1>6 DEF TypeOK, ReadFiles, links, Place, Placed, NextBackup

LEMMA ReadFailsTypes == TypeOK /\ ReadFails => TypeOK'
  BY ThisIsHeld DEF TypeOK, ReadFails, links, SkipBackup, NextBackup

LEMMA FallBackTypes == TypeOK /\ FallBack => TypeOK'
<1> SUFFICES ASSUME TypeOK, FallBack PROVE TypeOK'
  OBVIOUS
<1> DEFINE os == {q \in known : KeyOf[q] \in Followers}
           pairs == {<<KeyOf[o], JobOfBackup(objectBackup[o])>> : o \in os}
<1>1. \A b : JobOfBackup(b) \in Jobs \cup {NoJob}
  BY DEF JobOfBackup
<1>2. pairs \in SUBSET (Workloads \X (Jobs \cup {NoJob}))
  BY <1>1 DEF TypeOK
<1>3. vmJobs' \in [Workloads -> SUBSET Jobs] /\ jobVms' \in [Jobs -> SUBSET Workloads]
  BY <1>2, LinkTypes DEF FallBack
<1> QED BY <1>3 DEF TypeOK, FallBack

LEMMA AbortTypes == TypeOK /\ Abort => TypeOK'
  BY DEF TypeOK, Abort, links

-----------------------------------------------------------------------------
(* The inductive invariant *)

\* No link before the backups are known; with them all their jobs are.
JobsFirst ==
  /\ pc \notin Linking \cup {"done"} =>
       (\A w \in Workloads : vmJobs[w] = {}) /\ (\A j \in Jobs : jobVms[j] = {})
  /\ pc \in {"objects", "done"} \cup Linking => JobsOf(Held) \subseteq jobs

\* Both sides of a link know of it.
Mutual ==
  /\ \A w \in Workloads, j \in Jobs : w \in jobVms[j] <=> j \in vmJobs[w]
  /\ \A w \in Workloads : vmJobs[w] \subseteq jobs

\* Before the end every link is of a backup that holds the workload.
Grounded ==
  pc # "done" =>
    \A w \in Workloads : \A j \in vmJobs[w] :
      \E b \in Held, o \in known : In(o, b) /\ KeyOf[o] = w /\ JobOf[b] = j

Links(b) ==
  \A o \in Objects : Told(o, b) /\ JobOf[b] # NoJob => JobOf[b] \in vmJobs[KeyOf[o]]

\* The backups that were read have linked what they hold.
Complete ==
  pc \in Linking =>
    /\ world.catalog \subseteq known
    /\ pc = "files" => world.contents[This] = {}
    /\ pc = "links" => at = Len(Backups) + 1
    /\ \A i \in 1..(at - 1) : Backups[i] \in failed \/ Links(Backups[i])

\* An object is where it claimed to be, or in a backup that has linked it.
Traced ==
  pc # "done" =>
    \A o \in Objects :
      \/ objectBackup[o] \in {world.claims[o], NoBackup}
      \/ /\ objectBackup[o] \in Held
         /\ JobOf[objectBackup[o]] \in vmJobs[KeyOf[o]] \cup {NoJob}

IInv == TypeOK /\ StartsAtFirst /\ JobsFirst /\ Mutual /\ Grounded /\ Complete /\ Traced /\ LinksTrue

-----------------------------------------------------------------------------
(* Link *)

\* What Link does to the two tables, for pairs whose jobs are in the inventory.
LEMMA LinkAdds ==
  ASSUME TypeOK, Mutual, NEW pairs \in SUBSET (Workloads \X (Jobs \cup {NoJob})), Link(pairs),
         \A p \in pairs : p[2] \in jobs \cup {NoJob}
  PROVE  /\ \A w \in Workloads, j \in Jobs :
              j \in vmJobs'[w] <=> (j \in vmJobs[w] \/ <<w, j>> \in pairs)
         /\ \A w \in Workloads, j \in Jobs : w \in jobVms'[j] <=> j \in vmJobs'[w]
         /\ \A w \in Workloads : vmJobs[w] \subseteq vmJobs'[w] /\ vmJobs'[w] \subseteq jobs
<1>1. vmJobs' \in [Workloads -> SUBSET Jobs] /\ jobVms' \in [Jobs -> SUBSET Workloads]
  BY LinkTypes
<1>2. ASSUME NEW w \in Workloads, NEW j \in Jobs
      PROVE  j \in vmJobs'[w] <=> (j \in vmJobs[w] \/ <<w, j>> \in pairs)
  <2>1. vmJobs'[w] = vmJobs[w] \cup {p[2] : p \in {q \in {p \in pairs : p[2] # NoJob} : q[1] = w}}
    BY DEF Link
  <2>2. (j \in {p[2] : p \in {q \in {p \in pairs : p[2] # NoJob} : q[1] = w}}) <=> <<w, j>> \in pairs
    OBVIOUS
  <2> QED BY <2>1, <2>2
<1>3. ASSUME NEW w \in Workloads, NEW j \in Jobs
      PROVE  w \in jobVms'[j] <=> j \in vmJobs'[w]
  <2>1. CASE j \notin jobs
    <3>1. jobVms'[j] = jobVms[j]
      BY <2>1 DEF Link
    <3>2. <<w, j>> \notin pairs
      BY <2>1
    <3> QED BY <1>2, <3>1, <3>2 DEF Mutual
  <2>2. CASE j \in jobs
    <3>1. jobVms'[j] = jobVms[j] \cup {p[1] : p \in {q \in {p \in pairs : p[2] # NoJob} : q[2] = j}}
      BY <2>2 DEF Link
    <3>2. (w \in {p[1] : p \in {q \in {p \in pairs : p[2] # NoJob} : q[2] = j}}) <=> <<w, j>> \in pairs
      OBVIOUS
    <3> QED BY <1>2, <3>1, <3>2 DEF Mutual
  <2> QED BY <2>1, <2>2
<1>4. ASSUME NEW w \in Workloads
      PROVE  vmJobs[w] \subseteq vmJobs'[w] /\ vmJobs'[w] \subseteq jobs
  <2>1. vmJobs[w] \subseteq Jobs /\ vmJobs'[w] \subseteq Jobs
    BY <1>1 DEF TypeOK
  <2>2. ASSUME NEW j \in vmJobs'[w] PROVE j \in jobs
    <3>1. CASE j \in vmJobs[w]
      BY <3>1 DEF Mutual
    <3>2. CASE <<w, j>> \in pairs
      <4>1. <<w, j>>[2] \in jobs \cup {NoJob}
        BY <3>2
      <4> QED BY <2>1, <4>1
    <3> QED BY <1>2, <2>1, <3>1, <3>2
  <2> QED BY <1>2, <2>1, <2>2
<1> QED BY <1>2, <1>3, <1>4

\* A step that keeps the links and forgets no object keeps them grounded.
LEMMA GroundedKeeps ==
  ASSUME Grounded, pc # "done", world' = world, vmJobs' = vmJobs, known \subseteq known'
  PROVE  Grounded'
<1> SUFFICES ASSUME NEW w \in Workloads, NEW j \in vmJobs[w]
             PROVE  \E b \in Held, o \in known' : In(o, b)' /\ KeyOf[o] = w /\ JobOf[b] = j
  BY DEF Grounded
<1>1. PICK b \in Held, o \in known : In(o, b) /\ KeyOf[o] = w /\ JobOf[b] = j
  BY DEF Grounded
<1>2. In(o, b)'
  BY <1>1 DEF In
<1> QED BY <1>1, <1>2

\* The step that reads what the current backup holds: os are objects of it, and all
\* of them that the build must find.
LEMMA PlaceKeeps ==
  ASSUME IInv, NEW os \in SUBSET Objects, pc \in {"contents", "files"}, Place(os), NextBackup,
         \A o \in os : In(o, This),
         \A o \in Objects : Told(o, This) => o \in os,
         os \subseteq known', known \subseteq known', TypeOK',
         UNCHANGED <<world, repos, jobs, jobBackups, failed>>
  PROVE  IInv'
<1> DEFINE pairs == {<<KeyOf[o], JobOf[This]>> : o \in os}
<1>1. This \in Held
  BY ThisIsHeld DEF IInv
<1>2. pairs \in SUBSET (Workloads \X (Jobs \cup {NoJob}))
  BY <1>1
<1>3. JobOf[This] \in jobs \cup {NoJob}
  BY <1>1 DEF IInv, JobsFirst, JobsOf, Linking
<1>4. /\ \A w \in Workloads, j \in Jobs :
           j \in vmJobs'[w] <=> (j \in vmJobs[w] \/ <<w, j>> \in pairs)
      /\ \A w \in Workloads, j \in Jobs : w \in jobVms'[j] <=> j \in vmJobs'[w]
      /\ \A w \in Workloads : vmJobs[w] \subseteq vmJobs'[w] /\ vmJobs'[w] \subseteq jobs
  <2>1. Link(pairs) /\ \A p \in pairs : p[2] \in jobs \cup {NoJob}
    BY <1>3 DEF Place
  <2>2. TypeOK /\ Mutual
    BY DEF IInv
  <2> HIDE DEF pairs
  <2> QED BY <1>2, <2>1, <2>2, LinkAdds
<1>5. pc' \in {"contents", "links"} /\ at' = at + 1 /\ at \in 1..Len(Backups) /\ Len(Backups) \in Nat
      /\ (pc' = "links" => at' = Len(Backups) + 1)
  BY DEF NextBackup, IInv, TypeOK
<1>6. JobsFirst'
  BY <1>5 DEF IInv, JobsFirst, Linking, JobsOf
<1>7. Mutual'
  BY <1>4 DEF Mutual
<1>8. Grounded'
  <2> SUFFICES ASSUME NEW w \in Workloads, NEW j \in vmJobs'[w]
               PROVE  \E b \in Held, o \in known' : In(o, b)' /\ KeyOf[o] = w /\ JobOf[b] = j
    BY DEF Grounded
  <2>0. \A o, b : In(o, b) => In(o, b)'
    BY DEF In
  <2>1. j \in Jobs
    BY DEF TypeOK
  <2>2. CASE j \in vmJobs[w]
    <3>1. PICK b \in Held, o \in known : In(o, b) /\ KeyOf[o] = w /\ JobOf[b] = j
      BY <2>2 DEF IInv, Grounded
    <3> QED BY <2>0, <3>1
  <2>3. CASE <<w, j>> \in pairs
    <3>1. PICK o \in os : KeyOf[o] = w /\ JobOf[This] = j
      BY <2>3
    <3> QED BY <1>1, <2>0, <3>1
  <2> QED BY <2>1, <2>2, <2>3, <1>4
<1>9. ASSUME NEW b \in Held, b = This PROVE Links(b)'
  <2>1. ASSUME NEW o \in Objects, Told(o, b), JobOf[b] # NoJob
        PROVE  JobOf[b] \in vmJobs'[KeyOf[o]]
    <3>1. <<KeyOf[o], JobOf[b]>> \in pairs
      BY <1>9, <2>1
    <3> QED BY <1>4, <2>1, <3>1
  <2>2. \A o : Told(o, b)' <=> Told(o, b)
    BY DEF Told, In
  <2> QED BY <2>1, <2>2 DEF Links
<1>10. Complete'
  <2>1. world'.catalog \subseteq known'
    BY DEF IInv, Complete, Linking
  <2>2. ASSUME NEW i \in 1..(at' - 1)
        PROVE  Backups[i] \in failed \/ Links(Backups[i])'
    <3>1. CASE i = at
      BY <1>1, <1>9, <3>1 DEF This
    <3>2. CASE i \in 1..(at - 1)
      <4>1. Backups[i] \in failed \/ Links(Backups[i])
        BY <3>2 DEF IInv, Complete, Linking
      <4>2. Backups[i] \in Held /\ \A o : Told(o, Backups[i])' <=> Told(o, Backups[i])
        BY <3>2, <1>5 DEF Told, In, Held, ToSet
      <4>3. ASSUME Links(Backups[i]) PROVE Links(Backups[i])'
        BY <4>2, <4>3, <1>4 DEF Links
      <4> QED BY <4>1, <4>3
    <3> QED BY <2>2, <3>1, <3>2, <1>5
  <2> QED BY <2>1, <2>2, <1>5 DEF Complete
<1>11. Traced'
  <2> SUFFICES ASSUME NEW o \in Objects
               PROVE  \/ objectBackup'[o] \in {world.claims[o], NoBackup}
                      \/ /\ objectBackup'[o] \in Held
                         /\ JobOf[objectBackup'[o]] \in vmJobs'[KeyOf[o]] \cup {NoJob}
    BY DEF Traced
  <2>1. CASE o \in os
    <3>1. objectBackup'[o] = This /\ <<KeyOf[o], JobOf[This]>> \in pairs
      BY <2>1 DEF Place, Placed
    <3> QED BY <3>1, <1>1, <1>4
  <2>2. CASE o \notin os
    <3>1. objectBackup'[o] = objectBackup[o]
      BY <2>2 DEF Place, Placed
    <3> QED BY <3>1, <1>4, <1>5 DEF IInv, Traced
  <2> QED BY <2>1, <2>2
<1>12. LinksTrue' /\ StartsAtFirst'
  BY <1>5 DEF LinksTrue, StartsAtFirst, Linking
<1> QED BY <1>6, <1>7, <1>8, <1>10, <1>11, <1>12 DEF IInv

-----------------------------------------------------------------------------
(* Each action keeps IInv *)

LEMMA ReadContentsKeeps == IInv /\ ReadContents => IInv'
<1> SUFFICES ASSUME IInv, ReadContents PROVE IInv'
  OBVIOUS
<1>1. This \in Held /\ world.contents[This] \subseteq Objects
  BY ThisIsHeld DEF IInv, ReadContents, TypeOK
<1>2. TypeOK'
  BY ReadContentsTypes DEF IInv
<1>3. \A o \in Objects : Told(o, This) => o \in world.contents[This]
  BY DEF Told, In, ReadContents
<1> QED BY <1>1, <1>2, <1>3, PlaceKeeps DEF ReadContents, In

LEMMA ReadFilesKeeps == IInv /\ ReadFiles => IInv'
<1> SUFFICES ASSUME IInv, ReadFiles PROVE IInv'
  OBVIOUS
<1> DEFINE os == world.named[This] \cap known
<1>1. This \in Held /\ os \subseteq Objects
  BY ThisIsHeld DEF IInv, ReadFiles, TypeOK
<1>2. TypeOK'
  BY ReadFilesTypes DEF IInv
<1>3. world.contents[This] = {} /\ world.catalog \subseteq known
  BY DEF IInv, Complete, Linking, ReadFiles
<1>4. \A o \in Objects : Told(o, This) => o \in os
  BY <1>3 DEF Told, In
<1>5. \A o \in os : In(o, This)
  BY <1>3 DEF In
<1> QED BY <1>1, <1>2, <1>4, <1>5, PlaceKeeps DEF ReadFiles

LEMMA FallBackKeeps == IInv /\ FallBack => IInv'
<1> SUFFICES ASSUME IInv, FallBack PROVE IInv'
  OBVIOUS
<1> DEFINE os == {q \in known : KeyOf[q] \in Followers}
           pairs == {<<KeyOf[o], JobOfBackup(objectBackup[o])>> : o \in os}
<1>0. TypeOK'
  BY FallBackTypes DEF IInv
<1>1. \A b : JobOfBackup(b) \in jobs \cup {NoJob} /\ JobOfBackup(b) \in Jobs \cup {NoJob}
  BY DEF JobOfBackup, IInv, JobsFirst, JobsOf, Linking, FallBack
<1>2. pairs \in SUBSET (Workloads \X (Jobs \cup {NoJob}))
  BY <1>1 DEF IInv, TypeOK
<1>3. /\ \A w \in Workloads, j \in Jobs :
           j \in vmJobs'[w] <=> (j \in vmJobs[w] \/ <<w, j>> \in pairs)
      /\ \A w \in Workloads, j \in Jobs : w \in jobVms'[j] <=> j \in vmJobs'[w]
      /\ \A w \in Workloads : vmJobs[w] \subseteq vmJobs'[w] /\ vmJobs'[w] \subseteq jobs
  <2>1. Link(pairs)
    BY DEF FallBack
  <2>2. \A p \in pairs : p[2] \in jobs \cup {NoJob}
    BY <1>1
  <2>3. TypeOK /\ Mutual
    BY DEF IInv
  <2> HIDE DEF pairs
  <2> QED BY <1>2, <2>1, <2>2, <2>3, LinkAdds
<1>4. JobsFirst'
  BY DEF IInv, JobsFirst, Linking, JobsOf, FallBack
<1>5. Mutual'
  BY <1>3 DEF Mutual, FallBack
<1>6. Grounded' /\ Complete' /\ Traced' /\ StartsAtFirst'
  BY DEF FallBack, Grounded, Complete, Traced, StartsAtFirst, Linking
<1>7. ASSUME NEW w \in Workloads, NEW j \in vmJobs'[w]
      PROVE  \/ \E b \in Held, o \in known : In(o, b) /\ KeyOf[o] = w /\ JobOf[b] = j
             \/ /\ \A b \in Held, o \in Objects :
                     Told(o, b) /\ KeyOf[o] = w => b \in failed \/ JobOf[b] = NoJob
                /\ \E o \in known : KeyOf[o] = w /\ JobOfBackup(world.claims[o]) = j
  <2>1. j \in Jobs
    BY <1>0, <1>7 DEF TypeOK
  <2>2. CASE j \in vmJobs[w]
    BY <2>2 DEF IInv, Grounded, FallBack
  <2>3. CASE j \notin vmJobs[w]
    <3>1. <<w, j>> \in pairs
      BY <1>3, <1>7, <2>1, <2>3
    <3>2. PICK o \in os : KeyOf[o] = w /\ JobOfBackup(objectBackup[o]) = j
      BY <3>1
    <3>3. vmJobs[w] = {} /\ o \in Objects
      BY <3>2 DEF Followers, IInv, TypeOK
    <3>4. ASSUME NEW b \in Held, NEW q \in Objects, Told(q, b), KeyOf[q] = w
          PROVE  b \in failed \/ JobOf[b] = NoJob
      <4>1. PICK i \in 1..Len(Backups) : b = Backups[i]
        BY <1>2 DEF Held, ToSet
      <4>2. Backups[i] \in failed \/ Links(Backups[i])
        BY <4>1 DEF IInv, Complete, Linking, FallBack, TypeOK
      <4> QED BY <3>3, <3>4, <4>1, <4>2 DEF Links
    <3>5. objectBackup[o] \in Held
      BY <3>2, <2>1 DEF JobOfBackup
    <3>6. objectBackup[o] = world.claims[o]
      BY <3>2, <3>3, <3>5, <2>1 DEF IInv, Traced, FallBack, JobOfBackup
    <3> QED BY <3>2, <3>4, <3>6
  <2> QED BY <2>2, <2>3
<1>8. LinksTrue'
  <2>1. world' = world /\ known' = known /\ failed' = failed /\ jobs' = jobs
    BY DEF FallBack
  <2>2. \A o, b : (In(o, b)' <=> In(o, b)) /\ (Told(o, b)' <=> Told(o, b))
    BY <2>1 DEF In, Told
  <2> QED BY <1>3, <1>7, <2>1, <2>2 DEF LinksTrue
<1> QED BY <1>0, <1>4, <1>5, <1>6, <1>8 DEF IInv

\* A step before the backups are read links nothing.
LEMMA EarlyKeeps ==
  ASSUME IInv, TypeOK', pc \notin Linking \cup {"done"}, pc' \notin Linking \cup {"done"},
         UNCHANGED <<world, at, links>>, pc' = "objects" => JobsOf(Held) \subseteq jobs'
  PROVE  IInv'
<1>1. (\A w \in Workloads : vmJobs'[w] = {}) /\ (\A j \in Jobs : jobVms'[j] = {})
  BY DEF IInv, JobsFirst, links
<1>2. JobsFirst'
  BY <1>1 DEF JobsFirst, Linking, JobsOf
<1>3. Mutual'
  BY <1>1 DEF Mutual
<1>4. Grounded'
  BY <1>1 DEF Grounded
<1>5. Complete' /\ LinksTrue'
  BY DEF Complete, LinksTrue, Linking
<1>6. pc # "done" /\ objectBackup' = objectBackup /\ vmJobs' = vmJobs /\ world' = world
  BY DEF links
<1>7. Traced'
  BY <1>6 DEF IInv, Traced
<1>8. StartsAtFirst'
  BY DEF IInv, StartsAtFirst
<1> QED BY <1>2, <1>3, <1>4, <1>5, <1>7, <1>8 DEF IInv

LEMMA ListingKeeps ==
  IInv /\ (ReadRepositories \/ ReadStates \/ ReadScaleOut \/ ListJobs \/ ReadBackups) => IInv'
<1>1. ASSUME IInv, ReadRepositories PROVE IInv'
  BY <1>1, EarlyKeeps, ReadRepositoriesTypes DEF IInv, ReadRepositories, Linking
<1>2. ASSUME IInv, ReadStates PROVE IInv'
  BY <1>2, EarlyKeeps, ReadStatesTypes DEF IInv, ReadStates, Linking
<1>3. ASSUME IInv, ReadScaleOut PROVE IInv'
  BY <1>3, EarlyKeeps, ReadScaleOutTypes DEF IInv, ReadScaleOut, Linking
<1>4. ASSUME IInv, ListJobs PROVE IInv'
  BY <1>4, EarlyKeeps, ListJobsTypes DEF IInv, ListJobs, Linking
<1>5. ASSUME IInv, ReadBackups PROVE IInv'
  BY <1>5, EarlyKeeps, ReadBackupsTypes DEF IInv, ReadBackups, Linking, JobsOf
<1> QED BY <1>1, <1>2, <1>3, <1>4, <1>5

LEMMA AbortKeeps == IInv /\ Abort => IInv'
  BY EarlyKeeps, AbortTypes DEF IInv, Abort, Linking

LEMMA ReadObjectsKeeps == IInv /\ ReadObjects => IInv'
<1> SUFFICES ASSUME IInv, ReadObjects PROVE IInv'
  OBVIOUS
<1>1. TypeOK'
  BY ReadObjectsTypes DEF IInv
<1>2. /\ pc = "objects" /\ pc' \in {"links", "contents"} /\ at' = at /\ world' = world
      /\ jobs' = jobs /\ vmJobs' = vmJobs /\ jobVms' = jobVms /\ known' = world.catalog
      /\ objectBackup' = Claimed(world.catalog)
  BY DEF ReadObjects
<1>3. (\A w \in Workloads : vmJobs'[w] = {}) /\ (\A j \in Jobs : jobVms'[j] = {})
      /\ JobsOf(Held) \subseteq jobs
  BY <1>2 DEF IInv, JobsFirst, Linking
<1>4. JobsFirst'
  BY <1>2, <1>3 DEF JobsFirst, Linking, JobsOf
<1>5. Mutual' /\ Grounded'
  BY <1>3 DEF Mutual, Grounded
<1>6. Complete'
  <2>1. at = 1 /\ (pc' = "links" => Len(Backups) = 0)
    BY <1>2, SomeBackup DEF IInv, StartsAtFirst, ReadObjects, Linking
  <2>2. 1..(at' - 1) = {}
    BY <2>1, <1>2
  <2> QED BY <1>2, <2>1, <2>2 DEF Complete, Linking
<1>7. Traced'
  <2> SUFFICES ASSUME NEW o \in Objects
               PROVE  objectBackup'[o] \in {world.claims[o], NoBackup}
                      \/ (objectBackup'[o] \in Held
                          /\ JobOf[objectBackup'[o]] \in vmJobs'[KeyOf[o]] \cup {NoJob})
    BY <1>2 DEF Traced
  <2>1. objectBackup'[o] \in {world.claims[o], objectBackup[o]}
    BY <1>2 DEF Claimed
  <2> QED BY <1>2, <2>1 DEF IInv, Traced
<1>8. LinksTrue'
  BY <1>2 DEF LinksTrue
<1>9. StartsAtFirst'
  BY <1>2 DEF StartsAtFirst, Linking
<1> QED BY <1>1, <1>4, <1>5, <1>6, <1>7, <1>8, <1>9 DEF IInv

LEMMA ReadEmptyKeeps == IInv /\ ReadEmpty => IInv'
<1> SUFFICES ASSUME IInv, ReadEmpty PROVE IInv'
  OBVIOUS
<1>1. TypeOK'
  BY ReadEmptyTypes DEF IInv
<1>2. /\ pc = "contents" /\ pc' = "files" /\ at' = at /\ world' = world /\ jobs' = jobs
      /\ known' = known /\ objectBackup' = objectBackup /\ vmJobs' = vmJobs /\ jobVms' = jobVms
      /\ failed' = failed /\ world.contents[This] = {}
  BY DEF ReadEmpty, links
<1>3. JobsFirst'
  BY <1>2 DEF IInv, JobsFirst, Linking, JobsOf
<1>4. Mutual' /\ Grounded'
  BY <1>2, GroundedKeeps DEF IInv, Mutual
<1>5. Complete'
  BY <1>2 DEF IInv, Complete, Linking, This, Links, Told, In
<1>6. Traced'
  BY <1>2 DEF IInv, Traced
<1>7. LinksTrue' /\ StartsAtFirst'
  BY <1>2 DEF LinksTrue, StartsAtFirst, Linking
<1> QED BY <1>1, <1>3, <1>4, <1>5, <1>6, <1>7 DEF IInv

LEMMA ReadFailsKeeps == IInv /\ ReadFails => IInv'
<1> SUFFICES ASSUME IInv, ReadFails PROVE IInv'
  OBVIOUS
<1>1. TypeOK'
  BY ReadFailsTypes DEF IInv
<1>2. /\ pc \in {"contents", "files"} /\ pc' \in {"contents", "links"} /\ at' = at + 1
      /\ at \in 1..Len(Backups) /\ Len(Backups) \in Nat
      /\ (pc' = "links" => at' = Len(Backups) + 1)
  BY DEF IInv, TypeOK, ReadFails, SkipBackup, NextBackup
<1>3. /\ world' = world /\ jobs' = jobs /\ known' = known /\ objectBackup' = objectBackup
      /\ vmJobs' = vmJobs /\ jobVms' = jobVms /\ failed' = failed \cup {This}
  BY DEF ReadFails
<1>4. JobsFirst'
  BY <1>2, <1>3 DEF IInv, JobsFirst, Linking, JobsOf
<1>5. Mutual'
  BY <1>3 DEF IInv, Mutual
<1>6. Grounded'
  BY <1>2, <1>3, GroundedKeeps DEF IInv
<1>7. Complete'
  <2>1. ASSUME NEW i \in 1..(at' - 1)
        PROVE  Backups[i] \in failed' \/ Links(Backups[i])'
    <3>1. CASE i = at
      BY <1>3, <3>1 DEF This
    <3>2. CASE i \in 1..(at - 1)
      <4>1. Backups[i] \in failed \/ Links(Backups[i])
        BY <1>2, <3>2 DEF IInv, Complete, Linking
      <4> QED BY <1>3, <4>1 DEF Links, Told, In
    <3> QED BY <2>1, <3>1, <3>2, <1>2
  <2>2. world'.catalog \subseteq known'
    BY <1>2, <1>3 DEF IInv, Complete, Linking
  <2> QED BY <2>1, <2>2, <1>2 DEF Complete
<1>8. Traced'
  BY <1>2, <1>3 DEF IInv, Traced
<1>9. LinksTrue' /\ StartsAtFirst'
  BY <1>2 DEF LinksTrue, StartsAtFirst, Linking
<1> QED BY <1>1, <1>4, <1>5, <1>6, <1>7, <1>8, <1>9 DEF IInv

LEMMA InitIInv == Init => IInv
<1> SUFFICES ASSUME Init PROVE IInv
  OBVIOUS
<1>1. TypeOK
  BY DEF Init, TypeOK, Held, ToSet
<1>2. StartsAtFirst /\ JobsFirst /\ Complete /\ LinksTrue
  BY DEF Init, StartsAtFirst, JobsFirst, Complete, LinksTrue, Linking
<1>3. Mutual /\ Grounded /\ Traced
  BY DEF Init, Mutual, Grounded, Traced
<1> QED BY <1>1, <1>2, <1>3 DEF IInv

LEMMA StutterKeeps == IInv /\ UNCHANGED vars => IInv'
<1> SUFFICES ASSUME IInv, UNCHANGED vars PROVE IInv'
  OBVIOUS
<1>1. TypeOK'
  BY DEF IInv, TypeOK, vars
<1>2. StartsAtFirst' /\ JobsFirst' /\ Mutual'
  BY DEF IInv, vars, StartsAtFirst, JobsFirst, Mutual, Linking
<1>3. Grounded' /\ Traced'
  <2>1. CASE pc = "done"
    BY <2>1 DEF vars, Grounded, Traced
  <2>2. CASE pc # "done"
    BY <2>2, GroundedKeeps DEF IInv, vars, Traced
  <2> QED BY <2>1, <2>2
<1>4. Complete'
  BY DEF IInv, vars, Complete, Linking, Links, This, Told, In
<1>5. LinksTrue'
  <2>1. \A o, b : (In(o, b)' <=> In(o, b)) /\ (Told(o, b)' <=> Told(o, b))
    BY DEF vars, In, Told
  <2> QED BY <2>1 DEF IInv, vars, LinksTrue
<1> QED BY <1>1, <1>2, <1>3, <1>4, <1>5 DEF IInv

LEMMA SpecIInv == Spec => []IInv
<1>1. IInv /\ [Next]_vars => IInv'
  BY StutterKeeps, ListingKeeps, ReadObjectsKeeps, ReadContentsKeeps, ReadEmptyKeeps, ReadFilesKeeps,
     ReadFailsKeeps, FallBackKeeps, AbortKeeps DEF Next
<1> QED BY InitIInv, <1>1, PTL DEF Spec

-----------------------------------------------------------------------------
(* What follows *)

\* The maps of a build stay in their types: only jobs of the inventory are linked, and
\* the backup that is read is one there is.
THEOREM LinksTypeCorrect == Spec => []TypeOK
<1>1. IInv => TypeOK
  BY DEF IInv
<1> QED BY <1>1, SpecIInv, PTL

\* Whatever VBR tells, in how many pieces and with which failures: a link is of a
\* backup that holds the workload, or follows a claim nothing contradicts.
THEOREM LinksAreTrue == Spec => []LinksTrue
<1>1. IInv => LinksTrue
  BY DEF IInv
<1> QED BY <1>1, SpecIInv, PTL

-----------------------------------------------------------------------------
(* A link leads to an object that RestorePoints finds *)

\* Before the end, a link of a workload no two jobs share has an object in the backup
\* that made it: no other backup can have taken that object over.
Found ==
  pc # "done" =>
    \A w \in Workloads : \A j \in vmJobs[w] :
      ~Shared(w) =>
        \E o \in known, b \in Held :
          KeyOf[o] = w /\ objectBackup[o] = b /\ In(o, b) /\ JobOf[b] = j

Listed ==
  pc \in {"objects", "done"} \cup Linking =>
    \A j \in jobs : jobBackups[j] = {b \in Held : JobOf[b] = j}

FInv == IInv /\ Found /\ Listed /\ LinkedIsFound

LEMMA PlaceFinds ==
  ASSUME FInv, IInv', NEW os \in SUBSET Objects, pc \in {"contents", "files"}, Place(os), NextBackup,
         \A o \in os : In(o, This), os \subseteq known', known \subseteq known',
         UNCHANGED <<world, repos, jobs, jobBackups, failed>>
  PROVE  FInv'
<1> DEFINE pairs == {<<KeyOf[o], JobOf[This]>> : o \in os}
<1>1. This \in Held /\ pc # "done" /\ pc' \in {"contents", "links"}
  BY ThisIsHeld DEF FInv, IInv, NextBackup
<1>2. \A w \in Workloads, j \in Jobs : j \in vmJobs'[w] <=> (j \in vmJobs[w] \/ <<w, j>> \in pairs)
  <2>1. pairs \in SUBSET (Workloads \X (Jobs \cup {NoJob}))
    BY <1>1
  <2>2. JobOf[This] \in jobs \cup {NoJob}
    BY <1>1 DEF FInv, IInv, JobsFirst, JobsOf, Linking
  <2>3. Link(pairs) /\ \A p \in pairs : p[2] \in jobs \cup {NoJob}
    BY <2>2 DEF Place
  <2>4. TypeOK /\ Mutual
    BY DEF FInv, IInv
  <2> HIDE DEF pairs
  <2> QED BY <2>1, <2>3, <2>4, LinkAdds
<1>3. \A o \in Objects : objectBackup'[o] = IF o \in os THEN This ELSE objectBackup[o]
  BY DEF Place, Placed
<1>4. known \subseteq Objects /\ vmJobs' \in [Workloads -> SUBSET Jobs]
  BY DEF FInv, IInv, TypeOK
<1>5. Found'
  <2> SUFFICES ASSUME NEW w \in Workloads, NEW j \in vmJobs'[w], ~Shared(w)'
               PROVE  \E o \in known', b \in Held :
                        KeyOf[o] = w /\ objectBackup'[o] = b /\ In(o, b)' /\ JobOf[b] = j
    BY DEF Found
  <2>1. j \in Jobs /\ ~Shared(w) /\ \A o, b : In(o, b)' <=> In(o, b)
    BY <1>4 DEF Shared, In
  <2>2. CASE <<w, j>> \in pairs
    <3>1. PICK o \in os : KeyOf[o] = w /\ JobOf[This] = j
      BY <2>2
    <3>2. objectBackup'[o] = This /\ In(o, This)
      BY <1>3, <3>1
    <3> QED BY <1>1, <2>1, <3>1, <3>2
  <2>3. CASE j \in vmJobs[w]
    <3>1. PICK o \in known, b \in Held :
            KeyOf[o] = w /\ objectBackup[o] = b /\ In(o, b) /\ JobOf[b] = j
      BY <1>1, <2>1, <2>3 DEF FInv, Found
    <3>2. CASE o \in os
      <4>1. objectBackup'[o] = This /\ In(o, This)
        BY <1>3, <1>4, <3>2
      <4>2. JobOf[This] = j
        BY <1>1, <1>4, <2>1, <3>1, <4>1 DEF Shared
      <4> QED BY <1>1, <2>1, <3>1, <4>1, <4>2
    <3>3. CASE o \notin os
      <4>1. objectBackup'[o] = objectBackup[o]
        BY <1>3, <1>4, <3>3
      <4> QED BY <2>1, <3>1, <4>1
    <3> QED BY <3>2, <3>3
  <2> QED BY <1>2, <2>1, <2>2, <2>3
<1>6. Listed'
  BY <1>1 DEF FInv, Listed, Linking
<1>7. LinkedIsFound'
  BY <1>1 DEF LinkedIsFound
<1> QED BY <1>5, <1>6, <1>7 DEF FInv

LEMMA ReadContentsFinds == ASSUME FInv, IInv', ReadContents PROVE FInv'
<1>1. This \in Held /\ world.contents[This] \subseteq Objects
  BY ThisIsHeld DEF FInv, IInv, ReadContents, TypeOK
<1>2. \A o \in world.contents[This] : In(o, This)
  BY DEF In
<1> QED BY <1>1, <1>2, PlaceFinds DEF ReadContents

LEMMA ReadFilesFinds == ASSUME FInv, IInv', ReadFiles PROVE FInv'
<1> DEFINE os == world.named[This] \cap known
<1>1. This \in Held /\ os \subseteq Objects
  BY ThisIsHeld DEF FInv, IInv, ReadFiles, TypeOK
<1>2. \A o \in os : In(o, This)
  BY DEF In, FInv, IInv, Complete, Linking, ReadFiles
<1> QED BY <1>1, <1>2, PlaceFinds DEF ReadFiles

LEMMA FallBackFinds == ASSUME FInv, IInv', FallBack PROVE FInv'
<1> DEFINE os == {q \in known : KeyOf[q] \in Followers}
           pairs == {<<KeyOf[o], JobOfBackup(objectBackup[o])>> : o \in os}
<1>1. /\ pc = "links" /\ pc' = "done" /\ world' = world /\ jobs' = jobs /\ known' = known
      /\ jobBackups' = jobBackups /\ objectBackup' = objectBackup
  BY DEF FallBack
<1>2. Listed' /\ Found' /\ \A j \in jobs : jobBackups[j] = {b \in Held : JobOf[b] = j}
  BY <1>1 DEF FInv, Listed, Found, Linking
<1>3. \A w \in Workloads, j \in Jobs : j \in vmJobs'[w] => (j \in vmJobs[w] \/ <<w, j>> \in pairs)
  <2>1. \A b : JobOfBackup(b) \in jobs \cup {NoJob} /\ JobOfBackup(b) \in Jobs \cup {NoJob}
    BY <1>1 DEF JobOfBackup, FInv, IInv, JobsFirst, JobsOf, Linking
  <2>2. pairs \in SUBSET (Workloads \X (Jobs \cup {NoJob}))
    BY <2>1 DEF FInv, IInv, TypeOK
  <2>3. Link(pairs) /\ \A p \in pairs : p[2] \in jobs \cup {NoJob}
    BY <2>1 DEF FallBack
  <2>4. TypeOK /\ Mutual
    BY DEF FInv, IInv
  <2> HIDE DEF pairs
  <2> QED BY <2>2, <2>3, <2>4, LinkAdds
<1>4. LinkedIsFound'
  <2> SUFFICES ASSUME NEW w \in Workloads, NEW j \in vmJobs'[w], ~Shared(w)'
               PROVE  \E o \in known : KeyOf[o] = w /\ objectBackup[o] \in jobBackups[j]
    BY <1>1 DEF LinkedIsFound
  <2>1. j \in Jobs /\ j \in jobs /\ ~Shared(w)
    BY <1>1 DEF IInv, TypeOK, Mutual, Shared, In
  <2>2. jobBackups[j] = {b \in Held : JobOf[b] = j}
    BY <1>2, <2>1
  <2>3. CASE j \in vmJobs[w]
    BY <1>1, <2>1, <2>2, <2>3 DEF FInv, Found
  <2>4. CASE <<w, j>> \in pairs
    <3>1. PICK o \in os : KeyOf[o] = w /\ JobOfBackup(objectBackup[o]) = j
      BY <2>4
    <3>2. objectBackup[o] \in Held /\ JobOf[objectBackup[o]] = j
      BY <2>1, <3>1 DEF JobOfBackup
    <3> QED BY <2>2, <3>1, <3>2
  <2> QED BY <1>3, <2>1, <2>3, <2>4
<1> QED BY <1>2, <1>4 DEF FInv

\* The steps that link nothing.
LEMMA OthersFind ==
  ASSUME FInv, IInv', pc' # "done", vmJobs' = vmJobs, world' = world,
         (\A w \in Workloads : vmJobs[w] = {}) \/ (objectBackup' = objectBackup /\ known' = known /\ pc # "done"),
         Listed'
  PROVE  FInv'
<1>1. \A o, b : In(o, b)' <=> In(o, b)
  BY DEF In
<1>2. \A w : Shared(w)' <=> Shared(w)
  BY <1>1 DEF Shared
<1>3. CASE \A w \in Workloads : vmJobs[w] = {}
  BY <1>3 DEF FInv, Found, LinkedIsFound
<1>4. CASE objectBackup' = objectBackup /\ known' = known /\ pc # "done"
  <2>1. ASSUME NEW w \in Workloads, NEW j \in vmJobs[w], ~Shared(w)
        PROVE  \E o \in known, b \in Held :
                 KeyOf[o] = w /\ objectBackup[o] = b /\ In(o, b)' /\ JobOf[b] = j
    BY <1>1, <1>4, <2>1 DEF FInv, Found
  <2> QED BY <1>2, <1>4, <2>1 DEF FInv, Found, LinkedIsFound
<1> QED BY <1>3, <1>4

LEMMA NextFinds == FInv /\ IInv' /\ [Next]_vars => FInv'
<1> SUFFICES ASSUME FInv, IInv', [Next]_vars PROVE FInv'
  OBVIOUS
<1>1. CASE ReadRepositories \/ ReadStates \/ ReadScaleOut \/ ListJobs \/ Abort
  <2>1. (\A w \in Workloads : vmJobs[w] = {}) \/ (objectBackup' = objectBackup /\ known' = known /\ pc # "done")
    BY <1>1 DEF ReadRepositories, ReadStates, ReadScaleOut, ListJobs, Abort, links
  <2>2. pc' \notin {"objects", "done"} \cup Linking
    BY <1>1 DEF ReadRepositories, ReadStates, ReadScaleOut, ListJobs, Abort, Linking
  <2>3. Listed'
    BY <2>2 DEF Listed, Linking
  <2> QED BY <1>1, <2>1, <2>2, <2>3, OthersFind
          DEF ReadRepositories, ReadStates, ReadScaleOut, ListJobs, Abort, links
<1>2. CASE ReadBackups
  <2>1. Listed'
    BY <1>2 DEF IInv, TypeOK, ReadBackups, Listed
  <2> QED BY <1>2, <2>1, OthersFind DEF ReadBackups, links
<1>3. CASE ReadObjects
  <2>1. \A w \in Workloads : vmJobs[w] = {}
    BY <1>3 DEF FInv, IInv, JobsFirst, ReadObjects, Linking
  <2>2. Listed'
    BY <1>3 DEF FInv, ReadObjects, Listed
  <2>3. pc' # "done" /\ vmJobs' = vmJobs /\ world' = world
    BY <1>3 DEF ReadObjects
  <2> QED BY <2>1, <2>2, <2>3, OthersFind
<1>4. CASE ReadEmpty \/ ReadFails
  <2>1. Listed' /\ pc # "done" /\ pc' # "done" /\ vmJobs' = vmJobs /\ world' = world
        /\ objectBackup' = objectBackup /\ known' = known
    BY <1>4 DEF FInv, Listed, Linking, ReadEmpty, ReadFails, SkipBackup, NextBackup, links
  <2> QED BY <2>1, OthersFind
<1>5. CASE ReadContents \/ ReadFiles \/ FallBack
  BY <1>5, ReadContentsFinds, ReadFilesFinds, FallBackFinds
<1>6. CASE UNCHANGED vars
  <2>1. Listed'
    BY <1>6 DEF FInv, Listed, vars
  <2>2. CASE pc # "done"
    BY <1>6, <2>1, <2>2, OthersFind DEF vars
  <2>3. CASE pc = "done"
    <3>1. \A w : Shared(w)' <=> Shared(w)
      BY <1>6 DEF Shared, In, vars
    <3> QED BY <1>6, <2>1, <2>3, <3>1 DEF FInv, Found, LinkedIsFound, vars
  <2> QED BY <2>2, <2>3
<1> QED BY <1>1, <1>2, <1>3, <1>4, <1>5, <1>6 DEF Next

\* A workload that is linked to a job is found when the job is shown, unless two jobs
\* share an object of it.
THEOREM LinkedWorkloadsAreFound == Spec => []LinkedIsFound
<1>1. Init => FInv
  BY InitIInv DEF Init, FInv, Found, Listed, LinkedIsFound, Linking
<1>2. FInv => LinkedIsFound
  BY DEF FInv
<1> QED BY <1>1, <1>2, NextFinds, SpecIInv, PTL DEF Spec

-----------------------------------------------------------------------------
(* What fails costs nothing else *)

\* The repositories are gathered without repetition, and once they are, one of the two
\* lists is there in full.
Repos ==
  /\ repos \in Seq(ToSet(Repositories) \cup ToSet(RepoStates) \cup ToSet(ScaleOut))
  /\ IsInjective(repos)
  /\ pc \in {"repositories", "states"} => repos = <<>>
  /\ pc \notin {"repositories", "states", "aborted"} =>
       ToSet(Repositories) \subseteq ToSet(repos) \/ ToSet(RepoStates) \subseteq ToSet(repos)

\* The backups that were read are linked at the end too.
EndComplete == pc = "done" => \A b \in Held \ failed : Links(b)

LEMMA ReadStatesGathers == ASSUME Repos, ReadStates PROVE Repos'
<1> DEFINE All == ToSet(Repositories) \cup ToSet(RepoStates) \cup ToSet(ScaleOut)
<1>1. pc' = "scaleout" /\ <<>> \in Seq(All) /\ IsInjective(<<>>)
  BY DEF ReadStates, IsInjective
<1>2. Repositories \in Seq(All) /\ RepoStates \in Seq(All)
  BY RepositoriesAssumption DEF ToSet
<1>3. CASE repos' = Added(<<>>, RepoStates)
  <2> HIDE DEF All
  <2>1. /\ repos' \in Seq(All) /\ IsInjective(repos')
        /\ ToSet(RepoStates) \subseteq ToSet(repos')
    BY <1>1, <1>2, <1>3, AddedHasAll
  <2> QED BY <1>1, <2>1 DEF Repos, All
<1>4. ASSUME NEW n \in 0..Len(RepoStates),
             repos' = Added(<<>>, SubSeq(RepoStates, 1, n) \o Repositories)
      PROVE  Repos'
  <2> DEFINE more == SubSeq(RepoStates, 1, n) \o Repositories
  <2>1. more \in Seq(All) /\ ToSet(Repositories) \subseteq ToSet(more)
    <3> HIDE DEF All
    <3>1. SubSeq(RepoStates, 1, n) \in Seq(All) /\ Len(SubSeq(RepoStates, 1, n)) = n
      BY <1>2
    <3>2. more \in Seq(All) /\ Len(more) = n + Len(Repositories)
          /\ \A i \in 1..Len(Repositories) : more[n + i] = Repositories[i]
      BY <1>2, <3>1
    <3>3. ToSet(Repositories) = {Repositories[i] : i \in 1..Len(Repositories)}
      BY <1>2 DEF ToSet
    <3>4. ASSUME NEW i \in 1..Len(Repositories) PROVE Repositories[i] \in ToSet(more)
      <4>1. n + i \in 1..Len(more)
        BY <1>2, <3>2
      <4>2. n + i \in DOMAIN more
        BY <3>2, <4>1
      <4> QED BY <3>2, <4>2 DEF ToSet
    <3> HIDE DEF more
    <3> QED BY <3>2, <3>3, <3>4
  <2> HIDE DEF All, more
  <2>2. /\ repos' \in Seq(All) /\ IsInjective(repos')
        /\ ToSet(more) \subseteq ToSet(repos')
    BY <1>1, <2>1, <1>4, AddedHasAll DEF more
  <2> QED BY <1>1, <2>1, <2>2 DEF Repos, All
<1> QED BY <1>3, <1>4 DEF ReadStates

LEMMA ReadScaleOutGathers == ASSUME Repos, ReadScaleOut PROVE Repos'
<1> DEFINE All == ToSet(Repositories) \cup ToSet(RepoStates) \cup ToSet(ScaleOut)
<1>1. pc = "scaleout" /\ pc' = "jobstates"
  BY DEF ReadScaleOut
<1>2. ScaleOut \in Seq(All) /\ repos \in Seq(All) /\ IsInjective(repos)
  BY RepositoriesAssumption DEF ToSet, Repos
<1>3. CASE repos' = repos
  BY <1>1, <1>3 DEF Repos
<1>4. CASE repos' = Added(repos, ScaleOut)
  <2> HIDE DEF All
  <2>1. /\ repos' \in Seq(All) /\ IsInjective(repos')
        /\ ToSet(repos) \subseteq ToSet(repos')
    BY <1>2, <1>4, AddedHasAll
  <2> QED BY <1>1, <2>1 DEF Repos, All
<1> QED BY <1>3, <1>4 DEF ReadScaleOut

\* No other step changes the repositories.
LEMMA NextGathers == Repos /\ [Next]_vars => Repos'
<1> SUFFICES ASSUME Repos, [Next]_vars PROVE Repos'
  OBVIOUS
<1>1. CASE ReadRepositories
  BY <1>1 DEF Repos, ReadRepositories
<1>2. CASE ListJobs \/ ReadBackups \/ ReadObjects \/ Abort
  BY <1>2 DEF Repos, ListJobs, ReadBackups, ReadObjects, Abort
<1>3. CASE ReadContents \/ ReadEmpty \/ ReadFiles \/ ReadFails \/ FallBack
  BY <1>3 DEF Repos, ReadContents, ReadEmpty, ReadFiles, ReadFails, FallBack, SkipBackup, NextBackup
<1>4. CASE UNCHANGED vars
  BY <1>4 DEF Repos, vars
<1> QED BY <1>1, <1>2, <1>3, <1>4, ReadStatesGathers, ReadScaleOutGathers DEF Next

\* The fallback adds links and takes none away.
LEMMA NextEndsComplete == ASSUME IInv, IInv', EndComplete, [Next]_vars PROVE EndComplete'
<1>1. CASE FallBack
  <2> DEFINE os == {q \in known : KeyOf[q] \in Followers}
             pairs == {<<KeyOf[o], JobOfBackup(objectBackup[o])>> : o \in os}
  <2>1. pc = "links" /\ world' = world /\ failed' = failed
    BY <1>1 DEF FallBack
  <2>2. \A w \in Workloads : vmJobs[w] \subseteq vmJobs'[w]
    BY <1>1 DEF FallBack, Link
  <2>3. at = Len(Backups) + 1 /\ \A i \in 1..(at - 1) : Backups[i] \in failed \/ Links(Backups[i])
    BY <2>1 DEF IInv, Complete, Linking
  <2>4. ASSUME NEW b \in Held \ failed PROVE Links(b)'
    <3>1. PICK i \in 1..Len(Backups) : b = Backups[i]
      BY DEF Held, ToSet
    <3>2. Links(b)
      BY <2>3, <2>4, <3>1
    <3>3. \A o : Told(o, b)' <=> Told(o, b)
      BY <2>1 DEF Told, In
    <3> QED BY <2>2, <3>2, <3>3 DEF Links
  <2> QED BY <2>1, <2>4 DEF EndComplete
<1>2. CASE UNCHANGED vars
  BY <1>2 DEF EndComplete, vars, Links, Told, In
<1>3. CASE ReadRepositories \/ ReadStates \/ ReadScaleOut \/ ListJobs \/ ReadBackups \/ ReadObjects
           \/ ReadContents \/ ReadEmpty \/ ReadFiles \/ ReadFails \/ Abort
  BY <1>3 DEF EndComplete, ReadRepositories, ReadStates, ReadScaleOut, ListJobs, ReadBackups, ReadObjects,
              ReadContents, ReadEmpty, ReadFiles, ReadFails, Abort, SkipBackup, NextBackup
<1> QED BY <1>1, <1>2, <1>3 DEF Next

\* Whichever calls fail, and however many: the backups that could be read have linked
\* what they hold, and no repository is lost or there twice.
THEOREM NothingElseIsLost == Spec => []NothingLostButFailed
<1>1. Init => Repos /\ EndComplete
  <2>1. IsInjective(<<>>)
    BY DEF IsInjective
  <2> QED BY <2>1 DEF Init, Repos, EndComplete
<1>2. Repos /\ EndComplete /\ IInv /\ IInv' /\ [Next]_vars => (Repos /\ EndComplete)'
  BY NextGathers, NextEndsComplete
<1>3. Repos /\ EndComplete => NothingLostButFailed
  BY DEF Repos, EndComplete, NothingLostButFailed, Links
<1> QED BY <1>1, <1>2, <1>3, SpecIInv, PTL DEF Spec
=============================================================================
